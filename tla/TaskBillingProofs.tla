-------------------------- MODULE TaskBillingProofs --------------------------
(***************************************************************************)
(* Theorems about TaskBilling, for every set of tasks, of processes and of *)
(* submissions.                                                            *)
(*                                                                         *)
(* None of the properties is inductive.  Inv says what a worker knows of   *)
(* the operation it works on, and that the flag of a step applied inside   *)
(* its transaction is exact while it is not set; it holds for every task.  *)
(* PayInv adds, for tasks that only the polling loop moves, that a pending *)
(* task has no operation, that a terminal one has at most one, which       *)
(* stands for exactly what is still to be paid or returned, and that a     *)
(* process which polls such a task holds a pending status and its quota.   *)
(***************************************************************************)
EXTENDS TaskBilling, TLAPS

TaskRows == [status : Status, quota : Nat, kind : SUBSET Kinds]

RowsTyped ==
    /\ task \in [Tasks -> TaskRows]
    /\ payer \in [Tasks -> {"able", "broke", "gone"}]
    /\ paid \in [Tasks -> Int]

\* The flags of an operation are backed by its effects, each committed once,
\* and an operation that does not exist has had none.
OpOK(needed, op, eff) ==
    /\ ~op.exists => \A s \in Steps : eff[s] = 0
    /\ op.completed => op.exists /\ op.applied = Steps /\ op.lease = NoProc
    /\ \A s \in op.applied \cap needed : eff[s] > 0
    /\ \A s \in AtomicSteps \ op.applied : eff[s] = 0
    /\ \A s \in Steps : eff[s] <= 1

\* A process in the middle of an operation works on one that exists; before it
\* marks a step the effect of that step is committed.
LocalOK(st, op, eff) ==
    /\ st.pc = "polling" => st.task \in Tasks
    /\ st.pc \in {"finalized", "claimed", "apply", "mark"} => st.key \in Keys /\ op.exists
    /\ st.pc = "mark" => \A s \in Steps :
            IsNext(s, st.seen) => s \in MarkedSteps /\ eff[s] > 0

KeyInv == \A k \in Keys : OpOK(Needed(k[1]), outbox[k], effects[k])

ProcInv ==
    \A p \in Procs : LocalOK(proc[p], outbox[proc[p].key], effects[proc[p].key])

Inv == TypeOK /\ KeyInv /\ ProcInv

\* The task of a key is a task.
LEMMA KeyTask == \A k \in Keys : k[1] \in Tasks
  BY DEF Keys

\* The columns of a task row keep their types, and its kind.
RowsKept == RowsTyped' /\ \A t \in Tasks : task'[t].kind = task[t].kind

\* What a step does to one operation: it never disappears and no effect is
\* undone.
Advances(k, op, eff) ==
    /\ RowsKept
    /\ op \in Operations
    /\ eff \in [Steps -> Nat]
    /\ outbox' = [outbox EXCEPT ![k] = op]
    /\ effects' = [effects EXCEPT ![k] = eff]
    /\ OpOK(Needed(k[1]), op, eff)
    /\ outbox[k].exists => op.exists
    /\ \A s \in Steps : effects[k][s] > 0 => eff[s] > 0

\* A step that advances one operation, and moves at most one process, which is
\* then without an operation or works on that one, keeps the invariant.
LEMMA AdvanceKeepsInv ==
    ASSUME Inv, NEW k \in Keys, NEW op, NEW eff, Advances(k, op, eff),
           \/ UNCHANGED proc
           \/ \E p \in Procs, new \in Processes :
                /\ proc' = [proc EXCEPT ![p] = new]
                /\ new.pc \in {"idle", "polling"} \/ new.key = k
                /\ LocalOK(new, op, eff)
    PROVE  Inv'
<1>1. /\ outbox'[k] = op /\ effects'[k] = eff
      /\ \A q \in Keys \ {k} : outbox'[q] = outbox[q] /\ effects'[q] = effects[q]
  BY DEF Inv, TypeOK, Advances
<1>2. proc' \in [Procs -> Processes]
  BY DEF Inv, TypeOK
<1>3. TypeOK'
  BY <1>2 DEF Inv, TypeOK, Advances, RowsKept, RowsTyped, TaskRows
<1>4. KeyInv'
  <2>1. \A q \in Keys : Needed(q[1])' = Needed(q[1])
    BY KeyTask DEF Advances, RowsKept, Needed
  <2> QED
    BY <1>1, <2>1 DEF Inv, KeyInv, Advances
<1>5. ASSUME NEW p \in Procs, proc'[p] = proc[p]
      PROVE  LocalOK(proc'[p], outbox'[proc'[p].key], effects'[proc'[p].key])
  <2>1. LocalOK(proc[p], outbox[proc[p].key], effects[proc[p].key])
    BY DEF Inv, ProcInv
  <2>2. CASE proc[p].key = k
    BY <1>1, <1>5, <2>1, <2>2 DEF LocalOK, Advances
  <2>3. CASE proc[p].key # k
    BY <1>1, <1>5, <2>1, <2>3 DEF LocalOK
  <2> QED
    BY <2>2, <2>3
<1>6. ASSUME NEW p \in Procs, NEW new \in Processes, proc' = [proc EXCEPT ![p] = new],
             new.pc \in {"idle", "polling"} \/ new.key = k, LocalOK(new, op, eff)
      PROVE  LocalOK(proc'[p], outbox'[proc'[p].key], effects'[proc'[p].key])
  <2>1. proc'[p] = new
    BY <1>6 DEF Inv, TypeOK
  <2>2. CASE new.key = k
    BY <1>1, <1>6, <2>1, <2>2
  <2>3. CASE new.pc \in {"idle", "polling"}
    BY <1>6, <2>1, <2>3 DEF LocalOK
  <2> QED
    BY <1>6, <2>2, <2>3
<1>7. ProcInv'
  <2>1. CASE UNCHANGED proc
    BY <1>5, <2>1 DEF ProcInv
  <2>2. ASSUME NEW p \in Procs, NEW new \in Processes, proc' = [proc EXCEPT ![p] = new],
               new.pc \in {"idle", "polling"} \/ new.key = k, LocalOK(new, op, eff)
        PROVE  ProcInv'
    <3>1. \A q \in Procs \ {p} : proc'[q] = proc[q]
      BY <2>2 DEF Inv, TypeOK
    <3>2. LocalOK(proc'[p], outbox'[proc'[p].key], effects'[proc'[p].key])
      BY <1>6, <2>2
    <3> QED
      BY <1>5, <3>1, <3>2 DEF ProcInv
  <2> QED
    BY <2>1, <2>2
<1> QED
  BY <1>3, <1>4, <1>7 DEF Inv

\* Moving a process, and columns of task rows, while the outbox stays as it is.
LEMMA ProcMove ==
    ASSUME Inv, RowsKept, UNCHANGED <<outbox, effects>>,
           \/ UNCHANGED proc
           \/ \E p \in Procs, new \in Processes :
                /\ proc' = [proc EXCEPT ![p] = new]
                /\ LocalOK(new, outbox[new.key], effects[new.key])
    PROVE  Inv'
<1>1. TypeOK'
  BY DEF Inv, TypeOK, RowsKept, RowsTyped, TaskRows
<1>2. KeyInv'
  <2>1. \A q \in Keys : Needed(q[1])' = Needed(q[1])
    BY KeyTask DEF RowsKept, Needed
  <2> QED
    BY <2>1 DEF Inv, KeyInv
<1>3. ProcInv'
  <2>1. CASE UNCHANGED proc
    BY <2>1 DEF Inv, ProcInv
  <2>2. ASSUME NEW p \in Procs, NEW new \in Processes, proc' = [proc EXCEPT ![p] = new],
               LocalOK(new, outbox[new.key], effects[new.key])
        PROVE  ProcInv'
    <3>1. proc'[p] = new /\ \A q \in Procs \ {p} : proc'[q] = proc[q]
      BY <2>2 DEF Inv, TypeOK
    <3> QED
      BY <2>2, <3>1 DEF Inv, ProcInv
  <2> QED
    BY <2>1, <2>2
<1> QED
  BY <1>1, <1>2, <1>3 DEF Inv

\* A step that leaves the rows alone keeps their types.
LEMMA RowsSame ==
    ASSUME Inv, UNCHANGED <<task, payer, paid>>
    PROVE  RowsKept
  BY DEF Inv, TypeOK, RowsKept, RowsTyped, TaskRows

\* Becoming idle needs nothing.
LEMMA IdleOK == Idle \in Processes /\ Idle.pc = "idle" /\ \A op, eff : LocalOK(Idle, op, eff)
  BY DEF Idle, Processes, Snapshots, Status, Pending, Terminal, LocalOK

\* What the invariant says of a process that works on an operation.
LEMMA Busy ==
    ASSUME Inv, NEW p \in Procs, proc[p].pc \in {"finalized", "claimed", "apply", "mark"}
    PROVE  LET k == proc[p].key IN
           /\ k \in Keys
           /\ proc[p] \in Processes
           /\ outbox[k] \in Operations
           /\ outbox[k].exists
           /\ effects[k] \in [Steps -> Nat]
           /\ OpOK(Needed(k[1]), outbox[k], effects[k])
           /\ LocalOK(proc[p], outbox[k], effects[k])
  BY DEF Inv, TypeOK, KeyInv, ProcInv, LocalOK

\* What it says of one that polls a task.
LEMMA Polling ==
    ASSUME Inv, NEW p \in Procs, proc[p].pc = "polling"
    PROVE  LET t == proc[p].task IN
           /\ t \in Tasks
           /\ proc[p].snap.status \in Status
           /\ proc[p].snap.quota \in Nat
           /\ task[t] \in TaskRows
  BY DEF Inv, TypeOK, ProcInv, LocalOK, TaskRows, Processes, Snapshots

\* The steps that leave the tables alone.
LEMMA QuietSteps ==
    ASSUME Inv, NEW p \in Procs,
           \/ \E t \in Tasks : ReadTask(p, t)
           \/ GiveUpPolling(p) \/ ClaimLost(p) \/ ClaimOvertaken(p) \/ Crash(p)
           \/ ReadClaim(p)
    PROVE  Inv'
<1>1. ASSUME NEW t \in Tasks, ReadTask(p, t) PROVE Inv'
  <2> DEFINE new == [Idle EXCEPT !.pc = "polling", !.task = t,
                        !.snap = [status |-> task[t].status, quota |-> task[t].quota]]
  <2>1. task[t] \in TaskRows
    BY DEF Inv, TypeOK, TaskRows
  <2>2. new \in Processes /\ new.pc = "polling" /\ new.task = t
    BY <2>1 DEF Idle, Processes, Snapshots, TaskRows
  <2>3. \A op, eff : LocalOK(new, op, eff)
    BY <2>2 DEF LocalOK
  <2>4. proc' = [proc EXCEPT ![p] = new] /\ UNCHANGED <<task, payer, paid, outbox, effects>>
    BY <1>1 DEF ReadTask, Become
  <2> QED
    BY <2>2, <2>3, <2>4, RowsSame, ProcMove
<1>2. ASSUME GiveUpPolling(p) \/ ClaimLost(p) \/ ClaimOvertaken(p) \/ Crash(p) PROVE Inv'
  <2>1. proc' = [proc EXCEPT ![p] = Idle] /\ UNCHANGED <<task, payer, paid, outbox, effects>>
    BY <1>2 DEF GiveUpPolling, ClaimLost, ClaimOvertaken, Crash, Become
  <2> QED
    BY <2>1, IdleOK, RowsSame, ProcMove
<1>3. ASSUME ReadClaim(p) PROVE Inv'
  <2> DEFINE k == proc[p].key
             new == [proc[p] EXCEPT !.pc = "apply", !.seen = outbox[k].applied]
  <2>1. k \in Keys /\ proc[p] \in Processes /\ outbox[k] \in Operations /\ outbox[k].exists
    BY <1>3, Busy DEF ReadClaim
  <2>2. new \in Processes /\ new.pc = "apply" /\ new.key = k
    BY <2>1 DEF Processes, Operations
  <2>3. LocalOK(new, outbox[k], effects[k])
    BY <2>1, <2>2 DEF LocalOK
  <2>4. proc' = [proc EXCEPT ![p] = new] /\ UNCHANGED <<task, payer, paid, outbox, effects>>
    BY <1>3 DEF ReadClaim, Become
  <2> QED
    BY <2>2, <2>3, <2>4, RowsSame, ProcMove
<1> QED
  BY <1>1, <1>2, <1>3

\* A task row saved with another status and quota.
LEMMA SavedRow ==
    ASSUME Inv, NEW t \in Tasks, NEW status \in Status, NEW final \in Nat,
           task' = [task EXCEPT ![t] = Saved(t, status, final)], UNCHANGED <<payer, paid>>
    PROVE  /\ RowsKept
           /\ task'[t].status = status /\ task'[t].quota = final
           /\ \A q \in Tasks \ {t} : task'[q] = task[q]
<1>1. task[t] \in TaskRows
  BY DEF Inv, TypeOK, TaskRows
<1>2. /\ Saved(t, status, final) \in TaskRows
      /\ Saved(t, status, final).status = status
      /\ Saved(t, status, final).quota = final
      /\ Saved(t, status, final).kind = task[t].kind
  BY <1>1 DEF Saved, TaskRows
<1> QED
  BY <1>2 DEF Inv, TypeOK, RowsKept, RowsTyped, TaskRows

\* A status that needs no operation.
LEMMA UpdateStep ==
    ASSUME Inv, NEW p \in Procs, NEW status \in Status, UpdateWithStatus(p, status)
    PROVE  Inv'
<1> DEFINE t == proc[p].task
<1>1. t \in Tasks /\ proc[p].snap.quota \in Nat
  BY Polling DEF UpdateWithStatus
<1>2. RowsKept
  BY <1>1, SavedRow DEF UpdateWithStatus
<1> QED
  BY <1>2, IdleOK, ProcMove DEF UpdateWithStatus, Become

\* The payer's fortunes change nothing else.
LEMMA PayerStep ==
    ASSUME Inv, NEW t \in Tasks, PayerChanges(t)
    PROVE  Inv'
<1>1. RowsKept
  BY DEF PayerChanges, Inv, TypeOK, RowsKept, RowsTyped, TaskRows
<1> QED
  BY <1>1, ProcMove DEF PayerChanges

\* A new operation is a row without effects, whose flags are set only for what
\* the task does not need.
LEMMA NewOperationOK ==
    ASSUME NEW t \in Tasks, NEW delta \in Int
    PROVE  LET op == NewOperation(t, delta) IN
           /\ op \in Operations
           /\ op.delta = delta
           /\ op.exists
           /\ op.applied \cap Needed(t) = {}
           /\ ~op.completed
  BY DEF NewOperation, Operations, Steps, Needed

\* What a transition does, whether it needs an operation or not.
LEMMA TransitionStep ==
    ASSUME Inv, NEW p \in Procs, NEW status \in Terminal, NEW final \in Nat,
           NEW stage \in 0..MaxQuota, NEW delta \in Int,
           Transition(p, status, final, stage, delta)
    PROVE  Inv'
<1> DEFINE t == proc[p].task
           k == <<t, stage>>
           op == NewOperation(t, delta)
           new == [Idle EXCEPT !.pc = "finalized", !.key = k]
<1>1. t \in Tasks /\ k \in Keys /\ k[1] = t
  BY Polling DEF Transition, Keys
<1>2. RowsKept
  BY <1>1, SavedRow DEF Transition, Status
<1>3. CASE delta = 0
  BY <1>2, <1>3, IdleOK, ProcMove DEF Transition, Become
<1>4. CASE delta # 0
  <2>1. /\ ~outbox[k].exists
        /\ outbox' = [outbox EXCEPT ![k] = op]
        /\ proc' = [proc EXCEPT ![p] = new]
        /\ UNCHANGED effects
    BY <1>4 DEF Transition, Become
  <2>2. /\ op \in Operations /\ op.exists /\ ~op.completed
        /\ op.applied \cap Needed(t) = {}
    BY <1>1, NewOperationOK
  <2>3. effects[k] \in [Steps -> Nat] /\ \A s \in Steps : effects[k][s] = 0
    BY <1>1, <2>1 DEF Inv, TypeOK, KeyInv, OpOK
  <2>4. OpOK(Needed(t), op, effects[k])
    <3>1. \A s \in AtomicSteps : s \in Steps
      BY DEF AtomicSteps, Steps
    <3> QED
      BY <2>2, <2>3, <3>1 DEF OpOK
  <2>5. Advances(k, op, effects[k])
    BY <1>1, <1>2, <2>1, <2>2, <2>3, <2>4 DEF Advances, Inv, TypeOK
  <2>6. new \in Processes /\ new.pc = "finalized" /\ new.key = k
    BY <1>1 DEF Processes, Idle, Snapshots, Status, Pending
  <2>7. LocalOK(new, op, effects[k])
    BY <1>1, <2>2, <2>6 DEF LocalOK
  <2> QED
    BY <1>1, <2>1, <2>5, <2>6, <2>7, AdvanceKeepsInv
<1> QED
  BY <1>3, <1>4

\* The ways a task becomes terminal are transitions.
LEMMA FinalizeIsTransition ==
    ASSUME Inv, NEW p \in Procs,
           \/ \E actual \in 0..MaxQuota : FinalizeSuccess(p, actual)
           \/ FinalizeFailure(p)
           \/ TimeoutLegacy(p)
    PROVE  LET quota == proc[p].snap.quota IN
           /\ proc[p].pc = "polling"
           /\ quota \in Nat
           /\ \/ \E actual \in 0..MaxQuota :
                    actual > 0 /\ Transition(p, "SUCCESS", actual, actual, actual - quota)
              \/ Transition(p, "SUCCESS", quota, 0, 0)
              \/ Transition(p, "FAILURE", quota, 0, -quota)
              \/ /\ "legacy" \in task[proc[p].task].kind
                 /\ Transition(p, "FAILURE", quota, 0, 0)
<1>1. proc[p].pc = "polling"
  BY DEF FinalizeSuccess, FinalizeFailure, TimeoutLegacy, Transition
<1> QED
  BY <1>1, Polling DEF FinalizeSuccess, FinalizeFailure, TimeoutLegacy

\* So they keep the invariant.
LEMMA FinalizeSteps ==
    ASSUME Inv, NEW p \in Procs,
           \/ \E actual \in 0..MaxQuota : FinalizeSuccess(p, actual)
           \/ FinalizeFailure(p)
           \/ TimeoutLegacy(p)
    PROVE  Inv'
<1> DEFINE quota == proc[p].snap.quota
<1>1. /\ quota \in Nat /\ -quota \in Int /\ 0 \in Int /\ 0 \in 0..MaxQuota
      /\ \A actual \in 0..MaxQuota : actual \in Nat /\ actual - quota \in Int
      /\ "SUCCESS" \in Terminal /\ "FAILURE" \in Terminal
  BY FinalizeIsTransition, ConstantsAssumption DEF Terminal
<1>2. \/ \E actual \in 0..MaxQuota :
            actual > 0 /\ Transition(p, "SUCCESS", actual, actual, actual - quota)
      \/ Transition(p, "SUCCESS", quota, 0, 0)
      \/ Transition(p, "FAILURE", quota, 0, -quota)
      \/ Transition(p, "FAILURE", quota, 0, 0)
  BY FinalizeIsTransition
<1> QED
  BY <1>1, <1>2, TransitionStep

\* A change of lease or of back-off keeps what OpOK says of the row.
LEMMA LeaseChange ==
    ASSUME Inv, NEW k \in Keys, NEW op \in Operations,
           outbox' = [outbox EXCEPT ![k] = op], UNCHANGED <<task, payer, paid, effects>>,
           op.exists = outbox[k].exists, op.applied = outbox[k].applied,
           op.completed = outbox[k].completed, op.completed => op.lease = outbox[k].lease
    PROVE  Advances(k, op, effects[k])
<1>1. /\ effects[k] \in [Steps -> Nat]
      /\ OpOK(Needed(k[1]), outbox[k], effects[k])
  BY DEF Inv, TypeOK, KeyInv
<1>2. OpOK(Needed(k[1]), op, effects[k])
  BY <1>1 DEF OpOK
<1>3. RowsKept
  BY RowsSame
<1> QED
  BY <1>1, <1>2, <1>3 DEF Advances, Inv, TypeOK

\* Claiming, releasing and waiting.
LEMMA LeaseSteps ==
    ASSUME Inv,
           \/ \E p \in Procs : (\E k \in Keys : Claim(p, k)) \/ RetryTaskBillingOperation(p)
           \/ \E k \in Keys : LeaseExpires(k) \/ BackoffEnds(k)
    PROVE  Inv'
<1>1. ASSUME NEW p \in Procs, NEW k \in Keys, Claim(p, k) PROVE Inv'
  <2> DEFINE op == [outbox[k] EXCEPT !.lease = p, !.running = TRUE]
             new == [Idle EXCEPT !.pc = "claimed", !.key = k]
  <2>1. outbox[k] \in Operations /\ outbox[k].exists /\ ~outbox[k].completed
    BY <1>1 DEF Inv, TypeOK, Claim, Claimable
  <2>2. /\ op \in Operations /\ op.exists = outbox[k].exists
        /\ op.applied = outbox[k].applied /\ op.completed = outbox[k].completed
    BY <2>1 DEF Operations
  <2>3. Advances(k, op, effects[k])
    BY <1>1, <2>1, <2>2, LeaseChange DEF Claim
  <2>4. new \in Processes /\ new.pc = "claimed" /\ new.key = k
    BY DEF Idle, Processes, Snapshots, Status, Pending
  <2>5. LocalOK(new, op, effects[k])
    BY <2>1, <2>2, <2>4 DEF LocalOK
  <2> QED
    BY <1>1, <2>3, <2>4, <2>5, AdvanceKeepsInv DEF Claim, Become
<1>2. ASSUME NEW p \in Procs, RetryTaskBillingOperation(p) PROVE Inv'
  <2> DEFINE k == proc[p].key
             op == [outbox[k] EXCEPT !.lease = NoProc, !.running = FALSE, !.ready = FALSE]
  <2>1. k \in Keys /\ outbox[k] \in Operations /\ outbox[k].exists
    BY <1>2, Busy DEF RetryTaskBillingOperation
  <2>2. proc' = [proc EXCEPT ![p] = Idle] /\ UNCHANGED <<task, payer, paid, effects>>
    BY <1>2 DEF RetryTaskBillingOperation, Become
  <2>3. CASE Fenced(p)
    <3>1. outbox' = [outbox EXCEPT ![k] = op] /\ ~outbox[k].completed
      BY <1>2, <2>3 DEF RetryTaskBillingOperation, Fenced
    <3>2. /\ op \in Operations /\ op.exists = outbox[k].exists
          /\ op.applied = outbox[k].applied /\ op.completed = outbox[k].completed
      BY <2>1, <3>1 DEF Operations
    <3>3. Advances(k, op, effects[k])
      BY <2>1, <2>2, <3>1, <3>2, LeaseChange
    <3> QED
      BY <2>1, <2>2, <3>3, IdleOK, AdvanceKeepsInv
  <2>4. CASE ~Fenced(p)
    BY <1>2, <2>2, <2>4, IdleOK, RowsSame, ProcMove DEF RetryTaskBillingOperation
  <2> QED
    BY <2>3, <2>4
<1>3. ASSUME NEW k \in Keys, LeaseExpires(k) \/ BackoffEnds(k) PROVE Inv'
  <2>1. outbox[k] \in Operations
    BY DEF Inv, TypeOK
  <2>2. PICK op : /\ outbox' = [outbox EXCEPT ![k] = op]
                  /\ \/ op = [outbox[k] EXCEPT !.running = FALSE]
                     \/ op = [outbox[k] EXCEPT !.ready = TRUE]
    BY <1>3 DEF LeaseExpires, BackoffEnds
  <2>3. /\ op \in Operations /\ op.exists = outbox[k].exists
        /\ op.applied = outbox[k].applied /\ op.completed = outbox[k].completed
        /\ op.lease = outbox[k].lease
    BY <2>1, <2>2 DEF Operations
  <2>4. UNCHANGED <<task, payer, paid, proc, effects>>
    BY <1>3 DEF LeaseExpires, BackoffEnds
  <2>5. Advances(k, op, effects[k])
    BY <2>2, <2>3, <2>4, LeaseChange
  <2> QED
    BY <2>4, <2>5, AdvanceKeepsInv
<1> QED
  BY <1>1, <1>2, <1>3

\* The steps are taken in one order: at most one of them is next.
LEMMA NextUnique ==
    ASSUME NEW seen, NEW s \in Steps, NEW q \in Steps, IsNext(s, seen), IsNext(q, seen)
    PROVE  s = q
<1>1. /\ Before["token"] = {"funding"}
      /\ Before["cache"] = {"funding", "token"}
      /\ Before["usage"] = {"funding", "token", "cache"}
      /\ Before["log"] = {"funding", "token", "cache", "usage"}
  BY DEF Before
<1> QED
  BY <1>1 DEF IsNext, Steps

\* What an effect that is marked afterwards does to effects and to the amount.
LEMMA MarkedEffect ==
    ASSUME Inv, NEW p \in Procs, NEW s \in Steps, ApplyMarked(p, s)
    PROVE  LET k == proc[p].key IN
           \E eff \in [Steps -> Nat] :
             /\ effects' = [effects EXCEPT ![k] = eff]
             /\ eff[s] = 1
             /\ \A q \in Steps \ {s} : eff[q] = effects[k][q]
             /\ paid' = IF s = "funding" /\ effects[k][s] = 0
                        THEN [paid EXCEPT ![k[1]] = @ + outbox[k].delta] ELSE paid
<1> DEFINE k == proc[p].key
           replay == s \in {"funding", "log"} /\ effects[k][s] > 0
<1>1. /\ k \in Keys /\ effects[k] \in [Steps -> Nat]
      /\ effects[k][s] <= 1 /\ effects[k][s] \in Nat
  BY Busy DEF ApplyMarked, OpOK
<1>2. s \in MarkedSteps
  BY DEF ApplyMarked
<1>3. CASE replay
  <2>1. effects' = effects /\ paid' = paid
    BY <1>3 DEF ApplyMarked
  <2>2. effects' = [effects EXCEPT ![k] = effects[k]]
    BY <1>1, <2>1 DEF Inv, TypeOK
  <2>3. effects[k][s] = 1 /\ effects[k][s] # 0
    BY <1>1, <1>3
  <2>4. paid' = IF s = "funding" /\ effects[k][s] = 0
                THEN [paid EXCEPT ![k[1]] = @ + outbox[k].delta] ELSE paid
    BY <2>1, <2>3
  <2>5. \A q \in Steps \ {s} : effects[k][q] = effects[k][q]
    OBVIOUS
  <2> HIDE DEF k
  <2> DEFINE Good(eff) ==
        /\ effects' = [effects EXCEPT ![k] = eff]
        /\ eff[s] = 1
        /\ \A q \in Steps \ {s} : eff[q] = effects[k][q]
        /\ paid' = IF s = "funding" /\ effects[k][s] = 0
                   THEN [paid EXCEPT ![k[1]] = @ + outbox[k].delta] ELSE paid
  <2>6. Good(effects[k])
    BY <2>2, <2>3, <2>4, <2>5
  <2>7. \E eff \in [Steps -> Nat] : Good(eff)
    <3> HIDE DEF Good
    <3> QED
      BY <1>1, <2>6
  <2> QED
    BY <2>7 DEF k
<1>4. CASE ~replay
  <2> DEFINE eff == Counted(k, s)
  <2>1. (IF s = "cache" THEN 1 ELSE effects[k][s] + 1) = 1
    BY <1>1, <1>2, <1>4 DEF MarkedSteps
  <2>2. eff = [effects[k] EXCEPT ![s] = 1]
    BY <2>1 DEF Counted
  <2>3. eff \in [Steps -> Nat] /\ eff[s] = 1 /\ \A q \in Steps \ {s} : eff[q] = effects[k][q]
    BY <1>1, <2>2
  <2>4. effects' = [effects EXCEPT ![k] = eff]
    BY <1>4 DEF ApplyMarked, Commit
  <2>5. paid' = IF s = "funding" THEN [paid EXCEPT ![k[1]] = @ + outbox[k].delta] ELSE paid
    BY <1>4 DEF ApplyMarked, Commit
  <2>6. s = "funding" => effects[k][s] = 0
    BY <1>1, <1>4
  <2> QED
    BY <2>3, <2>4, <2>5, <2>6
<1> QED
  BY <1>3, <1>4

\* An effect that is marked afterwards.
LEMMA ApplyMarkedStep ==
    ASSUME Inv, NEW p \in Procs, NEW s \in Steps, ApplyMarked(p, s)
    PROVE  Inv'
<1> DEFINE k == proc[p].key
           new == [proc[p] EXCEPT !.pc = "mark"]
<1>1. /\ k \in Keys /\ outbox[k] \in Operations
      /\ effects[k] \in [Steps -> Nat] /\ proc[p] \in Processes
      /\ OpOK(Needed(k[1]), outbox[k], effects[k]) /\ outbox[k].exists
  BY Busy DEF ApplyMarked
<1>2. /\ s \in MarkedSteps /\ s \notin AtomicSteps /\ IsNext(s, proc[p].seen)
      /\ UNCHANGED <<task, payer, outbox>>
  BY DEF ApplyMarked, MarkedSteps, AtomicSteps
<1>3. PICK eff \in [Steps -> Nat] :
        /\ effects' = [effects EXCEPT ![k] = eff]
        /\ eff[s] = 1
        /\ \A q \in Steps \ {s} : eff[q] = effects[k][q]
        /\ paid' = IF s = "funding" /\ effects[k][s] = 0
                   THEN [paid EXCEPT ![k[1]] = @ + outbox[k].delta] ELSE paid
  BY MarkedEffect
<1>4. RowsKept
  <2>1. paid' \in [Tasks -> Int]
    <3>1. k[1] \in Tasks /\ outbox[k].delta \in Int /\ paid \in [Tasks -> Int]
      BY <1>1, KeyTask DEF Inv, TypeOK, Operations
    <3> QED
      BY <1>3, <3>1
  <2> QED
    BY <1>2, <2>1 DEF Inv, TypeOK, RowsKept, RowsTyped, TaskRows
<1>5. OpOK(Needed(k[1]), outbox[k], eff)
  <2>1. \A q \in AtomicSteps \ outbox[k].applied : eff[q] = 0
    BY <1>1, <1>2, <1>3 DEF OpOK, AtomicSteps, Steps
  <2>2. \A q \in outbox[k].applied \cap Needed(k[1]) : eff[q] > 0
    BY <1>1, <1>3 DEF OpOK, Needed
  <2>3. \A q \in Steps : eff[q] <= 1
    BY <1>1, <1>3 DEF OpOK
  <2> QED
    BY <1>1, <2>1, <2>2, <2>3 DEF OpOK
<1>6. Advances(k, outbox[k], eff)
  <2>1. \A q \in Steps : effects[k][q] > 0 => eff[q] > 0
    BY <1>3
  <2>2. outbox' = [outbox EXCEPT ![k] = outbox[k]]
    BY <1>1, <1>2 DEF Inv, TypeOK
  <2> QED
    BY <1>1, <1>3, <1>4, <1>5, <2>1, <2>2 DEF Advances
<1>7. /\ new \in Processes /\ new.pc = "mark" /\ new.key = k
      /\ new.seen = proc[p].seen
  BY <1>1 DEF Processes
<1>8. LocalOK(new, outbox[k], eff)
  <2>1. \A q \in Steps : IsNext(q, new.seen) => q = s
    BY <1>2, <1>7, NextUnique
  <2> QED
    BY <1>1, <1>2, <1>3, <1>7, <2>1 DEF LocalOK
<1> QED
  BY <1>1, <1>6, <1>7, <1>8, AdvanceKeepsInv DEF ApplyMarked, Become

\* The flag of an effect that is committed.
LEMMA MarkStep ==
    ASSUME Inv, NEW p \in Procs, NEW s \in Steps, MarkTaskBillingOperationStep(p, s)
    PROVE  Inv'
<1> DEFINE k == proc[p].key
           op == Flagged(k, s)
           new == [proc[p] EXCEPT !.pc = "apply", !.seen = @ \cup {s}]
<1>1. /\ k \in Keys /\ outbox[k] \in Operations
      /\ effects[k] \in [Steps -> Nat] /\ proc[p] \in Processes
      /\ OpOK(Needed(k[1]), outbox[k], effects[k]) /\ outbox[k].exists
      /\ LocalOK(proc[p], outbox[k], effects[k])
  BY Busy DEF MarkTaskBillingOperationStep
<1>2. effects[k][s] > 0 /\ s \notin AtomicSteps /\ ~outbox[k].completed
  BY <1>1 DEF MarkTaskBillingOperationStep, LocalOK, Fenced, MarkedSteps, AtomicSteps
<1>3. /\ op \in Operations /\ op.exists
      /\ op.applied = outbox[k].applied \cup {s} /\ op.completed = outbox[k].completed
  BY <1>1 DEF Operations, Flagged
<1>4. OpOK(Needed(k[1]), op, effects[k])
  BY <1>1, <1>2, <1>3 DEF OpOK
<1>5. Advances(k, op, effects[k])
  <2>1. /\ outbox' = [outbox EXCEPT ![k] = op]
        /\ UNCHANGED <<task, payer, paid, effects>>
    BY DEF MarkTaskBillingOperationStep
  <2>2. effects = [effects EXCEPT ![k] = effects[k]]
    BY <1>1 DEF Inv, TypeOK
  <2> QED
    BY <1>1, <1>3, <1>4, <2>1, <2>2, RowsSame DEF Advances
<1>6. new \in Processes /\ new.pc = "apply" /\ new.key = k
  BY <1>1 DEF Processes
<1>7. LocalOK(new, op, effects[k])
  BY <1>1, <1>3, <1>6 DEF LocalOK
<1> QED
  BY <1>1, <1>5, <1>6, <1>7, AdvanceKeepsInv DEF MarkTaskBillingOperationStep, Become

\* An effect and its flag in one transaction.
LEMMA ApplyAtomicStep ==
    ASSUME Inv, NEW p \in Procs, NEW s \in Steps, ApplyAtomic(p, s)
    PROVE  Inv'
<1> DEFINE k == proc[p].key
           op == Flagged(k, s)
           eff == Counted(k, s)
           new == [proc[p] EXCEPT !.seen = @ \cup {s}]
<1>1. /\ k \in Keys /\ outbox[k] \in Operations
      /\ effects[k] \in [Steps -> Nat] /\ proc[p] \in Processes
      /\ OpOK(Needed(k[1]), outbox[k], effects[k]) /\ outbox[k].exists
  BY Busy DEF ApplyAtomic
<1>2. /\ s \in AtomicSteps /\ s # "cache" /\ ~outbox[k].completed /\ proc[p].pc = "apply"
      /\ UNCHANGED <<task, payer, paid>>
  BY DEF ApplyAtomic, Fenced, AtomicSteps
<1>3. new \in Processes /\ new.pc = "apply" /\ new.key = k
  BY <1>1, <1>2 DEF Processes
<1>4. proc' = [proc EXCEPT ![p] = new]
  BY DEF ApplyAtomic, Become
<1>5. CASE s \notin outbox[k].applied
  <2>1. effects[k][s] = 0
    BY <1>1, <1>2, <1>5 DEF OpOK
  <2>2. eff \in [Steps -> Nat] /\ eff[s] = 1 /\ \A q \in Steps \ {s} : eff[q] = effects[k][q]
    BY <1>1, <1>2, <2>1 DEF Counted
  <2>3. /\ op \in Operations /\ op.exists
        /\ op.applied = outbox[k].applied \cup {s} /\ op.completed = outbox[k].completed
    BY <1>1 DEF Operations, Flagged
  <2>4. OpOK(Needed(k[1]), op, eff)
    <3>1. \A q \in AtomicSteps \ op.applied : eff[q] = 0
      BY <1>1, <2>2, <2>3 DEF OpOK, AtomicSteps, Steps
    <3>2. \A q \in op.applied \cap Needed(k[1]) : eff[q] > 0
      BY <1>1, <2>2, <2>3 DEF OpOK, Needed
    <3>3. \A q \in Steps : eff[q] <= 1
      BY <1>1, <2>2 DEF OpOK
    <3> QED
      BY <1>1, <1>2, <2>3, <3>1, <3>2, <3>3 DEF OpOK
  <2>5. Advances(k, op, eff)
    <3>1. /\ outbox' = [outbox EXCEPT ![k] = op]
          /\ effects' = [effects EXCEPT ![k] = eff]
      BY <1>5 DEF ApplyAtomic
    <3>2. \A q \in Steps : effects[k][q] > 0 => eff[q] > 0
      BY <2>2
    <3> QED
      BY <1>1, <1>2, <2>2, <2>3, <2>4, <3>1, <3>2, RowsSame DEF Advances
  <2>6. LocalOK(new, op, eff)
    BY <1>1, <1>3, <2>3 DEF LocalOK
  <2> QED
    BY <1>1, <1>3, <1>4, <2>5, <2>6, AdvanceKeepsInv
<1>6. CASE s \in outbox[k].applied
  <2>1. UNCHANGED <<outbox, effects>>
    BY <1>6 DEF ApplyAtomic
  <2>2. LocalOK(new, outbox[k], effects[k])
    BY <1>1, <1>3 DEF LocalOK
  <2> QED
    BY <1>2, <1>3, <1>4, <2>1, <2>2, RowsSame, ProcMove
<1> QED
  BY <1>5, <1>6

\* Completion.
LEMMA CompleteStep ==
    ASSUME Inv, NEW p \in Procs, CompleteTaskBillingOperation(p)
    PROVE  Inv'
<1> DEFINE k == proc[p].key
           op == [outbox[k] EXCEPT !.completed = TRUE, !.lease = NoProc, !.running = FALSE,
                                   !.ready = TRUE]
<1>1. /\ k \in Keys /\ outbox[k] \in Operations
      /\ effects[k] \in [Steps -> Nat]
      /\ OpOK(Needed(k[1]), outbox[k], effects[k]) /\ outbox[k].exists
  BY Busy DEF CompleteTaskBillingOperation
<1>2. /\ op \in Operations /\ op.exists
      /\ op.applied = outbox[k].applied /\ op.lease = NoProc
  BY <1>1 DEF Operations
<1>3. OpOK(Needed(k[1]), op, effects[k])
  BY <1>1, <1>2 DEF OpOK, CompleteTaskBillingOperation
<1>4. Advances(k, op, effects[k])
  BY <1>1, <1>2, <1>3, RowsSame DEF CompleteTaskBillingOperation, Advances, Inv, TypeOK
<1> QED
  BY <1>1, <1>4, IdleOK, AdvanceKeepsInv DEF CompleteTaskBillingOperation, Become

\* Every step keeps the invariant.
LEMMA InvStep == Inv /\ [Next]_vars => Inv'
<1> SUFFICES ASSUME Inv, [Next]_vars PROVE Inv'
  OBVIOUS
<1>1. ASSUME NEW p \in Procs, Poll(p) PROVE Inv'
  BY <1>1, QuietSteps, UpdateStep, FinalizeSteps DEF Poll, PollTask, FetchTask
<1>2. ASSUME NEW p \in Procs, Work(p) PROVE Inv'
  BY <1>2, QuietSteps, LeaseSteps, ApplyMarkedStep, MarkStep, ApplyAtomicStep, CompleteStep DEF Work
<1>3. ASSUME NEW k \in Keys, Time(k) PROVE Inv'
  BY <1>3, LeaseSteps DEF Time
<1>4. CASE UNCHANGED vars
  BY <1>4 DEF vars, Inv, TypeOK, KeyInv, ProcInv, Needed
<1> QED
  BY <1>1, <1>2, <1>3, <1>4, PayerStep DEF Next

\* Submitted tasks, an empty outbox and idle processes.
LEMMA InvInit == Init => Inv
<1> SUFFICES ASSUME Init PROVE Inv
  OBVIOUS
<1>1. TypeOK
  <2>1. /\ task \in [Tasks -> [status : Status, quota : Nat, kind : SUBSET Kinds]]
        /\ paid \in [Tasks -> Int]
    BY ConstantsAssumption DEF Init, Status, Pending
  <2>2. NoOperation \in Operations /\ Idle \in Processes
    BY IdleOK DEF NoOperation, Operations
  <2> QED
    BY <2>1, <2>2 DEF Init, TypeOK
<1>2. ASSUME NEW k \in Keys PROVE OpOK(Needed(k[1]), outbox[k], effects[k])
  <2>1. outbox[k] = NoOperation /\ \A s \in Steps : effects[k][s] = 0
    BY DEF Init
  <2>2. NoOperation.applied = {} /\ ~NoOperation.completed
    BY DEF NoOperation
  <2>3. AtomicSteps \subseteq Steps
    BY DEF AtomicSteps, Steps
  <2> QED
    BY <2>1, <2>2, <2>3 DEF OpOK
<1>3. ProcInv
  BY IdleOK DEF Init, ProcInv
<1> QED
  BY <1>1, <1>2, <1>3 DEF Inv, KeyInv

-----------------------------------------------------------------------------
(* What is paid for a task that only the polling loop moves. *)

Owed(t) == IF task[t].status = "SUCCESS" THEN task[t].quota ELSE 0

Outstanding(k) == IF effects[k]["funding"] = 0 THEN outbox[k].delta ELSE 0

\* A pending task has no operation and is paid as submitted.  A terminal one is
\* paid once the outstanding amount of its only operation is.
RowOK(t) ==
    /\ task[t].status \in Pending =>
          paid[t] = task[t].quota /\ \A k \in Keys : k[1] = t => ~outbox[k].exists
    /\ task[t].status \in Terminal /\ (\A k \in Keys : k[1] = t => ~outbox[k].exists) =>
          paid[t] = Owed(t) \/ (task[t].status = "FAILURE" /\ "legacy" \in task[t].kind)
    /\ \A k \in Keys : k[1] = t /\ outbox[k].exists =>
          /\ \A j \in Keys : j[1] = t /\ outbox[j].exists => j = k
          /\ paid[t] = Owed(t) - Outstanding(k)

\* Who polls such a task read a status that was not terminal, and the quota it
\* still has if it is not terminal now.
PollOK(st) ==
    st.pc = "polling" /\ Unrefreshed(st.task) =>
        /\ st.snap.status \in Pending
        /\ task[st.task].status \in Pending => st.snap.quota = task[st.task].quota

PayInv ==
    /\ \A t \in Tasks : Unrefreshed(t) => RowOK(t)
    /\ \A p \in Procs : PollOK(proc[p])

\* What RowOK speaks of is left alone for the task t.
Untouched(t) ==
    /\ task'[t] = task[t]
    /\ paid'[t] = paid[t]
    /\ \A k \in Keys : k[1] = t =>
        /\ outbox'[k].exists = outbox[k].exists
        /\ outbox'[k].delta = outbox[k].delta
        /\ effects'[k]["funding"] = effects[k]["funding"]

\* Then RowOK is kept.
LEMMA UntouchedRow ==
    ASSUME NEW t \in Tasks, Unrefreshed(t) => RowOK(t), Untouched(t), Unrefreshed(t)'
    PROVE  RowOK(t)'
<1>1. Unrefreshed(t) /\ RowOK(t)
  BY DEF Unrefreshed, Untouched
<1>2. Owed(t)' = Owed(t)
  BY DEF Owed, Untouched
<1>3. \A k \in Keys : k[1] = t => Outstanding(k)' = Outstanding(k)
  BY DEF Outstanding, Untouched
<1> QED
  BY <1>1, <1>2, <1>3 DEF RowOK, Untouched

\* A step that touches no row, and after which every process polls as before or
\* not at all, keeps the invariant.
LEMMA UntouchedPay ==
    ASSUME Inv, PayInv, UNCHANGED task, \A t \in Tasks : Untouched(t),
           \/ UNCHANGED proc
           \/ \E p \in Procs, new \in Processes :
                proc' = [proc EXCEPT ![p] = new] /\ new.pc # "polling"
    PROVE  PayInv'
<1>1. \A t \in Tasks : Unrefreshed(t)' => RowOK(t)'
  BY UntouchedRow DEF PayInv
<1>2. \A p \in Procs : proc'[p] = proc[p] \/ proc'[p].pc # "polling"
  BY DEF Inv, TypeOK
<1>3. ASSUME NEW p \in Procs PROVE PollOK(proc[p])'
  <2>1. PollOK(proc[p])
    BY DEF PayInv
  <2> QED
    BY <1>2, <2>1 DEF PollOK, Unrefreshed
<1> QED
  BY <1>1, <1>3 DEF PayInv

\* The steps of the worker and of time touch no row, except for the funding.
LEMMA OutboxPay ==
    ASSUME Inv, PayInv, NEW q \in Keys, NEW op \in Operations,
           op.exists = outbox[q].exists, op.delta = outbox[q].delta,
           outbox' = [outbox EXCEPT ![q] = op], UNCHANGED <<task, paid>>,
           \A k \in Keys : effects'[k]["funding"] = effects[k]["funding"],
           \/ UNCHANGED proc
           \/ \E p \in Procs, new \in Processes :
                proc' = [proc EXCEPT ![p] = new] /\ new.pc # "polling"
    PROVE  PayInv'
<1>1. \A k \in Keys : outbox'[k].exists = outbox[k].exists /\ outbox'[k].delta = outbox[k].delta
  BY DEF Inv, TypeOK
<1>2. \A t \in Tasks : Untouched(t)
  BY <1>1 DEF Untouched
<1> QED
  BY <1>2, UntouchedPay

\* Nothing but a process moves.
LEMMA QuietPay ==
    ASSUME Inv, PayInv, UNCHANGED <<task, paid, outbox, effects>>,
           \/ UNCHANGED proc
           \/ \E p \in Procs, new \in Processes :
                proc' = [proc EXCEPT ![p] = new] /\ new.pc # "polling"
    PROVE  PayInv'
<1>1. \A t \in Tasks : Untouched(t)
  BY DEF Untouched
<1> QED
  BY <1>1, UntouchedPay

\* The steps that keep what RowOK speaks of.
LEMMA WorkPay ==
    ASSUME Inv, PayInv, NEW p \in Procs,
           \/ GiveUpPolling(p) \/ ClaimLost(p) \/ ClaimOvertaken(p) \/ Crash(p) \/ ReadClaim(p)
           \/ \E k \in Keys : Claim(p, k)
           \/ RetryTaskBillingOperation(p)
           \/ \E s \in Steps : MarkTaskBillingOperationStep(p, s) \/ ApplyAtomic(p, s)
           \/ CompleteTaskBillingOperation(p)
    PROVE  PayInv'
<1> DEFINE k == proc[p].key
<1>1. ASSUME GiveUpPolling(p) \/ ClaimLost(p) \/ ClaimOvertaken(p) \/ Crash(p) PROVE PayInv'
  BY <1>1, QuietPay, IdleOK
  DEF GiveUpPolling, ClaimLost, ClaimOvertaken, Crash, Become
<1>2. ASSUME ReadClaim(p) PROVE PayInv'
  <2> DEFINE new == [proc[p] EXCEPT !.pc = "apply", !.seen = outbox[k].applied]
  <2>1. k \in Keys /\ proc[p] \in Processes /\ outbox[k] \in Operations
    BY <1>2, Busy DEF ReadClaim
  <2>2. new \in Processes /\ new.pc # "polling"
    BY <2>1 DEF Processes, Operations
  <2> QED
    BY <1>2, <2>2, QuietPay DEF ReadClaim, Become
<1>3. ASSUME NEW q \in Keys, Claim(p, q) PROVE PayInv'
  <2> DEFINE op == [outbox[q] EXCEPT !.lease = p, !.running = TRUE]
             new == [Idle EXCEPT !.pc = "claimed", !.key = q]
  <2>0. outbox[q] \in Operations
    BY DEF Inv, TypeOK
  <2>1. op \in Operations /\ op.exists = outbox[q].exists /\ op.delta = outbox[q].delta
    BY <2>0 DEF Operations
  <2>2. new \in Processes /\ new.pc # "polling"
    BY DEF Idle, Processes, Snapshots, Status, Pending
  <2> QED
    BY <1>3, <2>1, <2>2, OutboxPay DEF Claim, Become
<1>4. ASSUME RetryTaskBillingOperation(p) PROVE PayInv'
  <2> DEFINE op == [outbox[k] EXCEPT !.lease = NoProc, !.running = FALSE, !.ready = FALSE]
  <2>1. k \in Keys /\ outbox[k] \in Operations
    BY <1>4, Busy DEF RetryTaskBillingOperation
  <2>2. op \in Operations /\ op.exists = outbox[k].exists /\ op.delta = outbox[k].delta
    BY <2>1 DEF Operations
  <2>3. CASE Fenced(p)
    BY <1>4, <2>1, <2>2, <2>3, IdleOK, OutboxPay DEF RetryTaskBillingOperation, Become
  <2>4. CASE ~Fenced(p)
    BY <1>4, <2>4, IdleOK, QuietPay DEF RetryTaskBillingOperation, Become
  <2> QED
    BY <2>3, <2>4
<1>5. ASSUME NEW s \in Steps
      PROVE  \A q \in Keys : /\ Flagged(q, s) \in Operations
                             /\ Flagged(q, s).exists = outbox[q].exists
                             /\ Flagged(q, s).delta = outbox[q].delta
  <2>1. \A q \in Keys : outbox[q] \in Operations
    BY DEF Inv, TypeOK
  <2> QED
    BY <2>1 DEF Operations, Flagged
<1>6. ASSUME NEW s \in Steps, MarkTaskBillingOperationStep(p, s) PROVE PayInv'
  <2> DEFINE new == [proc[p] EXCEPT !.pc = "apply", !.seen = @ \cup {s}]
  <2>1. k \in Keys /\ proc[p] \in Processes
    BY <1>6, Busy DEF MarkTaskBillingOperationStep
  <2>2. new \in Processes /\ new.pc # "polling"
    BY <2>1 DEF Processes
  <2> QED
    BY <1>5, <1>6, <2>1, <2>2, OutboxPay DEF MarkTaskBillingOperationStep, Become
<1>7. ASSUME NEW s \in Steps, ApplyAtomic(p, s) PROVE PayInv'
  <2> DEFINE new == [proc[p] EXCEPT !.seen = @ \cup {s}]
  <2>1. /\ k \in Keys /\ proc[p] \in Processes /\ proc[p].pc = "apply"
        /\ s # "funding" /\ "funding" \in Steps
        /\ effects[k] \in [Steps -> Nat]
    BY <1>7, Busy DEF ApplyAtomic, AtomicSteps, Steps
  <2>2. new \in Processes /\ new.pc # "polling" /\ proc' = [proc EXCEPT ![p] = new]
    BY <1>7, <2>1 DEF Processes, ApplyAtomic, Become
  <2>3. Counted(k, s)["funding"] = effects[k]["funding"]
    BY <2>1 DEF Counted
  <2>4. \A q \in Keys : effects'[q]["funding"] = effects[q]["funding"]
    BY <1>7, <2>1, <2>3 DEF ApplyAtomic, Inv, TypeOK
  <2>5. CASE s \notin outbox[k].applied
    <3>1. outbox' = [outbox EXCEPT ![k] = Flagged(k, s)] /\ UNCHANGED <<task, paid>>
      BY <1>7, <2>5 DEF ApplyAtomic
    <3> QED
      BY <1>5, <2>1, <2>2, <2>4, <3>1, OutboxPay
  <2>6. CASE s \in outbox[k].applied
    BY <1>7, <2>2, <2>6, QuietPay DEF ApplyAtomic
  <2> QED
    BY <2>5, <2>6
<1>8. ASSUME CompleteTaskBillingOperation(p) PROVE PayInv'
  <2> DEFINE op == [outbox[k] EXCEPT !.completed = TRUE, !.lease = NoProc,
                                     !.running = FALSE, !.ready = TRUE]
  <2>1. k \in Keys /\ outbox[k] \in Operations
    BY <1>8, Busy DEF CompleteTaskBillingOperation
  <2>2. op \in Operations /\ op.exists = outbox[k].exists /\ op.delta = outbox[k].delta
    BY <2>1 DEF Operations
  <2> QED
    BY <1>8, <2>1, <2>2, IdleOK, OutboxPay DEF CompleteTaskBillingOperation, Become
<1> QED
  BY <1>1, <1>2, <1>3, <1>4, <1>6, <1>7, <1>8

\* The funding of an operation pays what was outstanding, once.
LEMMA FundingPay ==
    ASSUME Inv, PayInv, NEW p \in Procs, NEW s \in Steps, ApplyMarked(p, s)
    PROVE  PayInv'
<1>0. PICK k : k = proc[p].key
  OBVIOUS
<1> DEFINE new == [proc[p] EXCEPT !.pc = "mark"]
<1>1. /\ k \in Keys /\ k[1] \in Tasks /\ outbox[k] \in Operations /\ outbox[k].exists
      /\ proc[p] \in Processes /\ "funding" \in Steps
      /\ effects \in [Keys -> [Steps -> Nat]] /\ paid \in [Tasks -> Int]
  BY <1>0, Busy, KeyTask DEF ApplyMarked, Steps, Inv, TypeOK
<1>2. UNCHANGED <<task, outbox>> /\ proc' = [proc EXCEPT ![p] = new]
  BY DEF ApplyMarked, Become
<1>3. new \in Processes /\ new.pc # "polling"
  BY <1>1 DEF Processes
<1>4. PICK eff \in [Steps -> Nat] :
        /\ effects' = [effects EXCEPT ![k] = eff]
        /\ eff[s] = 1
        /\ \A q \in Steps \ {s} : eff[q] = effects[k][q]
        /\ paid' = IF s = "funding" /\ effects[k][s] = 0
                   THEN [paid EXCEPT ![k[1]] = @ + outbox[k].delta] ELSE paid
  BY <1>0, MarkedEffect
<1>5. \A q \in Keys \ {k} : effects'[q] = effects[q]
  BY <1>1, <1>4
<1>6. effects'[k] = eff
  BY <1>1, <1>4
<1>7. CASE s = "funding" /\ effects[k][s] = 0
  <2>1. /\ paid'[k[1]] = paid[k[1]] + outbox[k].delta
        /\ \A t \in Tasks \ {k[1]} : paid'[t] = paid[t]
    BY <1>1, <1>4, <1>7
  <2>2. \A t \in Tasks \ {k[1]} : Untouched(t)
    BY <1>2, <1>5, <2>1 DEF Untouched
  <2>3. ASSUME Unrefreshed(k[1])' PROVE RowOK(k[1])'
    <3>0. PICK t \in Tasks : t = k[1]
      BY <1>1
    <3>1. RowOK(t)
      BY <1>1, <1>2, <2>3, <3>0 DEF PayInv, Unrefreshed
    <3>2. /\ task[t].status \notin Pending
          /\ \A j \in Keys : j[1] = t /\ outbox[j].exists => j = k
          /\ paid[t] = Owed(t) - Outstanding(k)
      BY <1>1, <3>0, <3>1 DEF RowOK
    <3>3. Outstanding(k) = outbox[k].delta /\ Outstanding(k)' = 0
      BY <1>2, <1>4, <1>6, <1>7 DEF Outstanding
    <3>4. Owed(t)' = Owed(t) /\ Owed(t) \in Int /\ outbox[k].delta \in Int
      BY <1>1, <1>2, <3>0 DEF Owed, Inv, TypeOK, Operations
    <3>5. paid'[t] = Owed(t)' - Outstanding(k)'
      BY <2>1, <3>0, <3>2, <3>3, <3>4
    <3> QED
      BY <1>1, <1>2, <3>0, <3>2, <3>5 DEF RowOK
  <2>4. \A t \in Tasks : Unrefreshed(t)' => RowOK(t)'
    BY <2>2, <2>3, UntouchedRow DEF PayInv
  <2>5. \A q \in Procs : proc'[q] = proc[q] \/ proc'[q].pc # "polling"
    BY <1>2, <1>3 DEF Inv, TypeOK
  <2>6. \A q \in Procs : PollOK(proc[q])'
    BY <1>2, <2>5 DEF PayInv, PollOK, Unrefreshed
  <2> QED
    BY <2>4, <2>6 DEF PayInv
<1>8. CASE ~(s = "funding" /\ effects[k][s] = 0)
  <2>1. eff["funding"] = effects[k]["funding"]
    <3>1. CASE s = "funding"
      <4>1. effects[k][s] <= 1 /\ effects[k][s] \in Nat
        BY <1>0, Busy DEF ApplyMarked, OpOK
      <4> QED
        BY <1>4, <1>8, <3>1, <4>1
    <3>2. CASE s # "funding"
      BY <1>1, <1>4, <3>2
    <3> QED
      BY <3>1, <3>2
  <2>2. \A q \in Keys : effects'[q]["funding"] = effects[q]["funding"]
    BY <1>5, <1>6, <2>1
  <2>3. outbox' = [outbox EXCEPT ![k] = outbox[k]] /\ paid' = paid
    BY <1>1, <1>2, <1>4, <1>8 DEF Inv, TypeOK
  <2> QED
    BY <1>1, <1>2, <1>3, <2>2, <2>3, OutboxPay
<1> QED
  BY <1>7, <1>8

\* Reading a task: the polling loop reads one that is not terminal.
LEMMA ReadPay ==
    ASSUME Inv, PayInv, NEW p \in Procs, NEW t \in Tasks, PollTask(p, t) \/ FetchTask(p, t)
    PROVE  PayInv'
<1> DEFINE new == [Idle EXCEPT !.pc = "polling", !.task = t,
                        !.snap = [status |-> task[t].status, quota |-> task[t].quota]]
<1>1. proc' = [proc EXCEPT ![p] = new] /\ UNCHANGED <<task, paid, outbox, effects>>
  BY DEF PollTask, FetchTask, ReadTask, Become
<1>2. task[t].status \in Pending \/ ~Unrefreshed(t)
  BY DEF PollTask, FetchTask, Unrefreshed
<1>3. /\ new.task = t /\ new.snap.status = task[t].status /\ new.snap.quota = task[t].quota
  BY DEF Idle
<1>4. proc'[p] = new /\ \A q \in Procs \ {p} : proc'[q] = proc[q]
  BY <1>1 DEF Inv, TypeOK
<1>5. PollOK(proc[p])'
  BY <1>1, <1>2, <1>3, <1>4 DEF PollOK, Unrefreshed
<1>6. \A q \in Procs \ {p} : PollOK(proc[q])'
  BY <1>1, <1>4 DEF PayInv, PollOK, Unrefreshed
<1>7. \A q \in Tasks : Unrefreshed(q)' => RowOK(q)'
  BY <1>1, UntouchedRow DEF PayInv, Untouched
<1> QED
  BY <1>5, <1>6, <1>7 DEF PayInv

\* Who can save the row of a task that only the loop moves read it pending, and
\* it is pending still, with the quota read.
LEMMA SavesPending ==
    ASSUME Inv, PayInv, NEW p \in Procs, proc[p].pc = "polling", Unrefreshed(proc[p].task),
           task[proc[p].task].status = proc[p].snap.status
    PROVE  LET t == proc[p].task IN
           /\ t \in Tasks
           /\ task[t].status \in Pending
           /\ proc[p].snap.quota = task[t].quota
           /\ paid[t] = task[t].quota
           /\ \A k \in Keys : k[1] = t => ~outbox[k].exists
  BY Polling DEF PayInv, PollOK, RowOK

\* The others that poll the task of a saved row keep their knowledge.
LEMMA SavedPoll ==
    ASSUME Inv, PayInv, NEW p \in Procs, proc[p].pc = "polling",
           NEW t \in Tasks, t = proc[p].task, task[t].status = proc[p].snap.status,
           NEW status \in Status, NEW final \in Nat,
           task' = [task EXCEPT ![t] = Saved(t, status, final)],
           UNCHANGED <<payer, paid>>,
           status \in Pending /\ Unrefreshed(t) => final = proc[p].snap.quota,
           NEW new, proc' = [proc EXCEPT ![p] = new], new.pc # "polling"
    PROVE  \A q \in Procs : PollOK(proc[q])'
<1>2. /\ task'[t].status = status /\ task'[t].quota = final
      /\ \A q \in Tasks \ {t} : task'[q] = task[q]
      /\ \A q \in Tasks : task'[q].kind = task[q].kind
  <2>1. /\ RowsKept
        /\ task'[t].status = status /\ task'[t].quota = final
        /\ \A q \in Tasks \ {t} : task'[q] = task[q]
    BY SavedRow
  <2> QED
    BY <2>1 DEF RowsKept
<1>3. proc'[p] = new /\ \A q \in Procs \ {p} : proc'[q] = proc[q]
  BY DEF Inv, TypeOK
<1>4. ASSUME NEW q \in Procs, q # p, proc[q].pc = "polling", Unrefreshed(proc[q].task)'
      PROVE  /\ proc[q].snap.status \in Pending
             /\ task'[proc[q].task].status \in Pending =>
                    proc[q].snap.quota = task'[proc[q].task].quota
  <2>1. proc[q].task \in Tasks
    BY <1>4, Polling
  <2>2. Unrefreshed(proc[q].task)
    BY <1>2, <1>4, <2>1 DEF Unrefreshed
  <2>3. /\ proc[q].snap.status \in Pending
        /\ task[proc[q].task].status \in Pending =>
               proc[q].snap.quota = task[proc[q].task].quota
    BY <1>4, <2>2 DEF PayInv, PollOK
  <2>4. CASE proc[q].task = t
    BY <1>2, <2>2, <2>3, <2>4, SavesPending
  <2>5. CASE proc[q].task # t
    BY <1>2, <2>1, <2>3, <2>5
  <2> QED
    BY <2>4, <2>5
<1> QED
  BY <1>3, <1>4 DEF PollOK, Unrefreshed

\* A status without an operation, of a task that only the loop moves, is one
\* that is not terminal.
LEMMA UpdatePay ==
    ASSUME Inv, PayInv, NEW p \in Procs, NEW status \in Status, UpdateWithStatus(p, status)
    PROVE  PayInv'
<1>0. PICK t, final : t = proc[p].task /\ final = proc[p].snap.quota
  OBVIOUS
<1>1. /\ proc[p].pc = "polling" /\ task[t].status = proc[p].snap.status
      /\ task' = [task EXCEPT ![t] = Saved(t, status, final)]
      /\ proc' = [proc EXCEPT ![p] = Idle]
      /\ UNCHANGED <<payer, paid, outbox, effects>>
      /\ status \in Terminal => status = proc[p].snap.status
  BY <1>0 DEF UpdateWithStatus, Become
<1>2. t \in Tasks /\ final \in Nat
  BY <1>0, <1>1, Polling
<1>3. /\ task'[t].status = status /\ task'[t].quota = final
      /\ \A q \in Tasks \ {t} : task'[q] = task[q]
      /\ \A q \in Tasks : task'[q].kind = task[q].kind
  <2>1. /\ RowsKept
        /\ task'[t].status = status /\ task'[t].quota = final
        /\ \A q \in Tasks \ {t} : task'[q] = task[q]
    BY <1>1, <1>2, SavedRow
  <2> QED
    BY <2>1 DEF RowsKept
<1>4. \A q \in Procs : PollOK(proc[q])'
  BY <1>0, <1>1, <1>2, IdleOK, SavedPoll
<1>5. ASSUME Unrefreshed(t)' PROVE RowOK(t)'
  <2>1. Unrefreshed(t)
    BY <1>2, <1>3, <1>5 DEF Unrefreshed
  <2>2. /\ task[t].status \in Pending /\ final = task[t].quota /\ paid[t] = task[t].quota
        /\ \A k \in Keys : k[1] = t => ~outbox[k].exists
    BY <1>0, <1>1, <2>1, SavesPending
  <2>3. status \in Pending /\ status \notin Terminal
    BY <1>1, <2>2 DEF Status, Pending, Terminal
  <2> QED
    BY <1>1, <1>2, <1>3, <2>2, <2>3 DEF RowOK
<1>6. \A q \in Tasks \ {t} : Unrefreshed(q)' => RowOK(q)'
  BY <1>1, <1>3, UntouchedRow DEF PayInv, Untouched
<1> QED
  BY <1>4, <1>5, <1>6 DEF PayInv

\* A transition of a task that only the loop moves: its operation stands for
\* the difference between what is paid and what is owed.
LEMMA TransitionPay ==
    ASSUME Inv, PayInv, NEW p \in Procs, NEW status \in Terminal, NEW final \in Nat,
           NEW stage \in 0..MaxQuota, NEW delta \in Int,
           Transition(p, status, final, stage, delta),
           LET owed == IF status = "SUCCESS" THEN final ELSE 0 IN
           \/ proc[p].snap.quota = owed - delta
           \/ status = "FAILURE" /\ delta = 0 /\ "legacy" \in task[proc[p].task].kind
    PROVE  PayInv'
<1>0. PICK t, k : t = proc[p].task /\ k = <<t, stage>>
  OBVIOUS
<1>1. /\ proc[p].pc = "polling" /\ task[t].status = proc[p].snap.status
      /\ task' = [task EXCEPT ![t] = Saved(t, status, final)]
      /\ UNCHANGED <<payer, paid, effects>>
  BY <1>0 DEF Transition
<1>2. t \in Tasks /\ k \in Keys /\ k[1] = t /\ status \in Status /\ status \notin Pending
  BY <1>0, <1>1, Polling DEF Keys, Status, Pending, Terminal
<1>3. /\ task'[t].status = status /\ task'[t].quota = final
      /\ \A q \in Tasks \ {t} : task'[q] = task[q]
      /\ \A q \in Tasks : task'[q].kind = task[q].kind
  <2>1. /\ RowsKept
        /\ task'[t].status = status /\ task'[t].quota = final
        /\ \A q \in Tasks \ {t} : task'[q] = task[q]
    BY <1>1, <1>2, SavedRow
  <2> QED
    BY <2>1 DEF RowsKept
<1>4. \A q \in Procs : PollOK(proc[q])'
  <2> DEFINE busy == [Idle EXCEPT !.pc = "finalized", !.key = <<proc[p].task, stage>>]
  <2>1. Idle.pc # "polling" /\ busy.pc # "polling"
    BY DEF Idle
  <2>2. proc' = [proc EXCEPT ![p] = Idle] \/ proc' = [proc EXCEPT ![p] = busy]
    BY DEF Transition, Become
  <2> QED
    BY <1>0, <1>1, <1>2, <2>1, <2>2, SavedPoll
<1>5. /\ delta = 0 => outbox' = outbox
      /\ delta # 0 => ~outbox[k].exists /\ outbox' = [outbox EXCEPT ![k] = NewOperation(t, delta)]
  BY <1>0 DEF Transition
<1>6. NewOperation(t, delta).exists /\ NewOperation(t, delta).delta = delta
  BY <1>2, NewOperationOK
<1>7. /\ \A j \in Keys \ {k} : outbox'[j] = outbox[j]
      /\ delta # 0 => outbox'[k].exists /\ outbox'[k].delta = delta
  BY <1>2, <1>5, <1>6 DEF Inv, TypeOK
<1>8. ASSUME Unrefreshed(t)' PROVE RowOK(t)'
  <2>1. Unrefreshed(t)
    BY <1>2, <1>3, <1>8 DEF Unrefreshed
  <2>2. /\ proc[p].snap.quota = task[t].quota /\ paid[t] = task[t].quota
        /\ \A j \in Keys : j[1] = t => ~outbox[j].exists
    BY <1>0, <1>1, <2>1, SavesPending
  <2>3. Owed(t)' = (IF status = "SUCCESS" THEN final ELSE 0) /\ Owed(t)' \in Nat
    BY <1>3 DEF Owed
  <2>4. CASE delta = 0
    <3>1. \A j \in Keys : j[1] = t => ~outbox'[j].exists
      BY <1>5, <2>2, <2>4
    <3>2. paid'[t] = Owed(t)' \/ (status = "FAILURE" /\ "legacy" \in task'[t].kind)
      BY <1>0, <1>1, <1>2, <1>3, <2>2, <2>3, <2>4
    <3> QED
      BY <1>2, <1>3, <3>1, <3>2 DEF RowOK
  <2>5. CASE delta # 0
    <3>1. effects[k]["funding"] = 0
      BY <1>2, <2>2 DEF Inv, KeyInv, OpOK, Steps
    <3>2. Outstanding(k)' = delta
      BY <1>1, <1>7, <2>5, <3>1 DEF Outstanding
    <3>3. \A j \in Keys : j[1] = t /\ outbox'[j].exists => j = k
      BY <1>7, <2>2
    <3>4. paid'[t] = Owed(t)' - Outstanding(k)'
      BY <1>0, <1>1, <2>2, <2>3, <2>5, <3>2
    <3> QED
      BY <1>2, <1>3, <1>7, <2>5, <3>3, <3>4 DEF RowOK
  <2> QED
    BY <2>4, <2>5
<1>9. \A q \in Tasks \ {t} : Unrefreshed(q)' => RowOK(q)'
  <2>1. \A q \in Tasks \ {t} : Untouched(q)
    BY <1>1, <1>2, <1>3, <1>7 DEF Untouched
  <2> QED
    BY <2>1, UntouchedRow DEF PayInv
<1> QED
  BY <1>4, <1>8, <1>9 DEF PayInv

\* Success settles the difference, failure returns all, a legacy task that
\* times out returns nothing.
LEMMA FinalizePay ==
    ASSUME Inv, PayInv, NEW p \in Procs,
           \/ \E actual \in 0..MaxQuota : FinalizeSuccess(p, actual)
           \/ FinalizeFailure(p)
           \/ TimeoutLegacy(p)
    PROVE  PayInv'
<1> DEFINE quota == proc[p].snap.quota
<1>1. /\ quota \in Nat /\ -quota \in Int /\ 0 \in Int /\ 0 \in 0..MaxQuota
      /\ \A actual \in 0..MaxQuota :
            actual \in Nat /\ actual - quota \in Int /\ quota = actual - (actual - quota)
      /\ quota = quota - 0 /\ quota = 0 - (-quota)
      /\ "SUCCESS" \in Terminal /\ "FAILURE" \in Terminal /\ "FAILURE" # "SUCCESS"
  BY FinalizeIsTransition, ConstantsAssumption DEF Terminal
<1>2. ASSUME NEW actual \in 0..MaxQuota, Transition(p, "SUCCESS", actual, actual, actual - quota)
      PROVE  PayInv'
  BY <1>1, <1>2, TransitionPay
<1>3. ASSUME Transition(p, "SUCCESS", quota, 0, 0) PROVE PayInv'
  BY <1>1, <1>3, TransitionPay
<1>4. ASSUME Transition(p, "FAILURE", quota, 0, -quota) PROVE PayInv'
  BY <1>1, <1>4, TransitionPay
<1>5. ASSUME Transition(p, "FAILURE", quota, 0, 0), "legacy" \in task[proc[p].task].kind
      PROVE PayInv'
  BY <1>1, <1>5, TransitionPay
<1> QED
  BY <1>2, <1>3, <1>4, <1>5, FinalizeIsTransition

\* Every step keeps PayInv.
LEMMA PayStep == Inv /\ PayInv /\ [Next]_vars => PayInv'
<1> SUFFICES ASSUME Inv, PayInv, [Next]_vars PROVE PayInv'
  OBVIOUS
<1>1. ASSUME NEW p \in Procs, Poll(p) PROVE PayInv'
  BY <1>1, ReadPay, UpdatePay, FinalizePay, WorkPay DEF Poll
<1>2. ASSUME NEW p \in Procs, Work(p) PROVE PayInv'
  BY <1>2, WorkPay, FundingPay DEF Work
<1>3. ASSUME NEW k \in Keys, Time(k) PROVE PayInv'
  <2>1. PICK op : /\ outbox' = [outbox EXCEPT ![k] = op]
                  /\ \/ op = [outbox[k] EXCEPT !.running = FALSE]
                     \/ op = [outbox[k] EXCEPT !.ready = TRUE]
    BY <1>3 DEF Time, LeaseExpires, BackoffEnds
  <2>2. op \in Operations /\ op.exists = outbox[k].exists /\ op.delta = outbox[k].delta
    <3>1. outbox[k] \in Operations
      BY DEF Inv, TypeOK
    <3> QED
      BY <2>1, <3>1 DEF Operations
  <2> QED
    BY <1>3, <2>1, <2>2, OutboxPay DEF Time, LeaseExpires, BackoffEnds
<1>4. ASSUME NEW t \in Tasks, PayerChanges(t) PROVE PayInv'
  BY <1>4, QuietPay DEF PayerChanges
<1>5. CASE UNCHANGED vars
  BY <1>5, QuietPay DEF vars
<1> QED
  BY <1>1, <1>2, <1>3, <1>4, <1>5 DEF Next

\* A submitted task is paid and has no operation.
LEMMA PayInit == Init => PayInv
<1> SUFFICES ASSUME Init PROVE PayInv
  OBVIOUS
<1>1. \A t \in Tasks : task[t].status = "QUEUED" /\ paid[t] = task[t].quota
  <2>1. PICK submitted \in [Tasks -> Submissions] :
          /\ task = [t \in Tasks |-> [status |-> "QUEUED", quota |-> submitted[t].quota,
                                      kind |-> submitted[t].kind]]
          /\ paid = [t \in Tasks |-> submitted[t].quota]
    BY DEF Init
  <2> QED
    BY <2>1
<1>2. \A k \in Keys : ~outbox[k].exists
  BY DEF Init, NoOperation
<1>3. \A t \in Tasks : RowOK(t)
  BY <1>1, <1>2 DEF RowOK, Pending, Terminal
<1>4. \A p \in Procs : PollOK(proc[p])
  BY DEF Init, PollOK, Idle
<1> QED
  BY <1>3, <1>4 DEF PayInv

-----------------------------------------------------------------------------
(* The properties. *)

\* Every reachable state is well typed: no quota of a task becomes negative.
THEOREM TypeCorrect == Spec => []TypeOK
<1>1. Inv => TypeOK
  BY DEF Inv
<1> QED
  BY <1>1, InvInit, InvStep, PTL DEF Spec

\* However many processes work on an operation, overtake each other, fail and
\* resume it, no step takes effect twice, for tasks that are refreshed too.
THEOREM AtMostOnce == Spec => []EffectsAtMostOnce
<1>1. Inv => EffectsAtMostOnce
  BY DEF Inv, KeyInv, OpOK, EffectsAtMostOnce
<1> QED
  BY <1>1, InvInit, InvStep, PTL DEF Spec

\* A flag is never ahead of its effect, and only a row with every flag is
\* complete: resuming loses nothing.
THEOREM FlagsAreBacked == Spec => []FlagsImplyEffects
<1>1. Inv => FlagsImplyEffects
  BY DEF Inv, KeyInv, OpOK, FlagsImplyEffects
<1> QED
  BY <1>1, InvInit, InvStep, PTL DEF Spec

\* When a terminal task that only the polling loop moves has nothing left to
\* do its user has paid its final quota, or nothing if it failed.
THEOREM PaidInFull == Spec => []SettledInFull
<1>1. Inv /\ PayInv => SettledInFull
  <2> SUFFICES ASSUME Inv, PayInv, NEW t \in Tasks, Unrefreshed(t),
                      \A k \in OperationsOf(t) : outbox[k].completed
               PROVE  /\ task[t].status = "SUCCESS" => paid[t] = task[t].quota
                      /\ task[t].status = "FAILURE" =>
                           paid[t] = 0 \/ ("legacy" \in task[t].kind /\ OperationsOf(t) = {})
    BY DEF SettledInFull
  <2>1. RowOK(t) /\ Owed(t) \in Int
    BY DEF PayInv, Inv, TypeOK, Owed
  <2>2. CASE OperationsOf(t) = {}
    <3>1. \A k \in Keys : k[1] = t => ~outbox[k].exists
      BY <2>2 DEF OperationsOf
    <3> QED
      BY <2>1, <2>2, <3>1 DEF RowOK, Owed, Terminal
  <2>3. ASSUME NEW k \in OperationsOf(t) PROVE paid[t] = Owed(t)
    <3>1. k \in Keys /\ k[1] = t /\ outbox[k].exists /\ outbox[k].completed
      BY <2>3 DEF OperationsOf
    <3>2. effects[k]["funding"] > 0 /\ effects[k]["funding"] \in Nat
      BY <3>1 DEF Inv, TypeOK, KeyInv, OpOK, Needed, Steps
    <3>3. Outstanding(k) = 0
      BY <3>2 DEF Outstanding
    <3> QED
      BY <2>1, <3>1, <3>3 DEF RowOK
  <2> QED
    BY <2>2, <2>3 DEF Owed
<1> QED
  BY <1>1, InvInit, InvStep, PayInit, PayStep, PTL DEF Spec

\* Which operations exist changes only when a task is finalized.
LEMMA OperationsStay ==
    ASSUME Inv, [Next]_vars, NEW t \in Tasks,
           \A p \in Procs : \A status, final, stage, delta :
                Transition(p, status, final, stage, delta) => proc[p].task # t
    PROVE  OperationsOf(t)' = OperationsOf(t)
<1> SUFFICES \A k \in Keys : k[1] = t => outbox'[k].exists = outbox[k].exists
  BY DEF OperationsOf
<1> DEFINE Same == \A k \in Keys : k[1] = t => outbox'[k].exists = outbox[k].exists
<1>1. outbox \in [Keys -> Operations]
  BY DEF Inv, TypeOK
<1>2. ASSUME NEW q \in Keys, NEW op, outbox' = [outbox EXCEPT ![q] = op],
             op.exists = outbox[q].exists
      PROVE  Same
  BY <1>1, <1>2
<1>3. ASSUME NEW q \in Keys
      PROVE  /\ outbox[q] \in Operations
             /\ \A s : Flagged(q, s).exists = outbox[q].exists
  BY <1>1 DEF Operations, Flagged
<1>4. ASSUME NEW p \in Procs, Work(p) PROVE Same
  <2>1. ASSUME NEW q \in Keys, Claim(p, q) PROVE Same
    BY <1>2, <1>3, <2>1 DEF Claim, Operations
  <2>2. ASSUME NEW s \in Steps, MarkTaskBillingOperationStep(p, s) PROVE Same
    <3>1. proc[p].key \in Keys
      BY <2>2, Busy DEF MarkTaskBillingOperationStep
    <3> QED
      BY <1>2, <1>3, <2>2, <3>1 DEF MarkTaskBillingOperationStep
  <2>3. ASSUME NEW s \in Steps, ApplyAtomic(p, s) PROVE Same
    <3>1. proc[p].key \in Keys
      BY <2>3, Busy DEF ApplyAtomic
    <3> QED
      BY <1>2, <1>3, <2>3, <3>1 DEF ApplyAtomic
  <2>4. ASSUME CompleteTaskBillingOperation(p) PROVE Same
    <3>1. proc[p].key \in Keys
      BY <2>4, Busy DEF CompleteTaskBillingOperation
    <3> QED
      BY <1>2, <1>3, <2>4, <3>1 DEF CompleteTaskBillingOperation, Operations
  <2>5. ASSUME RetryTaskBillingOperation(p) PROVE Same
    <3>1. proc[p].key \in Keys
      BY <2>5, Busy DEF RetryTaskBillingOperation
    <3> QED
      BY <1>2, <1>3, <2>5, <3>1 DEF RetryTaskBillingOperation, Operations
  <2> QED
    BY <1>4, <2>1, <2>2, <2>3, <2>4, <2>5
    DEF Work, ClaimLost, ReadClaim, ClaimOvertaken, ApplyMarked, Crash
<1>5. ASSUME NEW p \in Procs, Poll(p) PROVE Same
  <2>1. ASSUME NEW status, NEW final, NEW stage, NEW delta,
               Transition(p, status, final, stage, delta)
        PROVE  Same
    <3>1. proc[p].task # t /\ <<proc[p].task, stage>>[1] # t
      BY <2>1
    <3> QED
      BY <1>1, <2>1, <3>1 DEF Transition
  <2> QED
    BY <1>5, <2>1
    DEF Poll, PollTask, FetchTask, ReadTask, UpdateWithStatus, GiveUpPolling,
        FinalizeSuccess, FinalizeFailure, TimeoutLegacy
<1>6. ASSUME NEW q \in Keys, Time(q) PROVE Same
  BY <1>2, <1>3, <1>6 DEF Time, LeaseExpires, BackoffEnds, Operations
<1>7. CASE UNCHANGED vars
  BY <1>7 DEF vars
<1>8. ASSUME NEW q \in Tasks, PayerChanges(q) PROVE Same
  BY <1>8 DEF PayerChanges
<1> QED
  BY <1>4, <1>5, <1>6, <1>7, <1>8 DEF Next

\* No step rewrites a terminal task that only the polling loop moves, or adds
\* an operation to it: a transition needs the status the process read, and
\* that one is not terminal.
THEOREM TerminalStays == Spec => TerminalIsFinal
<1>1. ASSUME Inv, PayInv, [Next]_vars, NEW t \in Tasks, Unrefreshed(t),
             task[t].status \in Terminal
      PROVE  task'[t] = task[t] /\ OperationsOf(t)' = OperationsOf(t)
  <2>1. ASSUME NEW p \in Procs, proc[p].pc = "polling",
               task[proc[p].task].status = proc[p].snap.status
        PROVE  proc[p].task # t
    BY <1>1, <2>1, SavesPending DEF Pending, Terminal
  <2>2. OperationsOf(t)' = OperationsOf(t)
    BY <1>1, <2>1, OperationsStay DEF Transition
  <2>3. ASSUME NEW p \in Procs, Poll(p) PROVE task'[t] = task[t]
    <3>1. ASSUME NEW status, UpdateWithStatus(p, status) PROVE task'[t] = task[t]
      BY <1>1, <2>1, <3>1 DEF UpdateWithStatus, Inv, TypeOK
    <3>2. ASSUME NEW status, NEW final, NEW stage, NEW delta,
                 Transition(p, status, final, stage, delta)
          PROVE  task'[t] = task[t]
      BY <1>1, <2>1, <3>2 DEF Transition, Inv, TypeOK
    <3> QED
      BY <2>3, <3>1, <3>2
      DEF Poll, PollTask, FetchTask, ReadTask, GiveUpPolling, FinalizeSuccess,
          FinalizeFailure, TimeoutLegacy
  <2>4. ASSUME NEW p \in Procs, Work(p) PROVE task' = task
    BY <2>4
    DEF Work, Claim, ClaimLost, ReadClaim, ClaimOvertaken, ApplyMarked, Crash, ApplyAtomic,
        MarkTaskBillingOperationStep, CompleteTaskBillingOperation, RetryTaskBillingOperation
  <2>5. ASSUME NEW k \in Keys, Time(k) PROVE task' = task
    BY <2>5 DEF Time, LeaseExpires, BackoffEnds
  <2>6. ASSUME NEW q \in Tasks, PayerChanges(q) PROVE task' = task
    BY <2>6 DEF PayerChanges
  <2>7. CASE UNCHANGED vars
    BY <2>2, <2>7 DEF vars
  <2> QED
    BY <1>1, <2>2, <2>3, <2>4, <2>5, <2>6, <2>7 DEF Next
<1>2. ASSUME Inv, PayInv, [Next]_vars
      PROVE  [\A t \in Tasks : Unrefreshed(t) /\ task[t].status \in Terminal =>
                task'[t] = task[t] /\ OperationsOf(t)' = OperationsOf(t)]_vars
  BY <1>1, <1>2
<1> QED
  BY <1>2, InvInit, InvStep, PayInit, PayStep, PTL DEF Spec, TerminalIsFinal

\* A completed operation is never reopened or leased, and a process that was
\* overtaken adds no effect to it: its funding and its log are replays.
THEOREM CompletedStays == Spec => CompletedIsFinal
<1>1. ASSUME Inv, [Next]_vars, NEW k \in Keys, outbox[k].completed
      PROVE  /\ outbox'[k].completed /\ outbox'[k].lease = NoProc
             /\ \A s \in Steps \ {"cache"} : effects'[k][s] = effects[k][s]
  <2> DEFINE Same == /\ outbox'[k].completed /\ outbox'[k].lease = NoProc
                     /\ \A s \in Steps \ {"cache"} : effects'[k][s] = effects[k][s]
  <2>1. /\ TypeOK /\ outbox[k] \in Operations
        /\ outbox[k].exists /\ outbox[k].lease = NoProc
        /\ effects[k]["funding"] > 0 /\ effects[k]["log"] > 0
    BY <1>1 DEF Inv, TypeOK, KeyInv, OpOK, Needed, Steps
  <2>2. ASSUME NEW p \in Procs, Fenced(p) PROVE proc[p].key # k
    BY <1>1, <2>2 DEF Fenced
  <2>3. ASSUME NEW p \in Procs, NEW status, NEW final, NEW stage, NEW delta,
               Transition(p, status, final, stage, delta)
        PROVE  Same
    BY <1>1, <2>1, <2>3 DEF Transition, TypeOK
  <2>4. ASSUME NEW p \in Procs, NEW s \in Steps, ApplyMarked(p, s) PROVE Same
    <3>1. PICK eff \in [Steps -> Nat] :
            /\ effects' = [effects EXCEPT ![proc[p].key] = eff]
            /\ eff[s] = 1
            /\ \A q \in Steps \ {s} : eff[q] = effects[proc[p].key][q]
      BY <1>1, <2>4, MarkedEffect
    <3>2. UNCHANGED outbox /\ s \in MarkedSteps
      BY <2>4 DEF ApplyMarked
    <3>3. CASE proc[p].key # k
      BY <1>1, <2>1, <3>1, <3>2, <3>3 DEF TypeOK
    <3>4. CASE proc[p].key = k
      <4>1. effects'[k] = eff
        BY <2>1, <3>1, <3>4 DEF TypeOK
      <4>2. s = "cache" \/ (effects[k][s] > 0 /\ effects[k][s] <= 1 /\ effects[k][s] \in Nat)
        BY <1>1, <2>1, <3>2 DEF MarkedSteps, Inv, TypeOK, KeyInv, OpOK
      <4>3. s = "cache" \/ eff[s] = effects[k][s]
        BY <3>1, <4>2
      <4> QED
        BY <1>1, <2>1, <3>1, <3>2, <3>4, <4>1, <4>3
    <3> QED
      BY <3>3, <3>4
  <2>5. ASSUME NEW q \in Keys, NEW op, q # k \/ (op.completed /\ op.lease = NoProc),
               outbox' = [outbox EXCEPT ![q] = op], UNCHANGED effects
        PROVE  Same
    BY <1>1, <2>1, <2>5 DEF TypeOK
  <2>6. ASSUME NEW p \in Procs, Work(p) PROVE Same
    <3>1. ASSUME NEW q \in Keys, Claim(p, q) PROVE Same
      BY <1>1, <2>5, <3>1 DEF Claim, Claimable
    <3>2. ASSUME NEW s \in Steps, MarkTaskBillingOperationStep(p, s) PROVE Same
      <4>1. proc[p].key \in Keys /\ proc[p].key # k
        BY <1>1, <2>2, <3>2, Busy DEF MarkTaskBillingOperationStep
      <4> QED
        BY <2>5, <3>2, <4>1 DEF MarkTaskBillingOperationStep
    <3>3. ASSUME NEW s \in Steps, ApplyAtomic(p, s) PROVE Same
      <4>1. proc[p].key # k
        BY <2>2, <3>3 DEF ApplyAtomic
      <4> QED
        BY <1>1, <2>1, <3>3, <4>1 DEF ApplyAtomic, TypeOK
    <3>4. ASSUME CompleteTaskBillingOperation(p) PROVE Same
      <4>1. proc[p].key # k
        BY <2>2, <3>4 DEF CompleteTaskBillingOperation
      <4> QED
        BY <1>1, <2>1, <3>4, <4>1 DEF CompleteTaskBillingOperation, TypeOK
    <3>5. ASSUME RetryTaskBillingOperation(p) PROVE Same
      BY <1>1, <2>1, <2>2, <3>5 DEF RetryTaskBillingOperation, TypeOK
    <3>6. ASSUME ClaimLost(p) \/ ReadClaim(p) \/ ClaimOvertaken(p) \/ Crash(p) PROVE Same
      BY <1>1, <2>1, <3>6 DEF ClaimLost, ReadClaim, ClaimOvertaken, Crash
    <3> QED
      BY <2>4, <2>6, <3>1, <3>2, <3>3, <3>4, <3>5, <3>6 DEF Work
  <2>7. ASSUME UNCHANGED <<outbox, effects>> PROVE Same
    BY <1>1, <2>1, <2>7
  <2>8. ASSUME NEW p \in Procs, Poll(p) PROVE Same
    BY <2>3, <2>7, <2>8
    DEF Poll, PollTask, FetchTask, ReadTask, UpdateWithStatus, GiveUpPolling, FinalizeSuccess,
        FinalizeFailure, TimeoutLegacy
  <2>9. ASSUME NEW q \in Keys, Time(q) PROVE Same
    <3>1. PICK op : /\ outbox' = [outbox EXCEPT ![q] = op] /\ UNCHANGED effects
                    /\ \/ op = [outbox[q] EXCEPT !.running = FALSE]
                       \/ op = [outbox[q] EXCEPT !.ready = TRUE]
      BY <2>9 DEF Time, LeaseExpires, BackoffEnds
    <3>2. outbox[q] \in Operations
      BY <2>1 DEF TypeOK
    <3>3. op.completed = outbox[q].completed /\ op.lease = outbox[q].lease
      BY <3>1, <3>2 DEF Operations
    <3> QED
      BY <1>1, <2>1, <2>5, <3>1, <3>3
  <2>10. ASSUME NEW t \in Tasks, PayerChanges(t) PROVE Same
    BY <2>7, <2>10 DEF PayerChanges
  <2>11. CASE UNCHANGED vars
    BY <2>7, <2>11 DEF vars
  <2> QED
    BY <1>1, <2>6, <2>8, <2>9, <2>10, <2>11 DEF Next
<1>2. ASSUME Inv, [Next]_vars
      PROVE  [\A k \in Keys : outbox[k].completed =>
                outbox'[k].completed /\ outbox'[k].lease = NoProc
                /\ \A s \in Steps \ {"cache"} : effects'[k][s] = effects[k][s]]_vars
  BY <1>1, <1>2
<1> QED
  BY <1>2, InvInit, InvStep, PTL DEF Spec, CompletedIsFinal
=============================================================================
