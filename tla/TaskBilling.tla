----------------------------- MODULE TaskBilling -----------------------------
(***************************************************************************)
(* Asynchronous tasks and their billing outbox: service/task_polling.go,   *)
(* service/task_billing_operation.go, model/task_billing_operation.go.     *)
(*                                                                         *)
(* A process is one goroutine of one node: the polling loop, the request   *)
(* that refreshes a task, or the outbox ticker.  Each database statement   *)
(* or transaction is one action; between any two of them the process may   *)
(* be overtaken, lose its lease, fail or die.                              *)
(*                                                                         *)
(* Time is abstracted to what the row records: whether the lease of a row  *)
(* is still running (lease_until > now) and whether its back-off is over   *)
(* (next_attempt_at <= now).  A process holds at most one claim on a row   *)
(* and a new claim of the same process starts only after the old one is    *)
(* abandoned, so the process itself stands for the random lease token of   *)
(* its claim.  A batch of claims is a set of processes, each with one.     *)
(***************************************************************************)
EXTENDS Integers

CONSTANTS
    Tasks,          \* rows of table tasks
    Procs,          \* goroutines, on any node
    MaxQuota,       \* bound on the quota a completed task turns out to cost
    Submissions,    \* the tasks that are submitted: quota held and kind
    NoTask, NoProc

\* What the columns of a task say of it for good: it was submitted with an API
\* token (TokenId), before the legacy cut-off (SubmitTime), paid from a
\* subscription (BillingSource), through a Gemini or Vertex channel, whose
\* tasks are refreshed when they are read (ChannelId).
Kinds == {"token", "legacy", "subscription", "realtime"}

ASSUME ConstantsAssumption ==
    /\ MaxQuota \in Nat
    /\ Submissions \subseteq [quota : Nat, kind : SUBSET Kinds]
    /\ NoTask \notin Tasks
    /\ NoProc \notin Procs

VARIABLES
    task,       \* table tasks: status, quota and kind
    payer,      \* whether the task's user or subscription covers a charge, or is gone
    paid,       \* what was taken for the task, less what was returned
    outbox,     \* table task_billing_operations, by operation key
    proc,       \* the local state of each process
    effects     \* how often each step's effect was committed, by operation key

vars == <<task, payer, paid, outbox, proc, effects>>

-----------------------------------------------------------------------------
(* Steps of an operation, in the order processClaimedTaskBillingOperation    *)
(* takes them.  Funding, cache and log are applied outside the outbox row,   *)
(* each idempotently, and marked afterwards; token and usage are applied and *)
(* marked in one transaction.                                                *)

Steps == {"funding", "token", "cache", "usage", "log"}

MarkedSteps == {"funding", "cache", "log"}

AtomicSteps == {"token", "usage"}

Before == [funding |-> {}, token |-> {"funding"}, cache |-> {"funding", "token"},
           usage |-> {"funding", "token", "cache"},
           log |-> {"funding", "token", "cache", "usage"}]

\* s is the first step that the local copy of the flags does not show applied.
IsNext(s, seen) == s \notin seen /\ Before[s] \subseteq seen

Pending == {"QUEUED", "IN_PROGRESS"}

Terminal == {"SUCCESS", "FAILURE"}

Status == Pending \cup Terminal

\* taskBillingOperationKey: stage 0 is the refund of the task, stage n > 0 its
\* settlement at n (recalculate_n).
Keys == Tasks \X (0..MaxQuota)

\* applied: the step flags; lease: the holder of lease_token; running:
\* lease_until > now; ready: next_attempt_at <= now.
Operations ==
    [exists : BOOLEAN, delta : Int, applied : SUBSET Steps, completed : BOOLEAN,
     lease : Procs \cup {NoProc}, running : BOOLEAN, ready : BOOLEAN]

NoOperation ==
    [exists |-> FALSE, delta |-> 0, applied |-> {}, completed |-> FALSE,
     lease |-> NoProc, running |-> FALSE, ready |-> FALSE]

\* Faulty variant: the token steps are taken as done for every task.
NewOperationTokenDone(t, delta) ==
    [exists |-> TRUE, delta |-> delta, applied |-> {"token", "cache"},
     completed |-> FALSE, lease |-> NoProc, running |-> FALSE, ready |-> TRUE]

\* normalizeTaskBillingOperation: without a token its two steps are done.
NewOperation(t, delta) ==
    [exists |-> TRUE, delta |-> delta,
     applied |-> IF "token" \in task[t].kind THEN {} ELSE {"token", "cache"},
     completed |-> FALSE, lease |-> NoProc, running |-> FALSE, ready |-> TRUE]

\* The steps that have an effect for the task.
Needed(t) == IF "token" \in task[t].kind THEN Steps ELSE Steps \ {"token", "cache"}

\* The local copy of a task row: a process writes every column back.
Snapshots == [status : Status, quota : Nat]

NoKey == <<NoTask, 0>>

Processes ==
    [pc : {"idle", "polling", "finalized", "claimed", "apply", "mark"},
     task : Tasks \cup {NoTask}, snap : Snapshots, key : Keys \cup {NoKey},
     seen : SUBSET Steps]

Idle ==
    [pc |-> "idle", task |-> NoTask, snap |-> [status |-> "QUEUED", quota |-> 0],
     key |-> NoKey, seen |-> {}]

Become(p, state) == proc' = [proc EXCEPT ![p] = state]

-----------------------------------------------------------------------------
Init ==
    /\ \E submitted \in [Tasks -> Submissions] :
        /\ task = [t \in Tasks |-> [status |-> "QUEUED", quota |-> submitted[t].quota,
                                    kind |-> submitted[t].kind]]
        /\ paid = [t \in Tasks |-> submitted[t].quota]
    /\ payer = [t \in Tasks |-> "able"]
    /\ outbox = [k \in Keys |-> NoOperation]
    /\ proc = [p \in Procs |-> Idle]
    /\ effects = [k \in Keys |-> [s \in Steps |-> 0]]

(* Polling, and the refresh of a task that its user asks for. *)

\* The row is read, and acted upon after the upstream has answered.
ReadTask(p, t) ==
    /\ proc[p].pc = "idle"
    /\ Become(p, [Idle EXCEPT !.pc = "polling", !.task = t,
                              !.snap = [status |-> task[t].status, quota |-> task[t].quota]])
    /\ UNCHANGED <<task, payer, paid, outbox, effects>>

\* GetAllUnFinishSyncTasks, GetTimedOutUnfinishedTasks: the loop reads tasks
\* that are not finished.
PollTask(p, t) == task[t].status \in Pending /\ ReadTask(p, t)

\* tryRealtimeFetch: a request refreshes the task whatever its status is.
FetchTask(p, t) == "realtime" \in task[t].kind /\ ReadTask(p, t)

\* The row of t with every column as in the local copy, except these.
Saved(t, status, quota) == [task[t] EXCEPT !.status = status, !.quota = quota]

\* Faulty variant: the row is saved whatever its status is by now.
SaveStatus(p, status) ==
    LET t == proc[p].task IN
    /\ proc[p].pc = "polling"
    /\ status \in Terminal => status = proc[p].snap.status
    /\ task' = [task EXCEPT ![t] = Saved(t, status, proc[p].snap.quota)]
    /\ Become(p, Idle)
    /\ UNCHANGED <<payer, paid, outbox, effects>>

\* UpdateWithStatus: compare and swap on the status read.  The new status is
\* not terminal, or it is the one that was read and other columns differ.
UpdateWithStatus(p, status) ==
    LET t == proc[p].task IN
    /\ proc[p].pc = "polling"
    /\ status \in Terminal => status = proc[p].snap.status
    /\ task[t].status = proc[p].snap.status
    /\ task' = [task EXCEPT ![t] = Saved(t, status, proc[p].snap.quota)]
    /\ Become(p, Idle)
    /\ UNCHANGED <<payer, paid, outbox, effects>>

\* TransitionTaskWithBillingOperation: compare and swap on the status read, and
\* the outbox row in the same transaction, which fails when the operation key
\* is taken.  Without a billing effect there is no operation.
Transition(p, status, final, stage, delta) ==
    LET t == proc[p].task
        key == <<t, stage>>
    IN
    /\ proc[p].pc = "polling"
    /\ proc[p].snap.status # status
    /\ task[t].status = proc[p].snap.status
    /\ task' = [task EXCEPT ![t] = Saved(t, status, final)]
    /\ \/ /\ delta = 0
          /\ outbox' = outbox
          /\ Become(p, Idle)
       \/ /\ delta # 0
          /\ ~outbox[key].exists
          /\ outbox' = [outbox EXCEPT ![key] = NewOperation(t, delta)]
          /\ Become(p, [Idle EXCEPT !.pc = "finalized", !.key = key])
    /\ UNCHANGED <<payer, paid, effects>>

\* Faulty variant: the whole quota is charged on top of what was consumed.
FinalizeChargingAll(p, actual) ==
    LET quota == proc[p].snap.quota IN
    IF actual > 0 THEN Transition(p, "SUCCESS", actual, actual, actual)
                  ELSE Transition(p, "SUCCESS", quota, 0, 0)

\* FinalizeTaskTransition, SUCCESS: actual <= 0 leaves the quota as it is,
\* otherwise the difference to the quota read is settled.
FinalizeSuccess(p, actual) ==
    LET quota == proc[p].snap.quota IN
    IF actual > 0 THEN Transition(p, "SUCCESS", actual, actual, actual - quota)
                  ELSE Transition(p, "SUCCESS", quota, 0, 0)

\* FinalizeTaskTransition, FAILURE: the quota read is returned.
FinalizeFailure(p) ==
    Transition(p, "FAILURE", proc[p].snap.quota, 0, -proc[p].snap.quota)

\* sweepTimedOutTasks: an unfinished legacy task times out without a refund.
TimeoutLegacy(p) ==
    /\ proc[p].pc = "polling"
    /\ proc[p].snap.status \in Pending
    /\ "legacy" \in task[proc[p].task].kind
    /\ Transition(p, "FAILURE", proc[p].snap.quota, 0, 0)

\* The swap is lost, the operation key is taken, the upstream has no news, or
\* the process dies.
GiveUpPolling(p) ==
    /\ proc[p].pc = "polling"
    /\ Become(p, Idle)
    /\ UNCHANGED <<task, payer, paid, outbox, effects>>

-----------------------------------------------------------------------------
(* The outbox. *)

\* Faulty variants: a completed row can be claimed; a row with a lease token is
\* never claimed, expired or not.
ClaimableAgain(k) == outbox[k].exists /\ ~outbox[k].running /\ outbox[k].ready

ClaimableUnleased(k) ==
    /\ outbox[k].exists
    /\ ~outbox[k].completed
    /\ outbox[k].lease = NoProc
    /\ outbox[k].ready

Claimable(k) ==
    /\ outbox[k].exists
    /\ ~outbox[k].completed
    /\ ~outbox[k].running
    /\ outbox[k].ready

\* claimTaskBillingOperation, from the ticker or right after the transition.
Claim(p, k) ==
    /\ proc[p].pc = "idle" \/ (proc[p].pc = "finalized" /\ proc[p].key = k)
    /\ Claimable(k)
    /\ outbox' = [outbox EXCEPT ![k] = [@ EXCEPT !.lease = p, !.running = TRUE]]
    /\ Become(p, [Idle EXCEPT !.pc = "claimed", !.key = k])
    /\ UNCHANGED <<task, payer, paid, effects>>

\* Another process claimed the new row first.
ClaimLost(p) ==
    /\ proc[p].pc = "finalized"
    /\ ~Claimable(proc[p].key)
    /\ Become(p, Idle)
    /\ UNCHANGED <<task, payer, paid, outbox, effects>>

\* The operation with the flag of s set and its lease renewed.
Flagged(k, s) == [outbox[k] EXCEPT !.applied = @ \cup {s}, !.running = TRUE]

\* The effects with one more of s; invalidating a cache entry again adds nothing.
Counted(k, s) == [effects[k] EXCEPT ![s] = IF s = "cache" THEN 1 ELSE @ + 1]

\* The condition on the lease token that guards every write of the worker.
Fenced(p) ==
    LET k == proc[p].key IN outbox[k].lease = p /\ ~outbox[k].completed

\* The claimed row is read back by its lease token; its flags are the local copy.
ReadClaim(p) ==
    LET k == proc[p].key IN
    /\ proc[p].pc = "claimed"
    /\ outbox[k].lease = p
    /\ Become(p, [proc[p] EXCEPT !.pc = "apply", !.seen = outbox[k].applied])
    /\ UNCHANGED <<task, payer, paid, outbox, effects>>

\* The lease ran out and was taken before the row was read back.
ClaimOvertaken(p) ==
    /\ proc[p].pc = "claimed"
    /\ outbox[proc[p].key].lease # p
    /\ Become(p, Idle)
    /\ UNCHANGED <<task, payer, paid, outbox, effects>>

\* The funding mutation goes through: a charge needs a balance, and the row of
\* the user or of the subscription must exist.
Payable(k) ==
    \/ payer[k[1]] = "able"
    \/ payer[k[1]] = "broke" /\ outbox[k].delta < 0

\* A funding mutation whose key is in the journal is answered from it, in the
\* wallet before the user is looked up, in a subscription after its row is.
Replayed(k) ==
    /\ effects[k]["funding"] > 0
    /\ "subscription" \in task[k[1]].kind => payer[k[1]] # "gone"

\* The effect of step s of operation k; funding moves the amount.
Commit(k, s) ==
    /\ effects' = [effects EXCEPT ![k] = Counted(k, s)]
    /\ paid' = IF s = "funding" THEN [paid EXCEPT ![k[1]] = @ + outbox[k].delta] ELSE paid

\* Faulty variant: the funding mutation and the log carry no idempotency key.
ApplyMarkedWithoutKey(p, s) ==
    LET k == proc[p].key IN
    /\ proc[p].pc = "apply"
    /\ IsNext(s, proc[p].seen)
    /\ s \in MarkedSteps
    /\ s = "funding" => Payable(k)
    /\ Commit(k, s)
    /\ Become(p, [proc[p] EXCEPT !.pc = "mark"])
    /\ UNCHANGED <<task, payer, outbox>>

\* The effect of a step that is marked afterwards.  The funding mutation and
\* the log are inserted once per operation key, a cache entry is invalidated
\* again.
ApplyMarked(p, s) ==
    LET k == proc[p].key
        replay == s \in {"funding", "log"} /\ effects[k][s] > 0
    IN
    /\ proc[p].pc = "apply"
    /\ IsNext(s, proc[p].seen)
    /\ s \in MarkedSteps
    /\ s = "funding" => IF replay THEN Replayed(k) ELSE Payable(k)
    /\ \/ replay /\ UNCHANGED <<effects, paid>>
       \/ ~replay /\ Commit(k, s)
    /\ Become(p, [proc[p] EXCEPT !.pc = "mark"])
    /\ UNCHANGED <<task, payer, outbox>>

\* MarkTaskBillingOperationStep, which also renews the lease.
MarkTaskBillingOperationStep(p, s) ==
    LET k == proc[p].key IN
    /\ proc[p].pc = "mark"
    /\ IsNext(s, proc[p].seen)
    /\ Fenced(p)
    /\ outbox' = [outbox EXCEPT ![k] = Flagged(k, s)]
    /\ Become(p, [proc[p] EXCEPT !.pc = "apply", !.seen = @ \cup {s}])
    /\ UNCHANGED <<task, payer, paid, effects>>

\* ApplyTaskBillingTokenStep, ApplyTaskBillingUsageStep: under the row lock, if
\* the flag is not set, the effect, the flag and the new lease.
ApplyAtomic(p, s) ==
    LET k == proc[p].key
        first == s \notin outbox[k].applied
    IN
    /\ proc[p].pc = "apply"
    /\ IsNext(s, proc[p].seen)
    /\ s \in AtomicSteps
    /\ Fenced(p)
    /\ effects' = IF first THEN [effects EXCEPT ![k] = Counted(k, s)] ELSE effects
    /\ outbox' = IF first THEN [outbox EXCEPT ![k] = Flagged(k, s)] ELSE outbox
    /\ Become(p, [proc[p] EXCEPT !.seen = @ \cup {s}])
    /\ UNCHANGED <<task, payer, paid>>

CompleteTaskBillingOperation(p) ==
    LET k == proc[p].key IN
    /\ proc[p].pc = "apply"
    /\ proc[p].seen = Steps
    /\ Fenced(p)
    /\ outbox[k].applied = Steps
    /\ outbox' = [outbox EXCEPT ![k] =
            [@ EXCEPT !.completed = TRUE, !.lease = NoProc, !.running = FALSE, !.ready = TRUE]]
    /\ Become(p, Idle)
    /\ UNCHANGED <<task, payer, paid, effects>>

\* A step fails, or finds its lease lost: RetryTaskBillingOperation releases
\* the row and delays it, if this process still holds it.
RetryTaskBillingOperation(p) ==
    LET k == proc[p].key IN
    /\ proc[p].pc \in {"apply", "mark"}
    /\ outbox' = IF Fenced(p)
                 THEN [outbox EXCEPT ![k] =
                         [@ EXCEPT !.lease = NoProc, !.running = FALSE, !.ready = FALSE]]
                 ELSE outbox
    /\ Become(p, Idle)
    /\ UNCHANGED <<task, payer, paid, effects>>

\* The process dies; the row keeps its lease until it expires.
Crash(p) ==
    /\ proc[p].pc \in {"finalized", "claimed", "apply", "mark"}
    /\ Become(p, Idle)
    /\ UNCHANGED <<task, payer, paid, outbox, effects>>

\* Time passes lease_until, whether or not the holder still works.
LeaseExpires(k) ==
    /\ outbox[k].running
    /\ outbox' = [outbox EXCEPT ![k] = [@ EXCEPT !.running = FALSE]]
    /\ UNCHANGED <<task, payer, paid, proc, effects>>

BackoffEnds(k) ==
    /\ outbox[k].exists
    /\ ~outbox[k].ready
    /\ outbox' = [outbox EXCEPT ![k] = [@ EXCEPT !.ready = TRUE]]
    /\ UNCHANGED <<task, payer, paid, proc, effects>>

\* The user spends or gains elsewhere; the user or the subscription is deleted.
PayerChanges(t) ==
    /\ payer[t] # "gone"
    /\ \E state \in {"able", "broke", "gone"} \ {payer[t]} :
        payer' = [payer EXCEPT ![t] = state]
    /\ UNCHANGED <<task, paid, outbox, proc, effects>>

-----------------------------------------------------------------------------
Poll(p) ==
    \/ \E t \in Tasks : PollTask(p, t) \/ FetchTask(p, t)
    \/ \E status \in Status : UpdateWithStatus(p, status)
    \/ \E actual \in 0..MaxQuota : FinalizeSuccess(p, actual)
    \/ FinalizeFailure(p)
    \/ TimeoutLegacy(p)
    \/ GiveUpPolling(p)

Work(p) ==
    \/ \E k \in Keys : Claim(p, k)
    \/ ClaimLost(p)
    \/ ReadClaim(p)
    \/ ClaimOvertaken(p)
    \/ \E s \in Steps : ApplyMarked(p, s) \/ MarkTaskBillingOperationStep(p, s) \/ ApplyAtomic(p, s)
    \/ CompleteTaskBillingOperation(p)
    \/ RetryTaskBillingOperation(p)
    \/ Crash(p)

Time(k) == LeaseExpires(k) \/ BackoffEnds(k)

Next ==
    \/ \E p \in Procs : Poll(p) \/ Work(p)
    \/ \E k \in Keys : Time(k)
    \/ \E t \in Tasks : PayerChanges(t)

Spec == Init /\ [][Next]_vars

\* p works on k and has not been overtaken.
Holds(p, k) == proc[p].key = k /\ Fenced(p)

\* Every node's ticker comes back every five seconds, so a claimable row is
\* claimed; time passes; a process that cannot go on returns; and since a step
\* takes milliseconds of a thirty-second lease, the holder of a row is not
\* overtaken, failed or killed every time it tries the same kind of step.
FairSpec ==
    /\ Spec
    /\ \A p \in Procs :
        WF_vars(\/ GiveUpPolling(p) \/ ClaimLost(p) \/ ClaimOvertaken(p)
                \/ RetryTaskBillingOperation(p))
    /\ \A k \in Keys :
        /\ WF_vars(LeaseExpires(k))
        /\ WF_vars(BackoffEnds(k))
        /\ SF_vars(\E p \in Procs : Claim(p, k))
        /\ SF_vars(\E p \in Procs : Holds(p, k) /\ ReadClaim(p))
        /\ SF_vars(\E p \in Procs, s \in Steps : Holds(p, k) /\ ApplyMarked(p, s))
        /\ SF_vars(\E p \in Procs, s \in Steps : Holds(p, k) /\ MarkTaskBillingOperationStep(p, s))
        /\ SF_vars(\E p \in Procs, s \in Steps : Holds(p, k) /\ ApplyAtomic(p, s))
        /\ SF_vars(\E p \in Procs : Holds(p, k) /\ CompleteTaskBillingOperation(p))

-----------------------------------------------------------------------------
(* Properties. *)

\* Every variable has its type.
TypeOK ==
    /\ task \in [Tasks -> [status : Status, quota : Nat, kind : SUBSET Kinds]]
    /\ payer \in [Tasks -> {"able", "broke", "gone"}]
    /\ paid \in [Tasks -> Int]
    /\ outbox \in [Keys -> Operations]
    /\ proc \in [Procs -> Processes]
    /\ effects \in [Keys -> [Steps -> Nat]]

\* No effect of an operation is applied twice, whichever processes work on the
\* row, overtake each other, fail and resume (task_billing_operation.go:22-24);
\* a task that is refreshed and fails a second time is not refunded again.
EffectsAtMostOnce ==
    \A k \in Keys : \A s \in Steps : effects[k][s] <= 1

\* A completed operation has had every effect, and a flag is never ahead of
\* its effect: a resumed row skips only what was done.
FlagsImplyEffects ==
    \A k \in Keys : outbox[k].exists =>
        /\ outbox[k].completed => outbox[k].applied = Steps
        /\ \A s \in outbox[k].applied \cap Needed(k[1]) : effects[k][s] > 0

OperationsOf(t) == {k \in Keys : k[1] = t /\ outbox[k].exists}

Unrefreshed(t) == "realtime" \notin task[t].kind

\* Once nothing is left to do for a terminal task the user has paid the task's
\* final quota, or nothing when it failed (docs/architecture.md rule 6); a
\* legacy task that timed out keeps its charge.  This is about tasks that only
\* the polling loop moves: tryRealtimeFetch can make a refunded task succeed
\* (relay_task.go:480-488) and then it is not paid.
SettledInFull ==
    \A t \in Tasks :
        Unrefreshed(t) /\ (\A k \in OperationsOf(t) : outbox[k].completed) =>
            /\ task[t].status = "SUCCESS" => paid[t] = task[t].quota
            /\ task[t].status = "FAILURE" =>
                  paid[t] = 0 \/ ("legacy" \in task[t].kind /\ OperationsOf(t) = {})

\* A process that polled an older status never overwrites a terminal row, and
\* nothing is added to the operation created with it, for tasks that only the
\* polling loop moves.
TerminalIsFinal ==
    [][\A t \in Tasks : Unrefreshed(t) /\ task[t].status \in Terminal =>
          task'[t] = task[t] /\ OperationsOf(t)' = OperationsOf(t)]_vars

\* "The task remains terminal" (docs/operations.md:53), whatever the channel.
\* The code does not keep this: a request for a finished Gemini or Vertex task
\* writes the upstream's status back (relay_task.go:502).
TaskRemainsTerminal ==
    [][\A t \in Tasks : task[t].status \in Terminal => task'[t].status \in Terminal]_vars

\* A completed operation stays completed and is never worked on again, also by
\* a process that still believes it holds the lease.
CompletedIsFinal ==
    [][\A k \in Keys : outbox[k].completed =>
          outbox'[k].completed /\ outbox'[k].lease = NoProc
          /\ \A s \in Steps \ {"cache"} : effects'[k][s] = effects[k][s]]_vars

\* "Expired leases and partially completed rows are resumed"
\* (docs/architecture.md rule 7): an operation whose funding can go through is
\* completed, or its funding stops being possible.  Nothing is promised while
\* the user cannot pay a charge, nor once the user or the subscription is
\* deleted: then a refund fails on every retry as well (subscription.go:1241).
OperationsComplete ==
    \A k \in Keys :
        (outbox[k].exists /\ Payable(k)) ~> (outbox[k].completed \/ ~Payable(k))
=============================================================================
