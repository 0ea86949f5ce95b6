-------------------------- MODULE QuotaLedgerProofs --------------------------
(***************************************************************************)
(* Theorems about QuotaLedger, for every set of users and requests and     *)
(* every bound.                                                            *)
(***************************************************************************)
EXTENDS QuotaLedger, TLAPS

-----------------------------------------------------------------------------
(* Type correctness. *)

\* A posted change leaves balances and journals well typed.
LEMMA PostType ==
    ASSUME TypeOK, NEW u \in Users, NEW key \in Keys, NEW delta \in Int,
           Post(u, key, delta)
    PROVE  /\ quota' \in [Users -> Int]
           /\ journal' \in [Users -> Seq(Rows)]
<1>1. quota' \in [Users -> Int]
  BY DEF Post, TypeOK
<1> DEFINE row == [key |-> key, delta |-> delta, before |-> quota[u], after |-> quota[u] + delta]
<1>2. row \in Rows
  BY DEF TypeOK, Rows
<1>3. journal[u] \in Seq(Rows)
  BY DEF TypeOK
<1>4. Append(journal[u], row) \in Seq(Rows)
  BY <1>2, <1>3
<1>5. journal' = [journal EXCEPT ![u] = Append(journal[u], row)]
  BY DEF Post
<1>6. journal' \in [Users -> Seq(Rows)]
  BY <1>4, <1>5 DEF TypeOK
<1> QED
  BY <1>1, <1>6

\* The same for a change that belongs to a hold.
LEMMA PostHoldType ==
    ASSUME TypeOK, NEW r \in Requests, NEW u \in Users, NEW op \in Ops,
           NEW version \in Nat, NEW delta \in Int,
           PostHold(r, u, op, version, delta)
    PROVE  /\ quota' \in [Users -> Int]
           /\ journal' \in [Users -> Seq(Rows)]
           /\ booked' \in [Requests -> Int]
<1>1. Key(r, op, version) \in Keys
  BY DEF Key, Keys
<1>2. Post(u, Key(r, op, version), delta)
  BY DEF PostHold
<1>3. booked' \in [Requests -> Int]
  BY DEF PostHold, TypeOK
<1> QED
  BY <1>1, <1>2, <1>3, PostType

\* Only a row that exists is listed and refunded, and it has an owner; typing
\* needs that, since the sweeper takes the user from the row.
Owned == \A r \in Requests : reservation[r].status # "none" => reservation[r].user \in Users

\* A refunded hold is a reservation row.
LEMMA RefundHoldType ==
    ASSUME TypeOK, NEW r \in Requests, NEW u \in Users, RefundHold(r, u)
    PROVE  /\ quota' \in [Users -> Int]
           /\ journal' \in [Users -> Seq(Rows)]
           /\ booked' \in [Requests -> Int]
           /\ reservation' \in [Requests -> Reservations]
<1>1. /\ reservation[r] \in Reservations
      /\ reservation[r].reserved \in Int
      /\ reservation[r].version + 1 \in Nat
  BY DEF TypeOK, Reservations
<1>2. /\ quota' \in [Users -> Int]
      /\ journal' \in [Users -> Seq(Rows)]
      /\ booked' \in [Requests -> Int]
  BY <1>1, PostHoldType DEF RefundHold, Ops
<1> DEFINE hold == [reservation[r] EXCEPT !.status = "refunded", !.version = @ + 1, !.expires = 0]
<1>3. hold \in Reservations
  BY <1>1 DEF Reservations
<1>4. reservation' = [reservation EXCEPT ![r] = hold]
  BY DEF RefundHold
<1>5. reservation' \in [Requests -> Reservations]
  BY <1>3, <1>4 DEF TypeOK
<1> QED
  BY <1>2, <1>5

\* Every action keeps the types.
LEMMA TypeStep == TypeOK /\ Owned /\ [Next]_vars => TypeOK'
<1> SUFFICES ASSUME TypeOK, Owned, [Next]_vars PROVE TypeOK'
  OBVIOUS
<1> USE ConstantsAssumption
<1>1. ASSUME NEW r \in Requests, NEW u \in Users, Client(r, u)
      PROVE TypeOK'
  <2>1. ASSUME NEW amount \in Amounts, ReserveUserQuota(r, u, amount)
        PROVE TypeOK'
    <3>1. amount \in Nat /\ -amount \in Int
      BY <2>1 DEF Amounts
    <3>2. /\ quota' \in [Users -> Int]
          /\ journal' \in [Users -> Seq(Rows)]
          /\ booked' \in [Requests -> Int]
      BY <2>1, <3>1, PostHoldType DEF ReserveUserQuota, Ops
    <3>3. reservation' \in [Requests -> Reservations]
      BY <2>1, <3>1 DEF ReserveUserQuota, TypeOK, Reservations
    <3> QED
      BY <2>1, <3>2, <3>3 DEF ReserveUserQuota, TypeOK
  <2>2. ASSUME NEW amount \in Amounts, ResizeUserQuotaReservation(r, u, amount)
        PROVE TypeOK'
    <3>1. /\ amount \in Nat
          /\ reservation[r] \in Reservations
          /\ reservation[r].version + 1 \in Nat
          /\ now + TTL \in Nat
          /\ reservation[r].reserved - amount \in Int
      BY <2>2 DEF Amounts, TypeOK, Reservations
    <3>2. /\ quota' \in [Users -> Int]
          /\ journal' \in [Users -> Seq(Rows)]
          /\ booked' \in [Requests -> Int]
      BY <2>2, <3>1, PostHoldType DEF ResizeUserQuotaReservation, Ops
    <3> DEFINE hold == [reservation[r] EXCEPT !.reserved = amount, !.version = @ + 1,
                                              !.expires = now + TTL]
    <3>3. hold \in Reservations
      BY <3>1 DEF Reservations
    <3>4. reservation' = [reservation EXCEPT ![r] = hold]
      BY <2>2 DEF ResizeUserQuotaReservation
    <3>5. reservation' \in [Requests -> Reservations]
      BY <3>3, <3>4 DEF TypeOK
    <3> QED
      BY <2>2, <3>2, <3>5 DEF ResizeUserQuotaReservation, TypeOK
  <2>3. ASSUME NEW amount \in Amounts, SettleTrusted(r, u, amount)
        PROVE TypeOK'
    <3>1. amount \in Nat /\ -amount \in Int
      BY <2>3 DEF Amounts
    <3>2. /\ quota' \in [Users -> Int]
          /\ journal' \in [Users -> Seq(Rows)]
          /\ booked' \in [Requests -> Int]
      BY <2>3, <3>1, PostHoldType DEF SettleTrusted, Ops
    <3>3. reservation' \in [Requests -> Reservations]
      BY <2>3, <3>1 DEF SettleTrusted, TypeOK, Reservations
    <3> QED
      BY <2>3, <3>2, <3>3 DEF SettleTrusted, TypeOK
  <2>4. ASSUME NEW amount \in Amounts, SettleActive(r, u, amount)
        PROVE TypeOK'
    <3>1. /\ amount \in Nat
          /\ reservation[r] \in Reservations
          /\ reservation[r].version + 1 \in Nat
          /\ reservation[r].reserved - amount \in Int
      BY <2>4 DEF Amounts, TypeOK, Reservations
    <3>2. /\ quota' \in [Users -> Int]
          /\ journal' \in [Users -> Seq(Rows)]
          /\ booked' \in [Requests -> Int]
      BY <2>4, <3>1, PostHoldType DEF SettleActive, Ops
    <3> DEFINE hold == [reservation[r] EXCEPT !.status = "settled", !.settled = amount,
                                              !.version = @ + 1, !.expires = 0]
    <3>3. hold \in Reservations
      BY <3>1 DEF Reservations
    <3>4. reservation' = [reservation EXCEPT ![r] = hold]
      BY <2>4 DEF SettleActive
    <3>5. reservation' \in [Requests -> Reservations]
      BY <3>3, <3>4 DEF TypeOK
    <3> QED
      BY <2>4, <3>2, <3>5 DEF SettleActive, TypeOK
  <2>5. ASSUME RefundUserQuotaReservation(r, u)
        PROVE TypeOK'
    BY <2>5, RefundHoldType DEF RefundUserQuotaReservation, TypeOK
  <2> QED
    BY <1>1, <2>1, <2>2, <2>3, <2>4, <2>5 DEF Client, SettleUserQuotaReservation
<1>2. ASSUME NEW m \in MutationKeys, NEW u \in Users, OtherMutation(m, u)
      PROVE TypeOK'
  <2>1. ASSUME NEW delta \in Int, ApplyUserQuotaMutation(m, u, delta)
        PROVE TypeOK'
    <3>1. Key(m, "mutation", 0) \in Keys
      BY DEF Key, Keys, Ops
    <3>2. /\ quota' \in [Users -> Int]
          /\ journal' \in [Users -> Seq(Rows)]
      BY <2>1, <3>1, PostType DEF ApplyUserQuotaMutation
    <3> QED
      BY <2>1, <3>2 DEF ApplyUserQuotaMutation, TypeOK
  <2>2. \A delta \in -MaxQuota..MaxQuota : delta \in Int
    OBVIOUS
  <2>3. \A target \in Amounts : target - quota[u] \in Int
    BY DEF Amounts, TypeOK
  <2> QED
    BY <1>2, <2>1, <2>2, <2>3 DEF OtherMutation, SetUserQuotaBalance
<1>3. ASSUME Sweeper PROVE TypeOK'
  <2>1. CASE ListExpired
    <3>1. PICK n \in 1..BatchSize : \E batch \in [1..n -> DueRequests] : sweep' = batch
      BY <2>1 DEF ListExpired
    <3>2. sweep' \in Seq(Requests)
      BY <3>1 DEF DueRequests
    <3> QED
      BY <2>1, <3>2 DEF ListExpired, TypeOK
  <2>2. CASE SweepRefund
    <3> DEFINE r == Head(sweep)
               u == reservation[r].user
    <3>1. r \in Requests /\ Tail(sweep) \in Seq(Requests)
      BY <2>2 DEF SweepRefund, TypeOK
    <3>2. RefundHold(r, u)
      BY <2>2 DEF SweepRefund
    <3>3. u \in Users
      BY <3>1, <3>2 DEF RefundHold, Owned
    <3> QED
      BY <2>2, <3>1, <3>2, <3>3, RefundHoldType DEF SweepRefund, TypeOK
  <2>3. CASE SweepSkip
    BY <2>3 DEF SweepSkip, TypeOK
  <2>4. CASE SweepFail
    BY <2>4 DEF SweepFail, TypeOK
  <2>5. CASE SweepCrash
    BY <2>5 DEF SweepCrash, TypeOK
  <2> QED
    BY <1>3, <2>1, <2>2, <2>3, <2>4, <2>5 DEF Sweeper
<1>4. ASSUME RepairNegativeUserQuotas PROVE TypeOK'
  <2>1. PICK batch \in SUBSET Users :
          /\ quota' = [u \in Users |-> IF u \in batch THEN 0 ELSE quota[u]]
          /\ journal' = [u \in Users |-> IF u \notin batch THEN journal[u]
                ELSE Append(journal[u], [key |-> Key(u, "repair", 0), delta |-> -quota[u],
                                         before |-> quota[u], after |-> 0])]
    BY <1>4 DEF RepairNegativeUserQuotas
  <2>2. quota' \in [Users -> Int]
    BY <2>1 DEF TypeOK
  <2>3. ASSUME NEW u \in Users PROVE journal'[u] \in Seq(Rows)
    <3>1. [key |-> Key(u, "repair", 0), delta |-> -quota[u], before |-> quota[u], after |-> 0]
             \in Rows
      BY DEF TypeOK, Rows, Key, Keys, Ops
    <3> QED
      BY <2>1, <3>1 DEF TypeOK
  <2>4. journal' \in [Users -> Seq(Rows)]
    BY <2>1, <2>3
  <2> QED
    BY <1>4, <2>2, <2>4 DEF RepairNegativeUserQuotas, TypeOK
<1>5. ASSUME NEW u \in Users, DeleteUser(u) PROVE TypeOK'
  BY <1>5 DEF DeleteUser, Delete, HardDeleteUserById, TypeOK
<1>6. CASE Tick
  BY <1>6 DEF Tick, TypeOK
<1>7. CASE UNCHANGED vars
  BY <1>7 DEF vars, TypeOK
<1> QED
  BY <1>1, <1>2, <1>3, <1>4, <1>5, <1>6, <1>7 DEF Next

-----------------------------------------------------------------------------
(* The kinds of steps.  Whoever takes a step, the ledger sees one of four. *)

\* What a reservation row keeps out of its owner's balance.
Held(hold) ==
    CASE hold.status = "active"  -> hold.reserved
      [] hold.status = "settled" -> hold.settled
      [] OTHER -> 0

\* Request r of user u gets row new, and delta and its journal row are posted.
HoldStep(r, u, op, version, delta, new) ==
    LET old == reservation[r] IN
    /\ PostHold(r, u, op, version, delta)
    /\ reservation' = [reservation EXCEPT ![r] = new]
    /\ new.user = u
    /\ old.status = "active" => old.user = u
    /\ Held(new) = Held(old) - delta
    /\ \/ op = "reserve" /\ old.status = "none" /\ new.status = "active"
       \/ op = "resize" /\ old.status = "active" /\ new.status = "active" /\ version = old.version + 1
       \/ op = "settle" /\ old.status \in {"none", "active"} /\ new.status = "settled"
       \/ op = "refund" /\ old.status = "active" /\ new.status = "refunded"
    /\ old.status = "active" => new.version = old.version + 1
    /\ Held(new) \in Amounts

\* A wallet change that belongs to no request.
WalletStep(m, u, delta) ==
    /\ Post(u, Key(m, "mutation", 0), delta)
    /\ UNCHANGED <<reservation, booked>>

\* Overdrawn wallets are set to zero.
RepairStep(batch) ==
    /\ \A u \in batch : quota[u] < 0
    /\ quota' = [u \in Users |-> IF u \in batch THEN 0 ELSE quota[u]]
    /\ journal' = [u \in Users |-> IF u \notin batch THEN journal[u]
            ELSE Append(journal[u], [key |-> Key(u, "repair", 0), delta |-> -quota[u],
                                     before |-> quota[u], after |-> 0])]
    /\ UNCHANGED <<reservation, booked>>

QuietStep == UNCHANGED <<quota, reservation, journal, booked>>

HoldChanges(r, u) ==
    \E op \in Ops, version \in Nat, delta \in Int, new \in Reservations :
        HoldStep(r, u, op, version, delta, new)

\* A refund, by the request or by the sweeper, is a step of its hold.
LEMMA RefundIsHoldStep ==
    ASSUME TypeOK, NEW r \in Requests, NEW u \in Users, RefundHold(r, u)
    PROVE  HoldChanges(r, u)
<1> DEFINE old == reservation[r]
           new == [old EXCEPT !.status = "refunded", !.version = @ + 1, !.expires = 0]
<1>1. old \in Reservations /\ old.version + 1 \in Nat /\ old.reserved \in Int
  BY DEF TypeOK, Reservations
<1>2. new \in Reservations
  BY <1>1 DEF Reservations
<1>3. /\ new.user = old.user /\ new.status = "refunded"
      /\ new.version = old.version + 1
  BY <1>1 DEF Reservations
<1>4. Held(new) = 0 /\ Held(old) = old.reserved
  BY <1>3 DEF Held, RefundHold
<1>5. HoldStep(r, u, "refund", 0, old.reserved, new)
  BY <1>1, <1>3, <1>4, ConstantsAssumption DEF HoldStep, RefundHold, Amounts
<1> QED
  BY <1>1, <1>2, <1>5 DEF HoldChanges, Ops

\* Every call for a request is a step of its hold.
LEMMA ClientIsHoldStep ==
    ASSUME TypeOK, NEW r \in Requests, NEW u \in Users, Client(r, u)
    PROVE  HoldChanges(r, u)
<1> USE ConstantsAssumption
<1> DEFINE old == reservation[r]
<1>0. /\ old \in Reservations /\ old.version + 1 \in Nat /\ old.reserved \in Int
      /\ now + TTL \in Nat
      /\ Amounts \subseteq Nat /\ 0 \in Amounts
  BY DEF TypeOK, Reservations, Amounts
<1>1. ASSUME NEW amount \in Amounts, ReserveUserQuota(r, u, amount) PROVE HoldChanges(r, u)
  <2> DEFINE new == [status |-> "active", user |-> u, initial |-> amount, reserved |-> amount,
                     settled |-> 0, version |-> 1, expires |-> now + TTL]
  <2>1. new \in Reservations
    BY <1>0 DEF Reservations
  <2>2. Held(new) = amount /\ Held(old) = 0
    BY <1>1 DEF Held, ReserveUserQuota
  <2>3. HoldStep(r, u, "reserve", 0, -amount, new)
    BY <1>0, <1>1, <2>2 DEF HoldStep, ReserveUserQuota
  <2> QED
    BY <1>0, <2>1, <2>3 DEF HoldChanges, Ops
<1>2. ASSUME NEW amount \in Amounts, ResizeUserQuotaReservation(r, u, amount)
      PROVE HoldChanges(r, u)
  <2> DEFINE new == [old EXCEPT !.reserved = amount, !.version = @ + 1, !.expires = now + TTL]
  <2>1. new \in Reservations
    BY <1>0 DEF Reservations
  <2>2. /\ new.user = old.user /\ new.status = old.status /\ new.reserved = amount
        /\ new.version = old.version + 1
    BY <1>0 DEF Reservations
  <2>0. old.reserved - amount \in Int
    BY <1>0
  <2>3. Held(new) = amount /\ Held(old) = old.reserved
    BY <1>2, <2>2 DEF Held, ResizeUserQuotaReservation
  <2>4. HoldStep(r, u, "resize", old.version + 1, old.reserved - amount, new)
    BY <1>0, <1>2, <2>2, <2>3 DEF HoldStep, ResizeUserQuotaReservation
  <2> QED
    BY <1>0, <2>0, <2>1, <2>4 DEF HoldChanges, Ops
<1>3. ASSUME NEW amount \in Amounts, SettleTrusted(r, u, amount) PROVE HoldChanges(r, u)
  <2> DEFINE new == [status |-> "settled", user |-> u, initial |-> 0, reserved |-> amount,
                     settled |-> amount, version |-> 1, expires |-> 0]
  <2>1. new \in Reservations
    BY <1>0 DEF Reservations
  <2>2. Held(new) = amount /\ Held(old) = 0
    BY <1>3 DEF Held, SettleTrusted
  <2>3. HoldStep(r, u, "settle", 0, -amount, new)
    BY <1>0, <1>3, <2>2 DEF HoldStep, SettleTrusted
  <2> QED
    BY <1>0, <2>1, <2>3 DEF HoldChanges, Ops
<1>4. ASSUME NEW amount \in Amounts, SettleActive(r, u, amount) PROVE HoldChanges(r, u)
  <2> DEFINE new == [old EXCEPT !.status = "settled", !.settled = amount,
                                !.version = @ + 1, !.expires = 0]
  <2>1. new \in Reservations
    BY <1>0 DEF Reservations
  <2>2. /\ new.user = old.user /\ new.status = "settled" /\ new.settled = amount
        /\ new.version = old.version + 1
    BY <1>0 DEF Reservations
  <2>0. old.reserved - amount \in Int
    BY <1>0
  <2>3. Held(new) = amount /\ Held(old) = old.reserved
    BY <1>4, <2>2 DEF Held, SettleActive
  <2>4. HoldStep(r, u, "settle", 0, old.reserved - amount, new)
    BY <1>0, <1>4, <2>2, <2>3 DEF HoldStep, SettleActive
  <2> QED
    BY <1>0, <2>0, <2>1, <2>4 DEF HoldChanges, Ops
<1>5. ASSUME RefundUserQuotaReservation(r, u) PROVE HoldChanges(r, u)
  BY <1>5, RefundIsHoldStep DEF RefundUserQuotaReservation
<1> QED
  BY <1>1, <1>2, <1>3, <1>4, <1>5 DEF Client, SettleUserQuotaReservation

\* Every step of the specification is of one of the four kinds.
LEMMA StepKinds ==
    ASSUME TypeOK, Owned, [Next]_vars
    PROVE  \/ \E r \in Requests, u \in Users : HoldChanges(r, u)
           \/ \E m \in MutationKeys, u \in Users, delta \in Int : WalletStep(m, u, delta)
           \/ \E batch \in SUBSET Users : RepairStep(batch)
           \/ QuietStep
<1>1. ASSUME NEW r \in Requests, NEW u \in Users, Client(r, u)
      PROVE  HoldChanges(r, u)
  BY <1>1, ClientIsHoldStep
<1>2. ASSUME NEW m \in MutationKeys, NEW u \in Users, OtherMutation(m, u)
      PROVE  \E delta \in Int : WalletStep(m, u, delta)
  <2>1. \A delta \in -MaxQuota..MaxQuota : delta \in Int
    BY ConstantsAssumption
  <2>2. \A target \in Amounts : target - quota[u] \in Int
    BY ConstantsAssumption DEF Amounts, TypeOK
  <2> QED
    BY <1>2, <2>1, <2>2 DEF OtherMutation, SetUserQuotaBalance, ApplyUserQuotaMutation, WalletStep
<1>3. CASE SweepRefund
  <2> DEFINE r == Head(sweep)
             u == reservation[r].user
  <2>1. r \in Requests /\ RefundHold(r, u)
    BY <1>3 DEF SweepRefund, TypeOK
  <2>2. u \in Users
    BY <2>1 DEF RefundHold, Owned
  <2> QED
    BY <2>1, <2>2, RefundIsHoldStep
<1>4. ASSUME RepairNegativeUserQuotas
      PROVE  \E batch \in SUBSET Users : RepairStep(batch)
  BY <1>4 DEF RepairNegativeUserQuotas, RepairStep
<1>5. ASSUME \/ ListExpired \/ SweepSkip \/ SweepFail \/ SweepCrash
             \/ \E u \in Users : DeleteUser(u)
             \/ Tick
             \/ UNCHANGED vars
      PROVE  QuietStep
  BY <1>5 DEF ListExpired, SweepSkip, SweepFail, SweepCrash, DeleteUser, Delete,
                HardDeleteUserById, Tick, vars, QuietStep
<1> QED
  BY <1>1, <1>2, <1>3, <1>4, <1>5 DEF Next, Sweeper

\* No action takes a row's owner away.
LEMMA OwnedStep == TypeOK /\ Owned /\ [Next]_vars => Owned'
<1> SUFFICES ASSUME TypeOK, Owned, [Next]_vars PROVE Owned'
  OBVIOUS
<1>1. ASSUME NEW r \in Requests, NEW u \in Users, HoldChanges(r, u) PROVE Owned'
  BY <1>1 DEF HoldChanges, HoldStep, Owned, TypeOK
<1>2. ASSUME UNCHANGED reservation PROVE Owned'
  BY <1>2 DEF Owned
<1> QED
  BY <1>1, <1>2, StepKinds DEF WalletStep, RepairStep, QuietStep

\* Every reachable state is well typed, for all users, requests and bounds.
THEOREM TypeCorrect == Spec => []TypeOK
<1>1. Init => TypeOK /\ Owned
  BY ConstantsAssumption DEF Init, TypeOK, Owned, NoReservation, Reservations
<1> QED
  BY <1>1, TypeStep, OwnedStep, PTL DEF Spec

-----------------------------------------------------------------------------
(* The safety properties. *)

\* The journal rows of a reservation add up to minus what it holds.
LEMMA ReconciledStep ==
    TypeOK /\ Owned /\ HoldsReconciled /\ [Next]_vars => HoldsReconciled'
<1> SUFFICES ASSUME TypeOK, Owned, HoldsReconciled, [Next]_vars PROVE HoldsReconciled'
  OBVIOUS
<1>1. ASSUME NEW r \in Requests, NEW u \in Users, HoldChanges(r, u) PROVE HoldsReconciled'
  <2>1. PICK op \in Ops, version \in Nat, delta \in Int, new \in Reservations :
            HoldStep(r, u, op, version, delta, new)
    BY <1>1 DEF HoldChanges
  <2>2. reservation[r] \in Reservations
    BY DEF TypeOK
  <2>3. /\ \A q \in Requests \ {r} : reservation'[q] = reservation[q] /\ booked'[q] = booked[q]
        /\ reservation'[r] = new
        /\ booked'[r] = booked[r] + delta
    BY <2>1 DEF HoldStep, PostHold, TypeOK
  <2>4. booked[r] = -Held(reservation[r])
    BY <2>2 DEF HoldsReconciled, Held, Reservations
  <2>5. /\ Held(reservation[r]) \in Int
        /\ Held(new) = Held(reservation[r]) - delta
    BY <2>1, <2>2 DEF HoldStep, Held, Reservations
  <2>6. booked'[r] = -Held(new)
    BY <2>3, <2>4, <2>5
  <2> QED
    BY <2>3, <2>6 DEF HoldsReconciled, Held, Reservations
<1>2. ASSUME UNCHANGED <<reservation, booked>> PROVE HoldsReconciled'
  BY <1>2 DEF HoldsReconciled
<1> QED
  BY <1>1, <1>2, StepKinds DEF WalletStep, RepairStep, QuietStep

\* What the start-up reconciliation counts as a ledger mismatch never exists.
THEOREM Reconciled == Spec => []HoldsReconciled
<1>1. Init => TypeOK /\ Owned /\ HoldsReconciled
  BY ConstantsAssumption
  DEF Init, TypeOK, Owned, HoldsReconciled, NoReservation, Reservations
<1> QED
  BY <1>1, TypeStep, OwnedStep, ReconciledStep, PTL DEF Spec

\* A settled or a refunded reservation never changes again, the sweeper's late
\* refund of a row it listed earlier included.
THEOREM ClosedIsFinal == Spec => ClosedHoldsAreFinal
<1>1. Init => TypeOK /\ Owned
  BY ConstantsAssumption DEF Init, TypeOK, Owned, NoReservation, Reservations
<1>2. ASSUME TypeOK, Owned, [Next]_vars
      PROVE  [\A r \in Requests : reservation[r].status \in {"settled", "refunded"} =>
                reservation'[r] = reservation[r] /\ booked'[r] = booked[r]]_vars
  <2>1. ASSUME NEW q \in Requests, reservation[q].status \in {"settled", "refunded"},
               NEW r \in Requests, NEW u \in Users, HoldChanges(r, u)
        PROVE  reservation'[q] = reservation[q] /\ booked'[q] = booked[q]
    BY <1>2, <2>1 DEF HoldChanges, HoldStep, PostHold, TypeOK
  <2> QED
    BY <1>2, <2>1, StepKinds DEF WalletStep, RepairStep, QuietStep
<1> QED
  BY <1>1, <1>2, TypeStep, OwnedStep, PTL DEF Spec, ClosedHoldsAreFinal

\* No operation debits a wallet below zero.
THEOREM NoOverdraft == Spec => NeverOverdrawn
<1>1. Init => TypeOK /\ Owned
  BY ConstantsAssumption DEF Init, TypeOK, Owned, NoReservation, Reservations
<1>2. ASSUME TypeOK, Owned, [Next]_vars
      PROVE  [\A u \in Users : quota'[u] < quota[u] => quota'[u] >= 0]_vars
  <2>1. ASSUME NEW v \in Users, NEW u \in Users, NEW key, NEW delta \in Int,
               Post(u, key, delta), quota'[v] < quota[v]
        PROVE  quota'[v] >= 0
    BY <1>2, <2>1 DEF Post, CanApply, TypeOK
  <2>3. ASSUME NEW v \in Users, NEW r \in Requests, NEW u \in Users, HoldChanges(r, u),
               quota'[v] < quota[v]
        PROVE  quota'[v] >= 0
    BY <2>1, <2>3 DEF HoldChanges, HoldStep, PostHold
  <2>4. ASSUME NEW v \in Users, NEW m \in MutationKeys, NEW u \in Users, NEW delta \in Int,
               WalletStep(m, u, delta), quota'[v] < quota[v]
        PROVE  quota'[v] >= 0
    BY <2>1, <2>4 DEF WalletStep
  <2>5. ASSUME NEW v \in Users, QuietStep PROVE ~(quota'[v] < quota[v])
    BY <1>2, <2>5 DEF QuietStep, TypeOK
  <2>6. ASSUME NEW v \in Users, NEW batch \in SUBSET Users, RepairStep(batch)
        PROVE  ~(quota'[v] < quota[v])
    BY <1>2, <2>6 DEF RepairStep, TypeOK
  <2> QED
    BY <1>2, <2>3, <2>4, <2>5, <2>6, StepKinds
<1> QED
  BY <1>1, <1>2, TypeStep, OwnedStep, PTL DEF Spec, NeverOverdrawn

-----------------------------------------------------------------------------
(* The journal. *)

\* The chain property of one user's journal.
Chained(rows, first, last) ==
    /\ \A i \in 1..Len(rows) : rows[i].after = rows[i].before + rows[i].delta
    /\ \A i \in 1..Len(rows) : rows[i].before = IF i = 1 THEN first ELSE rows[i - 1].after
    /\ last = IF rows = <<>> THEN first ELSE rows[Len(rows)].after

\* A row that starts at the balance extends the chain to the new balance.
LEMMA ChainExtends ==
    ASSUME NEW rows \in Seq(Rows), NEW first \in Int, NEW last \in Int, NEW row \in Rows,
           Chained(rows, first, last),
           row.before = last, row.after = row.before + row.delta
    PROVE  Chained(Append(rows, row), first, row.after)
<1> DEFINE longer == Append(rows, row)
           n == Len(rows)
<1>1. /\ n \in Nat
      /\ longer \in Seq(Rows)
      /\ Len(longer) = n + 1
      /\ longer[n + 1] = row
      /\ \A i \in 1..n : longer[i] = rows[i]
  OBVIOUS
<1>2. \A i \in 1..n + 1 : i \in 1..n \/ i = n + 1
  BY <1>1
<1>3. \A i \in 1..n + 1 : longer[i].after = longer[i].before + longer[i].delta
  BY <1>1, <1>2 DEF Chained
<1>4. ASSUME NEW i \in 1..n + 1
      PROVE  longer[i].before = IF i = 1 THEN first ELSE longer[i - 1].after
  <2>1. CASE i \in 1..n
    <3>1. i # 1 => i - 1 \in 1..n
      BY <1>1, <2>1
    <3> QED
      BY <1>1, <2>1, <3>1 DEF Chained
  <2>2. CASE i = n + 1
    <3>1. CASE n = 0
      BY <1>1, <2>2, <3>1 DEF Chained
    <3>2. CASE n # 0
      <4>1. rows # <<>> /\ i # 1 /\ i - 1 = n /\ n \in 1..n
        BY <1>1, <2>2, <3>2
      <4> QED
        BY <1>1, <2>2, <4>1 DEF Chained
    <3> QED
      BY <3>1, <3>2
  <2> QED
    BY <1>2, <2>1, <2>2
<1>5. longer # <<>>
  BY <1>1
<1> QED
  BY <1>1, <1>3, <1>4, <1>5 DEF Chained

\* One posted change keeps every chain.
LEMMA PostChain ==
    ASSUME TypeOK, JournalChain, NEW u \in Users, NEW key \in Keys, NEW delta \in Int,
           Post(u, key, delta)
    PROVE  JournalChain'
<1> DEFINE row == [key |-> key, delta |-> delta, before |-> quota[u], after |-> quota[u] + delta]
<1>0. quota[u] \in Int /\ journal[u] \in Seq(Rows) /\ InitialQuota[u] \in Int
  BY ConstantsAssumption DEF TypeOK
<1>1. row \in Rows
  BY <1>0 DEF Rows
<1>2. \A v \in Users : Chained(journal[v], InitialQuota[v], quota[v])
  BY DEF JournalChain, Chained
<1>3. Chained(Append(journal[u], row), InitialQuota[u], row.after)
  BY <1>0, <1>1, <1>2, ChainExtends
<1>4. /\ journal'[u] = Append(journal[u], row) /\ quota'[u] = row.after
      /\ \A v \in Users \ {u} : journal'[v] = journal[v] /\ quota'[v] = quota[v]
  BY DEF Post, TypeOK
<1>5. \A v \in Users : Chained(journal'[v], InitialQuota[v], quota'[v])
  BY <1>2, <1>3, <1>4
<1> QED
  BY <1>5 DEF JournalChain, Chained

\* A repair keeps them too.
LEMMA RepairChain ==
    ASSUME TypeOK, JournalChain, NEW batch \in SUBSET Users, RepairStep(batch)
    PROVE  JournalChain'
<1>1. \A v \in Users : Chained(journal[v], InitialQuota[v], quota[v])
  BY DEF JournalChain, Chained
<1>2. ASSUME NEW v \in batch PROVE Chained(journal'[v], InitialQuota[v], quota'[v])
  <2> DEFINE row == [key |-> Key(v, "repair", 0), delta |-> -quota[v],
                     before |-> quota[v], after |-> 0]
  <2>0. quota[v] \in Int /\ journal[v] \in Seq(Rows) /\ InitialQuota[v] \in Int
    BY ConstantsAssumption DEF TypeOK
  <2>1. row \in Rows
    BY <2>0 DEF Rows, Key, Keys, Ops
  <2>2. Chained(Append(journal[v], row), InitialQuota[v], 0)
    BY <1>1, <2>0, <2>1, ChainExtends
  <2>3. journal'[v] = Append(journal[v], row) /\ quota'[v] = 0
    BY DEF RepairStep
  <2> QED
    BY <2>2, <2>3
<1>3. ASSUME NEW v \in Users \ batch PROVE Chained(journal'[v], InitialQuota[v], quota'[v])
  BY <1>1 DEF RepairStep
<1> QED
  BY <1>2, <1>3 DEF JournalChain, Chained

\* Every kind of step extends the chain of balances of the user it pays.
LEMMA ChainStep == TypeOK /\ Owned /\ JournalChain /\ [Next]_vars => JournalChain'
<1> SUFFICES ASSUME TypeOK, Owned, JournalChain, [Next]_vars PROVE JournalChain'
  OBVIOUS
<1>1. ASSUME NEW r \in Requests, NEW u \in Users, HoldChanges(r, u) PROVE JournalChain'
  <2>1. PICK op \in Ops, version \in Nat, delta \in Int : Post(u, Key(r, op, version), delta)
    BY <1>1 DEF HoldChanges, HoldStep, PostHold
  <2>2. Key(r, op, version) \in Keys
    BY DEF Key, Keys
  <2> QED
    BY <2>1, <2>2, PostChain
<1>2. ASSUME NEW m \in MutationKeys, NEW u \in Users, NEW delta \in Int, WalletStep(m, u, delta)
      PROVE  JournalChain'
  <2>1. Key(m, "mutation", 0) \in Keys
    BY DEF Key, Keys, Ops
  <2> QED
    BY <1>2, <2>1, PostChain DEF WalletStep
<1>3. ASSUME QuietStep PROVE JournalChain'
  BY <1>3 DEF QuietStep, JournalChain
<1> QED
  BY <1>1, <1>2, <1>3, RepairChain, StepKinds

\* Every wallet's journal accounts for its balance, row by row.
THEOREM JournalComplete == Spec => []JournalChain
<1>1. Init => TypeOK /\ Owned /\ JournalChain
  <2> SUFFICES ASSUME Init PROVE TypeOK /\ Owned /\ JournalChain
    OBVIOUS
  <2>1. TypeOK /\ Owned
    BY ConstantsAssumption DEF Init, TypeOK, Owned, NoReservation, Reservations
  <2>2. \A u \in Users : journal[u] = <<>> /\ quota[u] = InitialQuota[u] /\ Len(journal[u]) = 0
    BY DEF Init
  <2> QED
    BY <2>1, <2>2 DEF JournalChain
<1> QED
  BY <1>1, TypeStep, OwnedStep, ChainStep, PTL DEF Spec

-----------------------------------------------------------------------------
(* Idempotency keys.  That an open hold can be closed is not inductive: what *)
(* is, is that a key in the journal was claimed by an operation its hold has *)
(* gone through.                                                             *)

\* The operation that claims this key is behind the hold already.
Spent(key, rows) ==
    /\ key.op = "settle" => key.id \in Requests /\ rows[key.id].status = "settled"
    /\ key.op = "refund" => key.id \in Requests /\ rows[key.id].status = "refunded"
    /\ key.op = "resize" => /\ key.id \in Requests
                            /\ rows[key.id].status # "none"
                            /\ key.version <= rows[key.id].version

KeysSpent ==
    \A u \in Users : \A i \in 1..Len(journal[u]) : Spent(journal[u][i].key, reservation)

\* The rows of a journal after a post: the old ones and the new one.
LEMMA PostRows ==
    ASSUME TypeOK, NEW u \in Users, NEW key, NEW delta \in Int, Post(u, key, delta),
           NEW v \in Users, NEW i \in 1..Len(journal'[v])
    PROVE  \/ i \in 1..Len(journal[v]) /\ journal'[v][i] = journal[v][i]
           \/ journal'[v][i].key = key
<1> DEFINE row == [key |-> key, delta |-> delta, before |-> quota[u], after |-> quota[u] + delta]
<1>1. CASE v # u
  BY <1>1 DEF Post, TypeOK
<1>2. CASE v = u
  <2>1. journal[u] \in Seq(Rows) /\ journal'[u] = Append(journal[u], row) /\ row.key = key
    BY DEF Post, TypeOK
  <2> QED
    BY <1>2, <2>1
<1> QED
  BY <1>1, <1>2

\* Every kind of step spends only the keys that the hold has reached.
LEMMA KeysStep == TypeOK /\ Owned /\ KeysSpent /\ [Next]_vars => KeysSpent'
<1> SUFFICES ASSUME TypeOK, Owned, KeysSpent, [Next]_vars,
                    NEW v \in Users, NEW i \in 1..Len(journal'[v])
             PROVE  Spent(journal'[v][i].key, reservation')
  BY DEF KeysSpent
<1> DEFINE k == journal'[v][i].key
<1>1. ASSUME NEW r \in Requests, NEW u \in Users, HoldChanges(r, u)
      PROVE  Spent(journal'[v][i].key, reservation')
  <2>1. PICK op \in Ops, version \in Nat, delta \in Int, new \in Reservations :
            HoldStep(r, u, op, version, delta, new)
    BY <1>1 DEF HoldChanges
  <2>2. /\ reservation'[r] = new
        /\ \A q \in Requests \ {r} : reservation'[q] = reservation[q]
        /\ reservation[r] \in Reservations
    BY <2>1 DEF HoldStep, TypeOK
  <2>3. CASE i \in 1..Len(journal[v]) /\ journal'[v][i] = journal[v][i]
    <3>1. Spent(k, reservation) /\ journal[v][i].key = k
      BY <2>3 DEF KeysSpent
    <3>2. journal[v][i] \in Rows
      BY <2>3 DEF TypeOK
    <3>3. k.version \in Nat
      BY <3>1, <3>2 DEF Rows, Keys
    <3>4. CASE k.id = r
      <4>1. /\ reservation[r].version \in Nat
            /\ new.status # "none"
            /\ reservation[r].status = "active" => new.version = reservation[r].version + 1
            /\ reservation[r].status \in {"none", "active"}
        BY <2>1, <2>2 DEF HoldStep, Reservations
      <4> QED
        BY <2>2, <3>1, <3>3, <3>4, <4>1 DEF Spent
    <3>5. CASE k.id # r
      BY <2>2, <3>1, <3>5 DEF Spent
    <3> QED
      BY <3>4, <3>5
  <2>4. CASE k = Key(r, op, version)
    <3>1. k.id = r /\ k.op = op /\ k.version = version
      BY <2>4 DEF Key
    <3> QED
      BY <2>1, <2>2, <3>1 DEF HoldStep, Spent, Reservations
  <2>5. Post(u, Key(r, op, version), delta)
    BY <2>1 DEF HoldStep, PostHold
  <2> QED
    BY <2>3, <2>4, <2>5, PostRows
<1>2. ASSUME NEW m \in MutationKeys, NEW u \in Users, NEW delta \in Int, WalletStep(m, u, delta)
      PROVE  Spent(journal'[v][i].key, reservation')
  <2>1. CASE i \in 1..Len(journal[v]) /\ journal'[v][i] = journal[v][i]
    BY <1>2, <2>1 DEF KeysSpent, Spent, WalletStep
  <2>2. CASE k = Key(m, "mutation", 0)
    BY <2>2 DEF Key, Spent
  <2> QED
    BY <1>2, <2>1, <2>2, PostRows DEF WalletStep
<1>3. ASSUME NEW batch \in SUBSET Users, RepairStep(batch)
      PROVE  Spent(journal'[v][i].key, reservation')
  <2>1. CASE v \notin batch
    BY <1>3, <2>1 DEF KeysSpent, Spent, RepairStep
  <2>2. CASE v \in batch
    <3> DEFINE row == [key |-> Key(v, "repair", 0), delta |-> -quota[v],
                       before |-> quota[v], after |-> 0]
    <3>1. journal[v] \in Seq(Rows) /\ journal'[v] = Append(journal[v], row)
          /\ row.key = Key(v, "repair", 0)
      BY <1>3, <2>2 DEF RepairStep, TypeOK
    <3>2. \/ i \in 1..Len(journal[v]) /\ journal'[v][i] = journal[v][i]
          \/ k = Key(v, "repair", 0)
      BY <3>1
    <3> QED
      BY <1>3, <3>2 DEF KeysSpent, Spent, RepairStep, Key
  <2> QED
    BY <2>1, <2>2
<1>4. ASSUME QuietStep PROVE Spent(journal'[v][i].key, reservation')
  BY <1>4 DEF QuietStep, KeysSpent, Spent
<1> QED
  BY <1>1, <1>2, <1>3, <1>4, StepKinds

\* An open hold can always be settled, refunded or resized: the unique index on
\* the journal never rejects the key.
THEOREM HoldsCloseable == Spec => []OpenHoldsCanClose
<1>1. Init => TypeOK /\ Owned /\ KeysSpent
  <2> SUFFICES ASSUME Init PROVE TypeOK /\ Owned /\ KeysSpent
    OBVIOUS
  <2>1. TypeOK /\ Owned
    BY ConstantsAssumption DEF Init, TypeOK, Owned, NoReservation, Reservations
  <2>2. \A u \in Users : Len(journal[u]) = 0
    BY DEF Init
  <2> QED
    BY <2>1, <2>2 DEF KeysSpent
<1>2. TypeOK /\ KeysSpent => OpenHoldsCanClose
  <2> SUFFICES ASSUME TypeOK, KeysSpent, NEW r \in Requests, reservation[r].status = "active",
                      NEW u \in Users, NEW i \in 1..Len(journal[u])
               PROVE  /\ journal[u][i].key # Key(r, "settle", 0)
                      /\ journal[u][i].key # Key(r, "refund", 0)
                      /\ journal[u][i].key # Key(r, "resize", reservation[r].version + 1)
    BY DEF OpenHoldsCanClose, KeyFree
  <2>1. Spent(journal[u][i].key, reservation)
    BY DEF KeysSpent
  <2>2. reservation[r].version \in Nat
    BY DEF TypeOK, Reservations
  <2> QED
    BY <2>1, <2>2 DEF Spent, Key
<1> QED
  BY <1>1, <1>2, TypeStep, OwnedStep, KeysStep, PTL DEF Spec

-----------------------------------------------------------------------------
(* Refinement. *)

\* A step of a hold moves the request's quota between the wallet and the escrow.
LEMMA HoldStepRefines ==
    ASSUME TypeOK, HoldsReconciled, NEW r \in Requests, NEW u \in Users, HoldChanges(r, u)
    PROVE  Escrow!Next
<1>1. PICK op \in Ops, version \in Nat, delta \in Int, new \in Reservations :
          HoldStep(r, u, op, version, delta, new)
  BY DEF HoldChanges
<1> DEFINE old == reservation[r]
           phase == [q \in Requests |-> reservation[q].status]
           owner == [q \in Requests |-> reservation[q].user]
           held == [q \in Requests |-> -booked[q]]
           amount == Held(new)
<1>2. /\ old \in Reservations /\ booked[r] \in Int /\ quota[u] \in Int
      /\ amount \in Amounts /\ amount \in Int
  BY <1>1, ConstantsAssumption DEF TypeOK, HoldStep, Amounts
<1>3. booked[r] = -Held(old) /\ Held(old) \in Int
  BY <1>2 DEF HoldsReconciled, Held, Reservations
<1>4. held[r] = Held(old) /\ delta = held[r] - amount
  BY <1>1, <1>2, <1>3 DEF HoldStep
<1>5. /\ phase' = [phase EXCEPT ![r] = new.status]
      /\ owner' = [owner EXCEPT ![r] = u]
  BY <1>1 DEF HoldStep, TypeOK
<1>6. held' = [held EXCEPT ![r] = amount]
  <2>1. /\ booked' = [booked EXCEPT ![r] = booked[r] + delta]
        /\ booked \in [Requests -> Int]
    BY <1>1 DEF HoldStep, PostHold, TypeOK
  <2>2. -(booked[r] + delta) = amount
    BY <1>2, <1>3, <1>4
  <2>3. \A q \in Requests : -(booked'[q]) = IF q = r THEN amount ELSE -booked[q]
    BY <2>1, <2>2
  <2> QED
    BY <2>3
<1>7. /\ amount - held[r] > 0 => quota[u] >= amount - held[r]
      /\ quota' = [quota EXCEPT ![u] = @ + held[r] - amount]
  <2>1. /\ quota' = [quota EXCEPT ![u] = quota[u] + delta]
        /\ delta < 0 => quota[u] >= -delta
    BY <1>1 DEF HoldStep, PostHold, Post, CanApply
  <2>2. /\ quota[u] + delta = quota[u] + held[r] - amount
        /\ -delta = amount - held[r]
        /\ amount - held[r] > 0 => delta < 0
    BY <1>2, <1>3, <1>4
  <2> QED
    BY <2>1, <2>2
<1>8. Escrow!Move(r, u, amount, new.status)
  BY <1>5, <1>6, <1>7 DEF Escrow!Move, Escrow!Covers
<1>9. CASE old.status = "none"
  <2>1. new.status \in {"active", "settled"}
    BY <1>1, <1>9 DEF HoldStep
  <2>2. Escrow!Open(r, u, amount, new.status)
    BY <1>5, <1>8, <1>9 DEF Escrow!Open
  <2> QED
    BY <1>2, <2>1, <2>2 DEF Escrow!Next
<1>10. CASE old.status = "active"
  <2>1. owner[r] = u /\ owner' = owner
    BY <1>1, <1>2, <1>5, <1>10 DEF HoldStep
  <2>2. CASE new.status = "active"
    BY <1>2, <1>8, <1>10, <2>1, <2>2 DEF Escrow!Next, Escrow!Adjust
  <2>3. CASE new.status = "settled"
    BY <1>2, <1>8, <1>10, <2>1, <2>3 DEF Escrow!Next, Escrow!Charge
  <2>4. CASE new.status = "refunded"
    <3>1. amount = 0
      BY <2>4 DEF Held
    <3> QED
      BY <1>8, <1>10, <2>1, <2>4, <3>1 DEF Escrow!Next, Escrow!Return
  <2> QED
    BY <1>1, <1>10, <2>2, <2>3, <2>4 DEF HoldStep
<1> QED
  BY <1>1, <1>9, <1>10 DEF HoldStep

\* Every step of the ledger is a step of the escrow or leaves it alone.
LEMMA StepRefines ==
    ASSUME TypeOK, Owned, HoldsReconciled, [Next]_vars
    PROVE  [Escrow!Next]_Escrow!vars
<1>1. ASSUME NEW m \in MutationKeys, NEW u \in Users, NEW delta \in Int, WalletStep(m, u, delta)
      PROVE  Escrow!Next
  <2>1. quota' \in [Users -> Int]
    BY <1>1 DEF WalletStep, Post, TypeOK
  <2>2. \A v \in Users : quota'[v] < quota[v] => quota'[v] >= 0
    BY <1>1 DEF WalletStep, Post, CanApply, TypeOK
  <2>3. UNCHANGED <<reservation, booked>>
    BY <1>1 DEF WalletStep
  <2> QED
    BY <2>1, <2>2, <2>3 DEF Escrow!Next, Escrow!Other
<1>2. ASSUME NEW batch \in SUBSET Users, RepairStep(batch)
      PROVE  Escrow!Next
  <2>1. quota' \in [Users -> Int]
    BY <1>2 DEF RepairStep, TypeOK
  <2>2. \A v \in Users : quota'[v] < quota[v] => quota'[v] >= 0
    BY <1>2 DEF RepairStep, TypeOK
  <2>3. UNCHANGED <<reservation, booked>>
    BY <1>2 DEF RepairStep
  <2> QED
    BY <2>1, <2>2, <2>3 DEF Escrow!Next, Escrow!Other
<1>3. ASSUME QuietStep PROVE UNCHANGED Escrow!vars
  BY <1>3 DEF QuietStep, Escrow!vars
<1> QED
  BY <1>1, <1>2, <1>3, HoldStepRefines, StepKinds

\* The wallet ledger, with its sweeper and its repairs, implements the escrow.
THEOREM LedgerImplementsEscrow == Spec => ImplementsEscrow
<1>1. Init => TypeOK /\ Owned /\ HoldsReconciled
  BY ConstantsAssumption
  DEF Init, TypeOK, Owned, HoldsReconciled, NoReservation, Reservations
<1>2. Init => Escrow!Init
  <2> SUFFICES ASSUME Init PROVE Escrow!Init
    OBVIOUS
  <2>1. quota \in [Users -> Int]
    BY ConstantsAssumption DEF Init
  <2>2. \A r \in Requests : reservation[r].status = "none"
    BY DEF Init, NoReservation
  <2>3. \A r \in Requests : -booked[r] = 0
    <3>1. \A r \in Requests : booked[r] \in Int /\ booked[r] <= 0 /\ booked[r] >= 0
      BY DEF Init
    <3>2. \A x \in Int : x <= 0 /\ x >= 0 => -x = 0
      OBVIOUS
    <3> QED
      BY <3>1, <3>2
  <2> QED
    BY <2>1, <2>2, <2>3 DEF Escrow!Init
<1>3. TypeOK /\ Owned /\ HoldsReconciled /\ [Next]_vars => [Escrow!Next]_Escrow!vars
  BY StepRefines
<1> QED
  BY <1>1, <1>2, <1>3, TypeStep, OwnedStep, ReconciledStep, PTL
  DEF Spec, ImplementsEscrow, Escrow!Spec
=============================================================================
