----------------------------- MODULE QuotaLedger -----------------------------
(***************************************************************************)
(* The wallet ledger: model/user_quota_ledger.go and                       *)
(* model/user_quota_maintenance.go.                                        *)
(*                                                                         *)
(* A user's balance (users.quota) changes only inside database             *)
(* transactions that lock the rows they read, so every operation is one    *)
(* atomic action.  A call that returns an error rolls its transaction back *)
(* and is a stuttering step, and so is a validated replay.  What is not    *)
(* atomic is the sweeper: it reads a batch of expired holds and then       *)
(* refunds them one transaction at a time, while requests keep arriving.   *)
(***************************************************************************)
EXTENDS Integers, Sequences, FiniteSets

CONSTANTS
    Users,          \* rows of table users
    Requests,       \* request ids: one wallet hold each
    MutationKeys,   \* idempotency keys of the other wallet mutations
    InitialQuota,   \* users.quota when this code is first deployed
    MaxQuota,       \* bound on the amounts of one call
    MaxVersion,     \* bound on the version of a hold (number of resizes)
    TTL,            \* userQuotaReservationTTL
    MaxTime,        \* bound on the clock
    BatchSize,      \* rows one sweep, or one repair, takes
    Deletable,      \* users whose row may be soft-deleted
    HardDeletable,  \* users an administrator may hard-delete
    NoUser          \* the user_id of a reservation row that does not exist

ASSUME ConstantsAssumption ==
    /\ InitialQuota \in [Users -> Int]
    /\ MaxQuota \in Nat
    /\ MaxVersion \in Nat
    /\ TTL \in Nat \ {0}
    /\ MaxTime \in Nat
    /\ BatchSize \in Nat \ {0}
    /\ Deletable \subseteq Users
    /\ HardDeletable \subseteq Users
    /\ NoUser \notin Users

VARIABLES
    quota,          \* users.quota
    account,        \* "live", "soft" (deleted_at set) or "gone" (no row)
    reservation,    \* table user_quota_reservations, by request_id
    journal,        \* table user_quota_transactions, by user, in commit order
    booked,         \* SUM(delta_quota) of the journal rows of a reservation
    now,            \* the clock
    sweep           \* rows the running sweep has read and not yet refunded

vars == <<quota, account, reservation, journal, booked, now, sweep>>

Amounts == 0..MaxQuota

-----------------------------------------------------------------------------
(* Rows. *)

\* An idempotency key.  Reservation rows derive theirs from the request id
\* ("<request>:reserve", "<request>:resize:<version>", ...), repairs from the
\* user; the other mutations are given one by their caller.
Key(id, op, version) == [id |-> id, op |-> op, version |-> version]

Ops == {"reserve", "resize", "settle", "refund", "mutation", "repair"}

Keys == [id : Requests \cup MutationKeys \cup Users, op : Ops, version : Nat]

Rows == [key : Keys, delta : Int, before : Int, after : Int]

Reservations ==
    [status : {"none", "active", "settled", "refunded"}, user : Users \cup {NoUser},
     initial : Nat, reserved : Nat, settled : Nat, version : Nat, expires : Nat]

NoReservation ==
    [status |-> "none", user |-> NoUser, initial |-> 0, reserved |-> 0,
     settled |-> 0, version |-> 0, expires |-> 0]

\* The unique index ux_user_quota_txn_idem: a second row with the key fails.
KeyFree(key) ==
    \A u \in Users : \A i \in 1..Len(journal[u]) : journal[u][i].key # key

\* Faulty variant: the debit is not conditional on the balance.
CanApplyUnconditionally(u, delta) == account[u] = "live"

\* lockUserQuotaTx finds the row (gorm hides a soft-deleted one), and a debit
\* is covered by the balance; a zero debit only needs the row.
CanApply(u, delta) ==
    /\ account[u] = "live"
    /\ delta < 0 => quota[u] >= -delta

\* debitUserQuotaTx or creditUserQuotaTx, and the journal row of the change.
Post(u, key, delta) ==
    /\ CanApply(u, delta)
    /\ KeyFree(key)
    /\ quota' = [quota EXCEPT ![u] = @ + delta]
    /\ journal' = [journal EXCEPT ![u] =
            Append(@, [key |-> key, delta |-> delta,
                       before |-> quota[u], after |-> quota[u] + delta])]

\* A journal row that carries a reservation id.
PostHold(r, u, op, version, delta) ==
    /\ Post(u, Key(r, op, version), delta)
    /\ booked' = [booked EXCEPT ![r] = @ + delta]

-----------------------------------------------------------------------------
Init ==
    /\ quota = InitialQuota
    /\ account = [u \in Users |-> "live"]
    /\ reservation = [r \in Requests |-> NoReservation]
    /\ journal = [u \in Users |-> <<>>]
    /\ booked = [r \in Requests |-> 0]
    /\ now = 1
    /\ sweep = <<>>

\* The insert wins: debit and journal.  A request id that already has a row is
\* validated and changes nothing.
ReserveUserQuota(r, u, amount) ==
    /\ amount > 0
    /\ reservation[r].status = "none"
    /\ PostHold(r, u, "reserve", 0, -amount)
    /\ reservation' = [reservation EXCEPT ![r] =
            [status |-> "active", user |-> u, initial |-> amount, reserved |-> amount,
             settled |-> 0, version |-> 1, expires |-> now + TTL]]
    /\ UNCHANGED <<account, now, sweep>>

\* Faulty variant: the version is not advanced.
ResizeKeepingVersion(r, u, target) ==
    LET hold == reservation[r] IN
    /\ hold.version < MaxVersion
    /\ hold.user = u
    /\ hold.status = "active"
    /\ hold.reserved # target
    /\ PostHold(r, u, "resize", hold.version + 1, hold.reserved - target)
    /\ reservation' = [reservation EXCEPT ![r] =
            [hold EXCEPT !.reserved = target, !.expires = now + TTL]]
    /\ UNCHANGED <<account, now, sweep>>

ResizeUserQuotaReservation(r, u, target) ==
    LET hold == reservation[r] IN
    /\ hold.version < MaxVersion
    /\ hold.user = u
    /\ hold.status = "active"
    /\ hold.reserved # target
    /\ PostHold(r, u, "resize", hold.version + 1, hold.reserved - target)
    /\ reservation' = [reservation EXCEPT ![r] =
            [hold EXCEPT !.reserved = target, !.version = @ + 1, !.expires = now + TTL]]
    /\ UNCHANGED <<account, now, sweep>>

\* No earlier hold (a trusted request): a settled row and one debit.
SettleTrusted(r, u, actual) ==
    /\ reservation[r].status = "none"
    /\ PostHold(r, u, "settle", 0, -actual)
    /\ reservation' = [reservation EXCEPT ![r] =
            [status |-> "settled", user |-> u, initial |-> 0, reserved |-> actual,
             settled |-> actual, version |-> 1, expires |-> 0]]
    /\ UNCHANGED <<account, now, sweep>>

\* An active hold is replaced by the actual charge; reserved_quota stays.
SettleActive(r, u, actual) ==
    LET hold == reservation[r] IN
    /\ hold.user = u
    /\ hold.status = "active"
    /\ PostHold(r, u, "settle", 0, hold.reserved - actual)
    /\ reservation' = [reservation EXCEPT ![r] =
            [hold EXCEPT !.status = "settled", !.settled = actual,
                         !.version = @ + 1, !.expires = 0]]
    /\ UNCHANGED <<account, now, sweep>>

SettleUserQuotaReservation(r, u, actual) ==
    SettleTrusted(r, u, actual) \/ SettleActive(r, u, actual)

\* Faulty variants: the hold's first amount is returned after a resize; a settled
\* hold is refunded too; an expired hold is refused.
RefundInitial(r, u) ==
    LET hold == reservation[r] IN
    /\ hold.user = u
    /\ hold.status = "active"
    /\ PostHold(r, u, "refund", 0, hold.initial)
    /\ reservation' = [reservation EXCEPT ![r] =
            [hold EXCEPT !.status = "refunded", !.version = @ + 1, !.expires = 0]]

RefundAnyStatus(r, u) ==
    LET hold == reservation[r] IN
    /\ hold.user = u
    /\ hold.status \in {"active", "settled"}
    /\ PostHold(r, u, "refund", 0, hold.reserved)
    /\ reservation' = [reservation EXCEPT ![r] =
            [hold EXCEPT !.status = "refunded", !.version = @ + 1, !.expires = 0]]

RefundUnlessExpired(r, u) ==
    LET hold == reservation[r] IN
    /\ hold.user = u
    /\ hold.status = "active"
    /\ hold.expires > now
    /\ PostHold(r, u, "refund", 0, hold.reserved)
    /\ reservation' = [reservation EXCEPT ![r] =
            [hold EXCEPT !.status = "refunded", !.version = @ + 1, !.expires = 0]]

\* The transaction of RefundUserQuotaReservation.
RefundHold(r, u) ==
    LET hold == reservation[r] IN
    /\ hold.user = u
    /\ hold.status = "active"
    /\ PostHold(r, u, "refund", 0, hold.reserved)
    /\ reservation' = [reservation EXCEPT ![r] =
            [hold EXCEPT !.status = "refunded", !.version = @ + 1, !.expires = 0]]

RefundUserQuotaReservation(r, u) ==
    /\ RefundHold(r, u)
    /\ UNCHANGED <<account, now, sweep>>

\* Claims the key and applies the signed delta; a used key is a replay.
ApplyUserQuotaMutation(m, u, delta) ==
    /\ Post(u, Key(m, "mutation", 0), delta)
    /\ UNCHANGED <<account, reservation, booked, now, sweep>>

SetUserQuotaBalance(m, u, target) ==
    ApplyUserQuotaMutation(m, u, target - quota[u])

-----------------------------------------------------------------------------
(* The sweeper, on the master node. *)

Due(r) ==
    /\ reservation[r].status = "active"
    /\ reservation[r].expires > 0
    /\ reservation[r].expires <= now

DueRequests == {r \in Requests : Due(r)}

\* ORDER BY expires_at LIMIT BatchSize.
Oldest(batch) ==
    LET rows == {batch[i] : i \in DOMAIN batch} IN
    /\ \A i, j \in DOMAIN batch : i < j =>
            reservation[batch[i]].expires <= reservation[batch[j]].expires
    /\ Cardinality(rows) = Len(batch)
    /\ \A r \in DueRequests \ rows : \A q \in rows :
            reservation[q].expires <= reservation[r].expires
    /\ rows # DueRequests => Len(batch) = BatchSize

\* RefundExpiredUserQuotaReservations reads its batch.
ListExpired ==
    /\ sweep = <<>>
    /\ \E n \in 1..BatchSize : \E batch \in [1..n -> DueRequests] :
            /\ Oldest(batch)
            /\ sweep' = batch
    /\ UNCHANGED <<quota, account, reservation, journal, booked, now>>

\* The next row is refunded, whatever its expiry is by now.
SweepRefund ==
    /\ sweep # <<>>
    /\ RefundHold(Head(sweep), reservation[Head(sweep)].user)
    /\ sweep' = Tail(sweep)
    /\ UNCHANGED <<account, now>>

\* The hold was refunded (a replay) or settled (a state error) in between.
SweepSkip ==
    /\ sweep # <<>>
    /\ reservation[Head(sweep)].status # "active"
    /\ sweep' = Tail(sweep)
    /\ UNCHANGED <<quota, account, reservation, journal, booked, now>>

\* Any other error gives up the rest of the batch: the user row is missing.
SweepFail ==
    /\ sweep # <<>>
    /\ reservation[Head(sweep)].status = "active"
    /\ account[reservation[Head(sweep)].user] # "live"
    /\ sweep' = <<>>
    /\ UNCHANGED <<quota, account, reservation, journal, booked, now>>

\* The master stops, or loses the database, between two rows.
SweepCrash ==
    /\ sweep # <<>>
    /\ sweep' = <<>>
    /\ UNCHANGED <<quota, account, reservation, journal, booked, now>>

\* Faulty variant: the correction is not journalled.
RepairSilently ==
    LET negative == {u \in Users : account[u] = "live" /\ quota[u] < 0} IN
    /\ negative # {}
    /\ quota' = [u \in Users |-> IF u \in negative THEN 0 ELSE quota[u]]
    /\ UNCHANGED <<account, reservation, journal, booked, now, sweep>>

\* One transaction of repairAllNegativeUserQuotas, at start-up of the master.
RepairNegativeUserQuotas ==
    LET negative == {u \in Users : account[u] = "live" /\ quota[u] < 0} IN
    /\ negative # {}
    /\ \E batch \in SUBSET negative :
        /\ Cardinality(batch) = BatchSize \/ (batch = negative /\ Cardinality(batch) < BatchSize)
        /\ \A u \in batch : KeyFree(Key(u, "repair", 0))
        /\ quota' = [u \in Users |-> IF u \in batch THEN 0 ELSE quota[u]]
        /\ journal' = [u \in Users |-> IF u \notin batch THEN journal[u]
                ELSE Append(journal[u], [key |-> Key(u, "repair", 0), delta |-> -quota[u],
                                         before |-> quota[u], after |-> 0])]
    /\ UNCHANGED <<account, reservation, booked, now, sweep>>

\* The user's own request: deleted_at is set and gorm hides the row.
Delete(u) ==
    /\ u \in Deletable
    /\ account[u] = "live"
    /\ account' = [account EXCEPT ![u] = "soft"]
    /\ UNCHANGED <<quota, reservation, journal, booked, now, sweep>>

\* An administrator's request, whose handler must first find the row: the row is
\* removed, and nothing else.
HardDeleteUserById(u) ==
    /\ u \in HardDeletable
    /\ account[u] = "live"
    /\ account' = [account EXCEPT ![u] = "gone"]
    /\ UNCHANGED <<quota, reservation, journal, booked, now, sweep>>

DeleteUser(u) == Delete(u) \/ HardDeleteUserById(u)

Tick ==
    /\ now < MaxTime
    /\ now' = now + 1
    /\ UNCHANGED <<quota, account, reservation, journal, booked, sweep>>

-----------------------------------------------------------------------------
Client(r, u) ==
    \/ \E amount \in Amounts :
        \/ ReserveUserQuota(r, u, amount)
        \/ ResizeUserQuotaReservation(r, u, amount)
        \/ SettleUserQuotaReservation(r, u, amount)
    \/ RefundUserQuotaReservation(r, u)

OtherMutation(m, u) ==
    \/ \E delta \in -MaxQuota..MaxQuota : ApplyUserQuotaMutation(m, u, delta)
    \/ \E target \in Amounts : SetUserQuotaBalance(m, u, target)

Sweeper == ListExpired \/ SweepRefund \/ SweepSkip \/ SweepFail \/ SweepCrash

Next ==
    \/ \E r \in Requests, u \in Users : Client(r, u)
    \/ \E m \in MutationKeys, u \in Users : OtherMutation(m, u)
    \/ Sweeper
    \/ RepairNegativeUserQuotas
    \/ \E u \in Users : DeleteUser(u)
    \/ Tick

Spec == Init /\ [][Next]_vars

\* The master's ticker keeps sweeping, and a crash or a database error does not
\* strike before the first refund of every sweep for ever.  Clients and the
\* administrator owe nothing.
SweeperFairness ==
    /\ WF_vars(ListExpired)
    /\ SF_vars(SweepRefund)
    /\ WF_vars(SweepSkip)
    /\ WF_vars(SweepFail)

FairSpec == Spec /\ SweeperFairness

-----------------------------------------------------------------------------
(* Properties. *)

\* Every variable holds rows of its table's type.
TypeOK ==
    /\ quota \in [Users -> Int]
    /\ account \in [Users -> {"live", "soft", "gone"}]
    /\ reservation \in [Requests -> Reservations]
    /\ journal \in [Users -> Seq(Rows)]
    /\ booked \in [Requests -> Int]
    /\ now \in Nat
    /\ sweep \in Seq(Requests)

\* The journal is a complete account of the wallet (user_quota_ledger.go:49):
\* a user's rows form an unbroken chain of balance snapshots that starts at the
\* balance the user had at deployment and ends at users.quota, whatever mix of
\* the ledger's own operations (holds, sweeps, repairs, other mutations) touched
\* the wallet.  Code that writes users.quota without the ledger is outside it:
\* subscription.go:730 debits the price of a subscription without a row.
JournalChain ==
    \A u \in Users :
        LET rows == journal[u] IN
        /\ \A i \in 1..Len(rows) : rows[i].after = rows[i].before + rows[i].delta
        /\ \A i \in 1..Len(rows) :
              rows[i].before = IF i = 1 THEN InitialQuota[u] ELSE rows[i - 1].after
        /\ quota[u] = IF rows = <<>> THEN InitialQuota[u] ELSE rows[Len(rows)].after

\* What ReconcileUserQuotaAccounting counts as no ledger mismatch: the journal
\* rows of a reservation add up to the amount it holds, to the amount it
\* charged, or to nothing, by its status.
HoldsReconciled ==
    \A r \in Requests :
        booked[r] = CASE reservation[r].status = "active"  -> -reservation[r].reserved
                      [] reservation[r].status = "settled" -> -reservation[r].settled
                      [] OTHER -> 0

\* A hold that is open can be closed: the journal keys its settlement, its
\* refund and its next resize will claim are still free, so the unique index
\* never makes a close of the hold fail (user_quota_ledger.go:466,580,637).
OpenHoldsCanClose ==
    \A r \in Requests : reservation[r].status = "active" =>
        /\ KeyFree(Key(r, "settle", 0))
        /\ KeyFree(Key(r, "refund", 0))
        /\ KeyFree(Key(r, "resize", reservation[r].version + 1))

\* The start-up check of model/main.go:527 as far as the ledger decides it: no
\* negative user once repaired, and no mismatch.  Here: a balance that is not
\* negative never becomes negative, and a negative one is never debited.
NeverOverdrawn ==
    [][\A u \in Users : quota'[u] < quota[u] => quota'[u] >= 0]_vars

\* A settled or refunded reservation is final: neither a late client call nor
\* a sweep that listed it while it was open touches it again
\* (TestUserQuotaReservationRejectsTerminalStateReplay).
ClosedHoldsAreFinal ==
    [][\A r \in Requests : reservation[r].status \in {"settled", "refunded"} =>
          reservation'[r] = reservation[r] /\ booked'[r] = booked[r]]_vars

AllLive == \A u \in Users : account[u] = "live"

\* An expired hold does not stay open for ever: the sweeper returns it, unless
\* the request closes or extends it first, over any number of crashes.  A user
\* who is deleted voids the promise (LiveUsersHoldsAreReturned).
ExpiredHoldsAreReturned ==
    \A r \in Requests : (Due(r) /\ AllLive) ~> ~(Due(r) /\ AllLive)

\* The sweeper serves every live user: the expired hold of a user who still
\* exists is returned, whatever happened to the owners of other expired holds
\* (model/user_quota_ledger_test.go:163-170).
LiveUsersHoldsAreReturned ==
    \A r \in Requests :
        LET waiting == Due(r) /\ account[reservation[r].user] = "live"
        IN  waiting ~> ~waiting

\* The ledger implements the escrow: a request holds what its journal rows
\* took from its user.
Escrow == INSTANCE WalletEscrow WITH
    funds <- quota,
    phase <- [r \in Requests |-> reservation[r].status],
    owner <- [r \in Requests |-> reservation[r].user],
    held  <- [r \in Requests |-> -booked[r]]

\* Every step of the ledger, of the sweeper included, is a step of the escrow.
ImplementsEscrow == Escrow!Spec
=============================================================================
