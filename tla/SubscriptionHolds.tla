-------------------------- MODULE SubscriptionHolds --------------------------
(***************************************************************************)
(* Quota held against the subscriptions of one user: the second half of    *)
(* model/subscription.go, and service/subscription_reset_task.go.          *)
(*                                                                         *)
(* A request pre-consumes quota of a subscription, may resize its hold and *)
(* then settles or refunds it.  Each call is one transaction that locks    *)
(* the rows it uses, hence one action; errors and replays change nothing.  *)
(* A subscription's use starts again at zero with every period: lazily,    *)
(* when a request looks at the subscription, or by the task of the master, *)
(* which lists the due rows first and resets them one by one.              *)
(*                                                                         *)
(* Subscriptions of other users never meet these: every query is by user   *)
(* or by the id of a subscription.  A request id carries its date          *)
(* (middleware/request-id.go) and is not used again after the clean-up of  *)
(* its record, a week later.                                               *)
(***************************************************************************)
EXTENDS Integers, FiniteSets, FiniteSetsExt

CONSTANTS
    Subs,           \* ids of the user's subscriptions
    Requests,       \* request ids
    MutationKeys,   \* idempotency keys of charges and refunds without a hold
    Total,          \* amount_total, by subscription; 0 is unlimited
    End,            \* end_time as bought, by subscription
    Periods,        \* the periods its plan may be given, by subscription
    MaxQuota,       \* bound on the amounts of one call
    MaxVersion,     \* bound on the version of a record (number of resizes)
    MaxTime,        \* bound on the clock
    BatchSize,      \* subscriptionResetBatchSize
    Retention       \* age after which a record is cleaned up

ASSUME ConstantsAssumption ==
    /\ Subs \subseteq Nat \ {0}
    /\ Total \in [Subs -> Nat]
    /\ End \in [Subs -> Nat]
    /\ Periods \in [Subs -> SUBSET SUBSET Nat]
    /\ MaxQuota \in Nat
    /\ MaxVersion \in Nat
    /\ MaxTime \in Nat
    /\ BatchSize \in Nat \ {0}
    /\ Retention \in Nat

VARIABLES
    plan,       \* the times at which a period of its plan is over, by subscription
    sub,        \* table user_subscriptions
    record,     \* table subscription_pre_consume_records, by request_id
    keys,       \* idempotency keys of table subscription_quota_transactions
    applied,    \* SUM(delta_quota) of the journal rows, by request
    now,        \* the clock
    due         \* rows the running reset task has listed, and when it did

vars == <<plan, sub, record, keys, applied, now, due>>

-----------------------------------------------------------------------------
(* Rows. *)

NoSub == 0

Start == 1      \* start_time of every subscription

\* A row that was hard-deleted has status "deleted".
Subscriptions ==
    [status : {"active", "expired", "cancelled", "deleted"},
     used : Nat, end : Nat, last : Nat, next : Nat]

\* A record that was cleaned up has status "removed".
Records ==
    [status : {"none", "consumed", "settled", "refunded", "removed"},
     sub : Subs \cup {NoSub}, held : Nat, version : Nat, updated : Nat]

NoRecord == [status |-> "none", sub |-> NoSub, held |-> 0, version |-> 0, updated |-> 0]

Key(id, op, version) == [id |-> id, op |-> op, version |-> version]

Keys ==
    [id : Requests \cup MutationKeys,
     op : {"preconsume", "resize", "settle", "refund", "mutation"}, version : Nat]

NotListed == [rows |-> {}, at |-> 0]

-----------------------------------------------------------------------------
(* The reset of a period.  A period by the calendar is over at fixed times; a   *)
(* period of so many seconds is counted from the last reset, so that its times *)
(* are those of the one subscription.  A plan without a period has none.        *)

\* calcNextResetTime: the end of the period that base is in (by the calendar, or
\* a fixed number of seconds later), or 0 if the subscription ends before it.
NextReset(s, base, end) ==
    LET later == {x \in plan[s] : base < x /\ x <= end} IN
    IF later = {} THEN 0 ELSE Min(later)

\* The last reset, or the purchase.
Base(s) == IF sub[s].last = 0 THEN Start ELSE sub[s].last

\* Faulty variant: the use is cleared and the period not advanced.
MaybeResetInPlace(s, t) ==
    IF sub[s].next > 0 /\ sub[s].next <= t THEN [sub[s] EXCEPT !.used = 0] ELSE sub[s]

\* maybeResetUserSubscriptionWithPlanTx: the row after a look at time t.
MaybeReset(s, t) ==
    LET row == sub[s]
        over == {x \in plan[s] : Base(s) < x /\ x <= row.end /\ x <= t}
        reached == IF over = {} THEN Base(s) ELSE Max(over)
        next == NextReset(s, reached, row.end)
    IN  CASE row.next <= t /\ over # {} ->
                [row EXCEPT !.used = 0, !.last = reached, !.next = next]
          [] row.next = 0 /\ over = {} /\ next > 0 ->
                [row EXCEPT !.last = reached, !.next = next]
          [] OTHER -> row

-----------------------------------------------------------------------------
(* The mutation of amount_used. *)

Clamp(x) == IF x < 0 THEN 0 ELSE x

\* Faulty variant: the total is not checked again.
CanMutateUnbounded(row, s, delta, key) == row.status # "deleted" /\ key \notin keys

\* applySubscriptionQuotaMutationTx finds the row, the key is new and the total
\* is kept.
CanMutate(row, s, delta, key) ==
    /\ row.status # "deleted"
    /\ key \notin keys
    /\ Total[s] > 0 => Clamp(row.used + delta) <= Total[s]

Mutated(row, delta) == [row EXCEPT !.used = Clamp(row.used + delta)]

\* The mutation of a request's hold, by delta.
Mutate(r, s, op, version, delta) ==
    LET key == Key(r, op, version) IN
    /\ CanMutate(sub[s], s, delta, key)
    /\ sub' = [sub EXCEPT ![s] = Mutated(sub[s], delta)]
    /\ keys' = keys \cup {key}
    /\ applied' = [applied EXCEPT ![r] = @ + Clamp(sub[s].used + delta) - sub[s].used]

-----------------------------------------------------------------------------
Init ==
    /\ plan \in [Subs -> UNION {Periods[s] : s \in Subs}]
    /\ \A s \in Subs : plan[s] \in Periods[s]
    /\ sub = [s \in Subs |->
            LET next == NextReset(s, Start, End[s]) IN
            [status |-> "active", used |-> 0, end |-> End[s],
             last |-> IF next > 0 THEN Start ELSE 0, next |-> next]]
    /\ record = [r \in Requests |-> NoRecord]
    /\ keys = {}
    /\ applied = [r \in Requests |-> 0]
    /\ now = Start
    /\ due = NotListed

(* Requests. *)

Candidates == {s \in Subs : sub[s].status = "active" /\ sub[s].end > now}

\* ORDER BY end_time, id.
Earlier(q, s) == sub[q].end < sub[s].end \/ (sub[q].end = sub[s].end /\ q < s)

Fits(s, amount) == Total[s] > 0 => Total[s] - MaybeReset(s, now).used >= amount

\* The first candidate with enough quota is charged; it and the candidates
\* passed over are reset on the way.
PreConsumeUserSubscription(r, amount) ==
    /\ amount > 0
    /\ record[r].status = "none"
    /\ \E s \in Candidates :
        LET key == Key(r, "preconsume", 0)
            passed == {q \in Candidates : Earlier(q, s)}
            row == MaybeReset(s, now)
        IN
        /\ Fits(s, amount)
        /\ \A q \in passed : ~Fits(q, amount)
        /\ CanMutate(row, s, amount, key)
        /\ sub' = [q \in Subs |->
                IF q = s THEN Mutated(row, amount)
                ELSE IF q \in passed THEN MaybeReset(q, now) ELSE sub[q]]
        /\ keys' = keys \cup {key}
        /\ applied' = [applied EXCEPT ![r] = amount]
        /\ record' = [record EXCEPT ![r] =
                [status |-> "consumed", sub |-> s, held |-> amount, version |-> 1,
                 updated |-> now]]
    /\ UNCHANGED <<plan, now, due>>

\* Faulty variant: the version is not advanced.
ResizeKeepingVersion(r, target) ==
    LET hold == record[r] IN
    /\ hold.version < MaxVersion
    /\ hold.status = "consumed"
    /\ hold.held # target
    /\ Mutate(r, hold.sub, "resize", hold.version + 1, target - hold.held)
    /\ record' = [record EXCEPT ![r] = [hold EXCEPT !.held = target, !.updated = now]]
    /\ UNCHANGED <<plan, now, due>>

ResizeSubscriptionPreConsume(r, target) ==
    LET hold == record[r] IN
    /\ hold.version < MaxVersion
    /\ hold.status = "consumed"
    /\ hold.held # target
    /\ Mutate(r, hold.sub, "resize", hold.version + 1, target - hold.held)
    /\ record' = [record EXCEPT ![r] =
            [hold EXCEPT !.held = target, !.version = hold.version + 1, !.updated = now]]
    /\ UNCHANGED <<plan, now, due>>

\* Faulty variant: the record keeps what was held, not what was charged.
SettleKeepingHeld(r, actual) ==
    LET hold == record[r] IN
    /\ hold.status = "consumed"
    /\ IF actual = hold.held THEN UNCHANGED <<sub, keys, applied>>
       ELSE Mutate(r, hold.sub, "settle", 0, actual - hold.held)
    /\ record' = [record EXCEPT ![r] =
            [hold EXCEPT !.status = "settled", !.version = hold.version + 1, !.updated = now]]
    /\ UNCHANGED <<plan, now, due>>

\* The difference to the actual charge is applied, if there is one.
SettleSubscriptionPreConsume(r, actual) ==
    LET hold == record[r] IN
    /\ hold.status = "consumed"
    /\ IF actual = hold.held THEN UNCHANGED <<sub, keys, applied>>
       ELSE Mutate(r, hold.sub, "settle", 0, actual - hold.held)
    /\ record' = [record EXCEPT ![r] =
            [hold EXCEPT !.status = "settled", !.held = actual, !.version = hold.version + 1,
                         !.updated = now]]
    /\ UNCHANGED <<plan, now, due>>

\* Faulty variant: a settled record is refunded too.
RefundAnyStatus(r) ==
    LET hold == record[r] IN
    /\ hold.status \in {"consumed", "settled"}
    /\ IF hold.held = 0 THEN UNCHANGED <<sub, keys, applied>>
       ELSE Mutate(r, hold.sub, "refund", 0, -hold.held)
    /\ record' = [record EXCEPT ![r] =
            [hold EXCEPT !.status = "refunded", !.version = hold.version + 1, !.updated = now]]
    /\ UNCHANGED <<plan, now, due>>

\* Faulty variant: the record is refunded and the use is not returned.
RefundWithoutMutation(r) ==
    LET hold == record[r] IN
    /\ hold.status = "consumed"
    /\ record' = [record EXCEPT ![r] =
            [hold EXCEPT !.status = "refunded", !.version = hold.version + 1, !.updated = now]]
    /\ UNCHANGED <<plan, sub, keys, applied, now, due>>

\* The record keeps the amount; a period reset in between may leave less to
\* return.
RefundSubscriptionPreConsume(r) ==
    LET hold == record[r] IN
    /\ hold.status = "consumed"
    /\ IF hold.held = 0 THEN UNCHANGED <<sub, keys, applied>>
       ELSE Mutate(r, hold.sub, "refund", 0, -hold.held)
    /\ record' = [record EXCEPT ![r] =
            [hold EXCEPT !.status = "refunded", !.version = hold.version + 1, !.updated = now]]
    /\ UNCHANGED <<plan, now, due>>

\* PostConsumeUserSubscriptionDeltaIdempotentWithResult: a task's adjustment.
PostConsumeUserSubscriptionDelta(m, s, delta) ==
    LET key == Key(m, "mutation", 0) IN
    /\ delta # 0
    /\ CanMutate(sub[s], s, delta, key)
    /\ sub' = [sub EXCEPT ![s] = Mutated(sub[s], delta)]
    /\ keys' = keys \cup {key}
    /\ UNCHANGED <<plan, record, applied, now, due>>

-----------------------------------------------------------------------------
(* Administration, and the task of the master. *)

\* AdminUpdateSubscriptionPlan: rows bought earlier keep their next_reset_time.
\* The node that edits drops the plan from its cache, the others once it is old.
AdminUpdateSubscriptionPlan(s) ==
    /\ \E period \in Periods[s] \ {plan[s]} : plan' = [plan EXCEPT ![s] = period]
    /\ UNCHANGED <<sub, record, keys, applied, now, due>>

AdminInvalidateUserSubscription(s) ==
    /\ sub[s].status # "deleted"
    /\ sub' = [sub EXCEPT ![s] = [sub[s] EXCEPT !.status = "cancelled", !.end = now]]
    /\ UNCHANGED <<plan, record, keys, applied, now, due>>

AdminDeleteUserSubscription(s) ==
    /\ sub[s].status # "deleted"
    /\ sub' = [sub EXCEPT ![s] = [sub[s] EXCEPT !.status = "deleted"]]
    /\ UNCHANGED <<plan, record, keys, applied, now, due>>

\* One statement for all of the user's subscriptions that have ended.
ExpireDueSubscriptions ==
    LET ended == {s \in Subs : sub[s].status = "active" /\ sub[s].end <= now} IN
    /\ ended # {}
    /\ sub' = [s \in Subs |->
            IF s \in ended THEN [sub[s] EXCEPT !.status = "expired"] ELSE sub[s]]
    /\ UNCHANGED <<plan, record, keys, applied, now, due>>

ResetIsDue(s, t) == sub[s].next > 0 /\ sub[s].next <= t

\* ResetDueSubscriptions reads its batch, the longest overdue first.
ListDue ==
    LET rows == {s \in Subs : sub[s].status = "active" /\ ResetIsDue(s, now)} IN
    /\ due.rows = {}
    /\ \E batch \in SUBSET rows \ {{}} :
        /\ \A s \in batch, q \in rows \ batch : sub[s].next <= sub[q].next
        /\ Cardinality(batch) <= BatchSize
        /\ batch # rows => Cardinality(batch) = BatchSize
        /\ due' = [rows |-> batch, at |-> now]
    /\ UNCHANGED <<plan, sub, record, keys, applied, now>>

\* One row of the batch: looked up again, and reset as of the time of the list,
\* or passed over when it is not due any more.
ResetListed(s) ==
    /\ s \in due.rows
    /\ sub' = IF sub[s].status # "deleted" /\ ResetIsDue(s, due.at)
              THEN [sub EXCEPT ![s] = MaybeReset(s, due.at)]
              ELSE sub
    /\ due' = [due EXCEPT !.rows = @ \ {s}]
    /\ UNCHANGED <<plan, record, keys, applied, now>>

\* The master stops, or loses the database, within a batch.
ResetCrash ==
    /\ due.rows # {}
    /\ due' = NotListed
    /\ UNCHANGED <<plan, sub, record, keys, applied, now>>

\* Records are removed by age alone.
CleanupSubscriptionPreConsumeRecords ==
    LET old == {r \in Requests : record[r].status \in {"consumed", "settled", "refunded"}
                                 /\ record[r].updated < now - Retention} IN
    /\ old # {}
    /\ record' = [r \in Requests |->
            IF r \in old THEN [record[r] EXCEPT !.status = "removed"] ELSE record[r]]
    /\ UNCHANGED <<plan, sub, keys, applied, now, due>>

Tick ==
    /\ now < MaxTime
    /\ now' = now + 1
    /\ UNCHANGED <<plan, sub, record, keys, applied, due>>

-----------------------------------------------------------------------------
Client(r) ==
    \/ \E amount \in 0..MaxQuota :
        \/ PreConsumeUserSubscription(r, amount)
        \/ ResizeSubscriptionPreConsume(r, amount)
        \/ SettleSubscriptionPreConsume(r, amount)
    \/ RefundSubscriptionPreConsume(r)

Administration(s) ==
    \/ AdminUpdateSubscriptionPlan(s)
    \/ AdminInvalidateUserSubscription(s)
    \/ AdminDeleteUserSubscription(s)

Maintenance ==
    \/ ExpireDueSubscriptions
    \/ ListDue
    \/ \E s \in Subs : ResetListed(s)
    \/ ResetCrash
    \/ CleanupSubscriptionPreConsumeRecords

Next ==
    \/ \E r \in Requests : Client(r)
    \/ \E m \in MutationKeys, s \in Subs, delta \in -MaxQuota..MaxQuota :
            PostConsumeUserSubscriptionDelta(m, s, delta)
    \/ \E s \in Subs : Administration(s)
    \/ Maintenance
    \/ Tick

Spec == Init /\ [][Next]_vars

\* The master's ticker runs the task every minute, and it is not interrupted
\* before the same row every time.
FairSpec ==
    /\ Spec
    /\ WF_vars(ListDue)
    /\ \A s \in Subs : SF_vars(ResetListed(s))
    /\ WF_vars(ExpireDueSubscriptions)

-----------------------------------------------------------------------------
(* Properties. *)

\* Every variable holds rows of its table's type.
TypeOK ==
    /\ plan \in [Subs -> SUBSET Nat]
    /\ sub \in [Subs -> Subscriptions]
    /\ record \in [Requests -> Records]
    /\ keys \subseteq Keys
    /\ applied \in [Requests -> Int]
    /\ now \in Nat
    /\ due \in [rows : SUBSET Subs, at : Nat]

\* A subscription never gives more than its total, whichever of pre-consume,
\* resize, settle, task adjustment and reset touched it (subscription.go:1269).
WithinTotal == \A s \in Subs : Total[s] > 0 => sub[s].used <= Total[s]

\* What the request holds or was charged.
Held(r) == IF record[r].status \in {"consumed", "settled"} THEN record[r].held ELSE 0

\* The same, and for a record that is gone what it held or was charged last.
HeldAtMost(r) == IF record[r].status = "removed" THEN record[r].held ELSE Held(r)

\* The requests that took from s.
Of(s) == {r \in Requests : record[r].sub = s}

\* No period of s was reset yet.
FirstPeriod(s) == sub[s].last <= Start

\* As long as no task adjusted it, the use of a subscription is what its requests
\* hold and were charged (TestSubscriptionPreConsumeLifecycleIsDurableAndIdempotent),
\* and once a period was reset or a record removed never more than that: no
\* sequence of holds, resets, late refunds and clean-ups charges the user for a
\* request that does not stand.
UseIsBacked ==
    (\A key \in keys : key.op # "mutation") =>
        \A s \in Subs :
            /\ sub[s].used <= SumFunctionOnSet([r \in Requests |-> HeldAtMost(r)], Of(s))
            /\ FirstPeriod(s) /\ (\A r \in Of(s) : record[r].status # "removed")
                  => sub[s].used = SumFunctionOnSet([r \in Requests |-> Held(r)], Of(s))

\* The journal rows of a request add up to what it holds or was charged, and to
\* nothing once refunded.  Only a reset in between, or a task that returned what
\* it had not taken, lets them add up to more, since a refund returns no more than
\* the use there is (TestSubscriptionRefundJournalRecordsAppliedDeltaAfterQuotaReset).
JournalMatchesHold ==
    \A r \in Requests : record[r].status # "removed" =>
        /\ applied[r] >= Held(r)
        /\ record[r].sub # NoSub /\ FirstPeriod(record[r].sub)
           /\ (\A key \in keys : key.op # "mutation") => applied[r] = Held(r)

\* A settled or refunded record is final; it may only be cleaned up.
ClosedRecordsAreFinal ==
    [][\A r \in Requests : record[r].status \in {"settled", "refunded"} =>
          /\ applied'[r] = applied[r]
          /\ record'[r] \in {record[r], [record[r] EXCEPT !.status = "removed"]}]_vars

\* The use of a subscription changes only by a journalled mutation or with the
\* beginning of a later period that has been reached: the task of the master and
\* a request, both resetting the row, never clear the same period twice.
UseIsAccounted ==
    [][\A s \in Subs : sub'[s].used # sub[s].used =>
          \/ keys' # keys
          \/ sub'[s].last > sub[s].last /\ sub'[s].last <= now]_vars

\* An open hold can be closed: the journal keys of its settlement, its refund
\* and its next resize are free.
OpenHoldsCanClose ==
    \A r \in Requests : record[r].status = "consumed" =>
        /\ Key(r, "settle", 0) \notin keys
        /\ Key(r, "refund", 0) \notin keys
        /\ Key(r, "resize", record[r].version + 1) \notin keys

Waiting(s) == sub[s].status = "active" /\ ResetIsDue(s, now)

\* The row is due by the plan it was last reset under, and not by the plan as it
\* is now (subscription.go:1073,1088): it stays due, at the head of every list.
Stuck(s) == Waiting(s) /\ NextReset(s, Base(s), sub[s].end) \notin 1..now

\* A subscription whose period is over is reset, unless it ends first, or as long
\* as no edit of a plan leaves a due row stuck: BatchSize stuck rows keep every
\* later row from being listed.
DueSubscriptionsAreReset ==
    \A s \in Subs :
        LET owed == Waiting(s) /\ \A q \in Subs : ~Stuck(q)
        IN  owed ~> ~owed
=============================================================================
