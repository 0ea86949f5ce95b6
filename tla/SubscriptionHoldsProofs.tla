----------------------- MODULE SubscriptionHoldsProofs -----------------------
(***************************************************************************)
(* Theorems about SubscriptionHolds, for any number of subscriptions and   *)
(* requests and any times at which periods end.                            *)
(***************************************************************************)
EXTENDS SubscriptionHolds, DataInduction, TLAPS

-----------------------------------------------------------------------------
(* Times at which periods end. *)

\* A set of natural numbers that has a member has a smallest one.
LEMMA MinMember ==
    ASSUME NEW S \in SUBSET Nat, S # {}
    PROVE  Min(S) \in S /\ \A y \in S : Min(S) <= y
BY LeastPlace DEF Min

\* A set of natural numbers that has a member and a bound has a greatest member.
LEMMA MaxMember ==
    ASSUME NEW S \in SUBSET Nat, S # {}, NEW b \in Nat, \A x \in S : x <= b
    PROVE  Max(S) \in S
<1> DEFINE D == {b - x : x \in S}
<1>1. D \in SUBSET Nat /\ D # {}
    <2>1. \A x \in S : b - x \in Nat
        OBVIOUS
    <2>2. D \subseteq Nat
        BY <2>1
    <2>3. QED
        BY <2>2
<1>2. Min(D) \in D /\ \A y \in D : Min(D) <= y
    BY <1>1, MinMember
<1>3. PICK m \in S : Min(D) = b - m
    BY <1>2
<1>4. \A y \in S : m >= y
    <2>1. TAKE y \in S
    <2>2. b - y \in D
        OBVIOUS
    <2>3. b - m <= b - y
        BY <1>2, <1>3, <2>2
    <2>4. m \in Nat /\ y \in Nat
        OBVIOUS
    <2>5. QED
        BY <2>3, <2>4
<1>5. QED
    BY <1>4 DEF Max

\* The end of a period is a time, or 0 for none.
LEMMA NextResetType ==
    ASSUME NEW s \in Subs, plan[s] \in SUBSET Nat, NEW base \in Nat, NEW end \in Nat
    PROVE  NextReset(s, base, end) \in Nat
<1> DEFINE later == {x \in plan[s] : base < x /\ x <= end}
<1>1. later \in SUBSET Nat
    OBVIOUS
<1>2. later # {} => Min(later) \in later
    BY <1>1, MinMember
<1>3. QED
    BY <1>1, <1>2 DEF NextReset

-----------------------------------------------------------------------------
(* What a look at a row does. *)

\* A reset clears the use only together with an advance of the period, to a time
\* after the first that has been reached, and leaves the status alone.
LEMMA MaybeResetRow ==
    ASSUME TypeOK, NEW s \in Subs, NEW t \in Nat
    PROVE  LET row == MaybeReset(s, t) IN
           /\ row \in Subscriptions
           /\ row.status = sub[s].status
           /\ \/ row.used = sub[s].used /\ row.last >= sub[s].last
              \/ /\ row.used = 0 /\ row.last > sub[s].last
                 /\ row.last > Start /\ row.last <= t
<1> DEFINE row == sub[s]
           base == Base(s)
           over == {x \in plan[s] : base < x /\ x <= row.end /\ x <= t}
           reached == IF over = {} THEN base ELSE Max(over)
           next == NextReset(s, reached, row.end)
<1>1. row \in Subscriptions
    BY DEF TypeOK
<1>2. base \in Nat /\ base >= row.last /\ base >= Start /\ Start \in Nat
    BY <1>1 DEF Subscriptions, Start, Base
<1>3. over \in SUBSET Nat /\ plan[s] \in SUBSET Nat
    BY DEF TypeOK
<1>4. over # {} => Max(over) \in over
    BY <1>3, MaxMember
<1>5. reached \in Nat
    BY <1>2, <1>3, <1>4
<1>6. next \in Nat
    BY <1>1, <1>3, <1>5, NextResetType DEF Subscriptions
<1>7. over # {} => reached > row.last /\ reached > Start /\ reached <= t
    <2>1. SUFFICES ASSUME over # {} PROVE reached > row.last /\ reached > Start /\ reached <= t
        OBVIOUS
    <2>2. reached \in over
        BY <1>4, <2>1
    <2>3. base < reached /\ reached <= t
        BY <2>2
    <2>4. row.last \in Nat
        BY <1>1 DEF Subscriptions
    <2> HIDE DEF base, reached, over, row
    <2>5. QED
        BY <1>2, <1>5, <2>3, <2>4
<1>8. over = {} => reached >= row.last
    BY <1>2
<1> HIDE DEF over, next, reached
<1>9. MaybeReset(s, t) =
        CASE row.next <= t /\ over # {} ->
                [row EXCEPT !.used = 0, !.last = reached, !.next = next]
          [] row.next = 0 /\ over = {} /\ next > 0 ->
                [row EXCEPT !.last = reached, !.next = next]
          [] OTHER -> row
    BY DEF MaybeReset, over, next, reached
<1> HIDE DEF row, base
<1>10. CASE row.next <= t /\ over # {}
    <2>1. MaybeReset(s, t) = [row EXCEPT !.used = 0, !.last = reached, !.next = next]
        BY <1>9, <1>10
    <2>2. reached > row.last /\ reached > Start /\ reached <= t
        BY <1>7, <1>10
    <2> DEFINE reset == [row EXCEPT !.used = 0, !.last = reached, !.next = next]
    <2>3. /\ reset \in Subscriptions
          /\ reset.status = row.status
          /\ reset.used = 0
          /\ reset.last = reached
        <3> DEFINE cleared == [row EXCEPT !.used = 0]
        <3>1. cleared \in Subscriptions
            BY <1>1 DEF Subscriptions
        <3>2. [cleared EXCEPT !.last = reached, !.next = next] \in Subscriptions
            BY <1>5, <1>6, <3>1 DEF Subscriptions
        <3>3. reset = [cleared EXCEPT !.last = reached, !.next = next]
            OBVIOUS
        <3>4. QED
            BY <1>1, <3>2, <3>3 DEF Subscriptions
    <2>4. MaybeReset(s, t) = reset
        BY <2>1
    <2> HIDE DEF reset
    <2>5. QED
        BY <2>2, <2>3, <2>4 DEF row
<1>11. CASE row.next = 0 /\ over = {} /\ next > 0
    <2>1. MaybeReset(s, t) = [row EXCEPT !.last = reached, !.next = next]
        BY <1>9, <1>11
    <2>2. QED
        BY <1>1, <1>5, <1>6, <1>8, <1>11, <2>1 DEF Subscriptions, row
<1>12. CASE ~(row.next <= t /\ over # {}) /\ ~(row.next = 0 /\ over = {} /\ next > 0)
    <2>1. MaybeReset(s, t) = row
        BY <1>9, <1>12
    <2>2. row.last \in Nat
        BY <1>1 DEF Subscriptions
    <2>3. QED
        BY <1>1, <2>1, <2>2 DEF row
<1>13. QED
    BY <1>10, <1>11, <1>12

\* The row after a mutation: only the use is another, and it is a natural number.
LEMMA MutatedRow ==
    ASSUME NEW row \in Subscriptions, NEW delta \in Int
    PROVE  /\ Mutated(row, delta) \in Subscriptions
           /\ Mutated(row, delta).used = Clamp(row.used + delta)
           /\ Mutated(row, delta).last = row.last
           /\ Mutated(row, delta).status = row.status
<1>1. Clamp(row.used + delta) \in Nat
    BY DEF Clamp, Subscriptions
<1>2. QED
    BY <1>1 DEF Mutated, Subscriptions

\* The mutation of a hold keeps the types of what it changes.
LEMMA MutateTypes ==
    ASSUME TypeOK, NEW r \in Requests, NEW s \in Subs, NEW delta \in Int,
           NEW op \in {"preconsume", "resize", "settle", "refund"}, NEW version \in Nat,
           Mutate(r, s, op, version, delta)
    PROVE  /\ sub' \in [Subs -> Subscriptions]
           /\ keys' \subseteq Keys
           /\ applied' \in [Requests -> Int]
<1>1. sub[s] \in Subscriptions /\ applied[r] \in Int
    BY DEF TypeOK
<1>2. Clamp(sub[s].used + delta) \in Int /\ sub[s].used \in Int
    BY <1>1 DEF Clamp, Subscriptions
<1>3. sub' \in [Subs -> Subscriptions]
    BY <1>1, MutatedRow DEF Mutate, TypeOK
<1>4. keys' \subseteq Keys
    BY DEF Mutate, TypeOK, Key, Keys
<1>5. applied' \in [Requests -> Int]
    BY <1>1, <1>2 DEF Mutate, TypeOK
<1>6. QED
    BY <1>3, <1>4, <1>5

\* A record that exists names its subscription, and a listing is not from the
\* future.
Backed ==
    /\ \A r \in Requests : record[r].status # "none" => record[r].sub \in Subs
    /\ due.at <= now

\* Fresh subscriptions, no records, no listing.
LEMMA InitTypes == Init => TypeOK /\ Backed
<1> SUFFICES ASSUME Init PROVE TypeOK /\ Backed
    OBVIOUS
<1>1. Start \in Nat /\ \A s \in Subs : End[s] \in Nat
    BY ConstantsAssumption DEF Start
<1>0. plan \in [Subs -> SUBSET Nat]
    <2>1. \A s \in Subs : plan[s] \in SUBSET Nat
        BY ConstantsAssumption DEF Init
    <2>2. QED
        BY <2>1 DEF Init
<1>2. \A s \in Subs : NextReset(s, Start, End[s]) \in Nat
    BY <1>0, <1>1, NextResetType
<1>3. sub \in [Subs -> Subscriptions]
    BY <1>1, <1>2 DEF Init, Subscriptions
<1>4. record \in [Requests -> Records]
    BY DEF Init, Records, NoRecord
<1>5. due \in [rows : SUBSET Subs, at : Nat] /\ due.at <= now
    BY <1>1 DEF Init, NotListed, Start
<1>6. keys \subseteq Keys /\ applied \in [Requests -> Int] /\ now \in Nat
    BY <1>1 DEF Init
<1>7. QED
    BY <1>0, <1>3, <1>4, <1>5, <1>6 DEF TypeOK, Backed, Init, NoRecord

-----------------------------------------------------------------------------
(* The inductive step, one lemma per action. *)

\* Pre-consuming opens a record of the subscription it charges.
LEMMA PreConsumeTypes ==
    ASSUME TypeOK, Backed, NEW r \in Requests, NEW amount \in 0..MaxQuota,
           PreConsumeUserSubscription(r, amount)
    PROVE  TypeOK' /\ Backed'
<1>1. PICK s \in Candidates :
        LET key == Key(r, "preconsume", 0)
            passed == {q \in Candidates : Earlier(q, s)}
            row == MaybeReset(s, now)
        IN
        /\ Fits(s, amount)
        /\ \A q \in passed : ~Fits(q, amount)
        /\ CanMutate(row, s, amount, key)
        /\ sub' = [q \in Subs |->
                IF q = s THEN Mutated(row, amount)
                ELSE IF q \in passed THEN MaybeReset(q, now) ELSE sub[q]]
        /\ keys' = keys \cup {key}
        /\ applied' = [applied EXCEPT ![r] = amount]
        /\ record' = [record EXCEPT ![r] =
                [status |-> "consumed", sub |-> s, held |-> amount, version |-> 1,
                 updated |-> now]]
    BY DEF PreConsumeUserSubscription
<1>2. s \in Subs /\ amount \in Nat /\ amount \in Int /\ now \in Nat
    BY ConstantsAssumption DEF Candidates, TypeOK
<1>3. \A q \in Subs : MaybeReset(q, now) \in Subscriptions /\ sub[q] \in Subscriptions
    BY <1>2, MaybeResetRow DEF TypeOK
<1>4. Mutated(MaybeReset(s, now), amount) \in Subscriptions
    BY <1>2, <1>3, MutatedRow
<1>5. sub' \in [Subs -> Subscriptions]
    BY <1>1, <1>3, <1>4
<1>6. record' \in [Requests -> Records]
    BY <1>1, <1>2 DEF TypeOK, Records
<1>7. keys' \subseteq Keys
    BY <1>1 DEF TypeOK, Key, Keys
<1>8. applied' \in [Requests -> Int]
    BY <1>1, <1>2 DEF TypeOK
<1>9. \A q \in Requests : record'[q].status # "none" => record'[q].sub \in Subs
    BY <1>1, <1>2 DEF TypeOK, Backed
<1>10. UNCHANGED <<plan, now, due>>
    BY DEF PreConsumeUserSubscription
<1>11. QED
    BY <1>5, <1>6, <1>7, <1>8, <1>9, <1>10 DEF TypeOK, Backed

\* Resizing rewrites an open record.
LEMMA ResizeTypes ==
    ASSUME TypeOK, Backed, NEW r \in Requests, NEW target \in 0..MaxQuota,
           ResizeSubscriptionPreConsume(r, target)
    PROVE  TypeOK' /\ Backed'
<1> DEFINE hold == record[r]
<1>1. hold \in Records /\ hold.sub \in Subs /\ target \in Nat /\ now \in Nat
    BY ConstantsAssumption DEF TypeOK, Backed, ResizeSubscriptionPreConsume
<1>2. hold.version + 1 \in Nat /\ target - hold.held \in Int
    BY <1>1 DEF Records
<1>3. Mutate(r, hold.sub, "resize", hold.version + 1, target - hold.held)
    BY DEF ResizeSubscriptionPreConsume
<1>4. /\ sub' \in [Subs -> Subscriptions]
      /\ keys' \subseteq Keys
      /\ applied' \in [Requests -> Int]
    BY <1>1, <1>2, <1>3, MutateTypes
<1>5. record' \in [Requests -> Records]
    BY <1>1, <1>2 DEF TypeOK, Records, ResizeSubscriptionPreConsume
<1>6. \A q \in Requests : record'[q].status # "none" => record'[q].sub \in Subs
    BY <1>1 DEF TypeOK, Backed, Records, ResizeSubscriptionPreConsume
<1>7. QED
    BY <1>4, <1>5, <1>6 DEF TypeOK, Backed, ResizeSubscriptionPreConsume

\* Settling closes a record, with or without a mutation.
LEMMA SettleTypes ==
    ASSUME TypeOK, Backed, NEW r \in Requests, NEW actual \in 0..MaxQuota,
           SettleSubscriptionPreConsume(r, actual)
    PROVE  TypeOK' /\ Backed'
<1> DEFINE hold == record[r]
<1>1. hold \in Records /\ hold.sub \in Subs /\ actual \in Nat /\ now \in Nat
    BY ConstantsAssumption DEF TypeOK, Backed, SettleSubscriptionPreConsume
<1>2. hold.version + 1 \in Nat /\ actual - hold.held \in Int /\ 0 \in Nat
    BY <1>1 DEF Records
<1>3. \/ UNCHANGED <<sub, keys, applied>>
      \/ Mutate(r, hold.sub, "settle", 0, actual - hold.held)
    BY DEF SettleSubscriptionPreConsume
<1>4. /\ sub' \in [Subs -> Subscriptions]
      /\ keys' \subseteq Keys
      /\ applied' \in [Requests -> Int]
    BY <1>1, <1>2, <1>3, MutateTypes DEF TypeOK
<1>5. record' \in [Requests -> Records]
    BY <1>1, <1>2 DEF TypeOK, Records, SettleSubscriptionPreConsume
<1>6. \A q \in Requests : record'[q].status # "none" => record'[q].sub \in Subs
    BY <1>1 DEF TypeOK, Backed, Records, SettleSubscriptionPreConsume
<1>7. QED
    BY <1>4, <1>5, <1>6 DEF TypeOK, Backed, SettleSubscriptionPreConsume

\* Refunding closes a record, with or without a mutation.
LEMMA RefundTypes ==
    ASSUME TypeOK, Backed, NEW r \in Requests, RefundSubscriptionPreConsume(r)
    PROVE  TypeOK' /\ Backed'
<1> DEFINE hold == record[r]
<1>1. hold \in Records /\ hold.sub \in Subs /\ now \in Nat
    BY DEF TypeOK, Backed, RefundSubscriptionPreConsume
<1>2. hold.version + 1 \in Nat /\ -hold.held \in Int /\ 0 \in Nat
    BY <1>1 DEF Records
<1>3. \/ UNCHANGED <<sub, keys, applied>>
      \/ Mutate(r, hold.sub, "refund", 0, -hold.held)
    BY DEF RefundSubscriptionPreConsume
<1>4. /\ sub' \in [Subs -> Subscriptions]
      /\ keys' \subseteq Keys
      /\ applied' \in [Requests -> Int]
    BY <1>1, <1>2, <1>3, MutateTypes DEF TypeOK
<1>5. record' \in [Requests -> Records]
    BY <1>1, <1>2 DEF TypeOK, Records, RefundSubscriptionPreConsume
<1>6. \A q \in Requests : record'[q].status # "none" => record'[q].sub \in Subs
    BY <1>1 DEF TypeOK, Backed, Records, RefundSubscriptionPreConsume
<1>7. QED
    BY <1>4, <1>5, <1>6 DEF TypeOK, Backed, RefundSubscriptionPreConsume

\* The actions that are not a request's.
OtherStep ==
    \/ \E m \in MutationKeys, s \in Subs, delta \in -MaxQuota..MaxQuota :
            PostConsumeUserSubscriptionDelta(m, s, delta)
    \/ \E s \in Subs : Administration(s)
    \/ Maintenance
    \/ Tick
    \/ UNCHANGED vars

\* A step is a request's or another one.
LEMMA Steps ==
    ASSUME [Next]_vars
    PROVE  (\E r \in Requests : Client(r)) \/ OtherStep
BY DEF Next, OtherStep

\* Adjustments, administration, maintenance and time.
LEMMA OtherTypes ==
    ASSUME TypeOK, Backed, OtherStep
    PROVE  TypeOK' /\ Backed'
<1>0. now \in Nat /\ \A s \in Subs : sub[s] \in Subscriptions
    BY DEF TypeOK
<1>1. ASSUME NEW m \in MutationKeys, NEW s \in Subs, NEW delta \in -MaxQuota..MaxQuota,
             PostConsumeUserSubscriptionDelta(m, s, delta)
      PROVE  TypeOK' /\ Backed'
    <2>1. delta \in Int
        BY ConstantsAssumption
    <2>2. sub' \in [Subs -> Subscriptions]
        BY <1>0, <1>1, <2>1, MutatedRow DEF PostConsumeUserSubscriptionDelta, TypeOK
    <2>3. keys' \subseteq Keys
        BY <1>1 DEF PostConsumeUserSubscriptionDelta, TypeOK, Key, Keys
    <2>4. QED
        BY <1>1, <2>2, <2>3 DEF PostConsumeUserSubscriptionDelta, TypeOK, Backed
<1>11. ASSUME NEW s \in Subs, AdminUpdateSubscriptionPlan(s) PROVE TypeOK' /\ Backed'
    <2>1. PICK period \in Periods[s] : plan' = [plan EXCEPT ![s] = period]
        BY <1>11 DEF AdminUpdateSubscriptionPlan
    <2>2. period \in SUBSET Nat
        BY ConstantsAssumption
    <2>3. plan' \in [Subs -> SUBSET Nat]
        BY <2>1, <2>2 DEF TypeOK
    <2> QED
        BY <1>11, <2>3 DEF AdminUpdateSubscriptionPlan, TypeOK, Backed
<1>2. ASSUME NEW s \in Subs, Administration(s), ~AdminUpdateSubscriptionPlan(s)
      PROVE  TypeOK' /\ Backed'
    <2> DEFINE cancelled == [sub[s] EXCEPT !.status = "cancelled"]
    <2>1. cancelled \in Subscriptions
        BY <1>0 DEF Subscriptions
    <2>2. [cancelled EXCEPT !.end = now] \in Subscriptions
        BY <1>0, <2>1 DEF Subscriptions
    <2>3. [sub[s] EXCEPT !.status = "cancelled", !.end = now] = [cancelled EXCEPT !.end = now]
        OBVIOUS
    <2>4. [sub[s] EXCEPT !.status = "deleted"] \in Subscriptions
        BY <1>0 DEF Subscriptions
    <2>5. \/ sub' = [sub EXCEPT ![s] = [sub[s] EXCEPT !.status = "cancelled", !.end = now]]
          \/ sub' = [sub EXCEPT ![s] = [sub[s] EXCEPT !.status = "deleted"]]
        BY <1>2 DEF Administration, AdminInvalidateUserSubscription, AdminDeleteUserSubscription
    <2> HIDE DEF cancelled
    <2>6. sub' \in [Subs -> Subscriptions]
        BY <2>2, <2>3, <2>4, <2>5 DEF TypeOK
    <2>7. QED
        BY <1>2, <2>6 DEF Administration, AdminInvalidateUserSubscription,
            AdminDeleteUserSubscription, TypeOK, Backed
<1>3. CASE ExpireDueSubscriptions
    <2>1. sub' \in [Subs -> Subscriptions]
        BY <1>0, <1>3 DEF ExpireDueSubscriptions, Subscriptions
    <2>2. QED
        BY <1>3, <2>1 DEF ExpireDueSubscriptions, TypeOK, Backed
<1>4. CASE ListDue
    <2>1. PICK batch \in SUBSET Subs : due' = [rows |-> batch, at |-> now]
        BY <1>4 DEF ListDue
    <2>2. QED
        BY <1>0, <1>4, <2>1 DEF ListDue, TypeOK, Backed
<1>5. ASSUME NEW s \in Subs, ResetListed(s) PROVE TypeOK' /\ Backed'
    <2>1. due.at \in Nat /\ due.rows \subseteq Subs
        BY DEF TypeOK
    <2>2. MaybeReset(s, due.at) \in Subscriptions
        BY <2>1, MaybeResetRow
    <2>3. sub' \in [Subs -> Subscriptions]
        BY <1>5, <2>2 DEF ResetListed, TypeOK
    <2>4. due' \in [rows : SUBSET Subs, at : Nat] /\ due'.at = due.at
        BY <1>5, <2>1 DEF ResetListed, TypeOK
    <2>5. QED
        BY <1>5, <2>3, <2>4 DEF ResetListed, TypeOK, Backed
<1>6. CASE ResetCrash
    BY <1>0, <1>6 DEF ResetCrash, NotListed, TypeOK, Backed
<1>7. CASE CleanupSubscriptionPreConsumeRecords
    <2>1. record' \in [Requests -> Records]
        BY <1>7 DEF CleanupSubscriptionPreConsumeRecords, TypeOK, Records
    <2>2. \A q \in Requests : record'[q].status # "none" => record'[q].sub \in Subs
        BY <1>7 DEF CleanupSubscriptionPreConsumeRecords, TypeOK, Records, Backed
    <2>3. QED
        BY <1>7, <2>1, <2>2 DEF CleanupSubscriptionPreConsumeRecords, TypeOK, Backed
<1>8. CASE Tick
    <2>1. now' = now + 1 /\ due.at \in Nat
        BY <1>8 DEF Tick, TypeOK
    <2>2. due.at <= now + 1
        BY <1>0, <2>1 DEF Backed
    <2>3. QED
        BY <1>0, <1>8, <2>1, <2>2 DEF Tick, TypeOK, Backed
<1>9. CASE UNCHANGED vars
    BY <1>9 DEF vars, TypeOK, Backed
<1>10. QED
    BY <1>1, <1>2, <1>3, <1>4, <1>5, <1>6, <1>7, <1>8, <1>9, <1>11 DEF OtherStep, Maintenance

\* The inductive step.
LEMMA NextTypes == TypeOK /\ Backed /\ [Next]_vars => TypeOK' /\ Backed'
<1> SUFFICES ASSUME TypeOK, Backed, [Next]_vars PROVE TypeOK' /\ Backed'
    OBVIOUS
<1>1. CASE \E r \in Requests : Client(r)
    BY <1>1, PreConsumeTypes, ResizeTypes, SettleTypes, RefundTypes DEF Client
<1>2. CASE OtherStep
    BY <1>2, OtherTypes
<1>3. QED
    BY <1>1, <1>2, Steps

\* The inductive invariant holds.
LEMMA TypesHold == Spec => [](TypeOK /\ Backed)
BY InitTypes, NextTypes, PTL DEF Spec

\* Every table keeps its type: in particular the use of a subscription and the
\* hold of a record are never negative, however late a refund comes.
THEOREM TypeCorrect == Spec => []TypeOK
BY TypesHold, PTL

-----------------------------------------------------------------------------
(* The use of a subscription. *)

\* How a step may change the use of subscription s.
UseStep(s) ==
    \/ sub'[s].used = sub[s].used
    \/ keys' # keys /\ (Total[s] > 0 => sub'[s].used <= Total[s])
    \/ sub'[s].used = 0 /\ sub'[s].last > sub[s].last /\ sub'[s].last <= now

\* The mutation of a hold checks the total of the subscription it changes.
LEMMA MutateUse ==
    ASSUME TypeOK, NEW r \in Requests, NEW q \in Subs, NEW delta \in Int,
           NEW op, NEW version, Mutate(r, q, op, version, delta), NEW s \in Subs
    PROVE  UseStep(s)
<1>1. sub[q] \in Subscriptions
    BY DEF TypeOK
<1>2. keys' # keys
    BY DEF Mutate, CanMutate
<1>3. CASE s = q
    <2>1. sub'[s].used = Clamp(sub[q].used + delta)
        BY <1>1, <1>3, MutatedRow DEF Mutate, TypeOK
    <2>2. QED
        BY <1>2, <1>3, <2>1 DEF Mutate, CanMutate, UseStep
<1>4. CASE s # q
    BY <1>4 DEF Mutate, UseStep, TypeOK
<1>5. QED
    BY <1>3, <1>4

\* So does pre-consuming; the subscriptions it passes over are at most reset.
LEMMA PreConsumeUse ==
    ASSUME TypeOK, NEW r \in Requests, NEW amount \in 0..MaxQuota,
           PreConsumeUserSubscription(r, amount), NEW q \in Subs
    PROVE  UseStep(q)
<1>1. PICK s \in Candidates :
        LET key == Key(r, "preconsume", 0)
            passed == {p \in Candidates : Earlier(p, s)}
            row == MaybeReset(s, now)
        IN
        /\ CanMutate(row, s, amount, key)
        /\ sub' = [p \in Subs |->
                IF p = s THEN Mutated(row, amount)
                ELSE IF p \in passed THEN MaybeReset(p, now) ELSE sub[p]]
        /\ keys' = keys \cup {key}
    BY DEF PreConsumeUserSubscription
<1>2. s \in Subs /\ amount \in Int /\ now \in Nat
    BY ConstantsAssumption DEF Candidates, TypeOK
<1>3. keys' # keys
    BY <1>1 DEF CanMutate
<1>4. CASE q = s
    <2>1. MaybeReset(s, now) \in Subscriptions
        BY <1>2, MaybeResetRow
    <2>2. sub'[s].used = Clamp(MaybeReset(s, now).used + amount)
        BY <1>1, <1>2, <2>1, MutatedRow
    <2>3. QED
        BY <1>1, <1>3, <1>4, <2>2 DEF CanMutate, UseStep
<1>5. CASE q # s /\ sub'[q] = MaybeReset(q, now)
    BY <1>2, <1>5, MaybeResetRow DEF UseStep
<1>6. CASE q # s /\ sub'[q] = sub[q]
    BY <1>6 DEF UseStep
<1>7. QED
    BY <1>1, <1>4, <1>5, <1>6

\* Every step changes the use of a subscription in one of these ways.
LEMMA EveryUseStep ==
    ASSUME TypeOK, Backed, [Next]_vars, NEW s \in Subs
    PROVE  UseStep(s)
<1>1. ASSUME NEW r \in Requests, Client(r) PROVE UseStep(s)
    <2>1. ASSUME NEW amount \in 0..MaxQuota, PreConsumeUserSubscription(r, amount)
          PROVE  UseStep(s)
        BY <2>1, PreConsumeUse
    <2>2. record[r] \in Records /\ record[r].held \in Nat
        BY DEF TypeOK, Records
    <2>3. ASSUME NEW amount \in 0..MaxQuota, ResizeSubscriptionPreConsume(r, amount)
          PROVE  UseStep(s)
        <3>1. record[r].sub \in Subs /\ amount - record[r].held \in Int
            BY <2>2, <2>3, ConstantsAssumption DEF ResizeSubscriptionPreConsume, Backed
        <3>2. QED
            BY <2>3, <3>1, MutateUse DEF ResizeSubscriptionPreConsume
    <2>4. ASSUME NEW amount \in 0..MaxQuota, SettleSubscriptionPreConsume(r, amount)
          PROVE  UseStep(s)
        <3>1. record[r].sub \in Subs /\ amount - record[r].held \in Int
            BY <2>2, <2>4, ConstantsAssumption DEF SettleSubscriptionPreConsume, Backed
        <3>2. \/ sub' = sub
              \/ Mutate(r, record[r].sub, "settle", 0, amount - record[r].held)
            BY <2>4 DEF SettleSubscriptionPreConsume
        <3>3. QED
            BY <3>1, <3>2, MutateUse DEF UseStep
    <2>5. ASSUME RefundSubscriptionPreConsume(r) PROVE UseStep(s)
        <3>1. record[r].sub \in Subs /\ -record[r].held \in Int
            BY <2>2, <2>5 DEF RefundSubscriptionPreConsume, Backed
        <3>2. sub' = sub \/ Mutate(r, record[r].sub, "refund", 0, -record[r].held)
            BY <2>5 DEF RefundSubscriptionPreConsume
        <3>3. QED
            BY <3>1, <3>2, MutateUse DEF UseStep
    <2>6. QED
        BY <1>1, <2>1, <2>3, <2>4, <2>5 DEF Client
<1>2. ASSUME NEW m \in MutationKeys, NEW q \in Subs, NEW delta \in -MaxQuota..MaxQuota,
             PostConsumeUserSubscriptionDelta(m, q, delta)
      PROVE  UseStep(s)
    <2>1. delta \in Int /\ sub[q] \in Subscriptions
        BY ConstantsAssumption DEF TypeOK
    <2>2. keys' # keys
        BY <1>2 DEF PostConsumeUserSubscriptionDelta, CanMutate
    <2>3. CASE s = q
        <3>1. sub'[s].used = Clamp(sub[q].used + delta)
            BY <1>2, <2>1, <2>3, MutatedRow DEF PostConsumeUserSubscriptionDelta, TypeOK
        <3>2. QED
            BY <1>2, <2>2, <2>3, <3>1 DEF PostConsumeUserSubscriptionDelta, CanMutate, UseStep
    <2>4. CASE s # q
        BY <1>2, <2>4 DEF PostConsumeUserSubscriptionDelta, UseStep, TypeOK
    <2>5. QED
        BY <2>3, <2>4
<1>3. ASSUME NEW q \in Subs, Administration(q) PROVE UseStep(s)
    <2>1. CASE AdminInvalidateUserSubscription(q)
        BY <2>1 DEF AdminInvalidateUserSubscription, UseStep, TypeOK, Subscriptions
    <2>2. CASE AdminDeleteUserSubscription(q)
        BY <2>2 DEF AdminDeleteUserSubscription, UseStep, TypeOK, Subscriptions
    <2>3. CASE AdminUpdateSubscriptionPlan(q)
        BY <2>3 DEF AdminUpdateSubscriptionPlan, UseStep
    <2>4. QED
        BY <1>3, <2>1, <2>2, <2>3 DEF Administration
<1>4. CASE ExpireDueSubscriptions
    BY <1>4 DEF ExpireDueSubscriptions, UseStep, TypeOK, Subscriptions
<1>5. ASSUME NEW q \in Subs, ResetListed(q) PROVE UseStep(s)
    <2>1. due.at \in Nat /\ now \in Nat /\ due.at <= now
        BY DEF TypeOK, Backed
    <2>2. sub'[s] = sub[s] \/ sub'[s] = MaybeReset(s, due.at)
        BY <1>5 DEF ResetListed, TypeOK
    <2>3. CASE sub'[s] = MaybeReset(s, due.at)
        <3>1. /\ MaybeReset(s, due.at) \in Subscriptions
              /\ \/ MaybeReset(s, due.at).used = sub[s].used
                 \/ /\ MaybeReset(s, due.at).used = 0
                    /\ MaybeReset(s, due.at).last > sub[s].last
                    /\ MaybeReset(s, due.at).last <= due.at
            BY <2>1, MaybeResetRow
        <3>2. MaybeReset(s, due.at).last \in Nat
            BY <3>1 DEF Subscriptions
        <3>3. QED
            BY <2>1, <2>3, <3>1, <3>2 DEF UseStep
    <2>4. QED
        BY <2>2, <2>3 DEF UseStep
<1>6. CASE \/ ListDue \/ ResetCrash \/ CleanupSubscriptionPreConsumeRecords \/ Tick
           \/ UNCHANGED vars
    BY <1>6 DEF ListDue, ResetCrash, CleanupSubscriptionPreConsumeRecords, Tick, vars, UseStep
<1>7. QED
    BY <1>1, <1>2, <1>3, <1>4, <1>5, <1>6, Steps DEF OtherStep, Maintenance

\* No subscription gives more than its total.
THEOREM TotalIsKept == Spec => []WithinTotal
<1>1. Init => WithinTotal
    BY ConstantsAssumption DEF Init, WithinTotal
<1>2. TypeOK /\ Backed /\ WithinTotal /\ [Next]_vars => WithinTotal'
    <2> SUFFICES ASSUME TypeOK, Backed, WithinTotal, [Next]_vars,
                        NEW s \in Subs, Total[s] > 0
                 PROVE  sub'[s].used <= Total[s]
        BY DEF WithinTotal
    <2>1. UseStep(s)
        BY EveryUseStep
    <2>2. Total[s] \in Nat
        BY ConstantsAssumption
    <2>3. QED
        BY <2>1, <2>2 DEF UseStep, WithinTotal
<1>3. QED
    BY <1>1, <1>2, TypesHold, PTL DEF Spec

\* Use is cleared only by the advance to a period that has begun.
THEOREM UseAccounted == Spec => UseIsAccounted
<1>1. TypeOK /\ Backed /\ [Next]_vars =>
        [\A s \in Subs : sub'[s].used # sub[s].used =>
            \/ keys' # keys
            \/ sub'[s].last > sub[s].last /\ sub'[s].last <= now]_vars
    <2> SUFFICES ASSUME TypeOK, Backed, [Next]_vars, NEW s \in Subs,
                        sub'[s].used # sub[s].used
                 PROVE  \/ keys' # keys
                        \/ sub'[s].last > sub[s].last /\ sub'[s].last <= now
        OBVIOUS
    <2>1. UseStep(s)
        BY EveryUseStep
    <2>2. QED
        BY <2>1 DEF UseStep
<1>2. QED
    BY <1>1, TypesHold, PTL DEF Spec, UseIsAccounted

-----------------------------------------------------------------------------
(* Records and their journal. *)

\* The journal takes delta, or more where a credit was cut short; the credit of a
\* hold is not as long as the use covers the hold.
Posts(q, delta) ==
    /\ applied'[q] >= applied[q] + delta
    /\ sub[record[q].sub].used >= record[q].held => applied'[q] = applied[q] + delta

\* How a step may change the record of request q and its journal.
RecordStep(q) ==
    \/ record'[q] = record[q] /\ applied'[q] = applied[q]
    \/ /\ record[q].status = "none"
       /\ record'[q].status = "consumed"
       /\ applied'[q] = record'[q].held
    \/ /\ record[q].status = "consumed"
       /\ record'[q].status \in {"consumed", "settled"}
       /\ record'[q].sub = record[q].sub
       /\ Posts(q, record'[q].held - record[q].held)
    \/ /\ record[q].status = "consumed"
       /\ record'[q].status = "refunded"
       /\ record'[q].sub = record[q].sub
       /\ Posts(q, -record[q].held)
    \/ record'[q] = [record[q] EXCEPT !.status = "removed"] /\ applied'[q] = applied[q]

\* The journal takes what was asked for, or more where a credit was cut short.
LEMMA MutateApplied ==
    ASSUME TypeOK, NEW r \in Requests, NEW s \in Subs, NEW delta \in Int,
           NEW op, NEW version, Mutate(r, s, op, version, delta)
    PROVE  /\ applied'[r] >= applied[r] + delta
           /\ sub[s].used + delta >= 0 => applied'[r] = applied[r] + delta
           /\ \A q \in Requests : q # r => applied'[q] = applied[q]
<1>1. sub[s].used \in Nat /\ applied[r] \in Int
    BY DEF TypeOK, Subscriptions
<1>2. Clamp(sub[s].used + delta) >= sub[s].used + delta /\ Clamp(sub[s].used + delta) \in Int
    BY <1>1 DEF Clamp
<1>3. applied'[r] = applied[r] + Clamp(sub[s].used + delta) - sub[s].used
    BY DEF Mutate, TypeOK
<1>4. /\ applied'[r] >= applied[r] + delta
      /\ sub[s].used + delta >= 0 => applied'[r] = applied[r] + delta
    BY <1>1, <1>2, <1>3 DEF Clamp
<1>5. QED
    BY <1>4 DEF Mutate, TypeOK

\* A request's step changes its own record only, along its life.
LEMMA ClientRecordStep ==
    ASSUME TypeOK, Backed, NEW r \in Requests, Client(r), NEW q \in Requests
    PROVE  RecordStep(q)
<1>1. /\ record[r] \in Records /\ record[r].held \in Nat /\ applied[r] \in Int
      /\ \A s \in Subs : sub[s].used \in Nat
    BY DEF TypeOK, Records, Subscriptions
<1>2. ASSUME NEW amount \in 0..MaxQuota, PreConsumeUserSubscription(r, amount)
      PROVE  RecordStep(q)
    BY <1>2 DEF PreConsumeUserSubscription, RecordStep, TypeOK
<1>3. ASSUME NEW amount \in 0..MaxQuota, ResizeSubscriptionPreConsume(r, amount)
      PROVE  RecordStep(q)
    <2>1. record[r].status = "consumed" /\ record[r].sub \in Subs /\ amount \in Nat
        BY <1>3, ConstantsAssumption DEF ResizeSubscriptionPreConsume, Backed
    <2>2. /\ Posts(r, amount - record[r].held)
          /\ \A p \in Requests : p # r => applied'[p] = applied[p]
        BY <1>1, <1>3, <2>1, MutateApplied DEF ResizeSubscriptionPreConsume, Posts
    <2>3. record'[r].status = "consumed" /\ record'[r].held = amount
          /\ record'[r].sub = record[r].sub
        BY <1>1, <1>3, <2>1 DEF ResizeSubscriptionPreConsume, TypeOK, Records
    <2>4. q # r => record'[q] = record[q]
        BY <1>3 DEF ResizeSubscriptionPreConsume, TypeOK
    <2>5. QED
        BY <2>1, <2>2, <2>3, <2>4 DEF RecordStep
<1>4. ASSUME NEW amount \in 0..MaxQuota, SettleSubscriptionPreConsume(r, amount)
      PROVE  RecordStep(q)
    <2>1. record[r].status = "consumed" /\ record[r].sub \in Subs /\ amount \in Nat
        BY <1>4, ConstantsAssumption DEF SettleSubscriptionPreConsume, Backed
    <2>2. CASE amount = record[r].held
        BY <1>1, <1>4, <2>1, <2>2
            DEF SettleSubscriptionPreConsume, TypeOK, Records, RecordStep, Posts
    <2>3. CASE amount # record[r].held
        <3>1. /\ Posts(r, amount - record[r].held)
              /\ \A p \in Requests : p # r => applied'[p] = applied[p]
            BY <1>1, <1>4, <2>1, <2>3, MutateApplied DEF SettleSubscriptionPreConsume, Posts
        <3>2. record'[r].status = "settled" /\ record'[r].held = amount
              /\ record'[r].sub = record[r].sub
            BY <1>1, <1>4, <2>1 DEF SettleSubscriptionPreConsume, TypeOK, Records
        <3>3. q # r => record'[q] = record[q]
            BY <1>4 DEF SettleSubscriptionPreConsume, TypeOK
        <3>4. QED
            BY <2>1, <3>1, <3>2, <3>3 DEF RecordStep
    <2>4. QED
        BY <2>2, <2>3
<1>5. ASSUME RefundSubscriptionPreConsume(r) PROVE RecordStep(q)
    <2>1. record[r].status = "consumed" /\ record[r].sub \in Subs
        BY <1>5 DEF RefundSubscriptionPreConsume, Backed
    <2>2. record'[r].status = "refunded" /\ record'[r].sub = record[r].sub
        BY <1>1, <1>5 DEF RefundSubscriptionPreConsume, TypeOK, Records
    <2>3. q # r => record'[q] = record[q]
        BY <1>5 DEF RefundSubscriptionPreConsume, TypeOK
    <2>4. CASE record[r].held = 0
        BY <1>1, <1>5, <2>1, <2>2, <2>3, <2>4
            DEF RefundSubscriptionPreConsume, RecordStep, Posts
    <2>5. CASE record[r].held # 0
        <3>1. /\ Posts(r, -record[r].held)
              /\ \A p \in Requests : p # r => applied'[p] = applied[p]
            <4>1. Mutate(r, record[r].sub, "refund", 0, -record[r].held)
                BY <1>5, <2>5 DEF RefundSubscriptionPreConsume
            <4>2. -record[r].held \in Int
                BY <1>1
            <4>3. /\ applied'[r] >= applied[r] + (-record[r].held)
                  /\ sub[record[r].sub].used + (-record[r].held) >= 0 =>
                        applied'[r] = applied[r] + (-record[r].held)
                  /\ \A p \in Requests : p # r => applied'[p] = applied[p]
                BY <2>1, <4>1, <4>2, MutateApplied
            <4>4. QED
                BY <1>1, <2>1, <4>3 DEF Posts
        <3>2. QED
            BY <2>1, <2>2, <2>3, <3>1 DEF RecordStep
    <2>6. QED
        BY <2>4, <2>5
<1>6. QED
    BY <1>2, <1>3, <1>4, <1>5 DEF Client

\* Every step changes a record in one of these ways.
LEMMA EveryRecordStep ==
    ASSUME TypeOK, Backed, [Next]_vars, NEW q \in Requests
    PROVE  RecordStep(q)
<1>1. CASE \E r \in Requests : Client(r)
    BY <1>1, ClientRecordStep
<1>2. CASE CleanupSubscriptionPreConsumeRecords
    BY <1>2 DEF CleanupSubscriptionPreConsumeRecords, RecordStep, TypeOK
<1>3. CASE OtherStep /\ ~CleanupSubscriptionPreConsumeRecords
    <2>1. UNCHANGED <<record, applied>>
        BY <1>3 DEF OtherStep, PostConsumeUserSubscriptionDelta, Administration,
            AdminUpdateSubscriptionPlan, AdminInvalidateUserSubscription, AdminDeleteUserSubscription, Maintenance,
            ExpireDueSubscriptions, ListDue, ResetListed, ResetCrash, Tick, vars
    <2>2. QED
        BY <2>1 DEF RecordStep
<1>4. QED
    BY <1>1, <1>2, <1>3, Steps

\* No call, replay or clean-up changes what a closed record says or has booked.
THEOREM ClosedIsFinal == Spec => ClosedRecordsAreFinal
<1>1. TypeOK /\ Backed /\ [Next]_vars =>
        [\A r \in Requests : record[r].status \in {"settled", "refunded"} =>
            /\ applied'[r] = applied[r]
            /\ record'[r] \in {record[r], [record[r] EXCEPT !.status = "removed"]}]_vars
    <2> SUFFICES ASSUME TypeOK, Backed, [Next]_vars, NEW r \in Requests,
                        record[r].status \in {"settled", "refunded"}
                 PROVE  /\ applied'[r] = applied[r]
                        /\ record'[r] \in {record[r], [record[r] EXCEPT !.status = "removed"]}
        OBVIOUS
    <2>1. RecordStep(r)
        BY EveryRecordStep
    <2>2. QED
        BY <2>1 DEF RecordStep
<1>2. QED
    BY <1>1, TypesHold, PTL DEF Spec, ClosedRecordsAreFinal

-----------------------------------------------------------------------------
(* Open holds can be closed. *)

\* Which journal keys a request has claimed: none before it pre-consumed, resizes
\* up to its version, a settlement or a refund only if it is not open.  With
\* OpenHoldsCanClose alone a step could not tell which keys the next version
\* will find taken.
KeysSpent ==
    \A key \in keys : key.op # "mutation" =>
        /\ key.id \in Requests
        /\ record[key.id].status # "none"
        /\ key.op = "resize" => key.version <= record[key.id].version
        /\ key.op \in {"settle", "refund"} => record[key.id].status # "consumed"

\* KeysSpent is what OpenHoldsCanClose needs.
LEMMA SpentKeepsOpen ==
    ASSUME TypeOK, KeysSpent
    PROVE  OpenHoldsCanClose
<1> SUFFICES ASSUME NEW r \in Requests, record[r].status = "consumed"
             PROVE  /\ Key(r, "settle", 0) \notin keys
                    /\ Key(r, "refund", 0) \notin keys
                    /\ Key(r, "resize", record[r].version + 1) \notin keys
    BY DEF OpenHoldsCanClose
<1>1. Key(r, "settle", 0) \notin keys /\ Key(r, "refund", 0) \notin keys
    BY DEF KeysSpent, Key
<1>2. record[r].version \in Nat
    BY DEF TypeOK, Records
<1>3. Key(r, "resize", record[r].version + 1) \notin keys
    BY <1>2 DEF KeysSpent, Key
<1>4. QED
    BY <1>1, <1>3

\* A step of request r that posts at most one key of its own, and after which the
\* record is further on, keeps KeysSpent.
LEMMA KeyStep ==
    ASSUME TypeOK, KeysSpent, NEW r \in Requests, NEW key,
           keys' \subseteq keys \cup {key},
           record[r].status \in {"none", "consumed"},
           record'[r].status \in {"consumed", "settled", "refunded"},
           record'[r].version \in Nat, record'[r].version >= record[r].version,
           \A q \in Requests : q # r => record'[q] = record[q],
           key.id = r,
           key.op = "resize" => key.version <= record'[r].version,
           key.op \in {"settle", "refund"} => record'[r].status # "consumed"
    PROVE  KeysSpent'
<1> SUFFICES ASSUME NEW k \in keys', k.op # "mutation"
             PROVE  /\ k.id \in Requests
                    /\ record'[k.id].status # "none"
                    /\ k.op = "resize" => k.version <= record'[k.id].version
                    /\ k.op \in {"settle", "refund"} => record'[k.id].status # "consumed"
    BY DEF KeysSpent
<1>1. CASE k = key
    BY <1>1
<1>2. CASE k \in keys /\ k.id # r
    BY <1>2 DEF KeysSpent
<1>3. CASE k \in keys /\ k.id = r
    <2>1. /\ record[r].status # "none"
          /\ k.op = "resize" => k.version <= record[r].version
          /\ k.op \notin {"settle", "refund"}
        BY <1>3 DEF KeysSpent
    <2>2. k.version \in Nat /\ record[r].version \in Nat
        BY <1>3 DEF TypeOK, Keys, Records
    <2>3. QED
        BY <1>3, <2>1, <2>2
<1>4. QED
    BY <1>1, <1>2, <1>3

\* A request's step claims a key that goes with its new version or status.
LEMMA ClientKeys ==
    ASSUME TypeOK, Backed, KeysSpent, NEW r \in Requests, Client(r)
    PROVE  KeysSpent'
<1>1. record[r] \in Records /\ record[r].version \in Nat
    BY DEF TypeOK, Records
<1>2. ASSUME NEW amount \in 0..MaxQuota, PreConsumeUserSubscription(r, amount)
      PROVE  KeysSpent'
    <2> DEFINE key == Key(r, "preconsume", 0)
    <2>1. keys' = keys \cup {key} /\ record[r].status = "none"
        BY <1>2 DEF PreConsumeUserSubscription
    <2>2. /\ record'[r].status = "consumed" /\ record'[r].version = 1
          /\ \A q \in Requests : q # r => record'[q] = record[q]
        BY <1>2 DEF PreConsumeUserSubscription, TypeOK
    <2>3. key.id = r /\ key.op = "preconsume"
        BY DEF Key
    <2>4. \A k \in keys : k.op # "mutation" => k.id # r
        BY <2>1 DEF KeysSpent
    <2> HIDE DEF key
    <2>5. QED
        BY <2>1, <2>2, <2>3, <2>4 DEF KeysSpent
<1>3. ASSUME NEW amount \in 0..MaxQuota, ResizeSubscriptionPreConsume(r, amount)
      PROVE  KeysSpent'
    <2> DEFINE key == Key(r, "resize", record[r].version + 1)
    <2>1. keys' = keys \cup {key} /\ record[r].status = "consumed"
        BY <1>3 DEF ResizeSubscriptionPreConsume, Mutate
    <2>2. /\ record'[r].status = "consumed" /\ record'[r].version = record[r].version + 1
          /\ \A q \in Requests : q # r => record'[q] = record[q]
        BY <1>1, <1>3 DEF ResizeSubscriptionPreConsume, TypeOK, Records
    <2>3. key.id = r /\ key.op = "resize" /\ key.version = record[r].version + 1
        BY DEF Key
    <2> HIDE DEF key
    <2>4. QED
        BY <1>1, <2>1, <2>2, <2>3, KeyStep
<1>4. ASSUME NEW amount \in 0..MaxQuota, SettleSubscriptionPreConsume(r, amount)
      PROVE  KeysSpent'
    <2> DEFINE key == Key(r, "settle", 0)
    <2>1. keys' \subseteq keys \cup {key} /\ record[r].status = "consumed"
        BY <1>4 DEF SettleSubscriptionPreConsume, Mutate
    <2>2. /\ record'[r].status = "settled" /\ record'[r].version = record[r].version + 1
          /\ \A q \in Requests : q # r => record'[q] = record[q]
        BY <1>1, <1>4 DEF SettleSubscriptionPreConsume, TypeOK, Records
    <2>3. key.id = r /\ key.op = "settle"
        BY DEF Key
    <2> HIDE DEF key
    <2>4. QED
        BY <1>1, <2>1, <2>2, <2>3, KeyStep
<1>5. ASSUME RefundSubscriptionPreConsume(r) PROVE KeysSpent'
    <2> DEFINE key == Key(r, "refund", 0)
    <2>1. keys' \subseteq keys \cup {key} /\ record[r].status = "consumed"
        BY <1>5 DEF RefundSubscriptionPreConsume, Mutate
    <2>2. /\ record'[r].status = "refunded" /\ record'[r].version = record[r].version + 1
          /\ \A q \in Requests : q # r => record'[q] = record[q]
        BY <1>1, <1>5 DEF RefundSubscriptionPreConsume, TypeOK, Records
    <2>3. key.id = r /\ key.op = "refund"
        BY DEF Key
    <2> HIDE DEF key
    <2>4. QED
        BY <1>1, <2>1, <2>2, <2>3, KeyStep
<1>6. QED
    BY <1>2, <1>3, <1>4, <1>5 DEF Client

\* The other steps claim no key of a request, and a clean-up closes records.
LEMMA OtherKeys ==
    ASSUME TypeOK, KeysSpent, OtherStep
    PROVE  KeysSpent'
<1>1. ASSUME NEW m \in MutationKeys, NEW s \in Subs, NEW delta \in -MaxQuota..MaxQuota,
             PostConsumeUserSubscriptionDelta(m, s, delta)
      PROVE  KeysSpent'
    <2>1. record' = record /\ keys' = keys \cup {Key(m, "mutation", 0)}
        BY <1>1 DEF PostConsumeUserSubscriptionDelta
    <2>2. Key(m, "mutation", 0).op = "mutation"
        BY DEF Key
    <2>3. QED
        BY <2>1, <2>2 DEF KeysSpent
<1>2. CASE CleanupSubscriptionPreConsumeRecords
    <2>1. keys' = keys
        BY <1>2 DEF CleanupSubscriptionPreConsumeRecords
    <2>2. \A q \in Requests :
            \/ record'[q] = record[q]
            \/ record'[q].status = "removed" /\ record'[q].version = record[q].version
        BY <1>2 DEF CleanupSubscriptionPreConsumeRecords, TypeOK, Records
    <2>3. QED
        BY <2>1, <2>2 DEF KeysSpent
<1>3. CASE UNCHANGED <<record, keys>>
    BY <1>3 DEF KeysSpent
<1>4. QED
    BY <1>1, <1>2, <1>3 DEF OtherStep, Administration, AdminUpdateSubscriptionPlan, AdminInvalidateUserSubscription,
        AdminDeleteUserSubscription, Maintenance, ExpireDueSubscriptions, ListDue,
        ResetListed, ResetCrash, Tick, vars

\* The unique index on journal keys never keeps an open hold open.
THEOREM HoldsCloseable == Spec => []OpenHoldsCanClose
<1>1. Init => KeysSpent
    BY DEF Init, KeysSpent
<1>2. TypeOK /\ Backed /\ KeysSpent /\ [Next]_vars => KeysSpent'
    BY ClientKeys, OtherKeys, Steps
<1>3. TypeOK /\ KeysSpent => OpenHoldsCanClose
    BY SpentKeepsOpen
<1>4. QED
    BY <1>1, <1>2, <1>3, TypesHold, PTL DEF Spec

-----------------------------------------------------------------------------
(* The use of a subscription is what its requests hold. *)

\* What each request holds, and the most that it may hold.
Holds == [r \in Requests |-> Held(r)]
MostHeld == [r \in Requests |-> HeldAtMost(r)]

\* Only the requests of s count for s, and they are finitely many.  A request
\* without a record belongs to no subscription.
Owned ==
    /\ \A r \in Requests : record[r].status = "none" => record[r].sub = NoSub
    /\ \A s \in Subs : IsFiniteSet(Of(s))

\* UseIsBacked for one subscription.  Before the first reset its use also covers
\* the holds that stand when records were removed: without that a clean-up could
\* let a refund be cut short.
UseOf(s) ==
    /\ sub[s].used <= SumFunctionOnSet(MostHeld, Of(s))
    /\ FirstPeriod(s) => sub[s].used >= SumFunctionOnSet(Holds, Of(s))
    /\ FirstPeriod(s) /\ (\A r \in Of(s) : record[r].status # "removed")
          => sub[s].used = SumFunctionOnSet(Holds, Of(s))

\* The same of the next state.
UseOfNext(s) ==
    /\ sub'[s].used <= SumFunctionOnSet(MostHeld', Of(s)')
    /\ sub'[s].last <= Start => sub'[s].used >= SumFunctionOnSet(Holds', Of(s)')
    /\ sub'[s].last <= Start /\ (\A r \in Of(s)' : record'[r].status # "removed")
          => sub'[s].used = SumFunctionOnSet(Holds', Of(s)')

\* The invariant: as long as no task adjusted it, every subscription is so.
UseInv == (\A key \in keys : key.op # "mutation") => \A s \in Subs : UseOf(s)

\* UseInv is stronger than UseIsBacked, and speaks of each subscription by itself.
LEMMA UseByParts ==
    /\ UseInv => UseIsBacked
    /\ UseInv' <=> ((\A key \in keys' : key.op # "mutation") => \A s \in Subs : UseOfNext(s))
<1>1. UseInv => UseIsBacked
    BY DEF UseInv, UseIsBacked, UseOf, Holds, MostHeld
<1>2. UseInv' <=> ((\A key \in keys' : key.op # "mutation") => \A s \in Subs : UseOfNext(s))
    BY DEF UseInv, UseOf, UseOfNext, Holds, MostHeld, FirstPeriod
<1> QED
    BY <1>1, <1>2

\* What a record counts for, by its status.
LEMMA HeldValues ==
    ASSUME TypeOK, TypeOK', NEW r \in Requests
    PROVE  /\ Holds[r] \in Nat /\ MostHeld[r] \in Nat
           /\ Holds'[r] \in Nat /\ MostHeld'[r] \in Nat
           /\ record[r].held \in Nat
           /\ record[r].status \in {"consumed", "settled"} =>
                Holds[r] = record[r].held /\ MostHeld[r] = record[r].held
           /\ record'[r].status \in {"consumed", "settled"} =>
                Holds'[r] = record'[r].held /\ MostHeld'[r] = record'[r].held
           /\ record'[r].status = "refunded" => Holds'[r] = 0 /\ MostHeld'[r] = 0
           /\ record'[r] = record[r] => Holds'[r] = Holds[r] /\ MostHeld'[r] = MostHeld[r]
           /\ record'[r] = [record[r] EXCEPT !.status = "removed"] =>
                MostHeld[r] <= MostHeld'[r] /\ Holds'[r] <= Holds[r]
<1>1. /\ record[r] \in Records /\ record[r].held \in Nat
      /\ record'[r].held \in Nat
    BY DEF TypeOK, Records
<1>2. /\ Holds[r] = IF record[r].status \in {"consumed", "settled"} THEN record[r].held ELSE 0
      /\ MostHeld[r] = IF record[r].status \in {"consumed", "settled", "removed"}
                       THEN record[r].held ELSE 0
    BY DEF Holds, MostHeld, Held, HeldAtMost
<1>3. /\ Holds'[r] = IF record'[r].status \in {"consumed", "settled"} THEN record'[r].held ELSE 0
      /\ MostHeld'[r] = IF record'[r].status \in {"consumed", "settled", "removed"}
                        THEN record'[r].held ELSE 0
    BY DEF Holds, MostHeld, Held, HeldAtMost
<1>4. /\ [record[r] EXCEPT !.status = "removed"].status = "removed"
      /\ [record[r] EXCEPT !.status = "removed"].held = record[r].held
    BY <1>1 DEF Records
<1> HIDE DEF Holds, MostHeld
<1>5. record'[r] = [record[r] EXCEPT !.status = "removed"] =>
        MostHeld[r] <= MostHeld'[r] /\ Holds'[r] <= Holds[r]
    BY <1>1, <1>2, <1>3, <1>4
<1> QED
    BY <1>1, <1>2, <1>3, <1>5

\* A step that leaves the requests of s alone, apart from clean-ups, and at most
\* resets it.
KeepsUse(s) ==
    /\ Of(s)' = Of(s)
    /\ \A r \in Of(s) : record'[r] \in {record[r], [record[r] EXCEPT !.status = "removed"]}
    /\ \/ sub'[s].used = sub[s].used /\ sub'[s].last >= sub[s].last
       \/ sub'[s].used = 0 /\ sub'[s].last > Start

\* It keeps the use of s backed: clean-ups only raise what its requests may hold.
LEMMA KeptUseIsBacked ==
    ASSUME TypeOK, TypeOK', Owned, NEW s \in Subs, UseOf(s), KeepsUse(s)
    PROVE  UseOfNext(s)
<1>1. Of(s)' = Of(s) /\ IsFiniteSet(Of(s)) /\ Of(s) \subseteq Requests
    BY DEF KeepsUse, Of, Owned
<1>2. /\ sub[s].used \in Nat /\ sub'[s].used \in Nat /\ sub[s].last \in Nat
      /\ sub'[s].last \in Nat /\ Start \in Nat
    BY DEF TypeOK, Subscriptions, Start
<1>3. \A r \in Of(s) : /\ MostHeld[r] \in Nat /\ MostHeld'[r] \in Nat
                       /\ Holds[r] \in Nat /\ Holds'[r] \in Nat
                       /\ MostHeld[r] <= MostHeld'[r] /\ Holds'[r] <= Holds[r]
    <2> SUFFICES ASSUME NEW r \in Of(s)
                 PROVE  /\ MostHeld[r] \in Nat /\ MostHeld'[r] \in Nat
                        /\ Holds[r] \in Nat /\ Holds'[r] \in Nat
                        /\ MostHeld[r] <= MostHeld'[r] /\ Holds'[r] <= Holds[r]
        OBVIOUS
    <2>1. /\ MostHeld[r] \in Nat /\ MostHeld'[r] \in Nat
          /\ Holds[r] \in Nat /\ Holds'[r] \in Nat
        BY <1>1, HeldValues
    <2>2. CASE record'[r] = record[r]
        <3>1. MostHeld'[r] = MostHeld[r] /\ Holds'[r] = Holds[r]
            BY <1>1, <2>2, HeldValues
        <3> QED
            BY <2>1, <3>1
    <2>3. CASE record'[r] = [record[r] EXCEPT !.status = "removed"]
        BY <1>1, <2>1, <2>3, HeldValues
    <2> QED
        BY <1>1, <2>2, <2>3 DEF KeepsUse
<1>4. /\ SumFunctionOnSet(MostHeld, Of(s)) <= SumFunctionOnSet(MostHeld', Of(s))
      /\ SumFunctionOnSet(Holds', Of(s)) <= SumFunctionOnSet(Holds, Of(s))
    BY <1>1, <1>3, SumMonotone
<1>5. /\ SumFunctionOnSet(MostHeld, Of(s)) \in Nat /\ SumFunctionOnSet(MostHeld', Of(s)) \in Nat
      /\ SumFunctionOnSet(Holds, Of(s)) \in Nat /\ SumFunctionOnSet(Holds', Of(s)) \in Nat
    BY <1>1, <1>3, SumType
<1>6. sub'[s].used <= SumFunctionOnSet(MostHeld', Of(s))
    BY <1>2, <1>4, <1>5 DEF UseOf, KeepsUse
<1>7. ASSUME sub'[s].last <= Start, \A r \in Of(s) : record'[r].status # "removed"
      PROVE  sub'[s].used = SumFunctionOnSet(Holds', Of(s))
    <2>1. sub'[s].used = sub[s].used /\ sub[s].last <= Start
        BY <1>2, <1>7 DEF KeepsUse
    <2>2. \A r \in Of(s) : record'[r] = record[r]
        <3>1. \A r \in Of(s) : [record[r] EXCEPT !.status = "removed"].status = "removed"
            BY <1>1 DEF TypeOK, Records
        <3> QED
            BY <1>1, <1>7, <3>1 DEF KeepsUse
    <2>3. sub[s].used = SumFunctionOnSet(Holds, Of(s))
        BY <1>7, <2>1, <2>2 DEF UseOf, FirstPeriod
    <2>4. \A r \in Of(s) : Holds[r] \in Nat /\ Holds'[r] = Holds[r]
        BY <1>1, <2>2, HeldValues
    <2>5. SumFunctionOnSet(Holds, Of(s)) = SumFunctionOnSet(Holds', Of(s))
        BY <1>1, <2>4, SumCongruent
    <2> QED
        BY <2>1, <2>3, <2>5
<1>8. sub'[s].last <= Start => sub'[s].used >= SumFunctionOnSet(Holds', Of(s))
    BY <1>2, <1>4, <1>5 DEF UseOf, KeepsUse, FirstPeriod
<1> QED
    BY <1>1, <1>6, <1>7, <1>8 DEF UseOfNext

\* A step in which request r takes its first amount from s.
OpensHold(r, s) ==
    /\ record[r].status = "none"
    /\ record'[r].status = "consumed" /\ record'[r].sub = s
    /\ \A q \in Requests : q # r => record'[q] = record[q]
    /\ \/ sub'[s].used = sub[s].used + record'[r].held /\ sub'[s].last >= sub[s].last
       \/ sub'[s].used = record'[r].held /\ sub'[s].last > Start

\* It adds the same amount to both sides.
LEMMA OpenedUseIsBacked ==
    ASSUME TypeOK, TypeOK', Owned, NEW s \in Subs, UseOf(s), NEW r \in Requests, OpensHold(r, s)
    PROVE  UseOfNext(s)
<1>1. /\ Of(s)' = Of(s) \cup {r} /\ r \notin Of(s) /\ r \in Of(s)'
      /\ IsFiniteSet(Of(s)) /\ Of(s) \subseteq Requests
    <2>1. record[r].sub # s
        BY ConstantsAssumption DEF OpensHold, Owned, NoSub
    <2> QED
        BY <2>1 DEF OpensHold, Of, Owned
<1>2. /\ sub[s].used \in Nat /\ sub'[s].used \in Nat /\ sub[s].last \in Nat
      /\ sub'[s].last \in Nat /\ Start \in Nat /\ record'[r].held \in Nat
    BY DEF TypeOK, Subscriptions, Records, Start
<1>3. \A q \in Of(s) : /\ Holds[q] \in Nat /\ Holds'[q] = Holds[q]
                       /\ MostHeld[q] \in Nat /\ MostHeld'[q] = MostHeld[q]
    BY <1>1, HeldValues DEF OpensHold
<1>4. Holds'[r] = record'[r].held /\ MostHeld'[r] = record'[r].held
    BY HeldValues DEF OpensHold
<1>5. SumFunctionOnSet(MostHeld', Of(s)') = SumFunctionOnSet(MostHeld, Of(s)) + record'[r].held
    <2>1. MostHeld'[r] \in Nat
        BY <1>2, <1>4
    <2>2. \A q \in Of(s) : MostHeld[q] \in Nat /\ MostHeld'[q] = MostHeld[q]
        BY <1>3
    <2>3. SumFunctionOnSet(MostHeld', Of(s)') = SumFunctionOnSet(MostHeld, Of(s)) + MostHeld'[r]
        BY <1>1, <2>1, <2>2, SumExtended
    <2> QED
        BY <1>4, <2>3
<1>6. SumFunctionOnSet(Holds', Of(s)') = SumFunctionOnSet(Holds, Of(s)) + record'[r].held
    <2>1. Holds'[r] \in Nat
        BY <1>2, <1>4
    <2>2. \A q \in Of(s) : Holds[q] \in Nat /\ Holds'[q] = Holds[q]
        BY <1>3
    <2>3. SumFunctionOnSet(Holds', Of(s)') = SumFunctionOnSet(Holds, Of(s)) + Holds'[r]
        BY <1>1, <2>1, <2>2, SumExtended
    <2> QED
        BY <1>4, <2>3
<1>7. SumFunctionOnSet(MostHeld, Of(s)) \in Nat /\ SumFunctionOnSet(Holds, Of(s)) \in Nat
    BY <1>1, <1>3, SumType
<1>8. sub'[s].used <= SumFunctionOnSet(MostHeld', Of(s)')
    BY <1>1, <1>2, <1>5, <1>7 DEF UseOf, OpensHold
<1>9. ASSUME sub'[s].last <= Start, \A q \in Of(s)' : record'[q].status # "removed"
      PROVE  sub'[s].used = SumFunctionOnSet(Holds', Of(s)')
    <2>1. sub'[s].used = sub[s].used + record'[r].held /\ sub[s].last <= Start
        BY <1>2, <1>9 DEF OpensHold
    <2>2. \A q \in Of(s) : record[q].status # "removed"
        BY <1>1, <1>9 DEF OpensHold
    <2>3. sub[s].used = SumFunctionOnSet(Holds, Of(s))
        BY <2>1, <2>2 DEF UseOf, FirstPeriod
    <2> QED
        BY <1>1, <1>6, <2>1, <2>3
<1>10. sub'[s].last <= Start => sub'[s].used >= SumFunctionOnSet(Holds', Of(s)')
    BY <1>2, <1>6, <1>7 DEF UseOf, OpensHold, FirstPeriod
<1> QED
    BY <1>8, <1>9, <1>10 DEF UseOfNext

\* A step that changes the hold of request r, and the use of its subscription s by
\* the difference.
ChangesHold(r, s) ==
    /\ record[r].status = "consumed" /\ record[r].sub = s
    /\ record'[r].status \in {"consumed", "settled", "refunded"} /\ record'[r].sub = s
    /\ \A q \in Requests : q # r => record'[q] = record[q]
    /\ sub'[s].used = Clamp(sub[s].used + (Holds'[r] - record[r].held))
    /\ sub'[s].last = sub[s].last

\* It changes both sides alike, or use that a reset has cleared stays cleared.
LEMMA ChangedUseIsBacked ==
    ASSUME TypeOK, TypeOK', Owned, NEW s \in Subs, UseOf(s), NEW r \in Requests, ChangesHold(r, s)
    PROVE  UseOfNext(s)
<1>1. Of(s)' = Of(s) /\ r \in Of(s) /\ IsFiniteSet(Of(s)) /\ Of(s) \subseteq Requests
    BY DEF ChangesHold, Of, Owned
<1>2. sub[s].used \in Nat /\ record[r].held \in Nat
    BY DEF TypeOK, Subscriptions, Records
<1>3. /\ \A q \in Of(s) : /\ Holds[q] \in Nat /\ Holds'[q] \in Nat
                          /\ MostHeld[q] \in Nat /\ MostHeld'[q] \in Nat
      /\ \A q \in Of(s) : q # r => Holds'[q] = Holds[q] /\ MostHeld'[q] = MostHeld[q]
    BY <1>1, HeldValues DEF ChangesHold
<1>4. Holds[r] = record[r].held /\ MostHeld[r] = record[r].held /\ MostHeld'[r] = Holds'[r]
    BY HeldValues DEF ChangesHold
<1> DEFINE most == SumFunctionOnSet(MostHeld, Of(s))
           most2 == SumFunctionOnSet(MostHeld', Of(s))
           all == SumFunctionOnSet(Holds, Of(s))
           all2 == SumFunctionOnSet(Holds', Of(s))
<1>5. most2 = most - MostHeld[r] + MostHeld'[r] /\ MostHeld[r] <= most
    BY <1>1, <1>3, SumChanged
<1>6. all2 = all - Holds[r] + Holds'[r] /\ Holds[r] <= all
    BY <1>1, <1>3, SumChanged
<1>7. most \in Nat /\ most2 \in Nat /\ all \in Nat /\ all2 \in Nat
    BY <1>1, <1>3, SumType
<1>8. Holds'[r] \in Nat
    BY <1>1, <1>3
<1>9. sub[s].used <= most
    BY DEF UseOf
<1>10. sub'[s].used = Clamp(sub[s].used + (Holds'[r] - record[r].held))
    BY DEF ChangesHold
<1> HIDE DEF most, most2, all, all2
<1>11. sub'[s].used <= most2
    BY <1>2, <1>4, <1>5, <1>7, <1>8, <1>9, <1>10 DEF Clamp
<1>12. ASSUME sub'[s].last <= Start, \A q \in Of(s) : record'[q].status # "removed"
       PROVE  sub'[s].used = all2
    <2>1. \A q \in Of(s) : record[q].status # "removed"
        BY <1>1, <1>12 DEF ChangesHold
    <2>2. sub[s].used = all
        BY <1>12, <2>1 DEF UseOf, FirstPeriod, ChangesHold, all
    <2> QED
        BY <1>2, <1>4, <1>6, <1>7, <1>8, <1>10, <2>2 DEF Clamp
<1>13. ASSUME sub'[s].last <= Start PROVE sub'[s].used >= all2
    <2>1. sub[s].used >= all
        BY <1>13 DEF UseOf, FirstPeriod, ChangesHold, all
    <2> QED
        BY <1>2, <1>4, <1>6, <1>7, <1>8, <1>10, <2>1 DEF Clamp
<1> QED
    BY <1>1, <1>11, <1>12, <1>13 DEF UseOfNext, most2, all2

\* A look at a row is a step of the kind that KeepsUse allows.
LEMMA LookKeepsUse ==
    ASSUME TypeOK, NEW s \in Subs, NEW t \in Nat, sub'[s] \in {sub[s], MaybeReset(s, t)}
    PROVE  \/ sub'[s].used = sub[s].used /\ sub'[s].last >= sub[s].last
           \/ sub'[s].used = 0 /\ sub'[s].last > Start
<1>1. sub[s].last \in Nat
    BY DEF TypeOK, Subscriptions
<1>2. CASE sub'[s] = sub[s]
    BY <1>1, <1>2
<1>3. CASE sub'[s] = MaybeReset(s, t)
    BY <1>3, MaybeResetRow
<1> QED
    BY <1>2, <1>3

\* A step of request r leaves the subscriptions alone that it does not name.
LEMMA ElsewhereKept ==
    ASSUME TypeOK, NEW r \in Requests, NEW s \in Subs, NEW t \in Nat,
           record[r].sub # s, record'[r].sub # s,
           \A q \in Requests : q # r => record'[q] = record[q],
           sub'[s] \in {sub[s], MaybeReset(s, t)}
    PROVE  KeepsUse(s)
<1>1. Of(s)' = Of(s) /\ \A q \in Of(s) : record'[q] = record[q]
    BY DEF Of
<1> QED
    BY <1>1, LookKeepsUse DEF KeepsUse

\* Pre-consuming opens a hold of one subscription and at most resets the others.
LEMMA PreConsumeKeepsUse ==
    ASSUME TypeOK, TypeOK', Owned, NEW r \in Requests, NEW amount \in 0..MaxQuota,
           PreConsumeUserSubscription(r, amount), NEW q \in Subs
    PROVE  OpensHold(r, q) \/ KeepsUse(q)
<1>1. PICK s \in Candidates :
        LET passed == {p \in Candidates : Earlier(p, s)}
            row == MaybeReset(s, now)
        IN
        /\ sub' = [p \in Subs |->
                IF p = s THEN Mutated(row, amount)
                ELSE IF p \in passed THEN MaybeReset(p, now) ELSE sub[p]]
        /\ record' = [record EXCEPT ![r] =
                [status |-> "consumed", sub |-> s, held |-> amount, version |-> 1,
                 updated |-> now]]
    BY DEF PreConsumeUserSubscription
<1>2. s \in Subs /\ amount \in Int /\ amount \in Nat /\ now \in Nat /\ record[r].status = "none"
    BY ConstantsAssumption DEF Candidates, TypeOK, PreConsumeUserSubscription
<1>3. /\ record'[r].status = "consumed" /\ record'[r].sub = s /\ record'[r].held = amount
      /\ \A p \in Requests : p # r => record'[p] = record[p]
    BY <1>1 DEF TypeOK
<1>4. CASE q = s
    <2> DEFINE row == MaybeReset(s, now)
    <2>1. /\ row \in Subscriptions /\ row.used \in Nat
          /\ \/ row.used = sub[s].used /\ row.last >= sub[s].last
             \/ row.used = 0 /\ row.last > Start
        BY <1>2, MaybeResetRow DEF Subscriptions
    <2>2. sub'[s] = Mutated(row, amount)
        BY <1>1, <1>2
    <2> HIDE DEF row
    <2>3. sub'[s].used = Clamp(row.used + amount) /\ sub'[s].last = row.last
        BY <1>2, <2>1, <2>2, MutatedRow
    <2>4. sub'[s].used = row.used + amount
        BY <1>2, <2>1, <2>3 DEF Clamp
    <2>5. \/ sub'[s].used = sub[s].used + record'[r].held /\ sub'[s].last >= sub[s].last
          \/ sub'[s].used = record'[r].held /\ sub'[s].last > Start
        BY <1>2, <1>3, <2>1, <2>3, <2>4
    <2> QED
        BY <1>2, <1>3, <1>4, <2>5 DEF OpensHold
<1>5. CASE q # s
    <2>1. sub'[q] \in {sub[q], MaybeReset(q, now)}
        BY <1>1, <1>5
    <2>2. record[r].sub # q
        BY <1>2, ConstantsAssumption DEF Owned, NoSub
    <2> QED
        BY <1>2, <1>3, <1>5, <2>1, <2>2, ElsewhereKept
<1> QED
    BY <1>4, <1>5

\* The mutation of a hold changes the use of one subscription.
LEMMA MutateRow ==
    ASSUME TypeOK, NEW r \in Requests, NEW s \in Subs, NEW delta \in Int,
           NEW op, NEW version, Mutate(r, s, op, version, delta)
    PROVE  /\ sub'[s].used = Clamp(sub[s].used + delta)
           /\ sub'[s].last = sub[s].last
           /\ \A q \in Subs : q # s => sub'[q] = sub[q]
<1>1. sub[s] \in Subscriptions
    BY DEF TypeOK
<1>2. sub'[s] = Mutated(sub[s], delta) /\ \A q \in Subs : q # s => sub'[q] = sub[q]
    BY DEF Mutate, TypeOK
<1> QED
    BY <1>1, <1>2, MutatedRow

\* A call on an open hold changes it and the use of its subscription alike.
LEMMA CallKeepsUse ==
    ASSUME TypeOK, TypeOK', NEW r \in Requests, NEW q \in Subs,
           record[r].status = "consumed", record[r].sub \in Subs,
           record'[r].status \in {"consumed", "settled", "refunded"},
           record'[r].sub = record[r].sub,
           \A p \in Requests : p # r => record'[p] = record[p],
           \/ sub' = sub /\ Holds'[r] = record[r].held
           \/ \E op, version : Mutate(r, record[r].sub, op, version, Holds'[r] - record[r].held)
    PROVE  ChangesHold(r, q) \/ KeepsUse(q)
<1> DEFINE s == record[r].sub
<1>1. record[r].held \in Nat /\ Holds'[r] \in Nat /\ sub[s].used \in Nat
    BY HeldValues DEF TypeOK, Subscriptions
<1>2. /\ sub'[s].used = Clamp(sub[s].used + (Holds'[r] - record[r].held))
      /\ sub'[s].last = sub[s].last
      /\ \A p \in Subs : p # s => sub'[p] = sub[p]
    <2>1. CASE sub' = sub /\ Holds'[r] = record[r].held
        BY <1>1, <2>1 DEF Clamp
    <2>2. ASSUME NEW op, NEW version, Mutate(r, s, op, version, Holds'[r] - record[r].held)
          PROVE  /\ sub'[s].used = Clamp(sub[s].used + (Holds'[r] - record[r].held))
                 /\ sub'[s].last = sub[s].last
                 /\ \A p \in Subs : p # s => sub'[p] = sub[p]
        <3>1. Holds'[r] - record[r].held \in Int
            BY <1>1
        <3> QED
            BY <2>2, <3>1, MutateRow
    <2> QED
        BY <2>1, <2>2
<1>3. CASE q = s
    BY <1>2, <1>3 DEF ChangesHold
<1>4. CASE q # s
    <2>1. sub'[q] = sub[q] /\ now \in Nat
        BY <1>2, <1>4 DEF TypeOK
    <2> QED
        BY <1>4, <2>1, ElsewhereKept
<1> QED
    BY <1>3, <1>4

\* A request's step keeps the use of every subscription backed.
LEMMA ClientKeepsUse ==
    ASSUME TypeOK, TypeOK', Backed, Owned, NEW r \in Requests, Client(r), NEW q \in Subs
    PROVE  OpensHold(r, q) \/ ChangesHold(r, q) \/ KeepsUse(q)
<1>1. record[r] \in Records /\ record[r].held \in Nat
    BY DEF TypeOK, Records
<1>2. ASSUME NEW amount \in 0..MaxQuota, PreConsumeUserSubscription(r, amount)
      PROVE  OpensHold(r, q) \/ KeepsUse(q)
    BY <1>2, PreConsumeKeepsUse
<1>3. ASSUME NEW amount \in 0..MaxQuota, ResizeSubscriptionPreConsume(r, amount)
      PROVE  ChangesHold(r, q) \/ KeepsUse(q)
    <2>1. record[r].status = "consumed" /\ record[r].sub \in Subs
        BY <1>3 DEF ResizeSubscriptionPreConsume, Backed
    <2>2. /\ record'[r].status = "consumed" /\ record'[r].held = amount
          /\ record'[r].sub = record[r].sub
          /\ \A p \in Requests : p # r => record'[p] = record[p]
        BY <1>1, <1>3, <2>1 DEF ResizeSubscriptionPreConsume, TypeOK, Records
    <2>3. Holds'[r] = amount
        BY <2>2, HeldValues
    <2>4. \E op, version : Mutate(r, record[r].sub, op, version, Holds'[r] - record[r].held)
        BY <1>3, <2>3 DEF ResizeSubscriptionPreConsume
    <2> QED
        BY <2>1, <2>2, <2>4, CallKeepsUse
<1>4. ASSUME NEW amount \in 0..MaxQuota, SettleSubscriptionPreConsume(r, amount)
      PROVE  ChangesHold(r, q) \/ KeepsUse(q)
    <2>1. record[r].status = "consumed" /\ record[r].sub \in Subs
        BY <1>4 DEF SettleSubscriptionPreConsume, Backed
    <2>2. /\ record'[r].status = "settled" /\ record'[r].held = amount
          /\ record'[r].sub = record[r].sub
          /\ \A p \in Requests : p # r => record'[p] = record[p]
        BY <1>1, <1>4 DEF SettleSubscriptionPreConsume, TypeOK, Records
    <2>3. Holds'[r] = amount
        BY <2>2, HeldValues
    <2>4. \/ sub' = sub /\ Holds'[r] = record[r].held
          \/ \E op, version : Mutate(r, record[r].sub, op, version, Holds'[r] - record[r].held)
        BY <1>4, <2>3 DEF SettleSubscriptionPreConsume
    <2> QED
        BY <2>1, <2>2, <2>4, CallKeepsUse
<1>5. ASSUME RefundSubscriptionPreConsume(r) PROVE ChangesHold(r, q) \/ KeepsUse(q)
    <2>1. record[r].status = "consumed" /\ record[r].sub \in Subs
        BY <1>5 DEF RefundSubscriptionPreConsume, Backed
    <2>2. /\ record'[r].status = "refunded"
          /\ record'[r].sub = record[r].sub
          /\ \A p \in Requests : p # r => record'[p] = record[p]
        BY <1>1, <1>5 DEF RefundSubscriptionPreConsume, TypeOK, Records
    <2>3. Holds'[r] = 0
        BY <2>2, HeldValues
    <2>4. 0 - record[r].held = -record[r].held
        BY <1>1
    <2>5. \/ sub' = sub /\ Holds'[r] = record[r].held
          \/ \E op, version : Mutate(r, record[r].sub, op, version, Holds'[r] - record[r].held)
        BY <1>5, <2>3, <2>4 DEF RefundSubscriptionPreConsume
    <2> QED
        BY <2>1, <2>2, <2>5, CallKeepsUse
<1> QED
    BY <1>2, <1>3, <1>4, <1>5 DEF Client

\* The steps of others that are not an adjustment leave the requests alone or
\* clean up, and at most reset a subscription.
LEMMA OtherKeepsUse ==
    ASSUME TypeOK, Backed, OtherStep, \A key \in keys' : key.op # "mutation", NEW s \in Subs
    PROVE  KeepsUse(s)
<1>0. now \in Nat /\ due.at \in Nat /\ sub[s] \in Subscriptions /\ sub[s].last \in Nat
    BY DEF TypeOK, Subscriptions
<1>1. ~ \E m \in MutationKeys, q \in Subs, delta \in -MaxQuota..MaxQuota :
            PostConsumeUserSubscriptionDelta(m, q, delta)
    <2> SUFFICES ASSUME NEW m, NEW q, NEW delta, PostConsumeUserSubscriptionDelta(m, q, delta)
                 PROVE  FALSE
        OBVIOUS
    <2>1. Key(m, "mutation", 0) \in keys'
        BY DEF PostConsumeUserSubscriptionDelta
    <2>2. Key(m, "mutation", 0).op = "mutation"
        BY DEF Key
    <2> QED
        BY <2>1, <2>2
<1>2. ASSUME record' = record PROVE Of(s)' = Of(s) /\ \A r \in Of(s) : record'[r] = record[r]
    BY <1>2 DEF Of
<1>3. ASSUME NEW q \in Subs, Administration(q) PROVE KeepsUse(s)
    <2>1. record' = record
        BY <1>3 DEF Administration, AdminUpdateSubscriptionPlan, AdminInvalidateUserSubscription,
            AdminDeleteUserSubscription
    <2>2. sub'[s].used = sub[s].used /\ sub'[s].last = sub[s].last
        <3>1. CASE AdminInvalidateUserSubscription(q)
            BY <1>0, <3>1 DEF AdminInvalidateUserSubscription, TypeOK, Subscriptions
        <3>2. CASE AdminDeleteUserSubscription(q)
            BY <1>0, <3>2 DEF AdminDeleteUserSubscription, TypeOK, Subscriptions
        <3>3. CASE AdminUpdateSubscriptionPlan(q)
            BY <3>3 DEF AdminUpdateSubscriptionPlan
        <3> QED
            BY <1>3, <3>1, <3>2, <3>3 DEF Administration
    <2> QED
        BY <1>0, <1>2, <2>1, <2>2 DEF KeepsUse
<1>4. CASE ExpireDueSubscriptions
    <2>1. record' = record /\ sub'[s].used = sub[s].used /\ sub'[s].last = sub[s].last
        BY <1>0, <1>4 DEF ExpireDueSubscriptions, TypeOK, Subscriptions
    <2> QED
        BY <1>0, <1>2, <2>1 DEF KeepsUse
<1>5. ASSUME NEW q \in Subs, ResetListed(q) PROVE KeepsUse(s)
    <2>1. record' = record /\ sub'[s] \in {sub[s], MaybeReset(s, due.at)}
        BY <1>5 DEF ResetListed, TypeOK
    <2> QED
        BY <1>0, <1>2, <2>1, LookKeepsUse DEF KeepsUse
<1>6. CASE CleanupSubscriptionPreConsumeRecords
    <2>1. \A r \in Requests :
            record'[r] \in {record[r], [record[r] EXCEPT !.status = "removed"]}
        BY <1>6 DEF CleanupSubscriptionPreConsumeRecords
    <2>2. \A r \in Requests : record'[r].sub = record[r].sub
        BY <2>1 DEF TypeOK, Records
    <2>3. Of(s)' = Of(s) /\ sub' = sub
        BY <1>6, <2>2 DEF Of, CleanupSubscriptionPreConsumeRecords
    <2> QED
        BY <1>0, <2>1, <2>3 DEF KeepsUse, Of
<1>7. CASE ListDue \/ ResetCrash \/ Tick \/ UNCHANGED vars
    <2>1. record' = record /\ sub' = sub
        BY <1>7 DEF ListDue, ResetCrash, Tick, vars
    <2> QED
        BY <1>0, <1>2, <2>1 DEF KeepsUse
<1> QED
    BY <1>1, <1>3, <1>4, <1>5, <1>6, <1>7 DEF OtherStep, Maintenance

\* A step gives at most one request to a subscription, and takes none away.
LEMMA OwnedKept ==
    ASSUME TypeOK, TypeOK', Backed, Owned, [Next]_vars
    PROVE  Owned'
<1>1. CASE /\ \A r \in Requests : record'[r].sub = record[r].sub
           /\ \A r \in Requests : record'[r].status = "none" => record[r].status = "none"
    BY <1>1 DEF Owned, Of
<1>2. ASSUME NEW r \in Requests, record'[r].status # "none",
             \A q \in Requests : q # r => record'[q] = record[q]
      PROVE  Owned'
    <2>1. \A q \in Requests : record'[q].status = "none" => record'[q].sub = NoSub
        BY <1>2 DEF Owned
    <2>2. ASSUME NEW s \in Subs PROVE IsFiniteSet(Of(s)')
        <3>1. Of(s)' \in SUBSET (Of(s) \cup {r}) /\ IsFiniteSet(Of(s))
            BY <1>2 DEF Of, Owned
        <3> QED
            BY <3>1, FS_AddElement, FS_Subset
    <2> QED
        BY <2>1, <2>2 DEF Owned
<1>3. ASSUME NEW r \in Requests, Client(r) PROVE Owned'
    <2> DEFINE Own == record'[r].status # "none" /\ \A q \in Requests : q # r => record'[q] = record[q]
    <2>1. Own
        <3>0. record[r] \in Records /\ DOMAIN record = Requests
            BY DEF TypeOK
        <3>1. ASSUME NEW amount, PreConsumeUserSubscription(r, amount) PROVE Own
            BY <3>0, <3>1 DEF PreConsumeUserSubscription
        <3>2. ASSUME NEW amount, ResizeSubscriptionPreConsume(r, amount) PROVE Own
            BY <3>0, <3>2 DEF ResizeSubscriptionPreConsume, Records
        <3>3. ASSUME NEW amount, SettleSubscriptionPreConsume(r, amount) PROVE Own
            BY <3>0, <3>3 DEF SettleSubscriptionPreConsume, Records
        <3>4. CASE RefundSubscriptionPreConsume(r)
            BY <3>0, <3>4 DEF RefundSubscriptionPreConsume, Records
        <3> QED
            BY <1>3, <3>1, <3>2, <3>3, <3>4 DEF Client
    <2> QED
        BY <1>2, <2>1
<1>4. CASE CleanupSubscriptionPreConsumeRecords
    <2>1. /\ \A r \in Requests : record'[r].sub = record[r].sub
          /\ \A r \in Requests : record'[r].status = "none" => record[r].status = "none"
        BY <1>4 DEF CleanupSubscriptionPreConsumeRecords, TypeOK, Records
    <2> QED
        BY <1>1, <2>1
<1>5. CASE OtherStep /\ ~CleanupSubscriptionPreConsumeRecords
    <2>1. record' = record
        BY <1>5 DEF OtherStep, PostConsumeUserSubscriptionDelta, Administration,
            AdminUpdateSubscriptionPlan, AdminInvalidateUserSubscription, AdminDeleteUserSubscription, Maintenance,
            ExpireDueSubscriptions, ListDue, ResetListed, ResetCrash, Tick, vars
    <2> QED
        BY <1>1, <2>1
<1> QED
    BY <1>3, <1>4, <1>5, Steps

\* Journal keys are never forgotten.
LEMMA KeysStay ==
    ASSUME [Next]_vars
    PROVE  keys \subseteq keys'
<1>1. ASSUME NEW r \in Requests, Client(r) PROVE keys \subseteq keys'
    <2>1. ASSUME NEW amount, PreConsumeUserSubscription(r, amount) PROVE keys \subseteq keys'
        BY <2>1 DEF PreConsumeUserSubscription
    <2>2. ASSUME NEW amount, ResizeSubscriptionPreConsume(r, amount) PROVE keys \subseteq keys'
        BY <2>2 DEF ResizeSubscriptionPreConsume, Mutate
    <2>3. ASSUME NEW amount, SettleSubscriptionPreConsume(r, amount) PROVE keys \subseteq keys'
        BY <2>3 DEF SettleSubscriptionPreConsume, Mutate
    <2>4. CASE RefundSubscriptionPreConsume(r)
        BY <2>4 DEF RefundSubscriptionPreConsume, Mutate
    <2> QED
        BY <1>1, <2>1, <2>2, <2>3, <2>4 DEF Client
<1>2. ASSUME NEW m, NEW s, NEW delta, PostConsumeUserSubscriptionDelta(m, s, delta)
      PROVE  keys \subseteq keys'
    BY <1>2 DEF PostConsumeUserSubscriptionDelta
<1>3. CASE (\E s \in Subs : Administration(s)) \/ Maintenance \/ Tick \/ UNCHANGED vars
    <2>1. keys' = keys
        BY <1>3 DEF Administration, AdminUpdateSubscriptionPlan, AdminInvalidateUserSubscription,
            AdminDeleteUserSubscription, Maintenance, ExpireDueSubscriptions, ListDue,
            ResetListed, ResetCrash, CleanupSubscriptionPreConsumeRecords, Tick, vars
    <2> QED
        BY <2>1
<1> QED
    BY <1>1, <1>2, <1>3, Steps DEF OtherStep

\* UseInv is inductive.
LEMMA UseHolds == Spec => [](TypeOK /\ Backed /\ Owned /\ UseInv)
<1>1. Init => Owned /\ UseInv
    <2> SUFFICES ASSUME Init PROVE Owned /\ UseInv
        OBVIOUS
    <2>1. \A s \in Subs : Of(s) = {} /\ sub[s].used = 0
        BY ConstantsAssumption DEF Init, Of, NoRecord, NoSub
    <2>2. SumFunctionOnSet(MostHeld, {}) = 0 /\ SumFunctionOnSet(Holds, {}) = 0
        BY SumType, FS_EmptySet
    <2>3. \A s \in Subs : UseOf(s)
        BY <2>1, <2>2 DEF UseOf
    <2>4. Owned
        BY <2>1, FS_EmptySet DEF Init, Owned, NoRecord
    <2> QED
        BY <2>3, <2>4 DEF UseInv
<1>2. TypeOK /\ Backed /\ Owned /\ UseInv /\ [Next]_vars => Owned' /\ UseInv'
    <2> SUFFICES ASSUME TypeOK, Backed, Owned, UseInv, [Next]_vars
                 PROVE  Owned' /\ UseInv'
        OBVIOUS
    <2>1. TypeOK'
        BY NextTypes
    <2>2. Owned'
        BY <2>1, OwnedKept
    <2>3. ASSUME \A key \in keys' : key.op # "mutation", NEW s \in Subs PROVE UseOfNext(s)
        <3>1. UseOf(s)
            BY <2>3, KeysStay DEF UseInv
        <3>2. CASE \E r \in Requests : Client(r)
            BY <2>1, <3>1, <3>2, ClientKeepsUse, OpenedUseIsBacked, ChangedUseIsBacked,
                KeptUseIsBacked
        <3>3. CASE OtherStep
            BY <2>1, <2>3, <3>1, <3>3, OtherKeepsUse, KeptUseIsBacked
        <3> QED
            BY <3>2, <3>3, Steps
    <2> QED
        BY <2>2, <2>3, UseByParts
<1>3. QED
    BY <1>1, <1>2, TypesHold, PTL DEF Spec

\* As long as no task adjusted it, the use of a subscription is at most what its
\* requests hold and were charged, and exactly that in the first period.
THEOREM UseBacked == Spec => []UseIsBacked
BY UseHolds, UseByParts, PTL

-----------------------------------------------------------------------------
(* The journal of a request. *)

\* A subscription does not return to its first period.
LEMMA FirstPeriodBefore ==
    ASSUME TypeOK, TypeOK', Backed, Owned, [Next]_vars,
           \A key \in keys' : key.op # "mutation", NEW s \in Subs, sub'[s].last <= Start
    PROVE  FirstPeriod(s)
<1>1. sub[s].last \in Nat /\ sub'[s].last \in Nat /\ Start \in Nat
    BY DEF TypeOK, Subscriptions, Start
<1>2. KeepsUse(s) \/ \E r \in Requests : OpensHold(r, s) \/ ChangesHold(r, s)
    BY ClientKeepsUse, OtherKeepsUse, Steps
<1>3. sub'[s].last >= sub[s].last \/ sub'[s].last > Start
    BY <1>1, <1>2 DEF KeepsUse, OpensHold, ChangesHold
<1> QED
    BY <1>1, <1>3 DEF FirstPeriod

\* In the first period the use of a subscription covers each of its open holds.
LEMMA UseCoversHold ==
    ASSUME TypeOK, Owned, NEW s \in Subs, UseOf(s), FirstPeriod(s),
           NEW r \in Requests, record[r].sub = s, record[r].status = "consumed"
    PROVE  sub[s].used >= record[r].held
<1>1. r \in Of(s) /\ IsFiniteSet(Of(s)) /\ Of(s) \subseteq Requests
    BY DEF Of, Owned
<1>2. \A q \in Requests : Holds[q] \in Nat
    BY DEF Holds, Held, TypeOK, Records
<1>3. Holds[r] = record[r].held
    BY DEF Holds, Held
<1>4. Holds[r] <= SumFunctionOnSet(Holds, Of(s))
    BY <1>1, <1>2, SumChanged
<1>5. SumFunctionOnSet(Holds, Of(s)) \in Nat /\ sub[s].used \in Nat /\ record[r].held \in Nat
    BY <1>1, <1>2, SumType DEF TypeOK, Subscriptions, Records
<1> HIDE DEF Holds
<1> QED
    BY <1>3, <1>4, <1>5 DEF UseOf

\* JournalMatchesHold in the first period, as long as no task adjusted.
Exact(r) ==
    record[r].status # "removed" /\ record[r].sub # NoSub /\ FirstPeriod(record[r].sub)
    /\ (\A key \in keys : key.op # "mutation") => applied[r] = Held(r)

\* What a record holds before and after a step.
LEMMA HeldNext ==
    ASSUME TypeOK, TypeOK', NEW r \in Requests
    PROVE  /\ record[r].held \in Nat /\ applied[r] \in Int
           /\ record'[r].held \in Nat /\ applied'[r] \in Int
           /\ record[r].sub \in Subs \cup {NoSub} /\ record'[r].sub \in Subs \cup {NoSub}
           /\ [record[r] EXCEPT !.status = "removed"].status = "removed"
           /\ Held(r) = IF record[r].status \in {"consumed", "settled"} THEN record[r].held ELSE 0
           /\ Held(r)' = IF record'[r].status \in {"consumed", "settled"}
                         THEN record'[r].held ELSE 0
BY DEF TypeOK, Records, Held

\* The journal of a request covers what it holds or was charged, and matches it
\* until the first reset.
THEOREM JournalCoversHold == Spec => []JournalMatchesHold
<1>1. Init => JournalMatchesHold
    BY DEF Init, JournalMatchesHold, Held, NoRecord
<1>2. TypeOK /\ Backed /\ Owned /\ UseInv /\ JournalMatchesHold /\ [Next]_vars
        => JournalMatchesHold'
    <2> SUFFICES ASSUME TypeOK, Backed, Owned, UseInv, JournalMatchesHold, [Next]_vars,
                        NEW r \in Requests, record'[r].status # "removed"
                 PROVE  /\ applied'[r] >= Held(r)'
                        /\ record'[r].sub # NoSub /\ sub'[record'[r].sub].last <= Start
                           /\ (\A key \in keys' : key.op # "mutation") => applied'[r] = Held(r)'
        BY DEF JournalMatchesHold, FirstPeriod
    <2>0. TypeOK' /\ RecordStep(r)
        BY NextTypes, EveryRecordStep
    <2>1. /\ record[r].held \in Nat /\ applied[r] \in Int
          /\ record'[r].held \in Nat /\ applied'[r] \in Int
          /\ record[r].sub \in Subs \cup {NoSub} /\ record'[r].sub \in Subs \cup {NoSub}
          /\ [record[r] EXCEPT !.status = "removed"].status = "removed"
          /\ Held(r) = IF record[r].status \in {"consumed", "settled"} THEN record[r].held ELSE 0
          /\ Held(r)' = IF record'[r].status \in {"consumed", "settled"}
                        THEN record'[r].held ELSE 0
        BY <2>0, HeldNext
    <2>2. record[r].status # "removed" => applied[r] >= Held(r) /\ Exact(r)
        BY DEF JournalMatchesHold, Exact
    <2>3. applied'[r] >= Held(r)'
        <3>1. CASE record'[r] = record[r] /\ applied'[r] = applied[r]
            BY <2>1, <2>2, <3>1
        <3>2. CASE record'[r].status = "consumed" /\ applied'[r] = record'[r].held
            BY <2>1, <3>2
        <3>3. CASE /\ record[r].status = "consumed"
                   /\ record'[r].status \in {"consumed", "settled"}
                   /\ applied'[r] >= applied[r] + (record'[r].held - record[r].held)
            BY <2>1, <2>2, <3>3
        <3>4. CASE /\ record[r].status = "consumed"
                   /\ record'[r].status = "refunded"
                   /\ applied'[r] >= applied[r] + (-record[r].held)
            BY <2>1, <2>2, <3>4
        <3> QED
            BY <2>0, <2>1, <3>1, <3>2, <3>3, <3>4 DEF RecordStep, Posts
    <2>4. ASSUME record'[r].sub # NoSub, sub'[record'[r].sub].last <= Start,
                 \A key \in keys' : key.op # "mutation"
          PROVE  applied'[r] = Held(r)'
        <3> DEFINE s == record'[r].sub
        <3>1. s \in Subs /\ sub'[s].last <= Start
            BY <2>1, <2>4
        <3>2. FirstPeriod(s) /\ \A key \in keys : key.op # "mutation"
            BY <2>0, <2>4, <3>1, FirstPeriodBefore, KeysStay
        <3>3. UseOf(s)
            BY <3>1, <3>2 DEF UseInv
        <3>4. CASE record'[r] = record[r] /\ applied'[r] = applied[r]
            BY <2>1, <2>2, <2>4, <3>2, <3>4 DEF Exact
        <3>5. CASE record'[r].status = "consumed" /\ applied'[r] = record'[r].held
            BY <2>1, <3>5
        <3>6. CASE record[r].status = "consumed" /\ record'[r].sub = record[r].sub
            <4>1. sub[record[r].sub].used >= record[r].held
                BY <3>1, <3>2, <3>3, <3>6, UseCoversHold
            <4>2. applied[r] = record[r].held
                BY <2>1, <2>2, <2>4, <3>2, <3>6 DEF Exact
            <4>3. CASE /\ record'[r].status \in {"consumed", "settled"}
                       /\ Posts(r, record'[r].held - record[r].held)
                BY <2>1, <4>1, <4>2, <4>3 DEF Posts
            <4>4. CASE record'[r].status = "refunded" /\ Posts(r, -record[r].held)
                BY <2>1, <4>1, <4>2, <4>4 DEF Posts
            <4> QED
                BY <2>0, <2>1, <3>4, <3>6, <4>3, <4>4 DEF RecordStep
        <3> QED
            BY <2>0, <2>1, <3>4, <3>5, <3>6 DEF RecordStep
    <2> QED
        BY <2>3, <2>4
<1>3. QED
    BY <1>1, <1>2, UseHolds, PTL DEF Spec
=============================================================================
