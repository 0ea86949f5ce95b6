------------------------ MODULE SubscriptionLifecycle ------------------------
(***************************************************************************)
(* How subscriptions of one user come and go, and what they do to the      *)
(* user's group: the first half of model/subscription.go.                  *)
(*                                                                         *)
(* A subscription is created when a payment webhook completes an order or  *)
(* when an administrator binds a plan, and ends when it expires, or when   *)
(* an administrator cancels or deletes it.  Both kinds of transaction read *)
(* the user's group and subscriptions and write later; they lock the order *)
(* or the rows that they end, and nothing else, so that transactions of    *)
(* the same user overlap (the database runs at READ COMMITTED).  Each has  *)
(* one step for its reads and one for its commit.  The reads of an end     *)
(* need no steps of their own: a commit between two of them has the        *)
(* outcome of one before or after both.  A purchase with the balance is a  *)
(* creation too, in a transaction that locks the user.  Quota and periods  *)
(* are the subject of SubscriptionHolds.                                   *)
(***************************************************************************)
EXTENDS Integers, Sequences, FiniteSets

CONSTANTS
    Orders,         \* pending orders of the user
    Procs,          \* webhook deliveries, administrators and the master
    Plans,
    PlanOf,         \* the plan of an order
    Upgrade,        \* upgrade_group of a plan, or NoGroup
    Duration,       \* time a subscription of a plan lasts
    MaxPurchase,    \* max_purchase_per_user of a plan; 0 is unlimited
    BaseGroup,      \* the user's group at first
    NoGroup, NoOrder, NoPlan,
    MaxSubs,        \* bound on the number of subscriptions
    MaxTime         \* bound on the clock

ASSUME ConstantsAssumption ==
    /\ PlanOf \in [Orders -> Plans]
    /\ Duration \in [Plans -> Nat \ {0}]
    /\ MaxPurchase \in [Plans -> Nat]
    /\ MaxSubs \in Nat
    /\ MaxTime \in Nat
    /\ NoOrder \notin Orders
    /\ NoPlan \notin Plans
    /\ BaseGroup # NoGroup

VARIABLES
    order,      \* table subscription_orders: the status
    rows,       \* table user_subscriptions, by id
    group,      \* users.group
    creating,   \* the open transaction of each process that creates
    ending,     \* the open transaction of each process that ends subscriptions
    now         \* the clock

vars == <<order, rows, group, creating, ending, now>>

-----------------------------------------------------------------------------
Groups == {BaseGroup} \cup {Upgrade[plan] : plan \in Plans}

Subscriptions ==
    [by : Orders \cup {NoOrder}, plan : Plans, end : Nat,
     status : {"active", "expired", "cancelled", "deleted"},
     upgrade : Groups \cup {NoGroup}, prev : Groups \cup {NoGroup}]

\* plan is NoPlan when no transaction is open; seen is the group it has read.
Transactions ==
    [by : Orders \cup {NoOrder}, plan : Plans \cup {NoPlan},
     seen : Groups \cup {NoGroup}, at : Nat]

NoTransaction == [by |-> NoOrder, plan |-> NoPlan, seen |-> NoGroup, at |-> 0]

\* The rows that it ends and how, its clock, the group it will write or NoGroup,
\* and how many rows the table had when it read.  The master lists the user first.
Ends ==
    [rows : SUBSET Nat, to : {"none", "listed", "cancelled", "deleted", "expired"},
     at : Nat, group : Groups \cup {NoGroup}, read : Nat]

NoEnd == [rows |-> {}, to |-> "none", at |-> 0, group |-> NoGroup, read |-> 0]

Idle(p) == creating[p] = NoTransaction /\ ending[p] = NoEnd

Ids == 1..Len(rows)

Exists(i) == rows[i].status # "deleted"

\* status = active AND end_time > t AND upgrade_group <> ''.
Upgrading(row, t) == row.status = "active" /\ row.end > t /\ row.upgrade # NoGroup

RowLocked(i) == \E p \in Procs : i \in ending[p].rows

Locked(o) == \E p \in Procs : creating[p].by = o

\* Purchases of the plan that are in the table, whatever their status.
Bought(plan) == {i \in Ids : rows[i].plan = plan /\ Exists(i)}

BelowLimit(plan) == MaxPurchase[plan] > 0 => Cardinality(Bought(plan)) < MaxPurchase[plan]

Init ==
    /\ order = [o \in Orders |-> "pending"]
    /\ rows = <<>>
    /\ group = BaseGroup
    /\ creating = [p \in Procs |-> NoTransaction]
    /\ ending = [p \in Procs |-> NoEnd]
    /\ now = 0

-----------------------------------------------------------------------------
(* Creation. *)

\* CreateUserSubscriptionFromPlanTx up to its last read.
BeginCreate(p, o, plan) ==
    /\ Idle(p)
    /\ Len(rows) + Cardinality({q \in Procs : creating[q] # NoTransaction}) < MaxSubs
    /\ BelowLimit(plan)
    /\ creating' = [creating EXCEPT ![p] =
            [by |-> o, plan |-> plan, seen |-> group, at |-> now]]
    /\ UNCHANGED <<order, rows, group, ending, now>>

\* Faulty variant: the order's status is not looked at.
CompleteAnyOrder(p, o) == ~Locked(o) /\ BeginCreate(p, o, PlanOf[o])

\* The order is locked and still pending; completed ones are replays.
CompleteSubscriptionOrder(p, o) ==
    /\ ~Locked(o)
    /\ order[o] = "pending"
    /\ BeginCreate(p, o, PlanOf[o])

AdminBindSubscription(p, plan) == BeginCreate(p, NoOrder, plan)

\* The row, the user's group and the order's status are written.
CommitCreate(p) ==
    LET tx == creating[p]
        upgrade == Upgrade[tx.plan]
        upgrades == upgrade # NoGroup /\ tx.seen # upgrade
    IN
    /\ tx.plan # NoPlan
    /\ rows' = Append(rows,
            [by |-> tx.by, plan |-> tx.plan, end |-> tx.at + Duration[tx.plan],
             status |-> "active", upgrade |-> upgrade,
             prev |-> IF upgrades THEN tx.seen ELSE NoGroup])
    /\ group' = IF upgrades THEN upgrade ELSE group
    /\ order' = [o \in Orders |-> IF o = tx.by THEN "success" ELSE order[o]]
    /\ creating' = [creating EXCEPT ![p] = NoTransaction]
    /\ UNCHANGED <<ending, now>>

\* The transaction fails or its process dies: everything is rolled back.
Rollback(p) ==
    /\ ~Idle(p)
    /\ creating' = [creating EXCEPT ![p] = NoTransaction]
    /\ ending' = [ending EXCEPT ![p] = NoEnd]
    /\ UNCHANGED <<order, rows, group, now>>

\* The payment session ran out.
ExpireSubscriptionOrder(o) ==
    /\ ~Locked(o)
    /\ order[o] = "pending"
    /\ order' = [order EXCEPT ![o] = "expired"]
    /\ UNCHANGED <<rows, group, creating, ending, now>>

-----------------------------------------------------------------------------
(* Ends. *)

\* Faulty variant: other subscriptions are not looked at.
DowngradedAnyway(i) ==
    IF rows[i].upgrade = group /\ rows[i].prev # group THEN rows[i].prev ELSE NoGroup

\* downgradeUserGroupForSubscriptionTx up to its write: the group to return to
\* when subscription i is gone, if any.
Downgraded(i) ==
    IF /\ rows[i].upgrade = group
       /\ \A j \in Ids \ {i} : ~Upgrading(rows[j], now)
       /\ rows[i].prev # group
    THEN rows[i].prev ELSE NoGroup

\* The rows are locked, and everything is read.
BeginEnd(p, ids, to, at, target) ==
    /\ \A i \in ids : ~RowLocked(i)
    /\ ending' = [ending EXCEPT ![p] =
            [rows |-> ids, to |-> to, at |-> at, group |-> target, read |-> Len(rows)]]
    /\ UNCHANGED <<order, rows, group, creating, now>>

AdminInvalidateUserSubscription(p, i) ==
    Idle(p) /\ Exists(i) /\ BeginEnd(p, {i}, "cancelled", now, Downgraded(i))

AdminDeleteUserSubscription(p, i) ==
    Idle(p) /\ Exists(i) /\ BeginEnd(p, {i}, "deleted", now, Downgraded(i))

\* Active rows that have ended by time t.
Ended(t) == {i \in Ids : rows[i].status = "active" /\ rows[i].end <= t}

\* ExpireDueSubscriptions lists the user; the task of the master runs once.
ListExpired(p) ==
    /\ Idle(p)
    /\ \A q \in Procs : ending[q].to \notin {"listed", "expired"}
    /\ Ended(now) # {}
    /\ ending' = [ending EXCEPT ![p] = [NoEnd EXCEPT !.to = "listed", !.at = now]]
    /\ UNCHANGED <<order, rows, group, creating, now>>

\* The last of the upgrading subscriptions that have expired, those of ended
\* included, ORDER BY end_time DESC, id DESC.
IsLastExpired(i, ended) ==
    LET expired == {j \in Ids : /\ rows[j].status = "expired" \/ j \in ended
                               /\ rows[j].upgrade # NoGroup} IN
    /\ i \in expired
    /\ \A j \in expired : rows[j].end < rows[i].end \/ (rows[j].end = rows[i].end /\ j <= i)

\* The group the user returns to when the rows of ended expire, if any.
Returned(ended, t) ==
    LET last == {i \in Ids : /\ IsLastExpired(i, ended)
                            /\ \A j \in Ids : ~Upgrading(rows[j], t)
                            /\ rows[i].upgrade = group
                            /\ rows[i].prev # group}
    IN  IF last = {} THEN NoGroup ELSE rows[CHOOSE i \in last : TRUE].prev

\* The user's transaction of ExpireDueSubscriptions, as of the time of the list:
\* it goes on when somebody else has ended the rows that were listed.
ExpireDueSubscriptions(p) ==
    LET at == ending[p].at IN
    /\ ending[p].to = "listed"
    /\ BeginEnd(p, Ended(at), "expired", at, Returned(Ended(at), at))

\* The rows and the user's group are written.
CommitEnd(p) ==
    LET tx == ending[p]
        row(i) == [rows[i] EXCEPT !.status = tx.to,
                                  !.end = IF tx.to = "cancelled" THEN tx.at ELSE @]
    IN
    /\ tx.to \in {"cancelled", "deleted", "expired"}
    /\ rows' = [i \in Ids |-> IF i \in tx.rows THEN row(i) ELSE rows[i]]
    /\ group' = IF tx.group # NoGroup THEN tx.group ELSE group
    /\ ending' = [ending EXCEPT ![p] = NoEnd]
    /\ UNCHANGED <<order, creating, now>>

Tick ==
    /\ now < MaxTime
    /\ now' = now + 1
    /\ UNCHANGED <<order, rows, group, creating, ending>>

-----------------------------------------------------------------------------
Create(p) ==
    \/ \E o \in Orders : CompleteSubscriptionOrder(p, o)
    \/ \E plan \in Plans : AdminBindSubscription(p, plan)
    \/ CommitCreate(p)

End(p) ==
    \/ \E i \in Ids : AdminInvalidateUserSubscription(p, i) \/ AdminDeleteUserSubscription(p, i)
    \/ ListExpired(p)
    \/ ExpireDueSubscriptions(p)
    \/ CommitEnd(p)

Next ==
    \/ \E p \in Procs : Create(p) \/ End(p) \/ Rollback(p)
    \/ \E o \in Orders : ExpireSubscriptionOrder(o)
    \/ Tick

Spec == Init /\ [][Next]_vars

-----------------------------------------------------------------------------
(* Properties. *)

\* Every variable has its type.
TypeOK ==
    /\ order \in [Orders -> {"pending", "success", "expired"}]
    /\ rows \in Seq(Subscriptions)
    /\ group \in Groups \cup {NoGroup}
    /\ creating \in [Procs -> Transactions]
    /\ ending \in [Procs -> Ends]
    /\ now \in Nat

\* A paid order gives one subscription (subscription.go:526, "idempotent"):
\* whatever webhooks are repeated, overlap, fail or race the expiry of the
\* order, it is successful exactly if it has a subscription, and has one only.
OrdersCreateOnce ==
    /\ \A o \in Orders : order[o] = "success" <=> \E i \in Ids : rows[i].by = o
    /\ \A i, j \in Ids : rows[i].by = rows[j].by /\ rows[i].by # NoOrder => i = j

\* "If there's an active upgraded subscription, keep current group"
\* (subscription.go:975): the end of a subscription never changes the group while
\* another one that upgrades is running, of those its transaction could see.  One
\* created between its reads and its commit loses its group.
NoEarlyDowngrade ==
    [][group' # group /\ Len(rows') = Len(rows) =>
          \E p \in Procs :
              /\ ending[p] # NoEnd /\ ending'[p] = NoEnd
              /\ \A i \in 1..ending[p].read : ~Upgrading(rows'[i], now)]_vars
=============================================================================
