--------------------- MODULE SubscriptionLifecycleProofs ---------------------
(***************************************************************************)
(* Theorems about SubscriptionLifecycle, for any number of orders, plans   *)
(* and processes.                                                          *)
(***************************************************************************)
EXTENDS SubscriptionLifecycle, SequenceTheorems, TLAPS

\* A transaction that creates the subscription of an order holds its lock: the
\* order is pending, and no other transaction has it.
LocksHeld ==
    /\ \A p \in Procs : creating[p].by \in Orders => order[creating[p].by] = "pending"
    /\ \A p, q \in Procs : creating[p].by = creating[q].by /\ creating[p].by \in Orders => p = q

\* What a transaction that will change the group has seen stays so: the rows that
\* it has read and does not end are not upgrading.  A row that is not active never
\* is again, and the clock only rises.
LooksKept ==
    \A p \in Procs :
        /\ ending[p].read <= Len(rows)
        /\ ending[p].at <= now
        /\ ending[p].group # NoGroup =>
              \A i \in 1..ending[p].read : i \in ending[p].rows \/ ~Upgrading(rows[i], now)

\* The inductive invariant.
Inv == TypeOK /\ LocksHeld /\ OrdersCreateOnce /\ LooksKept

\* No end is open.
LEMMA NoEndType ==
    /\ NoEnd \in Ends
    /\ NoEnd.rows = {} /\ NoEnd.to = "none" /\ NoEnd.at = 0
    /\ NoEnd.group = NoGroup /\ NoEnd.read = 0
BY DEF NoEnd, Ends

\* Initially there is neither a subscription nor a transaction.
LEMMA InitInv == Init => Inv
<1> SUFFICES ASSUME Init PROVE Inv
    OBVIOUS
<1>1. NoTransaction \in Transactions /\ NoTransaction.by \notin Orders
    BY ConstantsAssumption DEF NoTransaction, Transactions
<1>2. TypeOK
    BY <1>1, NoEndType DEF Init, TypeOK, Groups
<1>3. LocksHeld
    BY <1>1 DEF Init, LocksHeld
<1>4. OrdersCreateOnce
    BY DEF Init, OrdersCreateOnce, Ids
<1>5. LooksKept
    <2>1. \A p \in Procs : ending[p] = NoEnd
        BY DEF Init
    <2>2. Len(rows) = 0 /\ now = 0
        BY DEF Init
    <2>3. QED
        BY <2>1, <2>2, NoEndType DEF LooksKept
<1>6. QED
    BY <1>2, <1>3, <1>4, <1>5 DEF Inv

\* LooksKept survives a step in which rows are added or stop being active, time
\* passes and ends are given up or committed.
LEMMA LooksStep ==
    ASSUME TypeOK, TypeOK', LooksKept, Len(rows') >= Len(rows), now' >= now,
           \A i \in Ids : rows'[i] = rows[i] \/ rows'[i].status # "active",
           \A p \in Procs : ending'[p] = ending[p] \/ ending'[p] = NoEnd
    PROVE  LooksKept'
<1>0. Len(rows) \in Nat /\ Len(rows') \in Nat /\ now \in Nat /\ now' \in Nat
    BY DEF TypeOK
<1> SUFFICES ASSUME NEW p \in Procs
             PROVE  /\ ending'[p].read <= Len(rows')
                    /\ ending'[p].at <= now'
                    /\ ending'[p].group # NoGroup =>
                          \A i \in 1..ending'[p].read :
                              i \in ending'[p].rows \/ ~Upgrading(rows'[i], now')
    BY DEF LooksKept, Upgrading
<1>1. CASE ending'[p] = NoEnd
    BY <1>0, <1>1, NoEndType
<1>2. CASE ending'[p] = ending[p]
    <2>1. /\ ending[p].read \in Nat /\ ending[p].at \in Nat
          /\ ending[p].read <= Len(rows) /\ ending[p].at <= now
        BY DEF TypeOK, Ends, LooksKept
    <2>2. ASSUME ending[p].group # NoGroup, NEW i \in 1..ending[p].read,
                 i \notin ending[p].rows
          PROVE  ~Upgrading(rows'[i], now')
        <3>1. i \in Ids /\ ~Upgrading(rows[i], now)
            BY <1>0, <2>1, <2>2 DEF LooksKept, Ids
        <3>2. rows[i].end \in Nat
            <4>1. rows[i] \in Subscriptions
                BY <3>1 DEF TypeOK, Ids
            <4>2. QED
                BY <4>1 DEF Subscriptions
        <3>3. rows'[i] = rows[i] \/ rows'[i].status # "active"
            BY <3>1
        <3>4. QED
            BY <1>0, <3>1, <3>2, <3>3 DEF Upgrading
    <2>3. QED
        BY <1>0, <1>2, <2>1, <2>2
<1>3. QED
    BY <1>1, <1>2

-----------------------------------------------------------------------------
(* Creation. *)

\* A transaction that begins takes the lock of its order, if it has one.
LEMMA BeginInv ==
    ASSUME Inv, NEW p \in Procs, NEW o \in Orders \cup {NoOrder}, NEW plan \in Plans,
           BeginCreate(p, o, plan), o \in Orders => order[o] = "pending" /\ ~Locked(o)
    PROVE  Inv'
<1> DEFINE tx == [by |-> o, plan |-> plan, seen |-> group, at |-> now]
<1>1. tx \in Transactions
    BY DEF Inv, TypeOK, Transactions
<1>2. creating' = [creating EXCEPT ![p] = tx] /\ UNCHANGED <<order, rows, group, ending, now>>
    BY DEF BeginCreate
<1>3. TypeOK'
    BY <1>1, <1>2 DEF Inv, TypeOK
<1>4. \A q \in Procs : creating'[q] = IF q = p THEN tx ELSE creating[q]
    BY <1>2 DEF Inv, TypeOK
<1>5. tx.by = o
    OBVIOUS
<1> HIDE DEF tx
<1>6. LocksHeld'
    BY <1>2, <1>4, <1>5 DEF Inv, LocksHeld, Locked
<1>7. OrdersCreateOnce'
    BY <1>2 DEF Inv, OrdersCreateOnce, Ids
<1>8. LooksKept'
    BY <1>2 DEF Inv, LooksKept, Upgrading
<1>9. QED
    BY <1>3, <1>6, <1>7, <1>8 DEF Inv

\* A transaction that commits turns its order into one subscription.
LEMMA CommitInv ==
    ASSUME Inv, NEW p \in Procs, CommitCreate(p)
    PROVE  Inv'
<1> DEFINE tx == creating[p]
           upgrade == Upgrade[tx.plan]
           upgrades == upgrade # NoGroup /\ tx.seen # upgrade
           row == [by |-> tx.by, plan |-> tx.plan, end |-> tx.at + Duration[tx.plan],
                   status |-> "active", upgrade |-> upgrade,
                   prev |-> IF upgrades THEN tx.seen ELSE NoGroup]
<1>1. tx \in Transactions /\ tx.plan \in Plans
    BY DEF Inv, TypeOK, CommitCreate, Transactions
<1>2. upgrade \in Groups /\ tx.at + Duration[tx.plan] \in Nat
    BY <1>1, ConstantsAssumption DEF Groups, Transactions
<1>3. row \in Subscriptions
    BY <1>1, <1>2 DEF Subscriptions, Transactions
<1>4. /\ rows' = Append(rows, row)
      /\ group' = IF upgrades THEN upgrade ELSE group
      /\ order' = [o \in Orders |-> IF o = tx.by THEN "success" ELSE order[o]]
      /\ creating' = [creating EXCEPT ![p] = NoTransaction]
      /\ now' = now /\ ending' = ending
    BY DEF CommitCreate
<1>5. row.by = tx.by
    OBVIOUS
<1>6. NoTransaction \in Transactions /\ NoTransaction.by \notin Orders
    BY ConstantsAssumption DEF NoTransaction, Transactions
<1> HIDE DEF row
<1>7. rows \in Seq(Subscriptions) /\ Len(rows) \in Nat
    BY DEF Inv, TypeOK
<1>8. /\ rows' \in Seq(Subscriptions)
      /\ Len(rows') = Len(rows) + 1
      /\ rows'[Len(rows) + 1] = row
      /\ \A i \in 1..Len(rows) : rows'[i] = rows[i]
    BY <1>3, <1>4, <1>7
<1>9. TypeOK'
    BY <1>2, <1>4, <1>6, <1>8 DEF Inv, TypeOK
<1>10. \A q \in Procs : creating'[q] = IF q = p THEN NoTransaction ELSE creating[q]
    BY <1>4 DEF Inv, TypeOK
<1>11. LocksHeld'
    <2>1. ASSUME NEW q \in Procs, creating'[q].by \in Orders
          PROVE  q # p /\ creating'[q] = creating[q]
        BY <1>6, <1>10, <2>1
    <2>2. ASSUME NEW q \in Procs, creating'[q].by \in Orders
          PROVE  order'[creating'[q].by] = "pending"
        <3>1. q # p /\ creating'[q] = creating[q]
            BY <2>1, <2>2
        <3>2. creating[q].by # tx.by
            BY <2>2, <3>1 DEF Inv, LocksHeld
        <3>3. QED
            BY <1>4, <2>2, <3>1, <3>2 DEF Inv, LocksHeld
    <2>3. ASSUME NEW q \in Procs, NEW v \in Procs, creating'[q].by = creating'[v].by,
                 creating'[q].by \in Orders
          PROVE  q = v
        BY <2>1, <2>3 DEF Inv, LocksHeld
    <2>4. QED
        BY <2>2, <2>3 DEF LocksHeld
<1>12. OrdersCreateOnce'
    <2>1. \A i \in 1..Len(rows) : rows[i].by # tx.by \/ tx.by \notin Orders
        BY DEF Inv, LocksHeld, OrdersCreateOnce, Ids
    <2>2. tx.by \in Orders \cup {NoOrder}
        BY <1>1 DEF Transactions
    <2>3. Ids' = 1..(Len(rows) + 1)
        BY <1>8 DEF Ids
    <2> HIDE DEF tx
    <2>4. ASSUME NEW o \in Orders
          PROVE  order'[o] = "success" <=> \E i \in Ids' : rows'[i].by = o
        <3>1. CASE o = tx.by
            <4>1. order'[o] = "success"
                BY <1>4, <3>1
            <4>2. Len(rows) + 1 \in Ids' /\ rows'[Len(rows) + 1].by = o
                BY <1>5, <1>7, <1>8, <2>3, <3>1
            <4>3. QED
                BY <4>1, <4>2
        <3>2. CASE o # tx.by
            <4>1. order'[o] = order[o]
                BY <1>4, <3>2
            <4>2. order[o] = "success" <=> \E i \in 1..Len(rows) : rows[i].by = o
                BY DEF Inv, OrdersCreateOnce, Ids
            <4>3. \A i \in Ids' : i \in 1..Len(rows) \/ i = Len(rows) + 1
                BY <1>7, <2>3
            <4>4. 1..Len(rows) \subseteq Ids'
                BY <1>7, <2>3
            <4>5. rows'[Len(rows) + 1].by # o
                BY <1>5, <1>8, <3>2
            <4>6. QED
                BY <1>8, <4>1, <4>2, <4>3, <4>4, <4>5
        <3>3. QED
            BY <3>1, <3>2
    <2>5. ASSUME NEW i \in Ids', NEW j \in Ids', rows'[i].by = rows'[j].by, rows'[i].by # NoOrder
          PROVE  i = j
        <3>1. \A k \in Ids' : k \in 1..Len(rows) \/ k = Len(rows) + 1
            BY <1>7, <2>3
        <3>2. CASE i \in 1..Len(rows) /\ j \in 1..Len(rows)
            BY <1>8, <2>5, <3>2 DEF Inv, OrdersCreateOnce, Ids
        <3>3. CASE i \in 1..Len(rows) /\ j = Len(rows) + 1
            BY <1>5, <1>8, <2>1, <2>2, <2>5, <3>3
        <3>4. CASE i = Len(rows) + 1 /\ j \in 1..Len(rows)
            BY <1>5, <1>8, <2>1, <2>2, <2>5, <3>4
        <3>5. QED
            BY <3>1, <3>2, <3>3, <3>4
    <2>6. QED
        BY <2>4, <2>5 DEF OrdersCreateOnce
<1>13. LooksKept'
    <2>1. Len(rows') >= Len(rows) /\ now' >= now
        BY <1>4, <1>7, <1>8 DEF Inv, TypeOK
    <2>2. \A i \in Ids : rows'[i] = rows[i]
        BY <1>8 DEF Ids
    <2>3. QED
        BY <1>4, <1>9, <2>1, <2>2, LooksStep DEF Inv
<1>14. QED
    BY <1>9, <1>11, <1>12, <1>13 DEF Inv

\* A transaction that is rolled back gives its lock up.
LEMMA RollbackInv ==
    ASSUME Inv, NEW p \in Procs, Rollback(p)
    PROVE  Inv'
<1>1. NoTransaction \in Transactions /\ NoTransaction.by \notin Orders
    BY ConstantsAssumption DEF NoTransaction, Transactions
<1>2. /\ creating' = [creating EXCEPT ![p] = NoTransaction]
      /\ ending' = [ending EXCEPT ![p] = NoEnd]
      /\ UNCHANGED <<order, rows, group, now>>
    BY DEF Rollback
<1>3. TypeOK'
    BY <1>1, <1>2, NoEndType DEF Inv, TypeOK
<1>4. \A q \in Procs : creating'[q] = IF q = p THEN NoTransaction ELSE creating[q]
    BY <1>2 DEF Inv, TypeOK
<1>5. LocksHeld'
    BY <1>1, <1>2, <1>4 DEF Inv, LocksHeld
<1>6. OrdersCreateOnce'
    BY <1>2 DEF Inv, OrdersCreateOnce, Ids
<1>7. LooksKept'
    <2>1. Len(rows') >= Len(rows) /\ now' >= now
        BY <1>2 DEF Inv, TypeOK
    <2>2. \A q \in Procs : ending'[q] = ending[q] \/ ending'[q] = NoEnd
        BY <1>2 DEF Inv, TypeOK
    <2>3. QED
        BY <1>2, <1>3, <2>1, <2>2, LooksStep DEF Inv
<1>8. QED
    BY <1>3, <1>5, <1>6, <1>7 DEF Inv

\* An order that expires is not locked, so no transaction can complete it.
LEMMA ExpireOrderInv ==
    ASSUME Inv, NEW o \in Orders, ExpireSubscriptionOrder(o)
    PROVE  Inv'
<1>1. /\ order[o] = "pending" /\ \A p \in Procs : creating[p].by # o
      /\ order' = [order EXCEPT ![o] = "expired"] /\ UNCHANGED <<rows, group, creating, ending, now>>
    BY DEF ExpireSubscriptionOrder, Locked
<1>2. TypeOK'
    BY <1>1 DEF Inv, TypeOK
<1>3. LocksHeld'
    BY <1>1 DEF Inv, LocksHeld, TypeOK
<1>4. OrdersCreateOnce'
    BY <1>1 DEF Inv, OrdersCreateOnce, Ids, TypeOK
<1>5. LooksKept'
    BY <1>1 DEF Inv, LooksKept, Upgrading
<1>6. QED
    BY <1>2, <1>3, <1>4, <1>5 DEF Inv

-----------------------------------------------------------------------------
(* Ends. *)

\* The reads of an end: they find the group to return to only if no other row
\* upgrades.
LEMMA BeginEndInv ==
    ASSUME Inv, NEW p \in Procs, NEW ids \in SUBSET Ids, NEW at \in Nat, at <= now,
           NEW to \in {"cancelled", "deleted", "expired"}, NEW target \in Groups \cup {NoGroup},
           BeginEnd(p, ids, to, at, target),
           target # NoGroup => \A i \in Ids : i \in ids \/ ~Upgrading(rows[i], now)
    PROVE  Inv'
<1> DEFINE tx == [rows |-> ids, to |-> to, at |-> at, group |-> target, read |-> Len(rows)]
<1>0. Len(rows) \in Nat /\ Ids \subseteq Nat
    BY DEF Inv, TypeOK, Ids
<1>1. tx \in Ends
    BY <1>0 DEF Ends
<1>2. tx.rows = ids /\ tx.at = at /\ tx.group = target /\ tx.read = Len(rows)
    OBVIOUS
<1>3. ending' = [ending EXCEPT ![p] = tx] /\ UNCHANGED <<order, rows, group, creating, now>>
    BY DEF BeginEnd
<1> HIDE DEF tx
<1>4. TypeOK'
    BY <1>1, <1>3 DEF Inv, TypeOK
<1>5. \A q \in Procs : ending'[q] = IF q = p THEN tx ELSE ending[q]
    BY <1>3 DEF Inv, TypeOK
<1>6. LocksHeld' /\ OrdersCreateOnce'
    BY <1>3 DEF Inv, LocksHeld, OrdersCreateOnce, Ids
<1>7. LooksKept'
    <2>1. \A q \in Procs : q # p => ending'[q] = ending[q]
        BY <1>5
    <2>2. ending'[p] = tx /\ Len(rows) <= Len(rows)
        BY <1>0, <1>5
    <2>3. QED
        BY <1>2, <1>3, <2>1, <2>2 DEF Inv, LooksKept, Upgrading, Ids
<1>8. QED
    BY <1>4, <1>6, <1>7 DEF Inv

\* Cancelling and deleting begin like that.
LEMMA AdminInv ==
    ASSUME Inv, NEW p \in Procs, NEW i \in Ids,
           AdminInvalidateUserSubscription(p, i) \/ AdminDeleteUserSubscription(p, i)
    PROVE  Inv'
<1>1. rows[i] \in Subscriptions /\ now \in Nat /\ now <= now
    BY DEF Inv, TypeOK, Ids
<1>2. /\ Downgraded(i) \in Groups \cup {NoGroup}
      /\ Downgraded(i) # NoGroup => \A j \in Ids : j \in {i} \/ ~Upgrading(rows[j], now)
    BY <1>1 DEF Downgraded, Subscriptions
<1>3. QED
    BY <1>1, <1>2, BeginEndInv DEF AdminInvalidateUserSubscription, AdminDeleteUserSubscription

\* So does the expiry of the user's subscriptions, as of an earlier time: a row
\* that upgrades now did so then.
LEMMA ExpiryInv ==
    ASSUME Inv, NEW p \in Procs, ExpireDueSubscriptions(p)
    PROVE  Inv'
<1> DEFINE at == ending[p].at
           last == {i \in Ids : /\ IsLastExpired(i, Ended(at))
                               /\ \A j \in Ids : ~Upgrading(rows[j], at)
                               /\ rows[i].upgrade = group
                               /\ rows[i].prev # group}
           target == Returned(Ended(at), at)
<1>1. at \in Nat /\ at <= now /\ now \in Nat
    BY DEF Inv, TypeOK, Ends, LooksKept
<1>2. \A i \in Ids : rows[i].prev \in Groups \cup {NoGroup} /\ rows[i].end \in Nat
    <2>1. \A i \in Ids : rows[i] \in Subscriptions
        BY DEF Inv, TypeOK, Ids
    <2>2. QED
        BY <2>1 DEF Subscriptions
<1>3. target = IF last = {} THEN NoGroup ELSE rows[CHOOSE i \in last : TRUE].prev
    BY DEF Returned
<1>4. target \in Groups \cup {NoGroup}
    BY <1>2, <1>3
<1>5. ASSUME target # NoGroup, NEW i \in Ids PROVE ~Upgrading(rows[i], now)
    <2>1. ~Upgrading(rows[i], at)
        BY <1>3, <1>5
    <2> HIDE DEF at
    <2>2. QED
        BY <1>1, <1>2, <2>1 DEF Upgrading
<1>6. BeginEnd(p, Ended(at), "expired", at, target) /\ Ended(at) \in SUBSET Ids
    BY DEF ExpireDueSubscriptions, Ended
<1> HIDE DEF at, target
<1>7. QED
    BY <1>1, <1>4, <1>5, <1>6, BeginEndInv

\* The list of the master.
LEMMA ListInv ==
    ASSUME Inv, NEW p \in Procs, ListExpired(p)
    PROVE  Inv'
<1> DEFINE tx == [NoEnd EXCEPT !.to = "listed", !.at = now]
<1>1. /\ tx \in Ends /\ tx.rows = {} /\ tx.at = now
      /\ tx.group = NoGroup /\ tx.read = 0
    BY DEF NoEnd, Ends, Inv, TypeOK
<1>2. ending' = [ending EXCEPT ![p] = tx] /\ UNCHANGED <<order, rows, group, creating, now>>
    BY DEF ListExpired
<1> HIDE DEF tx
<1>3. TypeOK'
    BY <1>1, <1>2 DEF Inv, TypeOK
<1>4. \A q \in Procs : ending'[q] = IF q = p THEN tx ELSE ending[q]
    BY <1>2 DEF Inv, TypeOK
<1>5. LocksHeld' /\ OrdersCreateOnce'
    BY <1>2 DEF Inv, LocksHeld, OrdersCreateOnce, Ids
<1>6. LooksKept'
    <2>1. Len(rows) \in Nat /\ now \in Nat
        BY DEF Inv, TypeOK
    <2>2. /\ \A q \in Procs : q # p => ending'[q] = ending[q]
          /\ ending'[p] = tx
        BY <1>4
    <2>3. QED
        BY <1>1, <1>2, <2>1, <2>2 DEF Inv, LooksKept, Upgrading
<1>7. QED
    BY <1>3, <1>5, <1>6 DEF Inv

\* What the commit of an end does: it rewrites rows in place, each for the same
\* order; the rows that it ends are not active any more.
LEMMA CommitRows ==
    ASSUME Inv, NEW p \in Procs, CommitEnd(p)
    PROVE  /\ rows' \in Seq(Subscriptions) /\ Len(rows') = Len(rows)
           /\ \A i \in Ids : rows'[i].by = rows[i].by
           /\ \A i \in Ids : rows'[i] = rows[i] \/ rows'[i].status # "active"
           /\ \A i \in Ids : i \in ending[p].rows => rows'[i].status # "active"
<1> DEFINE tx == ending[p]
           ended(i) == [rows[i] EXCEPT !.status = tx.to]
           end(i) == IF tx.to = "cancelled" THEN tx.at ELSE rows[i].end
           row(i) == [rows[i] EXCEPT !.status = tx.to,
                                     !.end = IF tx.to = "cancelled" THEN tx.at ELSE @]
           after == [i \in Ids |-> IF i \in tx.rows THEN row(i) ELSE rows[i]]
<1>1. tx.to \in {"cancelled", "deleted", "expired"} /\ rows' = after
    BY DEF CommitEnd
<1>2. tx.at \in Nat /\ Len(rows) \in Nat
    BY DEF Inv, TypeOK, Ends
<1>3. ASSUME NEW i \in Ids
      PROVE  row(i) \in Subscriptions /\ row(i).by = rows[i].by /\ row(i).status = tx.to
    <2>1. rows[i] \in Subscriptions
        BY DEF Inv, TypeOK, Ids
    <2>2. ended(i) \in Subscriptions /\ end(i) \in Nat
        BY <1>1, <1>2, <2>1 DEF Subscriptions
    <2>3. [ended(i) EXCEPT !.end = end(i)] \in Subscriptions
        BY <2>2 DEF Subscriptions
    <2>4. row(i) = [ended(i) EXCEPT !.end = end(i)]
        BY <2>1 DEF Subscriptions
    <2>5. row(i).by = rows[i].by /\ row(i).status = tx.to
        BY <2>1 DEF Subscriptions
    <2>6. QED
        BY <2>3, <2>4, <2>5
<1>4. \A i \in Ids : rows[i] \in Subscriptions
    BY DEF Inv, TypeOK, Ids
<1> HIDE DEF row, tx
<1>5. after \in [1..Len(rows) -> Subscriptions]
    BY <1>3, <1>4 DEF Ids
<1>6. after \in Seq(Subscriptions) /\ Len(after) = Len(rows)
    BY <1>2, <1>5, SeqDef, LenProperties
<1>7. \A i \in Ids : after[i] = IF i \in tx.rows THEN row(i) ELSE rows[i]
    OBVIOUS
<1> HIDE DEF after
<1>8. QED
    BY <1>1, <1>3, <1>6, <1>7 DEF tx

\* The commit leaves orders and locks as they are.
LEMMA CommitEndInv ==
    ASSUME Inv, NEW p \in Procs, CommitEnd(p)
    PROVE  Inv'
<1>1. /\ rows' \in Seq(Subscriptions) /\ Len(rows') = Len(rows)
      /\ \A i \in Ids : rows'[i].by = rows[i].by
      /\ \A i \in Ids : rows'[i] = rows[i] \/ rows'[i].status # "active"
    BY CommitRows
<1>2. /\ ending' = [ending EXCEPT ![p] = NoEnd]
      /\ UNCHANGED <<order, creating, now>>
      /\ group' \in {group, ending[p].group}
    BY DEF CommitEnd
<1>3. ending[p].group \in Groups \cup {NoGroup}
    BY DEF Inv, TypeOK, Ends
<1>4. TypeOK'
    BY <1>1, <1>2, <1>3, NoEndType DEF Inv, TypeOK
<1>5. LocksHeld'
    BY <1>2 DEF Inv, LocksHeld
<1>6. OrdersCreateOnce'
    <2>1. Ids' = Ids
        BY <1>1 DEF Ids
    <2>2. QED
        BY <1>1, <1>2, <2>1 DEF Inv, OrdersCreateOnce
<1>7. LooksKept'
    <2>1. Len(rows') >= Len(rows) /\ now' >= now
        BY <1>1, <1>2 DEF Inv, TypeOK
    <2>2. \A q \in Procs : ending'[q] = ending[q] \/ ending'[q] = NoEnd
        BY <1>2 DEF Inv, TypeOK
    <2>3. QED
        BY <1>1, <1>4, <2>1, <2>2, LooksStep DEF Inv
<1>8. QED
    BY <1>4, <1>5, <1>6, <1>7 DEF Inv

-----------------------------------------------------------------------------
(* Theorems. *)

\* The inductive step.
LEMMA NextInv == Inv /\ [Next]_vars => Inv'
<1> SUFFICES ASSUME Inv, [Next]_vars PROVE Inv'
    OBVIOUS
<1>1. ASSUME NEW p \in Procs, Create(p) PROVE Inv'
    <2>1. ASSUME NEW o \in Orders, CompleteSubscriptionOrder(p, o) PROVE Inv'
        <3>1. PlanOf[o] \in Plans
            BY ConstantsAssumption
        <3>2. QED
            BY <2>1, <3>1, BeginInv DEF CompleteSubscriptionOrder
    <2>2. ASSUME NEW plan \in Plans, AdminBindSubscription(p, plan) PROVE Inv'
        BY <2>2, BeginInv, ConstantsAssumption DEF AdminBindSubscription
    <2>3. QED
        BY <1>1, <2>1, <2>2, CommitInv DEF Create
<1>2. ASSUME NEW o \in Orders, ExpireSubscriptionOrder(o) PROVE Inv'
    BY <1>2, ExpireOrderInv
<1>3. ASSUME NEW p \in Procs, End(p) PROVE Inv'
    BY <1>3, AdminInv, ListInv, ExpiryInv, CommitEndInv DEF End
<1>4. ASSUME NEW p \in Procs, Rollback(p) PROVE Inv'
    BY <1>4, RollbackInv
<1>5. CASE Tick
    <2>1. now' = now + 1 /\ UNCHANGED <<order, rows, group, creating, ending>>
        BY <1>5 DEF Tick
    <2>2. TypeOK' /\ LocksHeld' /\ OrdersCreateOnce'
        BY <2>1 DEF Inv, TypeOK, LocksHeld, OrdersCreateOnce, Ids
    <2>3. Len(rows') >= Len(rows) /\ now' >= now
        BY <2>1 DEF Inv, TypeOK
    <2>4. LooksKept'
        BY <2>1, <2>2, <2>3, LooksStep DEF Inv
    <2>5. QED
        BY <2>2, <2>4 DEF Inv
<1>6. CASE UNCHANGED vars
    BY <1>6 DEF vars, Inv, TypeOK, LocksHeld, OrdersCreateOnce, Ids, LooksKept, Upgrading
<1>7. QED
    BY <1>1, <1>2, <1>3, <1>4, <1>5, <1>6 DEF Next

\* The inductive invariant holds.
LEMMA InvHolds == Spec => []Inv
BY InitInv, NextInv, PTL DEF Spec

\* Every table keeps its type.
THEOREM TypeCorrect == Spec => []TypeOK
<1>1. Inv => TypeOK
    BY DEF Inv
<1>2. QED
    BY <1>1, InvHolds, PTL

\* However webhooks are repeated, overlap or fail, a paid order has exactly one
\* subscription, and an order without one is not marked paid.
THEOREM PaidOrdersCreateOnce == Spec => []OrdersCreateOnce
<1>1. Inv => OrdersCreateOnce
    BY DEF Inv
<1>2. QED
    BY <1>1, InvHolds, PTL

\* No end of a subscription takes the group away while another one upgrades, of
\* those that its transaction could see.
THEOREM GroupKeptWhileUpgraded == Spec => NoEarlyDowngrade
<1>1. Inv /\ [Next]_vars =>
        [group' # group /\ Len(rows') = Len(rows) =>
            \E p \in Procs :
                /\ ending[p] # NoEnd /\ ending'[p] = NoEnd
                /\ \A i \in 1..ending[p].read : ~Upgrading(rows'[i], now)]_vars
    <2> SUFFICES ASSUME Inv, [Next]_vars, group' # group, Len(rows') = Len(rows)
                 PROVE  \E p \in Procs :
                            /\ ending[p] # NoEnd /\ ending'[p] = NoEnd
                            /\ \A i \in 1..ending[p].read : ~Upgrading(rows'[i], now)
        OBVIOUS
    <2>1. ASSUME NEW p \in Procs, Create(p) PROVE FALSE
        <3>1. rows \in Seq(Subscriptions) /\ Len(rows) \in Nat
            BY DEF Inv, TypeOK
        <3>2. CASE CommitCreate(p)
            <4>1. PICK row : rows' = Append(rows, row)
                BY <3>2 DEF CommitCreate
            <4>2. Len(rows') = Len(rows) + 1
                BY <3>1, <4>1
            <4>3. QED
                BY <3>1, <4>2
        <3>3. CASE ~CommitCreate(p)
            BY <2>1, <3>3 DEF Create, CompleteSubscriptionOrder, AdminBindSubscription,
                BeginCreate
        <3>4. QED
            BY <3>2, <3>3
    <2>2. PICK p \in Procs : CommitEnd(p)
        BY <2>1 DEF Next, End, AdminInvalidateUserSubscription, AdminDeleteUserSubscription,
            BeginEnd, ListExpired, ExpireDueSubscriptions, Rollback, ExpireSubscriptionOrder,
            Tick, vars
    <2>3. ending[p].group # NoGroup /\ ending[p].to # "none" /\ ending'[p] = NoEnd
        BY <2>2 DEF CommitEnd, Inv, TypeOK
    <2>4. ASSUME NEW i \in 1..ending[p].read PROVE ~Upgrading(rows'[i], now)
        <3>1. /\ ending[p].read \in Nat /\ ending[p].read <= Len(rows) /\ Len(rows) \in Nat
              /\ i \in ending[p].rows \/ ~Upgrading(rows[i], now)
            BY <2>3 DEF Inv, LooksKept, TypeOK, Ends
        <3>2. i \in Ids
            BY <3>1 DEF Ids
        <3>3. /\ rows'[i] = rows[i] \/ rows'[i].status # "active"
              /\ i \in ending[p].rows => rows'[i].status # "active"
            BY <2>2, <3>2, CommitRows
        <3>4. QED
            BY <3>1, <3>3 DEF Upgrading
    <2>5. ending[p] # NoEnd
        BY <2>3, NoEndType
    <2>6. QED
        BY <2>3, <2>4, <2>5
<1>2. QED
    BY <1>1, InvHolds, PTL DEF Spec, NoEarlyDowngrade
=============================================================================
