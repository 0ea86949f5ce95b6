----------------------- MODULE MCSubscriptionLifecycle -----------------------
(* Instances of SubscriptionLifecycle for TLC. *)
EXTENDS SubscriptionLifecycle, TLC

CONSTANTS o1, o2, p1, p2, silver, gold, base, vip, svip

\* One order of each plan; silver is the cheaper one.
MCPlanOf == [o \in Orders |-> IF o = o1 THEN silver ELSE gold]

MCUpgrade == [plan \in Plans |-> IF plan = silver THEN vip ELSE svip]

MCDuration == [plan \in Plans |-> IF plan = silver THEN 1 ELSE 2]

\* At most one of the cheaper plan.
MCMaxPurchase == [plan \in Plans |-> IF plan = silver THEN 1 ELSE 0]

ProcSymmetry == Permutations(Procs)
=============================================================================
