------------------------- MODULE MCSubscriptionHolds -------------------------
(* The instance of SubscriptionHolds for TLC. *)
EXTENDS SubscriptionHolds

CONSTANTS r1, m1

MCTotal == [s \in Subs |-> 1]

\* The first subscription ends first.
MCEnd == [s \in Subs |-> IF s = 1 THEN 3 ELSE 4]

\* The first plan keeps its period; the second may lose its own, or get one later.
MCPeriods == [s \in Subs |-> IF s = 1 THEN {{2, 3}} ELSE {{2}, {}}]
=============================================================================
