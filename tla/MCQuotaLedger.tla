---------------------------- MODULE MCQuotaLedger ----------------------------
(* Instances of QuotaLedger for TLC. *)
EXTENDS QuotaLedger, TLC

CONSTANTS u1, u2, r1, r2, m1

\* u1 has a little quota; u2, if there is one, comes from before conditional
\* debits and is overdrawn.
MCInitialQuota == [u \in Users |-> IF u = u1 THEN 2 ELSE -1]

MCPositiveQuota == [u \in Users |-> 1]
=============================================================================
