---------------------------- MODULE MCTaskBilling ----------------------------
(* Instances of TaskBilling for TLC. *)
EXTENDS TaskBilling, TLC

CONSTANTS t1, p1, p2

Submit(quota, kind) == [quota |-> quota, kind |-> kind]

\* A legacy task with a token that may cost less than was held, a free one paid
\* from a subscription that may cost more, and one that is refreshed on read.
MCSubmissions ==
    {Submit(2, {"token", "legacy"}), Submit(0, {"subscription"}), Submit(2, {"realtime"})}

MCPolled == {Submit(0, {}), Submit(1, {"subscription"})}

MCRealtime == {Submit(1, {"token", "realtime"})}

Symmetry == Permutations(Procs)
=============================================================================
