-------------------------- MODULE MCBillingSession ---------------------------
(* Instances of BillingSession for TLC. *)
EXTENDS BillingSession, TLC

CONSTANTS r1, r2

MCFunds == [s \in Sources |-> IF s = "wallet" THEN 2 ELSE 1]
MCWallet == [s \in Sources |-> IF s = "wallet" THEN 6 ELSE 0]

Symmetry == Permutations(Requests)
=============================================================================
