---------------------------- MODULE WalletEscrow -----------------------------
(***************************************************************************)
(* What the wallet ledger promises a billable request: its quota is in     *)
(* exactly one place.  It is taken out of the user's funds once, is held,  *)
(* may be adjusted while held, and is then either charged or returned, and *)
(* never both.  Nothing is taken that the funds do not cover.              *)
(***************************************************************************)
EXTENDS Integers

CONSTANTS Users, Requests, Amounts

VARIABLES
    funds,      \* what each user can spend
    phase,      \* where each request is: none, active, settled or refunded
    owner,      \* whose quota the request uses
    held        \* how much of it is out of the owner's funds

vars == <<funds, phase, owner, held>>

\* u can part with amount: a debit is covered, a credit needs no cover.
Covers(u, amount) == amount > 0 => funds[u] >= amount

\* Moves the request from holding what it holds to holding amount.
Move(r, u, amount, to) ==
    /\ Covers(u, amount - held[r])
    /\ funds' = [funds EXCEPT ![u] = @ + held[r] - amount]
    /\ held' = [held EXCEPT ![r] = amount]
    /\ phase' = [phase EXCEPT ![r] = to]

Init ==
    /\ funds \in [Users -> Int]
    /\ phase = [r \in Requests |-> "none"]
    /\ held = [r \in Requests |-> 0]

\* A request takes a hold, or is charged at once.
Open(r, u, amount, to) ==
    /\ phase[r] = "none"
    /\ Move(r, u, amount, to)
    /\ owner' = [owner EXCEPT ![r] = u]

Adjust(r, amount) ==
    /\ phase[r] = "active"
    /\ Move(r, owner[r], amount, "active")
    /\ UNCHANGED owner

Charge(r, amount) ==
    /\ phase[r] = "active"
    /\ Move(r, owner[r], amount, "settled")
    /\ UNCHANGED owner

Return(r) ==
    /\ phase[r] = "active"
    /\ Move(r, owner[r], 0, "refunded")
    /\ UNCHANGED owner

\* Top-ups, rewards, overrides, repairs: no request is involved.
Other ==
    /\ funds' \in [Users -> Int]
    /\ \A u \in Users : funds'[u] < funds[u] => funds'[u] >= 0
    /\ UNCHANGED <<phase, owner, held>>

Next ==
    \/ \E r \in Requests, amount \in Amounts :
        \/ \E u \in Users, to \in {"active", "settled"} : Open(r, u, amount, to)
        \/ Adjust(r, amount)
        \/ Charge(r, amount)
    \/ \E r \in Requests : Return(r)
    \/ Other

Spec == Init /\ [][Next]_vars
=============================================================================
