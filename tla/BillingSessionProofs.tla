------------------------- MODULE BillingSessionProofs -------------------------
(***************************************************************************)
(* Theorems about BillingSession, for every set of requests, any amounts   *)
(* and any number of faults.                                               *)
(*                                                                         *)
(* The properties speak of requests that are over, or of holds that are    *)
(* active.  The invariant says what is true of one request at every point  *)
(* of its session: where its hold can be, what the session believes of it  *)
(* and what the token has given.  It relates one request's entries of the  *)
(* tables to each other and none to those of another request, so that      *)
(* every step has to be looked at for the request it moves only.           *)
(***************************************************************************)
EXTENDS BillingSession, TLAPS

Phases == {"none", "active", "settled", "refunded"}

\* The session alone.  consumed exceeds preConsumedQuota by what could not be
\* rolled back, and by need while a larger hold waits for its token; what was
\* taken from the token is preConsumedQuota, except while a first hold is
\* funded or undone.
SessionOK(s) ==
    /\ IF s.pc = "new" THEN s.kind # "playground" ELSE s.plan \in Plans
    /\ s.pc \in {"check", "debit", "fund"} => s.need > 0
    /\ s.pc \in {"new", "choose", "fund", "undo"} => s.pre = 0
    /\ s.pc = "shrink" => s.pre > 0
    /\ s.pc \notin {"adjust", "done"} /\ s.pre = 0 => s.leak = 0
    /\ s.pc \notin {"adjust", "done"} =>
          s.consumed = s.pre + s.leak +
            IF s.pc = "shrink" \/ (s.pc \in {"check", "debit"} /\ s.pre > 0) THEN s.need ELSE 0
    /\ s.pc \notin {"fund", "undo", "done"} => s.token = s.pre
    /\ s.pc = "fund" => s.token = s.need
    /\ s.pc = "late" => s.then \in {"closing", "local", "settle"}
    /\ s.pc = "adjust" => s.outcome = "paid"

\* The hold: ph and h are what the ledger says of it, f counts the faults.
HoldOK(s, ph, h, f) ==
    /\ s.pc \notin {"adjust", "done"} =>
          /\ ph # "settled"
          /\ s.pre = 0 => ph = "none"
          /\ ph = "active" => h = s.consumed
    /\ s.pc = "restore" /\ f = 0 => ph # "active"
    /\ s.pc \in {"adjust", "done"} /\ s.outcome = "paid" =>
          ph = "settled" /\ h = s.usage + s.leak
    /\ s.pc = "done" /\ s.outcome = "refused" => ph = "none"
    /\ s.pc = "done" /\ s.outcome = "refunded" /\ f = 0 => ph \in {"none", "refunded"}

\* The token: tt is what the request has taken from it, la what late charges
\* have taken from the funding source.
TokenOK(s, la, tt) ==
    s.kind # "playground" =>
        /\ s.pc \notin {"late", "done"} => tt = s.token + la
        /\ s.pc = "late" => tt = s.token + la - s.need
        /\ s.pc = "done" /\ s.outcome = "paid" => tt = s.usage + la
        /\ s.pc = "done" /\ s.outcome \in {"refused", "refunded"} => tt = la

SessionInv == \A r \in Requests : SessionOK(session[r])
HoldInv == \A r \in Requests : HoldOK(session[r], phase[r], held[r], faults)
TokenInv == \A r \in Requests \ tokenFailed : TokenOK(session[r], late[r], tokenTaken[r])

Inv == TypeOK /\ SessionInv /\ HoldInv /\ TokenInv

-----------------------------------------------------------------------------
(* A step moves one request. *)

\* What the invariant says of one request.
LEMMA Current ==
    ASSUME Inv, NEW r \in Requests
    PROVE  /\ session[r] \in Session
           /\ SessionOK(session[r])
           /\ HoldOK(session[r], phase[r], held[r], faults)
           /\ r \in tokenFailed \/ TokenOK(session[r], late[r], tokenTaken[r])
           /\ phase[r] \in Phases /\ held[r] \in Nat
           /\ late[r] \in Nat /\ tokenTaken[r] \in Int
           /\ faults \in 0..MaxFaults
  BY DEF Inv, TypeOK, SessionInv, HoldInv, TokenInv, Phases

\* A fault more only weakens what is said of a hold.
LEMMA HoldMonotone ==
    ASSUME NEW s, NEW ph, NEW h, NEW f \in Nat, NEW g \in Nat, f <= g, HoldOK(s, ph, h, f)
    PROVE  HoldOK(s, ph, h, g)
<1>1. g = 0 => f = 0
  OBVIOUS
<1> QED
  BY <1>1 DEF HoldOK

\* Whatever happens to one request, what is said of the others stays true:
\* only the number of faults is theirs too, and it does not fall.
LEMMA RequestStep ==
    ASSUME Inv, NEW r \in Requests, NEW s \in Session,
           NEW ph \in Phases, NEW h \in Nat, NEW la \in Nat, NEW tt \in Int,
           Become(r, s),
           funds' \in [Sources -> Int], owner' \in [Requests -> Sources],
           phase' = [phase EXCEPT ![r] = ph], held' = [held EXCEPT ![r] = h],
           keys' \subseteq Requests \X Nat, late' = [late EXCEPT ![r] = la],
           remain' \in Int, tokenTaken' = [tokenTaken EXCEPT ![r] = tt],
           tokenFailed \subseteq tokenFailed', tokenFailed' \subseteq Requests,
           faults' \in 0..MaxFaults, faults <= faults',
           SessionOK(s), HoldOK(s, ph, h, faults'),
           r \in tokenFailed' \/ TokenOK(s, la, tt)
    PROVE  Inv'
<1>0. TypeOK
  BY DEF Inv
<1>1. TypeOK'
  <2>1. session' \in [Requests -> Session]
    BY <1>0 DEF TypeOK, Become
  <2>2. phase' \in [Requests -> {"none", "active", "settled", "refunded"}]
    BY <1>0 DEF TypeOK, Phases
  <2>3. held' \in [Requests -> Nat] /\ late' \in [Requests -> Nat]
    BY <1>0 DEF TypeOK
  <2>4. tokenTaken' \in [Requests -> Int]
    BY <1>0 DEF TypeOK
  <2> QED
    BY <2>1, <2>2, <2>3, <2>4 DEF TypeOK
<1>2. /\ session'[r] = s /\ phase'[r] = ph /\ held'[r] = h
      /\ late'[r] = la /\ tokenTaken'[r] = tt
  BY <1>0 DEF TypeOK, Become
<1>3. ASSUME NEW q \in Requests, q # r
      PROVE  /\ session'[q] = session[q] /\ phase'[q] = phase[q] /\ held'[q] = held[q]
             /\ late'[q] = late[q] /\ tokenTaken'[q] = tokenTaken[q]
  BY <1>0, <1>3 DEF TypeOK, Become
<1>4. SessionInv'
  BY <1>2, <1>3 DEF Inv, SessionInv
<1>5. HoldInv'
  <2>1. ASSUME NEW q \in Requests, q # r
        PROVE  HoldOK(session[q], phase[q], held[q], faults')
    <3>1. HoldOK(session[q], phase[q], held[q], faults)
      BY DEF Inv, HoldInv
    <3>2. faults \in Nat /\ faults' \in Nat
      BY <1>0, SessionAssumption DEF TypeOK
    <3> QED
      BY <3>1, <3>2, HoldMonotone
  <2> QED
    BY <1>2, <1>3, <2>1 DEF HoldInv
<1>6. TokenInv'
  BY <1>2, <1>3 DEF Inv, TokenInv
<1> QED
  BY <1>1, <1>4, <1>5, <1>6 DEF Inv

\* Only the session moves.
LEMMA SessionStep ==
    ASSUME Inv, NEW r \in Requests, NEW s \in Session, Become(r, s),
           UNCHANGED <<ledgerVars, lateVars, tokenVars>>,
           UNCHANGED faults \/ Fault,
           SessionOK(s),
           HoldOK(s, phase[r], held[r], faults) \/ HoldOK(s, phase[r], held[r], faults'),
           r \in tokenFailed \/ TokenOK(s, late[r], tokenTaken[r])
    PROVE  Inv'
<1>0. TypeOK
  BY DEF Inv
<1>1. faults' \in 0..MaxFaults /\ faults <= faults'
  BY <1>0, SessionAssumption DEF TypeOK, Fault
<1>2. /\ phase' = [phase EXCEPT ![r] = phase[r]] /\ held' = [held EXCEPT ![r] = held[r]]
      /\ late' = [late EXCEPT ![r] = late[r]]
      /\ tokenTaken' = [tokenTaken EXCEPT ![r] = tokenTaken[r]]
  BY <1>0 DEF TypeOK, ledgerVars, lateVars, tokenVars
<1>3. HoldOK(s, phase[r], held[r], faults')
  BY <1>0, <1>1, HoldMonotone, SessionAssumption DEF TypeOK
<1> QED
  BY <1>0, <1>1, <1>2, <1>3, Current, RequestStep DEF TypeOK, ledgerVars, lateVars, tokenVars

\* The session moves with the ledger.
LEMMA LedgerStep ==
    ASSUME Inv, NEW r \in Requests, NEW s \in Session,
           NEW u \in Sources, NEW ph \in Phases, NEW h \in Nat,
           Escrow!Move(r, u, h, ph), UNCHANGED owner \/ owner' = [owner EXCEPT ![r] = u],
           Become(r, s), UNCHANGED <<lateVars, tokenVars, faults>>,
           SessionOK(s), HoldOK(s, ph, h, faults),
           r \in tokenFailed \/ TokenOK(s, late[r], tokenTaken[r])
    PROVE  Inv'
<1>0. TypeOK
  BY DEF Inv
<1>1. /\ late' = [late EXCEPT ![r] = late[r]]
      /\ tokenTaken' = [tokenTaken EXCEPT ![r] = tokenTaken[r]]
  BY <1>0 DEF TypeOK, lateVars, tokenVars
<1>2. funds' \in [Sources -> Int] /\ owner' \in [Requests -> Sources]
  BY <1>0 DEF TypeOK, Escrow!Move
<1>3. phase' = [phase EXCEPT ![r] = ph] /\ held' = [held EXCEPT ![r] = h]
  BY DEF Escrow!Move
<1>4. faults' \in 0..MaxFaults /\ faults <= faults'
  BY <1>0, SessionAssumption DEF TypeOK
<1> QED
  BY <1>0, <1>1, <1>2, <1>3, <1>4, Current, RequestStep DEF TypeOK, lateVars, tokenVars

\* The session moves with the token.
LEMMA TokenStep ==
    ASSUME Inv, NEW r \in Requests, NEW s \in Session, NEW amount \in Int,
           ChangeToken(r, amount) \/ LoseToken(r),
           Become(r, s), UNCHANGED <<ledgerVars, lateVars>>,
           s.kind = session[r].kind,
           SessionOK(s), HoldOK(s, phase[r], held[r], faults),
           r \in tokenFailed \/ TokenOK(s, late[r], tokenTaken[r] + amount)
    PROVE  Inv'
<1>0. TypeOK
  BY DEF Inv
<1>1. /\ phase' = [phase EXCEPT ![r] = phase[r]] /\ held' = [held EXCEPT ![r] = held[r]]
      /\ late' = [late EXCEPT ![r] = late[r]]
  BY <1>0 DEF TypeOK, ledgerVars, lateVars
<1>2. /\ tokenFailed \subseteq tokenFailed' /\ tokenFailed' \subseteq Requests
      /\ faults' \in 0..MaxFaults /\ faults <= faults' /\ remain' \in Int
  BY <1>0, SessionAssumption DEF TypeOK, ChangeToken, LoseToken, Fault
<1>3. HoldOK(s, phase[r], held[r], faults')
  BY <1>0, <1>2, HoldMonotone, SessionAssumption DEF TypeOK
<1>4. phase[r] \in Phases /\ held[r] \in Nat /\ late[r] \in Nat
  BY Current
<1>5. /\ funds' \in [Sources -> Int] /\ owner' \in [Requests -> Sources]
      /\ keys' \subseteq Requests \X Nat
  BY <1>0 DEF TypeOK, ledgerVars, lateVars
<1>6. ASSUME NEW tt \in Int, tokenTaken' = [tokenTaken EXCEPT ![r] = tt],
             r \in tokenFailed' \/ TokenOK(s, late[r], tt)
      PROVE  Inv'
  BY <1>1, <1>2, <1>3, <1>4, <1>5, <1>6, RequestStep
<1>7. CASE HasToken(r) /\ ChangeToken(r, amount)
  <2>1. tokenTaken' = [tokenTaken EXCEPT ![r] = tokenTaken[r] + amount]
    BY <1>7 DEF ChangeToken
  <2>2. tokenTaken[r] + amount \in Int
    BY <1>0 DEF TypeOK
  <2> QED
    BY <1>2, <1>6, <2>1, <2>2
<1>8. CASE ~HasToken(r) /\ ChangeToken(r, amount)
  <2>1. tokenTaken' = [tokenTaken EXCEPT ![r] = tokenTaken[r]] /\ tokenTaken[r] \in Int
    BY <1>0, <1>8 DEF TypeOK, ChangeToken
  <2>2. TokenOK(s, late[r], tokenTaken[r])
    BY <1>8 DEF HasToken, TokenOK
  <2> QED
    BY <1>6, <2>1, <2>2
<1>9. CASE LoseToken(r)
  <2>1. tokenTaken' = [tokenTaken EXCEPT ![r] = tokenTaken[r]] /\ tokenTaken[r] \in Int
    BY <1>0, <1>9 DEF TypeOK, LoseToken
  <2>2. r \in tokenFailed'
    BY <1>9 DEF LoseToken
  <2> QED
    BY <1>6, <2>1, <2>2
<1> QED
  BY <1>7, <1>8, <1>9

-----------------------------------------------------------------------------
(* Taking quota. *)

\* The sources of a plan, and the plan that is left after the first.
LEMMA PlanFacts ==
    ASSUME NEW plan \in Plans
    PROVE  /\ Head(plan) \in Sources
           /\ <<Head(plan)>> \in Plans
           /\ Len(plan) > 1 => Tail(plan) \in Plans
<1>1. CASE plan = <<"wallet">> \/ plan = <<"subscription">>
  <2>1. Len(plan) = 1 /\ Head(plan) \in Sources /\ <<Head(plan)>> = plan
    BY <1>1 DEF Sources
  <2> QED
    BY <2>1
<1>2. CASE plan = <<"wallet", "subscription">>
  <2>1. Head(plan) = "wallet" /\ Tail(plan) = <<"subscription">>
    BY <1>2
  <2> QED
    BY <2>1 DEF Plans, Sources
<1>3. CASE plan = <<"subscription", "wallet">>
  <2>1. Head(plan) = "subscription" /\ Tail(plan) = <<"wallet">>
    BY <1>3
  <2> QED
    BY <2>1 DEF Plans, Sources
<1> QED
  BY <1>1, <1>2, <1>3 DEF Plans

\* Moving the program counter alone keeps the other fields.
LEMMA MoveType ==
    ASSUME NEW s \in Session, NEW pc \in Pc
    PROVE  [s EXCEPT !.pc = pc] \in Session
  BY Zenon DEF Session

\* A session that ends keeps its type.
LEMMA EndType ==
    ASSUME NEW s \in Session,
           NEW outcome \in {"none", "refused", "paid", "unpaid", "refunded", "lost"}
    PROVE  [s EXCEPT !.pc = "done", !.outcome = outcome] \in Session
<1>1. "done" \in Pc
  BY DEF Pc
<1> QED
  BY <1>1, Zenon DEF Session

\* The next source is chosen, or the request is refused.
LEMMA NextSourceFacts ==
    ASSUME NEW r, NEW s \in Session, s.plan \in Plans
    PROVE  LET n == NextSource(r, s) IN
           /\ n \in Session
           /\ n.pc \in {"choose", "done"} /\ (n.pc = "done" => n.outcome = "refused")
           /\ n.plan \in Plans /\ n.pre = s.pre /\ n.consumed = s.consumed
           /\ n.leak = s.leak /\ n.token = s.token /\ n.kind = s.kind
<1>1. CASE Len(s.plan) > 1
  <2> DEFINE n == [s EXCEPT !.pc = "choose", !.plan = Tail(s.plan)]
  <2>1. NextSource(r, s) = n
    BY <1>1 DEF NextSource
  <2>2. "choose" \in Pc /\ Tail(s.plan) \in Plans
    BY <1>1, PlanFacts DEF Pc
  <2>3. n \in Session
    BY <2>2, Zenon DEF Session
  <2>4. /\ n.pc = "choose" /\ n.plan \in Plans /\ n.pre = s.pre /\ n.consumed = s.consumed
        /\ n.leak = s.leak /\ n.token = s.token /\ n.kind = s.kind
    BY <2>2 DEF Session
  <2> HIDE DEF n
  <2> QED
    BY <2>1, <2>3, <2>4
<1>2. CASE ~(Len(s.plan) > 1)
  <2> DEFINE n == [s EXCEPT !.pc = "done", !.outcome = "refused"]
  <2>1. NextSource(r, s) = n
    BY <1>2 DEF NextSource
  <2>2. n \in Session
    BY EndType
  <2>3. /\ n.pc = "done" /\ n.outcome = "refused" /\ n.plan = s.plan /\ n.pre = s.pre
        /\ n.consumed = s.consumed /\ n.leak = s.leak /\ n.token = s.token /\ n.kind = s.kind
    BY DEF Session
  <2> HIDE DEF n
  <2> QED
    BY <2>1, <2>2, <2>3
<1> QED
  BY <1>1, <1>2

\* A new session holds nothing.
LEMMA ArriveKeeps == ASSUME Inv, NEW r \in Requests, Arrive(r) PROVE Inv'
<1> DEFINE s == session[r]
<1>0. /\ s \in Session /\ SessionOK(s) /\ HoldOK(s, phase[r], held[r], faults)
      /\ r \in tokenFailed \/ TokenOK(s, late[r], tokenTaken[r])
      /\ late[r] \in Nat /\ tokenTaken[r] \in Int /\ faults \in 0..MaxFaults
  BY Current
<1>1. PICK kind \in Kinds, plan \in Plans, quota \in Quotas :
        Become(r, [s EXCEPT !.pc = "choose", !.kind = kind, !.plan = plan, !.quota = quota,
                            !.seen = IF kind = "playground" THEN 0 ELSE remain])
  BY DEF Arrive
<1> DEFINE n == [s EXCEPT !.pc = "choose", !.kind = kind, !.plan = plan, !.quota = quota,
                          !.seen = IF kind = "playground" THEN 0 ELSE remain]
<1>2. /\ "choose" \in Pc /\ kind \in Kind /\ plan \in Plans \cup {<<>>} /\ quota \in Nat
      /\ (IF kind = "playground" THEN 0 ELSE remain) \in Int
  BY SessionAssumption DEF Pc, Inv, TypeOK
<1>3. n \in Session
  BY <1>0, <1>2, Zenon DEF Session
<1>4. /\ n.pc = "choose" /\ n.plan = plan /\ n.pre = s.pre /\ n.consumed = s.consumed
      /\ n.leak = s.leak /\ n.token = s.token
  BY <1>0 DEF Session
<1>5. s.pc = "new" /\ s.leak \in Nat
  BY <1>0 DEF Arrive, At, Session
<1> HIDE DEF n
<1>6. SessionOK(n)
  BY <1>0, <1>4, <1>5 DEF SessionOK
<1>7. HoldOK(n, phase[r], held[r], faults)
  BY <1>0, <1>4, <1>5 DEF HoldOK, SessionOK
<1>8. r \in tokenFailed \/ TokenOK(n, late[r], tokenTaken[r])
  BY <1>0, <1>4, <1>5 DEF TokenOK, SessionOK
<1> QED
  BY <1>1, <1>3, <1>6, <1>7, <1>8, SessionStep DEF Arrive, n

\* The wallet comes first in the plan: it is tried, trusted or skipped.
LEMMA TryWalletKeeps == ASSUME Inv, NEW r \in Requests, TryWallet(r) PROVE Inv'
<1> DEFINE s == session[r]
<1>0. /\ s \in Session /\ SessionOK(s) /\ HoldOK(s, phase[r], held[r], faults)
      /\ r \in tokenFailed \/ TokenOK(s, late[r], tokenTaken[r])
  BY Current
<1>1. s.pc = "choose" /\ s.plan \in Plans /\ s.quota \in Nat /\ s.leak \in Nat
  BY <1>0 DEF TryWallet, At, SessionOK, Session
<1>2. ASSUME NEW n \in Session, Become(r, n), n.plan \in Plans, n.pre = s.pre,
             n.consumed = s.consumed, n.leak = s.leak, n.token = s.token, n.kind = s.kind,
             \/ n.pc \in {"choose", "serving"}
             \/ n.pc = "check" /\ n.need > 0
             \/ n.pc = "done" /\ n.outcome = "refused"
      PROVE  Inv'
  <2>1. SessionOK(n)
    BY <1>0, <1>1, <1>2 DEF SessionOK
  <2>2. HoldOK(n, phase[r], held[r], faults)
    BY <1>0, <1>1, <1>2 DEF HoldOK, SessionOK
  <2>3. r \in tokenFailed \/ TokenOK(n, late[r], tokenTaken[r])
    <3>1. s.token = 0 /\ late[r] \in Nat
      BY <1>0, <1>1, Current DEF SessionOK
    <3> QED
      BY <1>0, <1>1, <1>2, <3>1 DEF TokenOK
  <2> QED
    BY <1>2, <2>1, <2>2, <2>3, SessionStep DEF TryWallet
<1>3. CASE Become(r, NextSource(r, s))
  BY <1>0, <1>1, <1>2, <1>3, NextSourceFacts
<1>4. ASSUME NEW need \in Nat, NEW trust \in BOOLEAN,
             Become(r, [s EXCEPT !.need = need, !.trusted = trust,
                                 !.pc = IF need > 0 THEN "check" ELSE "serving"])
      PROVE  Inv'
  <2> DEFINE n == [s EXCEPT !.need = need, !.trusted = trust,
                            !.pc = IF need > 0 THEN "check" ELSE "serving"]
  <2>1. (IF need > 0 THEN "check" ELSE "serving") \in Pc
    BY DEF Pc
  <2>2. n \in Session
    BY <1>0, <2>1, Zenon DEF Session
  <2>3. /\ n.plan = s.plan /\ n.pre = s.pre /\ n.consumed = s.consumed /\ n.leak = s.leak
        /\ n.token = s.token /\ n.kind = s.kind /\ n.need = need
        /\ n.pc = IF need > 0 THEN "check" ELSE "serving"
    BY <1>0 DEF Session
  <2>4. Become(r, n)
    BY <1>4
  <2> HIDE DEF n
  <2> QED
    BY <1>1, <1>2, <2>2, <2>3, <2>4
<1>5. (IF ShouldTrust(r) THEN 0 ELSE s.quota) \in Nat /\ ShouldTrust(r) \in BOOLEAN
  BY <1>1 DEF ShouldTrust
<1> QED
  BY <1>3, <1>4, <1>5 DEF TryWallet

\* The subscription comes first in the plan.
LEMMA TrySubscriptionKeeps == ASSUME Inv, NEW r \in Requests, TrySubscription(r) PROVE Inv'
<1> DEFINE s == session[r]
           need == IF s.quota > 0 THEN s.quota ELSE 1
           n == [s EXCEPT !.pc = "check", !.need = need]
<1>0. /\ s \in Session /\ SessionOK(s) /\ HoldOK(s, phase[r], held[r], faults)
      /\ r \in tokenFailed \/ TokenOK(s, late[r], tokenTaken[r])
  BY Current
<1>1. s.pc = "choose" /\ Become(r, n)
  BY DEF TrySubscription, At
<1>2. "check" \in Pc /\ need \in Nat /\ need > 0 /\ s.leak \in Nat
  BY <1>0 DEF Session, Pc
<1>3. n \in Session
  BY <1>0, <1>2, Zenon DEF Session
<1>4. /\ n.pc = "check" /\ n.need = need /\ n.plan = s.plan /\ n.pre = s.pre
      /\ n.consumed = s.consumed /\ n.leak = s.leak /\ n.token = s.token /\ n.kind = s.kind
  BY <1>0 DEF Session
<1> HIDE DEF n, need
<1>5. SessionOK(n)
  BY <1>0, <1>1, <1>2, <1>4 DEF SessionOK
<1>6. HoldOK(n, phase[r], held[r], faults)
  BY <1>0, <1>1, <1>4 DEF HoldOK, SessionOK
<1>7. r \in tokenFailed \/ TokenOK(n, late[r], tokenTaken[r])
  BY <1>0, <1>1, <1>4 DEF TokenOK, SessionOK
<1> QED
  BY <1>1, <1>3, <1>5, <1>6, <1>7, SessionStep DEF TrySubscription

\* A token that does not cover the need: a first hold is refused, a larger one
\* is rolled back.
LEMMA TokenRefuses ==
    ASSUME Inv, NEW r \in Requests, session[r].pc \in {"check", "debit"},
           UNCHANGED <<ledgerVars, lateVars, tokenVars>>, UNCHANGED faults \/ Fault,
           IF session[r].pre = 0 THEN End(r, "refused") ELSE Move(r, "shrink")
    PROVE  Inv'
<1> DEFINE s == session[r]
<1>0. /\ s \in Session /\ SessionOK(s) /\ HoldOK(s, phase[r], held[r], faults)
      /\ r \in tokenFailed \/ TokenOK(s, late[r], tokenTaken[r])
      /\ late[r] \in Nat
  BY Current
<1>1. CASE s.pre = 0
  <2> DEFINE n == [s EXCEPT !.pc = "done", !.outcome = "refused"]
  <2>1. n \in Session /\ Become(r, n)
    BY <1>0, <1>1, EndType DEF End
  <2>2. n.pc = "done" /\ n.outcome = "refused" /\ n.plan = s.plan /\ n.kind = s.kind
    BY <1>0 DEF Session
  <2> HIDE DEF n
  <2>3. SessionOK(n)
    BY <1>0, <2>2 DEF SessionOK
  <2>4. HoldOK(n, phase[r], held[r], faults)
    BY <1>0, <1>1, <2>2 DEF HoldOK
  <2>5. r \in tokenFailed \/ TokenOK(n, late[r], tokenTaken[r])
    BY <1>0, <1>1, <2>2 DEF TokenOK, SessionOK
  <2> QED
    BY <2>1, <2>3, <2>4, <2>5, SessionStep
<1>2. CASE s.pre # 0
  <2> DEFINE n == [s EXCEPT !.pc = "shrink"]
  <2>1. Become(r, n)
    BY <1>2 DEF Move
  <2>2. n \in Session
    BY <1>0, MoveType DEF Pc
  <2>3. /\ n.pc = "shrink" /\ n.need = s.need /\ n.plan = s.plan /\ n.pre = s.pre
        /\ n.consumed = s.consumed /\ n.leak = s.leak /\ n.token = s.token /\ n.kind = s.kind
    BY <1>0 DEF Session
  <2> HIDE DEF n
  <2>4. s.pre \in Nat
    BY <1>0 DEF Session
  <2>5. SessionOK(n)
    BY <1>0, <1>2, <2>3, <2>4 DEF SessionOK
  <2>6. HoldOK(n, phase[r], held[r], faults)
    BY <1>0, <1>2, <2>3 DEF HoldOK
  <2>7. r \in tokenFailed \/ TokenOK(n, late[r], tokenTaken[r])
    BY <1>0, <2>3 DEF TokenOK
  <2> QED
    BY <2>1, <2>2, <2>5, <2>6, <2>7, SessionStep
<1> QED
  BY <1>1, <1>2

\* A check of the token changes only where the session is.
LEMMA CheckTokenKeeps == ASSUME Inv, NEW r \in Requests, CheckToken(r) PROVE Inv'
<1> DEFINE s == session[r]
<1>0. /\ s \in Session /\ SessionOK(s) /\ HoldOK(s, phase[r], held[r], faults)
      /\ r \in tokenFailed \/ TokenOK(s, late[r], tokenTaken[r])
  BY Current
<1>1. s.pc = "check"
  BY DEF CheckToken, At
<1>2. CASE Move(r, "debit")
  <2> DEFINE n == [s EXCEPT !.pc = "debit"]
  <2>1. Become(r, n)
    BY <1>2 DEF Move
  <2>2. n \in Session
    BY <1>0, MoveType DEF Pc
  <2>3. /\ n.pc = "debit" /\ n.need = s.need /\ n.plan = s.plan /\ n.pre = s.pre
        /\ n.consumed = s.consumed /\ n.leak = s.leak /\ n.token = s.token /\ n.kind = s.kind
    BY <1>0 DEF Session
  <2> HIDE DEF n
  <2>4. SessionOK(n)
    BY <1>0, <1>1, <2>3 DEF SessionOK
  <2>5. HoldOK(n, phase[r], held[r], faults)
    BY <1>0, <1>1, <2>3 DEF HoldOK
  <2>6. r \in tokenFailed \/ TokenOK(n, late[r], tokenTaken[r])
    BY <1>0, <1>1, <2>3 DEF TokenOK
  <2> QED
    BY <2>1, <2>2, <2>4, <2>5, <2>6, SessionStep DEF CheckToken
<1>3. CASE IF s.pre = 0 THEN End(r, "refused") ELSE Move(r, "shrink")
  BY <1>1, <1>3, TokenRefuses DEF CheckToken
<1> QED
  BY <1>2, <1>3 DEF CheckToken

\* A debit of the token that fails is counted as a fault and ends like a
\* failed check.
LEMMA DebitTokenFailsKeeps == ASSUME Inv, NEW r \in Requests, DebitTokenFails(r) PROVE Inv'
  BY TokenRefuses DEF DebitTokenFails, At

\* A debit of the token is what the funding is to match, or completes a
\* growth.
LEMMA DebitTokenKeeps == ASSUME Inv, NEW r \in Requests, DebitToken(r) PROVE Inv'
<1> DEFINE s == session[r]
<1>0. /\ s \in Session /\ SessionOK(s) /\ HoldOK(s, phase[r], held[r], faults)
      /\ r \in tokenFailed \/ TokenOK(s, late[r], tokenTaken[r])
      /\ late[r] \in Nat /\ tokenTaken[r] \in Int
  BY Current
<1>1. /\ s.pc = "debit" /\ s.need \in Nat /\ s.need \in Int /\ s.pre \in Nat
      /\ s.token \in Nat /\ s.leak \in Nat /\ s.consumed \in Nat
  BY <1>0 DEF DebitToken, At, Session
<1>2. CASE s.pre = 0
  <2> DEFINE n == [s EXCEPT !.pc = "fund", !.token = s.need]
  <2>1. Become(r, n)
    BY <1>2 DEF DebitToken
  <2>2. n \in Session
    <3>1. "fund" \in Pc
      BY DEF Pc
    <3> QED
      BY <1>0, <1>1, <3>1, Zenon DEF Session
  <2>3. /\ n.pc = "fund" /\ n.need = s.need /\ n.plan = s.plan /\ n.pre = s.pre
        /\ n.consumed = s.consumed /\ n.leak = s.leak /\ n.token = s.need /\ n.kind = s.kind
    BY <1>0 DEF Session
  <2> HIDE DEF n
  <2>4. SessionOK(n)
    BY <1>0, <1>1, <1>2, <2>3 DEF SessionOK
  <2>5. HoldOK(n, phase[r], held[r], faults)
    BY <1>0, <1>1, <2>3 DEF HoldOK
  <2>6. r \in tokenFailed \/ TokenOK(n, late[r], tokenTaken[r] + s.need)
    BY <1>0, <1>1, <1>2, <2>3 DEF TokenOK, SessionOK
  <2> QED
    BY <1>1, <2>1, <2>2, <2>3, <2>4, <2>5, <2>6, TokenStep DEF DebitToken
<1>3. CASE s.pre # 0
  <2> DEFINE n == [s EXCEPT !.pc = "serving", !.pre = @ + s.need, !.token = @ + s.need]
  <2>1. Become(r, n)
    BY <1>3 DEF DebitToken
  <2>2. n \in Session
    <3>1. "serving" \in Pc /\ s.pre + s.need \in Nat /\ s.token + s.need \in Nat
      BY <1>1 DEF Pc
    <3> QED
      BY <1>0, <3>1, Zenon DEF Session
  <2>3. /\ n.pc = "serving" /\ n.need = s.need /\ n.plan = s.plan /\ n.pre = s.pre + s.need
        /\ n.consumed = s.consumed /\ n.leak = s.leak /\ n.token = s.token + s.need
        /\ n.kind = s.kind
    BY <1>0 DEF Session
  <2> HIDE DEF n
  <2>4. SessionOK(n)
    BY <1>0, <1>1, <1>3, <2>3 DEF SessionOK
  <2>5. HoldOK(n, phase[r], held[r], faults)
    BY <1>0, <1>1, <1>3, <2>3 DEF HoldOK
  <2>6. r \in tokenFailed \/ TokenOK(n, late[r], tokenTaken[r] + s.need)
    BY <1>0, <1>1, <2>3 DEF TokenOK
  <2> QED
    BY <1>1, <2>1, <2>2, <2>3, <2>4, <2>5, <2>6, TokenStep DEF DebitToken
<1> QED
  BY <1>2, <1>3

\* The hold that is taken is what the token has given.
LEMMA FundKeeps == ASSUME Inv, NEW r \in Requests, Fund(r) PROVE Inv'
<1> DEFINE s == session[r]
           n == [s EXCEPT !.pc = "serving", !.pre = s.need, !.consumed = s.need]
<1>0. /\ s \in Session /\ SessionOK(s) /\ HoldOK(s, phase[r], held[r], faults)
      /\ r \in tokenFailed \/ TokenOK(s, late[r], tokenTaken[r])
  BY Current
<1>1. /\ s.pc = "fund" /\ s.need \in Nat /\ s.leak \in Nat /\ s.plan \in Plans
      /\ s.need > 0 /\ s.consumed \in Nat /\ s.pre \in Nat
      /\ Become(r, n) /\ Escrow!Open(r, Source(r), s.need, "active")
  BY <1>0 DEF Fund, At, Session, SessionOK
<1>2. n \in Session
  <2>1. "serving" \in Pc
    BY DEF Pc
  <2> QED
    BY <1>0, <1>1, <2>1, Zenon DEF Session
<1>3. /\ n.pc = "serving" /\ n.plan = s.plan /\ n.pre = s.need /\ n.consumed = s.need
      /\ n.leak = s.leak /\ n.token = s.token /\ n.kind = s.kind
  BY <1>0 DEF Session
<1> HIDE DEF n
<1>4. SessionOK(n)
  BY <1>0, <1>1, <1>3 DEF SessionOK
<1>5. HoldOK(n, "active", s.need, faults)
  BY <1>0, <1>1, <1>3 DEF HoldOK
<1>6. r \in tokenFailed \/ TokenOK(n, late[r], tokenTaken[r])
  BY <1>0, <1>1, <1>3 DEF TokenOK
<1>7. Source(r) \in Sources /\ "active" \in Phases
  BY <1>1, PlanFacts DEF Source, Phases
<1>8. /\ Escrow!Move(r, Source(r), s.need, "active")
      /\ owner' = [owner EXCEPT ![r] = Source(r)]
  BY <1>1 DEF Escrow!Open
<1> QED
  BY <1>1, <1>2, <1>4, <1>5, <1>6, <1>7, <1>8, LedgerStep DEF Fund

\* A source that has too little leaves the token to be undone.
LEMMA FundFailsKeeps == ASSUME Inv, NEW r \in Requests, FundFails(r) PROVE Inv'
<1> DEFINE s == session[r]
<1>0. /\ s \in Session /\ SessionOK(s) /\ HoldOK(s, phase[r], held[r], faults)
      /\ r \in tokenFailed \/ TokenOK(s, late[r], tokenTaken[r])
  BY Current
<1>1. s.pc = "fund" /\ s.plan \in Plans /\ "undo" \in Pc
  BY <1>0 DEF FundFails, At, SessionOK, Pc
<1>2. ASSUME NEW plan \in Plans, Become(r, [s EXCEPT !.pc = "undo", !.plan = plan])
      PROVE  Inv'
  <2> DEFINE n == [s EXCEPT !.pc = "undo", !.plan = plan]
  <2>1. n \in Session
    BY <1>0, <1>1, Zenon DEF Session
  <2>2. /\ n.pc = "undo" /\ n.plan = plan /\ n.pre = s.pre /\ n.consumed = s.consumed
        /\ n.leak = s.leak /\ n.token = s.token /\ n.kind = s.kind
    BY <1>0 DEF Session
  <2>3. Become(r, n)
    BY <1>2
  <2> HIDE DEF n
  <2>4. SessionOK(n)
    BY <1>0, <1>1, <2>2 DEF SessionOK
  <2>5. HoldOK(n, phase[r], held[r], faults)
    BY <1>0, <1>1, <2>2 DEF HoldOK
  <2>6. r \in tokenFailed \/ TokenOK(n, late[r], tokenTaken[r])
    BY <1>0, <1>1, <2>2 DEF TokenOK
  <2>7. UNCHANGED <<ledgerVars, lateVars, tokenVars>> /\ (UNCHANGED faults \/ Fault)
    BY DEF FundFails
  <2> QED
    BY <2>1, <2>3, <2>4, <2>5, <2>6, <2>7, SessionStep
<1>3. CASE Move(r, "undo")
  <2>1. [s EXCEPT !.pc = "undo"] = [s EXCEPT !.pc = "undo", !.plan = s.plan]
    BY <1>0 DEF Session
  <2> QED
    BY <1>1, <1>2, <1>3, <2>1 DEF Move
<1>4. CASE Become(r, [s EXCEPT !.pc = "undo", !.plan = <<Head(@)>>])
  BY <1>1, <1>2, <1>4, PlanFacts
<1> QED
  BY <1>3, <1>4 DEF FundFails

\* The token has everything back before the next source is tried, or is marked
\* as failed.
LEMMA UndoTokenKeeps == ASSUME Inv, NEW r \in Requests, UndoToken(r) PROVE Inv'
<1> DEFINE s == session[r]
           m == NextSource(r, s)
           n == [m EXCEPT !.token = 0]
<1>0. /\ s \in Session /\ SessionOK(s) /\ HoldOK(s, phase[r], held[r], faults)
      /\ r \in tokenFailed \/ TokenOK(s, late[r], tokenTaken[r])
      /\ late[r] \in Nat /\ tokenTaken[r] \in Int
  BY Current
<1>1. /\ s.pc = "undo" /\ s.token \in Nat /\ s.plan \in Plans /\ s.leak \in Nat /\ s.pre = 0
      /\ -s.token \in Int /\ Become(r, n)
  BY <1>0 DEF UndoToken, At, Session, SessionOK
<1>2. /\ m \in Session
      /\ m.pc \in {"choose", "done"} /\ (m.pc = "done" => m.outcome = "refused")
      /\ m.plan \in Plans /\ m.pre = s.pre /\ m.consumed = s.consumed
      /\ m.leak = s.leak /\ m.token = s.token /\ m.kind = s.kind
  BY <1>0, <1>1, NextSourceFacts
<1> HIDE DEF m
<1>3. n \in Session
  <2>1. 0 \in Nat
    OBVIOUS
  <2> QED
    BY <1>2, <2>1, Zenon DEF Session
<1>4. /\ n.pc = m.pc /\ n.outcome = m.outcome /\ n.plan = m.plan /\ n.pre = m.pre
      /\ n.consumed = m.consumed /\ n.leak = m.leak /\ n.token = 0 /\ n.kind = m.kind
  BY <1>2 DEF Session
<1> HIDE DEF n
<1>5. SessionOK(n)
  BY <1>0, <1>1, <1>2, <1>4 DEF SessionOK
<1>6. HoldOK(n, phase[r], held[r], faults)
  BY <1>0, <1>1, <1>2, <1>4 DEF HoldOK
<1>7. r \in tokenFailed \/ TokenOK(n, late[r], tokenTaken[r] + (-s.token))
  BY <1>0, <1>1, <1>2, <1>4 DEF TokenOK
<1> QED
  BY <1>1, <1>2, <1>3, <1>4, <1>5, <1>6, <1>7, TokenStep DEF UndoToken
-----------------------------------------------------------------------------
(* While the request is served. *)

\* A growth raises hold and belief first and waits for the token.
LEMMA ReserveKeeps ==
    ASSUME Inv, NEW r \in Requests, NEW target \in Quotas, Reserve(r, target) PROVE Inv'
<1> DEFINE s == session[r]
           h == s.consumed + target - s.pre
           n == [s EXCEPT !.pc = "check", !.need = target - s.pre,
                          !.consumed = @ + target - s.pre]
<1>0. /\ s \in Session /\ SessionOK(s) /\ HoldOK(s, phase[r], held[r], faults)
      /\ r \in tokenFailed \/ TokenOK(s, late[r], tokenTaken[r])
  BY Current
<1>1. /\ s.pc = "serving" /\ s.plan \in Plans /\ target \in Nat /\ target > s.pre /\ s.pre > 0
      /\ s.pre \in Nat /\ s.consumed \in Nat /\ s.leak \in Nat
  BY <1>0, SessionAssumption DEF Reserve, At, Session, SessionOK
<1>2. Become(r, n) /\ Escrow!Adjust(r, h)
  BY DEF Reserve
<1>3. n \in Session
  <2>1. "check" \in Pc /\ target - s.pre \in Nat /\ h \in Nat
    BY <1>1 DEF Pc
  <2> QED
    BY <1>0, <2>1, Zenon DEF Session
<1>4. /\ n.pc = "check" /\ n.plan = s.plan /\ n.pre = s.pre /\ n.consumed = h
      /\ n.need = target - s.pre
      /\ n.leak = s.leak /\ n.token = s.token /\ n.kind = s.kind
  BY <1>0 DEF Session
<1> HIDE DEF n
<1>5. SessionOK(n)
  BY <1>0, <1>1, <1>4 DEF SessionOK
<1>6. HoldOK(n, "active", h, faults)
  BY <1>0, <1>1, <1>4 DEF HoldOK
<1>7. r \in tokenFailed \/ TokenOK(n, late[r], tokenTaken[r])
  BY <1>0, <1>1, <1>4 DEF TokenOK
<1>8. owner[r] \in Sources /\ "active" \in Phases /\ h \in Nat
  BY <1>1 DEF Inv, TypeOK, Phases
<1>9. Escrow!Move(r, owner[r], h, "active") /\ UNCHANGED owner
  BY <1>2 DEF Escrow!Adjust
<1> HIDE DEF h
<1> QED
  BY <1>2, <1>3, <1>5, <1>6, <1>7, <1>8, <1>9, LedgerStep DEF Reserve

\* A growth without its token is rolled back, or leaks.
LEMMA ShrinkHoldKeeps == ASSUME Inv, NEW r \in Requests, ShrinkHold(r) PROVE Inv'
<1> DEFINE s == session[r]
           h == s.consumed - s.need
<1>0. /\ s \in Session /\ SessionOK(s) /\ HoldOK(s, phase[r], held[r], faults)
      /\ r \in tokenFailed \/ TokenOK(s, late[r], tokenTaken[r])
  BY Current
<1>1. /\ s.pc = "shrink" /\ s.plan \in Plans /\ s.need \in Nat /\ s.pre \in Nat /\ s.pre > 0
      /\ s.consumed \in Nat /\ s.leak \in Nat /\ s.consumed = s.pre + s.leak + s.need
  BY <1>0 DEF ShrinkHold, At, Session, SessionOK
<1>2. "serving" \in Pc /\ h \in Nat /\ h = s.pre + s.leak /\ s.leak + s.need \in Nat
  BY <1>1 DEF Pc
<1>3. CASE /\ Escrow!Adjust(r, h)
           /\ Become(r, [s EXCEPT !.pc = "serving", !.consumed = @ - s.need])
           /\ UNCHANGED faults
  <2> DEFINE n == [s EXCEPT !.pc = "serving", !.consumed = @ - s.need]
  <2>1. n \in Session
    BY <1>0, <1>2, Zenon DEF Session
  <2>2. /\ n.pc = "serving" /\ n.plan = s.plan /\ n.pre = s.pre /\ n.consumed = h
        /\ n.leak = s.leak /\ n.token = s.token /\ n.kind = s.kind
    BY <1>0 DEF Session
  <2>3. Become(r, n)
    BY <1>3
  <2> HIDE DEF n
  <2>4. SessionOK(n)
    BY <1>0, <1>1, <1>2, <2>2 DEF SessionOK
  <2>5. HoldOK(n, "active", h, faults)
    BY <1>0, <1>1, <2>2 DEF HoldOK
  <2>6. r \in tokenFailed \/ TokenOK(n, late[r], tokenTaken[r])
    BY <1>0, <1>1, <2>2 DEF TokenOK
  <2>7. owner[r] \in Sources /\ "active" \in Phases
    BY DEF Inv, TypeOK, Phases
  <2>8. Escrow!Move(r, owner[r], h, "active") /\ UNCHANGED owner
    BY <1>3 DEF Escrow!Adjust
  <2>9. UNCHANGED <<lateVars, tokenVars, faults>>
    BY <1>3 DEF ShrinkHold
  <2> HIDE DEF h
  <2> QED
    BY <1>2, <2>1, <2>3, <2>4, <2>5, <2>6, <2>7, <2>8, <2>9, LedgerStep
<1>4. CASE /\ Fault \/ UNCHANGED faults
           /\ Become(r, [s EXCEPT !.pc = "serving", !.leak = @ + s.need])
           /\ UNCHANGED ledgerVars
  <2> DEFINE n == [s EXCEPT !.pc = "serving", !.leak = @ + s.need]
  <2>1. n \in Session
    BY <1>0, <1>2, Zenon DEF Session
  <2>2. /\ n.pc = "serving" /\ n.plan = s.plan /\ n.pre = s.pre /\ n.consumed = s.consumed
        /\ n.leak = s.leak + s.need /\ n.token = s.token /\ n.kind = s.kind
    BY <1>0 DEF Session
  <2>3. Become(r, n)
    BY <1>4
  <2> HIDE DEF n
  <2>4. SessionOK(n)
    BY <1>0, <1>1, <2>2 DEF SessionOK
  <2>5. HoldOK(n, phase[r], held[r], faults)
    BY <1>0, <1>1, <2>2 DEF HoldOK
  <2>6. r \in tokenFailed \/ TokenOK(n, late[r], tokenTaken[r])
    BY <1>0, <1>1, <2>2 DEF TokenOK
  <2>7. UNCHANGED <<ledgerVars, lateVars, tokenVars>>
    BY <1>4 DEF ShrinkHold
  <2> QED
    BY <1>4, <2>1, <2>3, <2>4, <2>5, <2>6, <2>7, SessionStep
<1> QED
  BY <1>3, <1>4 DEF ShrinkHold

\* Where a part of a websocket request leads to.
LEMMA AfterPartFacts ==
    ASSUME NEW pc \in {"serving", "closing", "local"}
    PROVE  /\ AfterPart(pc).charged \in {"serving", "local", "settle"}
           /\ AfterPart(pc).failed \in {"closing", "local", "settle"}
  BY DEF AfterPart

\* A part of a websocket request is charged beside the hold.
LEMMA ConsumeUsageKeeps ==
    ASSUME Inv, NEW r \in Requests, NEW quota \in Nat, ConsumeUsage(r, quota) PROVE Inv'
<1> DEFINE s == session[r]
           after == AfterPart(s.pc)
           n(pc) == [s EXCEPT !.usage = @ + quota, !.need = quota, !.pc = pc,
                              !.then = after.failed]
<1>0. /\ s \in Session /\ SessionOK(s) /\ HoldOK(s, phase[r], held[r], faults)
      /\ r \in tokenFailed \/ TokenOK(s, late[r], tokenTaken[r])
      /\ phase[r] \in Phases /\ held[r] \in Nat /\ late[r] \in Nat /\ tokenTaken[r] \in Int
      /\ faults \in 0..MaxFaults
  BY Current
<1>1. s.pc \in {"serving", "closing", "local"} /\ s.plan \in Plans /\ s.usage + quota \in Nat
  <2>1. s.pc \in {"serving", "closing", "local"}
    BY DEF ConsumeUsage
  <2>2. s.usage \in Nat
    BY <1>0 DEF Session
  <2> QED
    BY <1>0, <2>1, <2>2 DEF SessionOK
<1>2. /\ after.charged \in {"serving", "local", "settle"}
      /\ after.failed \in {"closing", "local", "settle"}
  BY <1>1, AfterPartFacts
<1> HIDE DEF after
<1>3. ASSUME NEW pc \in {"serving", "closing", "local", "settle", "late"}
      PROVE  /\ n(pc) \in Session
             /\ n(pc).pc = pc /\ n(pc).plan = s.plan /\ n(pc).pre = s.pre
             /\ n(pc).consumed = s.consumed /\ n(pc).leak = s.leak /\ n(pc).token = s.token
             /\ n(pc).kind = s.kind /\ n(pc).need = quota /\ n(pc).then = after.failed
  <2>1. pc \in Pc /\ after.failed \in Pc
    BY <1>2 DEF Pc
  <2>2. n(pc) \in Session
    BY <1>0, <1>1, <2>1, Zenon DEF Session
  <2> QED
    BY <1>0, <2>2 DEF Session
<1> HIDE DEF n
<1>4. ASSUME NEW pc \in {"serving", "closing", "local", "settle", "late"}
      PROVE  SessionOK(n(pc)) /\ HoldOK(n(pc), phase[r], held[r], faults)
  <2>1. SessionOK(n(pc))
    BY <1>0, <1>1, <1>2, <1>3 DEF SessionOK
  <2>2. HoldOK(n(pc), phase[r], held[r], faults)
    BY <1>0, <1>1, <1>3 DEF HoldOK
  <2> QED
    BY <2>1, <2>2
<1>5. ASSUME NEW pc \in {"serving", "closing", "local", "settle"}, Become(r, n(pc)),
             UNCHANGED <<ledgerVars, lateVars>>
      PROVE  Inv'
  <2>1. r \in tokenFailed \/ TokenOK(n(pc), late[r], tokenTaken[r])
    BY <1>0, <1>1, <1>3 DEF TokenOK
  <2>2. UNCHANGED <<ledgerVars, lateVars, tokenVars>> /\ UNCHANGED faults
    BY <1>5 DEF ConsumeUsage
  <2> QED
    BY <1>3, <1>4, <1>5, <2>1, <2>2, SessionStep
<1>6. ASSUME Become(r, n("late")), keys' = keys \cup {<<r, quota>>},
             late' = [late EXCEPT ![r] = @ + quota],
             funds' = [funds EXCEPT ![Source(r)] = @ - quota],
             UNCHANGED <<phase, owner, held>>
      PROVE  Inv'
  <2>1. r \in tokenFailed \/ TokenOK(n("late"), late[r] + quota, tokenTaken[r])
    BY <1>0, <1>1, <1>3 DEF TokenOK
  <2>2. /\ funds' \in [Sources -> Int] /\ owner' \in [Requests -> Sources]
        /\ keys' \subseteq Requests \X Nat
    <3>1. Source(r) \in Sources
      BY <1>1, PlanFacts DEF Source
    <3>2. funds' \in [Sources -> Int]
      BY <1>6, <3>1 DEF Inv, TypeOK
    <3>3. owner' \in [Requests -> Sources]
      BY <1>6 DEF Inv, TypeOK
    <3>4. keys' \subseteq Requests \X Nat
      BY <1>6 DEF Inv, TypeOK
    <3> QED
      BY <3>2, <3>3, <3>4
  <2>3. /\ phase' = [phase EXCEPT ![r] = phase[r]] /\ held' = [held EXCEPT ![r] = held[r]]
        /\ late' = [late EXCEPT ![r] = late[r] + quota] /\ late[r] + quota \in Nat
    BY <1>0, <1>6 DEF Inv, TypeOK
  <2>4. /\ remain' \in Int /\ tokenTaken' = [tokenTaken EXCEPT ![r] = tokenTaken[r]]
        /\ tokenFailed' = tokenFailed /\ tokenFailed \subseteq Requests
        /\ faults' \in 0..MaxFaults /\ faults <= faults' /\ faults' = faults
    BY <1>0, SessionAssumption DEF Inv, TypeOK, ConsumeUsage, tokenVars
  <2>5. HoldOK(n("late"), phase[r], held[r], faults')
    BY <1>4, <2>4
  <2>6. n("late") \in Session /\ SessionOK(n("late"))
    BY <1>3, <1>4
  <2>7. r \in tokenFailed' \/ TokenOK(n("late"), late[r] + quota, tokenTaken[r])
    BY <2>1, <2>4
  <2> DEFINE la == late[r] + quota
             m == n("late")
  <2> HIDE DEF la, m
  <2> QED
    BY <1>0, <1>6, <2>2, <2>3, <2>4, <2>5, <2>6, <2>7, RequestStep DEF la, m
<1> QED
  BY <1>2, <1>5, <1>6 DEF ConsumeUsage, n, after

\* The token follows the charge of a part, or is marked as failed.
LEMMA ConsumeUsageTokenKeeps ==
    ASSUME Inv, NEW r \in Requests, ConsumeUsageToken(r) PROVE Inv'
<1> DEFINE s == session[r]
<1>0. /\ s \in Session /\ SessionOK(s) /\ HoldOK(s, phase[r], held[r], faults)
      /\ r \in tokenFailed \/ TokenOK(s, late[r], tokenTaken[r])
      /\ late[r] \in Nat /\ tokenTaken[r] \in Int
  BY Current
<1>1. /\ s.pc = "late" /\ s.plan \in Plans /\ s.need \in Nat /\ s.need \in Int
      /\ s.token \in Nat
      /\ s.then \in {"closing", "local", "settle"}
  BY <1>0 DEF ConsumeUsageToken, At, SessionOK, Session
<1>2. ASSUME NEW pc \in {"serving", "closing", "local", "settle"}, Move(r, pc)
      PROVE  Inv'
  <2> DEFINE n == [s EXCEPT !.pc = pc]
  <2>1. Become(r, n)
    BY <1>2 DEF Move
  <2>2. n \in Session
    BY <1>0, MoveType DEF Pc
  <2>3. /\ n.pc = pc /\ n.need = s.need /\ n.plan = s.plan /\ n.pre = s.pre
        /\ n.consumed = s.consumed /\ n.leak = s.leak /\ n.token = s.token /\ n.kind = s.kind
    BY <1>0 DEF Session
  <2> HIDE DEF n
  <2>4. SessionOK(n)
    BY <1>0, <1>1, <2>3 DEF SessionOK
  <2>5. HoldOK(n, phase[r], held[r], faults)
    BY <1>0, <1>1, <2>3 DEF HoldOK
  <2>6. r \in tokenFailed \/ TokenOK(n, late[r], tokenTaken[r] + s.need)
    BY <1>0, <1>1, <2>3 DEF TokenOK
  <2>7. ChangeToken(r, s.need) \/ LoseToken(r)
    BY DEF ConsumeUsageToken
  <2>8. UNCHANGED <<ledgerVars, lateVars>>
    BY DEF ConsumeUsageToken
  <2> QED
    BY <1>1, <2>1, <2>2, <2>3, <2>4, <2>5, <2>6, <2>7, <2>8, TokenStep
<1>3. (IF s.then = "closing" THEN "serving" ELSE s.then)
        \in {"serving", "closing", "local", "settle"}
  BY <1>1
<1> QED
  BY <1>1, <1>2, <1>3 DEF ConsumeUsageToken
-----------------------------------------------------------------------------
(* The end of the request. *)

\* The usage becomes known.
LEMMA AnsweredKeeps ==
    ASSUME Inv, NEW r \in Requests, NEW actual \in Nat, Answered(r, actual) PROVE Inv'
<1> DEFINE s == session[r]
           pc == IF IsRealtime(r) THEN "local" ELSE "settle"
           n == [s EXCEPT !.usage = actual, !.pc = pc]
<1>0. /\ s \in Session /\ SessionOK(s) /\ HoldOK(s, phase[r], held[r], faults)
      /\ r \in tokenFailed \/ TokenOK(s, late[r], tokenTaken[r])
  BY Current
<1>1. s.pc = "serving" /\ s.plan \in Plans /\ pc \in Pc /\ pc \in {"local", "settle"}
  BY <1>0 DEF Answered, At, SessionOK, Pc
<1> HIDE DEF pc
<1>2. n \in Session
  BY <1>0, <1>1, Zenon DEF Session
<1>3. /\ n.pc = pc /\ n.plan = s.plan /\ n.pre = s.pre /\ n.consumed = s.consumed
      /\ n.leak = s.leak /\ n.token = s.token /\ n.kind = s.kind
  BY <1>0 DEF Session
<1>4. Become(r, n)
  BY DEF Answered, pc
<1> HIDE DEF n
<1>5. SessionOK(n)
  BY <1>0, <1>1, <1>3 DEF SessionOK
<1>6. HoldOK(n, phase[r], held[r], faults)
  BY <1>0, <1>1, <1>3 DEF HoldOK
<1>7. r \in tokenFailed \/ TokenOK(n, late[r], tokenTaken[r])
  BY <1>0, <1>1, <1>3 DEF TokenOK
<1> QED
  BY <1>2, <1>4, <1>5, <1>6, <1>7, SessionStep DEF Answered

\* The hold is settled at the price, and a leak with it.
LEMMA SettleFundingKeeps == ASSUME Inv, NEW r \in Requests, SettleFunding(r) PROVE Inv'
<1> DEFINE s == session[r]
           delta == s.usage - s.pre
           price == s.consumed + delta
           pc == IF delta # 0 /\ HasToken(r) THEN "adjust" ELSE "done"
           n == [s EXCEPT !.consumed = @ + delta, !.pc = pc, !.outcome = "paid"]
<1>0. /\ s \in Session /\ SessionOK(s) /\ HoldOK(s, phase[r], held[r], faults)
      /\ r \in tokenFailed \/ TokenOK(s, late[r], tokenTaken[r])
  BY Current
<1>1. /\ s.pc = "settle" /\ s.plan \in Plans /\ s.usage \in Nat /\ s.pre \in Nat
      /\ s.leak \in Nat /\ s.consumed = s.pre + s.leak /\ s.token = s.pre
  BY <1>0 DEF SettleFunding, At, Session, SessionOK
<1>2. price = s.usage + s.leak /\ price \in Nat /\ pc \in Pc /\ pc \in {"adjust", "done"}
  BY <1>1 DEF Pc
<1>3. n \in Session
  BY <1>0, <1>2, Zenon DEF Session
<1>4. /\ n.pc = pc /\ n.outcome = "paid" /\ n.plan = s.plan /\ n.pre = s.pre
      /\ n.usage = s.usage
      /\ n.leak = s.leak /\ n.token = s.token /\ n.kind = s.kind
  BY <1>0 DEF Session
<1>5. Become(r, n)
  BY DEF SettleFunding
<1> HIDE DEF n
<1>6. SessionOK(n)
  <2> HIDE DEF pc
  <2> QED
    BY <1>1, <1>2, <1>4 DEF SessionOK
<1>7. HoldOK(n, "settled", price, faults)
  <2> HIDE DEF pc
  <2> QED
    BY <1>2, <1>4 DEF HoldOK
<1>8. r \in tokenFailed \/ TokenOK(n, late[r], tokenTaken[r])
  BY <1>0, <1>1, <1>4 DEF TokenOK, HasToken
<1>9. \E u \in Sources :
        /\ Escrow!Move(r, u, price, "settled")
        /\ UNCHANGED owner \/ owner' = [owner EXCEPT ![r] = u]
  <2>1. owner[r] \in Sources /\ "wallet" \in Sources
    BY DEF Inv, TypeOK, Sources
  <2> HIDE DEF price
  <2> QED
    BY <2>1 DEF SettleFunding, Escrow!Charge, Escrow!Open, price
<1>10. "settled" \in Phases /\ UNCHANGED <<lateVars, tokenVars, faults>>
  BY DEF Phases, SettleFunding
<1> HIDE DEF price
<1> QED
  BY <1>2, <1>3, <1>5, <1>6, <1>7, <1>8, <1>9, <1>10, LedgerStep

\* A session that ends without having paid, refused or refunded promises
\* nothing.
LEMMA SettleFundingFailsKeeps ==
    ASSUME Inv, NEW r \in Requests, SettleFundingFails(r) PROVE Inv'
<1> DEFINE s == session[r]
           n == [s EXCEPT !.pc = "done", !.outcome = "unpaid"]
<1>0. s \in Session /\ SessionOK(s) /\ s.pc = "settle"
  BY Current DEF SettleFundingFails, At
<1>1. n \in Session /\ Become(r, n)
  BY <1>0, EndType DEF SettleFundingFails, End
<1>2. n.pc = "done" /\ n.outcome = "unpaid" /\ n.plan = s.plan /\ n.kind = s.kind
  BY <1>0 DEF Session
<1> HIDE DEF n
<1>3. SessionOK(n)
  BY <1>0, <1>2 DEF SessionOK
<1>4. HoldOK(n, phase[r], held[r], faults) /\ TokenOK(n, late[r], tokenTaken[r])
  BY <1>2 DEF HoldOK, TokenOK
<1>5. UNCHANGED <<ledgerVars, lateVars, tokenVars>> /\ (UNCHANGED faults \/ Fault)
  BY DEF SettleFundingFails
<1> QED
  BY <1>1, <1>3, <1>4, <1>5, SessionStep

\* The token follows the settled price, or is marked as failed.
LEMMA SettleTokenKeeps == ASSUME Inv, NEW r \in Requests, SettleToken(r) PROVE Inv'
<1> DEFINE s == session[r]
           n == [s EXCEPT !.pc = "done"]
<1>0. /\ s \in Session /\ SessionOK(s) /\ HoldOK(s, phase[r], held[r], faults)
      /\ r \in tokenFailed \/ TokenOK(s, late[r], tokenTaken[r])
      /\ late[r] \in Nat /\ tokenTaken[r] \in Int
  BY Current
<1>1. /\ s.pc = "adjust" /\ s.plan \in Plans /\ s.outcome = "paid" /\ s.token = s.pre
      /\ s.usage \in Nat /\ s.pre \in Nat /\ s.usage - s.pre \in Int
  BY <1>0 DEF SettleToken, At, Session, SessionOK
<1>2. n \in Session
  BY <1>0, MoveType DEF Pc
<1>3. /\ n.pc = "done" /\ n.plan = s.plan /\ n.outcome = s.outcome /\ n.usage = s.usage
      /\ n.leak = s.leak /\ n.kind = s.kind
  BY <1>0 DEF Session
<1>4. Become(r, n)
  BY DEF SettleToken, Move
<1> HIDE DEF n
<1>5. SessionOK(n)
  BY <1>1, <1>3 DEF SessionOK
<1>6. HoldOK(n, phase[r], held[r], faults)
  BY <1>0, <1>1, <1>3 DEF HoldOK
<1>7. r \in tokenFailed \/ TokenOK(n, late[r], tokenTaken[r] + (s.usage - s.pre))
  BY <1>0, <1>1, <1>3 DEF TokenOK
<1>8. ChangeToken(r, s.usage - s.pre) \/ LoseToken(r)
  BY DEF SettleToken
<1>9. UNCHANGED <<ledgerVars, lateVars>>
  BY DEF SettleToken
<1> DEFINE amount == s.usage - s.pre
<1>10. amount \in Int
  BY <1>1
<1> HIDE DEF amount
<1> QED
  BY <1>2, <1>3, <1>4, <1>5, <1>6, <1>7, <1>8, <1>9, <1>10, TokenStep DEF amount

\* A session without token quota has nothing to refund, because it has no
\* hold either.
LEMMA FailedKeeps == ASSUME Inv, NEW r \in Requests, Failed(r) PROVE Inv'
<1> DEFINE s == session[r]
<1>0. /\ s \in Session /\ SessionOK(s) /\ HoldOK(s, phase[r], held[r], faults)
      /\ r \in tokenFailed \/ TokenOK(s, late[r], tokenTaken[r])
      /\ late[r] \in Nat
  BY Current
<1>1. s.pc = "serving" /\ s.plan \in Plans /\ s.token = s.pre /\ s.token \in Nat
  BY <1>0 DEF Failed, At, Session, SessionOK
<1>2. UNCHANGED <<ledgerVars, lateVars, tokenVars>> /\ UNCHANGED faults
  BY DEF Failed
<1>3. CASE Move(r, "refund")
  <2> DEFINE n == [s EXCEPT !.pc = "refund"]
  <2>1. n \in Session /\ Become(r, n)
    BY <1>0, <1>3, MoveType DEF Pc, Move
  <2>2. /\ n.pc = "refund" /\ n.plan = s.plan /\ n.pre = s.pre /\ n.consumed = s.consumed
        /\ n.leak = s.leak /\ n.token = s.token /\ n.kind = s.kind
    BY <1>0 DEF Session
  <2> HIDE DEF n
  <2>3. SessionOK(n)
    BY <1>0, <1>1, <2>2 DEF SessionOK
  <2>4. HoldOK(n, phase[r], held[r], faults)
    BY <1>0, <1>1, <2>2 DEF HoldOK
  <2>5. r \in tokenFailed \/ TokenOK(n, late[r], tokenTaken[r])
    BY <1>0, <1>1, <2>2 DEF TokenOK
  <2> QED
    BY <1>2, <2>1, <2>3, <2>4, <2>5, SessionStep
<1>4. CASE ~(s.token > 0) /\ End(r, "refunded")
  <2> DEFINE n == [s EXCEPT !.pc = "done", !.outcome = "refunded"]
  <2>1. n \in Session /\ Become(r, n)
    BY <1>0, <1>4, EndType DEF End
  <2>2. n.pc = "done" /\ n.outcome = "refunded" /\ n.plan = s.plan /\ n.kind = s.kind
    BY <1>0 DEF Session
  <2> HIDE DEF n
  <2>3. s.token = 0 /\ s.pre = 0
    BY <1>1, <1>4
  <2>4. SessionOK(n)
    BY <1>1, <2>2 DEF SessionOK
  <2>5. HoldOK(n, phase[r], held[r], faults)
    BY <1>0, <1>1, <2>2, <2>3 DEF HoldOK
  <2>6. r \in tokenFailed \/ TokenOK(n, late[r], tokenTaken[r])
    BY <1>0, <1>1, <2>2, <2>3 DEF TokenOK
  <2> QED
    BY <1>2, <2>1, <2>4, <2>5, <2>6, SessionStep
<1> QED
  BY <1>3, <1>4 DEF Failed

\* The background refund returns the hold, or a fault is counted.
LEMMA RefundFundingKeeps == ASSUME Inv, NEW r \in Requests, RefundFunding(r) PROVE Inv'
<1> DEFINE s == session[r]
           n == [s EXCEPT !.pc = "restore"]
<1>0. /\ s \in Session /\ SessionOK(s) /\ HoldOK(s, phase[r], held[r], faults)
      /\ r \in tokenFailed \/ TokenOK(s, late[r], tokenTaken[r])
      /\ faults \in 0..MaxFaults
  BY Current
<1>1. s.pc = "refund" /\ s.plan \in Plans /\ s.pre \in Nat
  BY <1>0 DEF RefundFunding, At, SessionOK, Session
<1>2. n \in Session /\ Become(r, n)
  BY <1>0, MoveType DEF Pc, Move, RefundFunding
<1>3. /\ n.pc = "restore" /\ n.plan = s.plan /\ n.pre = s.pre /\ n.consumed = s.consumed
      /\ n.leak = s.leak /\ n.token = s.token /\ n.kind = s.kind
  BY <1>0 DEF Session
<1> HIDE DEF n
<1>4. SessionOK(n)
  BY <1>0, <1>1, <1>3 DEF SessionOK
<1>5. r \in tokenFailed \/ TokenOK(n, late[r], tokenTaken[r])
  BY <1>0, <1>1, <1>3 DEF TokenOK
<1>6. UNCHANGED <<lateVars, tokenVars>>
  BY DEF RefundFunding
<1>7. CASE phase[r] = "active" /\ Escrow!Return(r) /\ UNCHANGED faults
  <2>1. HoldOK(n, "refunded", 0, faults)
    BY <1>0, <1>1, <1>3, <1>7 DEF HoldOK
  <2>2. owner[r] \in Sources /\ "refunded" \in Phases /\ 0 \in Nat
    BY DEF Inv, TypeOK, Phases
  <2>3. Escrow!Move(r, owner[r], 0, "refunded") /\ UNCHANGED owner
    BY <1>7 DEF Escrow!Return
  <2>4. UNCHANGED <<lateVars, tokenVars, faults>>
    BY <1>6, <1>7
  <2> QED
    BY <1>2, <1>4, <1>5, <2>1, <2>2, <2>3, <2>4, LedgerStep
<1>8. CASE phase[r] # "active" /\ UNCHANGED <<ledgerVars, faults>>
  <2>1. HoldOK(n, phase[r], held[r], faults)
    BY <1>0, <1>1, <1>3, <1>8 DEF HoldOK
  <2> QED
    BY <1>2, <1>4, <1>5, <1>6, <1>8, <2>1, SessionStep
<1>9. CASE Fault /\ UNCHANGED ledgerVars
  <2>1. faults' # 0
    BY <1>0, <1>9, SessionAssumption DEF Fault
  <2>2. HoldOK(n, phase[r], held[r], faults')
    BY <1>0, <1>1, <1>3, <2>1 DEF HoldOK
  <2> QED
    BY <1>2, <1>4, <1>5, <1>6, <1>9, <2>2, SessionStep
<1> QED
  BY <1>7, <1>8, <1>9 DEF RefundFunding

\* The background refund returns what the token gave, or the token is marked
\* as failed.
LEMMA RefundTokenKeeps == ASSUME Inv, NEW r \in Requests, RefundToken(r) PROVE Inv'
<1> DEFINE s == session[r]
           n == [s EXCEPT !.pc = "done", !.outcome = "refunded"]
<1>0. /\ s \in Session /\ SessionOK(s) /\ HoldOK(s, phase[r], held[r], faults)
      /\ r \in tokenFailed \/ TokenOK(s, late[r], tokenTaken[r])
      /\ phase[r] \in Phases /\ late[r] \in Nat /\ tokenTaken[r] \in Int
  BY Current
<1>1. /\ s.pc = "restore" /\ s.plan \in Plans /\ s.token \in Nat /\ -s.token \in Int
  BY <1>0 DEF RefundToken, At, SessionOK, Session
<1>2. n \in Session /\ Become(r, n)
  BY <1>0, EndType DEF RefundToken, End
<1>3. n.pc = "done" /\ n.outcome = "refunded" /\ n.plan = s.plan /\ n.kind = s.kind
  BY <1>0 DEF Session
<1> HIDE DEF n
<1>4. SessionOK(n)
  BY <1>1, <1>3 DEF SessionOK
<1>5. HoldOK(n, phase[r], held[r], faults)
  BY <1>0, <1>1, <1>3 DEF HoldOK, Phases
<1>6. r \in tokenFailed \/ TokenOK(n, late[r], tokenTaken[r] + (-s.token))
  BY <1>0, <1>1, <1>3 DEF TokenOK
<1> QED
  BY <1>1, <1>2, <1>3, <1>4, <1>5, <1>6, TokenStep DEF RefundToken

-----------------------------------------------------------------------------
(* Around the requests. *)

\* The sweeper finds a hold of a session that is under way or that was lost,
\* never one that was paid or refused.
LEMMA SweepKeeps == ASSUME Inv, NEW r \in Requests, Sweep(r) PROVE Inv'
<1> DEFINE s == session[r]
<1>0. /\ s \in Session /\ SessionOK(s) /\ HoldOK(s, phase[r], held[r], faults)
      /\ r \in tokenFailed \/ TokenOK(s, late[r], tokenTaken[r])
  BY Current
<1>1. phase[r] = "active" /\ Escrow!Return(r) /\ UNCHANGED <<lateVars, tokenVars, faults>>
  BY DEF Sweep
<1>2. Become(r, s)
  BY DEF Sweep, Become, Inv, TypeOK
<1>3. HoldOK(s, "refunded", 0, faults)
  BY <1>0, <1>1 DEF HoldOK
<1>4. owner[r] \in Sources /\ "refunded" \in Phases /\ 0 \in Nat
  BY DEF Inv, TypeOK, Phases
<1>5. Escrow!Move(r, owner[r], 0, "refunded") /\ UNCHANGED owner
  BY <1>1 DEF Escrow!Return
<1> QED
  BY <1>0, <1>1, <1>2, <1>3, <1>4, <1>5, LedgerStep

\* A crash moves every session that is under way.
LEMMA CrashKeeps == ASSUME Inv, Crash PROVE Inv'
<1>0. TypeOK
  BY DEF Inv
<1>1. UNCHANGED <<ledgerVars, lateVars, tokenVars>>
  BY DEF Crash
<1>2. faults \in Nat /\ faults' \in Nat /\ faults <= faults' /\ faults' \in 0..MaxFaults
  <2>1. faults \in 0..MaxFaults /\ MaxFaults \in Nat /\ faults < MaxFaults
        /\ faults' = faults + 1
    BY <1>0, SessionAssumption DEF TypeOK, Crash, Fault
  <2> QED
    BY <2>1
<1>3. ASSUME NEW r \in Requests
      PROVE  /\ session'[r] \in Session /\ SessionOK(session'[r])
             /\ HoldOK(session'[r], phase[r], held[r], faults')
             /\ r \in tokenFailed \/ TokenOK(session'[r], late[r], tokenTaken[r])
  <2> DEFINE s == session[r]
             n == [s EXCEPT !.pc = "done", !.outcome = "lost"]
  <2>0. /\ s \in Session /\ SessionOK(s) /\ HoldOK(s, phase[r], held[r], faults)
        /\ r \in tokenFailed \/ TokenOK(s, late[r], tokenTaken[r])
    BY Current
  <2>1. CASE s.pc \in {"new", "done"}
    <3>1. session'[r] = s
      BY <2>1 DEF Crash
    <3>2. HoldOK(s, phase[r], held[r], faults')
      BY <1>2, <2>0, HoldMonotone
    <3> QED
      BY <2>0, <3>1, <3>2
  <2>2. CASE s.pc \notin {"new", "done"}
    <3>1. session'[r] = n
      BY <2>2 DEF Crash
    <3>2. n \in Session
      BY <2>0, EndType
    <3>3. n.pc = "done" /\ n.outcome = "lost" /\ n.plan = s.plan
      BY <2>0 DEF Session
    <3> HIDE DEF n
    <3>4. SessionOK(n)
      BY <2>0, <2>2, <3>3 DEF SessionOK
    <3>5. HoldOK(n, phase[r], held[r], faults') /\ TokenOK(n, late[r], tokenTaken[r])
      BY <3>3 DEF HoldOK, TokenOK
    <3> QED
      BY <3>1, <3>2, <3>4, <3>5
  <2> QED
    BY <2>1, <2>2
<1>4. session' \in [Requests -> Session]
  <2>1. session' = [r \in Requests |-> session'[r]]
    BY DEF Crash
  <2> QED
    BY <1>3, <2>1
<1>5. TypeOK'
  BY <1>0, <1>1, <1>2, <1>4 DEF TypeOK, ledgerVars, lateVars, tokenVars
<1>6. SessionInv' /\ HoldInv' /\ TokenInv'
  BY <1>1, <1>3 DEF SessionInv, HoldInv, TokenInv, ledgerVars, lateVars, tokenVars
<1> QED
  BY <1>5, <1>6 DEF Inv
-----------------------------------------------------------------------------
\* Before any request arrives, nothing is held or taken.
LEMMA InitInv == Init => Inv
<1> SUFFICES ASSUME Init PROVE Inv
  OBVIOUS
<1> DEFINE s0 == [pc |-> "new", kind |-> "api", plan |-> <<>>, quota |-> 0, seen |-> 0,
                  need |-> 0, then |-> "new", pre |-> 0, consumed |-> 0, token |-> 0,
                  trusted |-> FALSE, usage |-> 0, leak |-> 0, outcome |-> "none"]
<1>1. s0 \in Session
  BY DEF Session, Pc, Kind
<1>2. /\ s0.pc = "new" /\ s0.kind = "api" /\ s0.pre = 0 /\ s0.leak = 0 /\ s0.consumed = 0
      /\ s0.token = 0
  OBVIOUS
<1>3. session = [r \in Requests |-> s0]
  BY DEF Init
<1> HIDE DEF s0
<1>4. TypeOK
  <2>1. funds \in [Sources -> Int] /\ owner \in [Requests -> Sources]
    BY SessionAssumption DEF Init, Sources
  <2>2. phase \in [Requests -> {"none", "active", "settled", "refunded"}]
    BY DEF Init
  <2>3. /\ held \in [Requests -> Nat] /\ late \in [Requests -> Nat]
        /\ tokenTaken \in [Requests -> Int]
    BY DEF Init
  <2>4. /\ keys \subseteq Requests \X Nat /\ tokenFailed \subseteq Requests
        /\ remain \in Int /\ faults \in 0..MaxFaults
    BY SessionAssumption DEF Init
  <2> QED
    BY <1>1, <1>3, <2>1, <2>2, <2>3, <2>4 DEF TypeOK
<1>5. SessionInv
  <2>1. SessionOK(s0)
    BY <1>2 DEF SessionOK
  <2> QED
    BY <1>3, <2>1 DEF SessionInv
<1>6. HoldInv
  BY <1>2, <1>3 DEF HoldInv, HoldOK, Init
<1>7. TokenInv
  BY <1>2, <1>3 DEF TokenInv, TokenOK, Init
<1> QED
  BY <1>4, <1>5, <1>6, <1>7 DEF Inv

\* One step, action by action.
LEMMA StepInv == Inv /\ [Next]_vars => Inv'
<1> SUFFICES ASSUME Inv, [Next]_vars PROVE Inv'
  OBVIOUS
<1>1. CASE UNCHANGED vars
  BY <1>1 DEF vars, ledgerVars, lateVars, tokenVars, Inv, TypeOK, SessionInv, HoldInv, TokenInv
<1>2. CASE Crash
  BY <1>2, CrashKeeps
<1>3. ASSUME NEW r \in Requests,
             \/ Arrive(r) \/ TryWallet(r) \/ TrySubscription(r)
             \/ CheckToken(r) \/ DebitToken(r) \/ DebitTokenFails(r)
             \/ Fund(r) \/ FundFails(r) \/ UndoToken(r)
      PROVE  Inv'
  BY <1>3, ArriveKeeps, TryWalletKeeps, TrySubscriptionKeeps, CheckTokenKeeps,
     DebitTokenKeeps, DebitTokenFailsKeeps, FundKeeps, FundFailsKeeps, UndoTokenKeeps
<1>4. ASSUME NEW r \in Requests, NEW q \in Quotas, Reserve(r, q)
      PROVE  Inv'
  BY <1>4, ReserveKeeps
<1>5. ASSUME NEW r \in Requests, NEW q \in Quotas \cup {0, session[r].need},
             ConsumeUsage(r, q)
      PROVE  Inv'
  <2>1. q \in Nat
    <3>1. session[r] \in Session
      BY Current
    <3>2. session[r].need \in Nat
      BY <3>1 DEF Session
    <3> QED
      BY <3>2, SessionAssumption
  <2> QED
    BY <1>5, <2>1, ConsumeUsageKeeps
<1>6. ASSUME NEW r \in Requests, NEW actual \in Quotas \cup {session[r].usage},
             Answered(r, actual)
      PROVE  Inv'
  <2>1. actual \in Nat
    BY Current, SessionAssumption DEF Session
  <2> QED
    BY <1>6, <2>1, AnsweredKeeps
<1>7. ASSUME NEW r \in Requests,
             \/ ShrinkHold(r) \/ ConsumeUsageToken(r)
             \/ SettleFunding(r) \/ SettleFundingFails(r) \/ SettleToken(r)
             \/ Failed(r) \/ RefundFunding(r) \/ RefundToken(r)
             \/ Sweep(r)
      PROVE  Inv'
  BY <1>7, ShrinkHoldKeeps, ConsumeUsageTokenKeeps, SettleFundingKeeps,
     SettleFundingFailsKeeps, SettleTokenKeeps, FailedKeeps, RefundFundingKeeps,
     RefundTokenKeeps, SweepKeeps
<1> QED
  BY <1>1, <1>2, <1>3, <1>4, <1>5, <1>6, <1>7 DEF Next

\* The inductive invariant holds in every state the billing sessions reach.
THEOREM Invariance == Spec => []Inv
  BY InitInv, StepInv, PTL DEF Spec

\* Every variable keeps its type: in particular no session ever believes to
\* hold, or to have taken from the token, a negative amount, although
\* rollbackFundingReserve and Settle subtract.
THEOREM TypeCorrect == Spec => []TypeOK
<1>1. Inv => TypeOK
  BY DEF Inv
<1> QED
  BY <1>1, Invariance, PTL

\* A request that BillingSession.Settle has settled has paid its price once.
THEOREM SettledHasPaid == Spec => []PaidIsPrice
<1>1. Inv => PaidIsPrice
  <2> SUFFICES ASSUME Inv, NEW r \in Requests, Over(r, "paid")
               PROVE  phase[r] = "settled" /\ held[r] = session[r].usage + session[r].leak
    BY DEF PaidIsPrice
  <2>1. HoldOK(session[r], phase[r], held[r], faults)
    BY Current
  <2> QED
    BY <2>1 DEF HoldOK, Over
<1> QED
  BY <1>1, Invariance, PTL

\* Token and funding source agree on what a settled, refunded or refused
\* request has cost, unless a change of the token was lost.
THEOREM TokenAgrees == Spec => []TokenFollowsFunding
<1>1. Inv => TokenFollowsFunding
  <2> SUFFICES ASSUME Inv, NEW r \in Requests, r \notin tokenFailed, HasToken(r)
               PROVE  /\ Over(r, "paid") => tokenTaken[r] = session[r].usage + late[r]
                      /\ Over(r, "refunded") \/ Over(r, "refused") => tokenTaken[r] = late[r]
    BY DEF TokenFollowsFunding
  <2>1. TokenOK(session[r], late[r], tokenTaken[r])
    BY Current
  <2> QED
    BY <2>1 DEF TokenOK, Over, HasToken
<1> QED
  BY <1>1, Invariance, PTL

\* A failed or refused request leaves no hold behind, whatever sources
\* NewBillingSession has tried.
THEOREM RefundIsComplete == Spec => []NothingIsLeftHeld
<1>1. Inv => NothingIsLeftHeld
  <2> SUFFICES ASSUME Inv, NEW r \in Requests
               PROVE  /\ Over(r, "refused") => phase[r] = "none"
                      /\ Over(r, "refunded") /\ faults = 0 => phase[r] \in {"none", "refunded"}
    BY DEF NothingIsLeftHeld
  <2>1. HoldOK(session[r], phase[r], held[r], faults)
    BY Current
  <2> QED
    BY <2>1 DEF HoldOK, Over
<1> QED
  BY <1>1, Invariance, PTL

\* The belief that Settle and Reserve compute from is the ledger's hold.
THEOREM BeliefIsRight == Spec => []BeliefMatchesLedger
<1>1. Inv => BeliefMatchesLedger
  <2> SUFFICES ASSUME Inv, NEW r \in Requests, phase[r] = "active", ~At(r, "done")
               PROVE  /\ session[r].consumed = held[r]
                      /\ session[r].pc \in {"serving", "settle", "refund"} =>
                            held[r] = session[r].pre + session[r].leak
    BY DEF BeliefMatchesLedger
  <2>1. /\ session[r] \in Session /\ SessionOK(session[r])
        /\ HoldOK(session[r], phase[r], held[r], faults)
    BY Current
  <2>2. session[r].pc \notin {"adjust", "done"}
    BY <2>1 DEF At, HoldOK, SessionOK
  <2>3. session[r].pre \in Nat /\ session[r].leak \in Nat
    BY <2>1 DEF Session
  <2> QED
    BY <2>1, <2>2, <2>3 DEF HoldOK, SessionOK
<1> QED
  BY <1>1, Invariance, PTL
-----------------------------------------------------------------------------
(* The sessions use the ledgers as WalletEscrow allows. *)

\* What a step of a session does to the ledgers is one step of WalletEscrow,
\* or none.
LEMMA SessionsUseEscrow == Inv /\ [Next]_vars => [Escrow!Next]_Escrow!vars
<1> SUFFICES ASSUME Inv, [Next]_vars PROVE Escrow!Next \/ UNCHANGED Escrow!vars
  OBVIOUS
<1>0. TypeOK
  BY DEF Inv
<1>1. CASE UNCHANGED ledgerVars
  BY <1>1 DEF ledgerVars, Escrow!vars
<1>2. ASSUME NEW r \in Requests, NEW u \in Sources, NEW amount \in Nat,
             NEW to \in {"active", "settled"}, Escrow!Open(r, u, amount, to)
      PROVE  Escrow!Next
  BY <1>2 DEF Escrow!Next
<1>3. ASSUME NEW r \in Requests, NEW amount \in Nat,
             Escrow!Adjust(r, amount) \/ Escrow!Charge(r, amount)
      PROVE  Escrow!Next
  BY <1>3 DEF Escrow!Next
<1>4. ASSUME NEW r \in Requests, Escrow!Return(r)
      PROVE  Escrow!Next
  BY <1>4 DEF Escrow!Next
<1>5. ASSUME NEW r \in Requests, Fund(r)
      PROVE  Escrow!Next
  <2>1. session[r] \in Session /\ SessionOK(session[r])
    BY Current
  <2>2. session[r].need \in Nat /\ Source(r) \in Sources
    BY <1>5, <2>1, PlanFacts DEF Fund, At, Session, SessionOK, Source
  <2> QED
    BY <1>2, <1>5, <2>2 DEF Fund
<1>6. ASSUME NEW r \in Requests, NEW q \in Quotas, Reserve(r, q)
      PROVE  Escrow!Next
  <2> DEFINE h == session[r].consumed + q - session[r].pre
  <2>1. h \in Nat
    <3>1. session[r] \in Session
      BY Current
    <3>2. session[r].consumed \in Nat /\ session[r].pre \in Nat
      BY <3>1 DEF Session
    <3>3. q \in Nat /\ q > session[r].pre
      BY <1>6, SessionAssumption DEF Reserve
    <3> QED
      BY <3>2, <3>3
  <2>2. Escrow!Adjust(r, h)
    BY <1>6 DEF Reserve
  <2> HIDE DEF h
  <2> QED
    BY <1>3, <2>1, <2>2
<1>7. ASSUME NEW r \in Requests, ShrinkHold(r), ~UNCHANGED ledgerVars
      PROVE  Escrow!Next
  <2> DEFINE h == session[r].consumed - session[r].need
  <2>1. h \in Nat
    <3>1. session[r] \in Session /\ SessionOK(session[r]) /\ session[r].pc = "shrink"
      BY <1>7, Current DEF ShrinkHold, At
    <3>2. /\ session[r].consumed \in Nat /\ session[r].pre \in Nat
          /\ session[r].leak \in Nat /\ session[r].need \in Nat
      BY <3>1 DEF Session
    <3>3. session[r].consumed = session[r].pre + session[r].leak + session[r].need
      BY <3>1 DEF SessionOK
    <3> QED
      BY <3>2, <3>3
  <2>2. Escrow!Adjust(r, h)
    BY <1>7 DEF ShrinkHold
  <2> HIDE DEF h
  <2> QED
    BY <1>3, <2>1, <2>2
<1>8. ASSUME NEW r \in Requests, NEW q \in Quotas \cup {0, session[r].need},
             ConsumeUsage(r, q), ~UNCHANGED ledgerVars
      PROVE  Escrow!Next
  <2>1. q \in Nat
    <3>1. session[r] \in Session
      BY Current
    <3>2. session[r].need \in Nat
      BY <3>1 DEF Session
    <3> QED
      BY <3>2, SessionAssumption
  <2>2. session[r].pc # "new"
    BY <1>8 DEF ConsumeUsage
  <2>3. Source(r) \in Sources
    BY <2>2, Current, PlanFacts DEF SessionOK, Source
  <2>4. /\ Escrow!Covers(Source(r), q)
        /\ funds' = [funds EXCEPT ![Source(r)] = @ - q]
        /\ UNCHANGED <<phase, owner, held>>
    BY <1>8 DEF ConsumeUsage
  <2>5. funds \in [Sources -> Int]
    BY <1>0 DEF TypeOK
  <2>6. funds' \in [Sources -> Int]
    BY <2>1, <2>3, <2>4, <2>5
  <2>7. ASSUME NEW u \in Sources, funds'[u] < funds[u]
        PROVE  funds'[u] >= 0
    <3>1. CASE u = Source(r)
      BY <2>1, <2>4, <2>5, <2>7, <3>1 DEF Escrow!Covers
    <3>2. CASE u # Source(r)
      BY <2>4, <2>5, <2>7, <3>2
    <3> QED
      BY <3>1, <3>2
  <2>8. Escrow!Other
    BY <2>4, <2>6, <2>7 DEF Escrow!Other
  <2> QED
    BY <2>8 DEF Escrow!Next
<1>9. ASSUME NEW r \in Requests, SettleFunding(r)
      PROVE  Escrow!Next
  <2> DEFINE s == session[r]
             h == s.consumed + (s.usage - s.pre)
  <2>1. s \in Session /\ SessionOK(s) /\ s.pc = "settle"
    BY <1>9, Current DEF SettleFunding, At
  <2>2. h \in Nat
    BY <2>1 DEF Session, SessionOK
  <2>3. "wallet" \in Sources
    BY DEF Sources
  <2>4. Escrow!Charge(r, h) \/ Escrow!Open(r, "wallet", h, "settled")
    BY <1>9 DEF SettleFunding
  <2> HIDE DEF h
  <2> QED
    BY <1>2, <1>3, <2>2, <2>3, <2>4
<1>10. ASSUME NEW r \in Requests, RefundFunding(r) \/ Sweep(r), ~UNCHANGED ledgerVars
       PROVE  Escrow!Next
  <2>1. Escrow!Return(r)
    BY <1>10 DEF RefundFunding, Sweep, ledgerVars
  <2> QED
    BY <1>4, <2>1
<1>11. ASSUME NEW r \in Requests,
              \/ Arrive(r) \/ TryWallet(r) \/ TrySubscription(r)
              \/ CheckToken(r) \/ DebitToken(r) \/ DebitTokenFails(r)
              \/ FundFails(r) \/ UndoToken(r) \/ ConsumeUsageToken(r)
       PROVE  UNCHANGED ledgerVars
  BY <1>11 DEF Arrive, TryWallet, TrySubscription, CheckToken, DebitToken, DebitTokenFails,
     FundFails, UndoToken, ConsumeUsageToken
<1>12. ASSUME NEW r \in Requests,
              \/ SettleFundingFails(r) \/ SettleToken(r) \/ Failed(r) \/ RefundToken(r)
              \/ \E actual \in Quotas \cup {session[r].usage} : Answered(r, actual)
       PROVE  UNCHANGED ledgerVars
  BY <1>12 DEF SettleFundingFails, SettleToken, Failed, RefundToken, Answered
<1>13. CASE Crash \/ UNCHANGED vars
  BY <1>1, <1>13 DEF Crash, vars
<1> QED
  BY <1>1, <1>5, <1>6, <1>7, <1>8, <1>9, <1>10, <1>11, <1>12, <1>13 DEF Next

\* Sessions, sweeper and crashes together implement WalletEscrow: the quota of
\* a request is taken once, by PreConsume or by the charge of a request
\* without a hold, and is then charged or returned, never both.
THEOREM ImplementsEscrow == Spec => Escrow!Spec
<1>1. Init => Escrow!Init
  BY SessionAssumption DEF Init, Escrow!Init
<1> QED
  BY <1>1, SessionsUseEscrow, Invariance, PTL DEF Spec, Escrow!Spec
=============================================================================
