---------------------------- MODULE BillingSession ----------------------------
(***************************************************************************)
(* The billing session of a relay request (service/billing_session.go,     *)
(* service/funding_source.go and their caller controller/relay.go): quota  *)
(* is taken from the API token and from a funding source before the        *)
(* upstream is called, and both are settled or given back afterwards, in   *)
(* separate transactions.                                                  *)
(* The funding ledgers are used through what they promise: WalletEscrow,   *)
(* with the two funding sources in the place of the users.  QuotaLedger    *)
(* shows that the wallet keeps that promise.                               *)
(***************************************************************************)
EXTENDS Integers, Sequences

CONSTANTS
    Requests,
    Kinds,          \* the kinds of request there are
    Quotas,         \* what a request may need or use
    MaxUsage,       \* bound: what a websocket request uses in all
    Funds,          \* each source's quota at the start
    TokenQuota,     \* the token's quota at the start
    TokenUnlimited,
    TrustQuota,     \* GetTrustQuota(); 0 turns trusting off
    MaxFaults       \* bound: failing database calls and crashes

Sources == {"wallet", "subscription"}

\* A request of the playground has no token; a task is never trusted
\* (ForcePreConsume); a websocket request is charged while it runs.
Kind == {"api", "playground", "task", "realtime"}

ASSUME SessionAssumption ==
    /\ Kinds \subseteq Kind
    /\ Quotas \subseteq Nat
    /\ Funds \in [Sources -> Nat]
    /\ TokenQuota \in Nat /\ TrustQuota \in Nat /\ MaxUsage \in Nat /\ MaxFaults \in Nat
    /\ TokenUnlimited \in BOOLEAN

VARIABLES
    funds, phase, owner, held,  \* the funding ledgers
    keys,           \* the idempotency keys of late charges
    late,           \* what late charges have taken for each request
    remain,         \* the token's remain_quota
    session,        \* the session of each request, and where it stands
    faults,         \* the faults so far
    tokenTaken,     \* what each request has taken from the token, net
    tokenFailed     \* the requests a change of the token was lost for

ledgerVars == <<funds, phase, owner, held>>
lateVars == <<keys, late>>
tokenVars == <<remain, tokenTaken, tokenFailed>>
vars == <<ledgerVars, lateVars, tokenVars, session, faults>>

Escrow == INSTANCE WalletEscrow WITH Users <- Sources, Amounts <- Nat

\* NormalizeBillingPreference and the choice of NewBillingSession: the sources
\* in the order they are tried.
Plans == {<<"wallet">>, <<"subscription">>, <<"wallet", "subscription">>,
          <<"subscription", "wallet">>}

Pc == {"new", "choose", "check", "debit", "fund", "undo", "serving", "shrink",
       "late", "closing", "local", "settle", "adjust", "refund", "restore", "done"}

\* quota: the estimate; seen: the token's quota as authentication saw it;
\* need: what is being taken from the token; then: where a websocket request
\* goes on after that; pre: preConsumedQuota; consumed: what the funding source
\* object believes it holds; token: tokenConsumed.
Session == [pc : Pc, kind : Kind, plan : Plans \cup {<<>>}, quota : Nat, seen : Int, need : Nat,
            then : Pc, pre : Nat, consumed : Nat, token : Nat, trusted : BOOLEAN, usage : Nat,
            leak : Nat,
            outcome : {"none", "refused", "paid", "unpaid", "refunded", "lost"}]

TypeOK ==
    /\ funds \in [Sources -> Int]
    /\ phase \in [Requests -> {"none", "active", "settled", "refunded"}]
    /\ owner \in [Requests -> Sources]
    /\ held \in [Requests -> Nat]
    /\ keys \subseteq Requests \X Nat
    /\ late \in [Requests -> Nat]
    /\ remain \in Int
    /\ session \in [Requests -> Session]
    /\ faults \in 0..MaxFaults
    /\ tokenTaken \in [Requests -> Int]
    /\ tokenFailed \subseteq Requests

Init ==
    /\ funds = Funds
    /\ phase = [r \in Requests |-> "none"]
    /\ owner = [r \in Requests |-> "wallet"]
    /\ held = [r \in Requests |-> 0]
    /\ keys = {}
    /\ late = [r \in Requests |-> 0]
    /\ remain = TokenQuota
    /\ session = [r \in Requests |->
            [pc |-> "new", kind |-> "api", plan |-> <<>>, quota |-> 0, seen |-> 0,
             need |-> 0, then |-> "new", pre |-> 0, consumed |-> 0, token |-> 0,
             trusted |-> FALSE, usage |-> 0, leak |-> 0, outcome |-> "none"]]
    /\ faults = 0
    /\ tokenTaken = [r \in Requests |-> 0]
    /\ tokenFailed = {}
-----------------------------------------------------------------------------
At(r, pc) == session[r].pc = pc
Become(r, s) == session' = [session EXCEPT ![r] = s]
Move(r, pc) == Become(r, [session[r] EXCEPT !.pc = pc])
End(r, outcome) == Become(r, [session[r] EXCEPT !.pc = "done", !.outcome = outcome])

\* The source of the session under way.
Source(r) == Head(session[r].plan)

HasToken(r) == session[r].kind # "playground"
IsRealtime(r) == session[r].kind = "realtime"

\* A database call fails.
Fault ==
    /\ faults < MaxFaults
    /\ faults' = faults + 1

\* DecreaseTokenQuota and IncreaseTokenQuota: no condition on what is left.
\* The playground has no token.
ChangeToken(r, amount) ==
    /\ IF HasToken(r)
       THEN /\ remain' = remain - amount
            /\ tokenTaken' = [tokenTaken EXCEPT ![r] = @ + amount]
       ELSE UNCHANGED <<remain, tokenTaken>>
    /\ UNCHANGED <<tokenFailed, faults>>

\* The same call when it fails and is only logged.
LoseToken(r) ==
    /\ HasToken(r)
    /\ Fault
    /\ tokenFailed' = tokenFailed \cup {r}
    /\ UNCHANGED <<remain, tokenTaken>>
-----------------------------------------------------------------------------
(* Taking quota before the upstream is called. *)

\* The token is authenticated, its quota noted, and the price estimated.  The
\* playground makes up a token without any quota.
Arrive(r) ==
    /\ At(r, "new")
    /\ \E kind \in Kinds, plan \in Plans, quota \in Quotas :
        /\ kind = "playground" \/ TokenUnlimited \/ remain > 0
        /\ Become(r, [session[r] EXCEPT !.pc = "choose", !.kind = kind, !.plan = plan,
                                        !.quota = quota,
                                        !.seen = IF kind = "playground" THEN 0 ELSE remain])
    /\ UNCHANGED <<ledgerVars, lateVars, tokenVars, faults>>

\* The source had too little quota: the next of the plan is tried, if any.
NextSource(r, s) ==
    IF Len(s.plan) > 1 THEN [s EXCEPT !.pc = "choose", !.plan = Tail(@)]
                       ELSE [s EXCEPT !.pc = "done", !.outcome = "refused"]

\* shouldTrust, with the quota of the wallet just read.
ShouldTrust(r) ==
    /\ session[r].kind # "task"
    /\ TrustQuota > 0
    /\ (HasToken(r) /\ TokenUnlimited) \/ session[r].seen > TrustQuota
    /\ Source(r) = "wallet"
    /\ funds["wallet"] > TrustQuota

\* tryWallet up to preConsume: a wallet that cannot pay is given up before
\* anything is taken; a trusted request takes nothing.
TryWallet(r) ==
    LET s == session[r]
        need == IF ShouldTrust(r) THEN 0 ELSE s.quota
    IN
    /\ At(r, "choose") /\ Source(r) = "wallet"
    /\ Become(r, IF funds["wallet"] <= 0 \/ funds["wallet"] < s.quota
                 THEN NextSource(r, s)
                 ELSE [s EXCEPT !.need = need, !.trusted = ShouldTrust(r),
                                !.pc = IF need > 0 THEN "check" ELSE "serving"])
    /\ UNCHANGED <<ledgerVars, lateVars, tokenVars, faults>>

\* trySubscription: at least one unit is taken.
TrySubscription(r) ==
    LET s == session[r] IN
    /\ At(r, "choose") /\ Source(r) = "subscription"
    /\ Become(r, [s EXCEPT !.pc = "check", !.need = IF s.quota > 0 THEN s.quota ELSE 1])
    /\ UNCHANGED <<ledgerVars, lateVars, tokenVars, faults>>

\* PreConsumeTokenQuota reads the token ...
CheckToken(r) ==
    LET s == session[r] IN
    /\ At(r, "check")
    /\ IF HasToken(r) => TokenUnlimited \/ remain >= s.need
       THEN Move(r, "debit")
       ELSE IF s.pre = 0 THEN End(r, "refused") ELSE Move(r, "shrink")
    /\ UNCHANGED <<ledgerVars, lateVars, tokenVars, faults>>

\* ... and decreases it later.  A first hold goes on to the funding source; a
\* larger one (Reserve), whose funding is done, is complete.
DebitToken(r) ==
    LET s == session[r] IN
    /\ At(r, "debit")
    /\ ChangeToken(r, s.need)
    /\ Become(r, IF s.pre = 0
                 THEN [s EXCEPT !.pc = "fund", !.token = s.need]
                 ELSE [s EXCEPT !.pc = "serving", !.pre = @ + s.need, !.token = @ + s.need])
    /\ UNCHANGED <<ledgerVars, lateVars>>

\* A failing decrease fails the request, or rolls the larger hold back.
DebitTokenFails(r) ==
    /\ At(r, "debit") /\ HasToken(r)
    /\ Fault
    /\ IF session[r].pre = 0 THEN End(r, "refused") ELSE Move(r, "shrink")
    /\ UNCHANGED <<ledgerVars, lateVars, tokenVars>>

\* Faulty variant: the estimate is recorded, not what was taken.
FundRecordingQuota(r) ==
    LET s == session[r] IN
    /\ At(r, "fund")
    /\ Escrow!Open(r, Source(r), s.need, "active")
    /\ Become(r, [s EXCEPT !.pc = "serving", !.pre = s.quota, !.consumed = s.need])
    /\ UNCHANGED <<lateVars, tokenVars, faults>>

\* funding.PreConsume
Fund(r) ==
    LET s == session[r] IN
    /\ At(r, "fund")
    /\ Escrow!Open(r, Source(r), s.need, "active")
    /\ Become(r, [s EXCEPT !.pc = "serving", !.pre = s.need, !.consumed = s.need])
    /\ UNCHANGED <<lateVars, tokenVars, faults>>

\* It fails: the token is given back, unless that fails too, and the next
\* source is tried when quota was lacking.
FundFails(r) ==
    LET s == session[r] IN
    /\ At(r, "fund")
    /\ \/ /\ ~Escrow!Covers(Source(r), s.need)
          /\ Move(r, "undo")
          /\ UNCHANGED faults
       \/ /\ Fault
          /\ Become(r, [s EXCEPT !.pc = "undo", !.plan = <<Head(@)>>])
    /\ UNCHANGED <<ledgerVars, lateVars, tokenVars>>

UndoToken(r) ==
    LET s == session[r] IN
    /\ At(r, "undo")
    /\ ChangeToken(r, -s.token) \/ LoseToken(r)
    /\ Become(r, [NextSource(r, s) EXCEPT !.token = 0])
    /\ UNCHANGED <<ledgerVars, lateVars>>
-----------------------------------------------------------------------------
(* While the request is served. *)

\* Reserve: the hold grows first, then the token follows as above.
Reserve(r, target) ==
    LET s == session[r] IN
    /\ At(r, "serving")
    /\ ~s.trusted /\ target > s.pre /\ s.pre > 0
    /\ Escrow!Adjust(r, s.consumed + target - s.pre)
    /\ Become(r, [s EXCEPT !.pc = "check", !.need = target - s.pre,
                           !.consumed = @ + target - s.pre])
    /\ UNCHANGED <<lateVars, tokenVars, faults>>

\* Faulty variant: the session does not note that the hold is smaller again.
ShrinkHoldUnnoted(r) ==
    /\ At(r, "shrink")
    /\ Escrow!Adjust(r, session[r].consumed - session[r].need)
    /\ Move(r, "serving")
    /\ UNCHANGED <<lateVars, tokenVars, faults>>

\* rollbackFundingReserve; a failure leaves the larger hold, unknown to pre.
ShrinkHold(r) ==
    LET s == session[r] IN
    /\ At(r, "shrink")
    /\ \/ /\ Escrow!Adjust(r, s.consumed - s.need)
          /\ Become(r, [s EXCEPT !.pc = "serving", !.consumed = @ - s.need])
          /\ UNCHANGED faults
       \/ /\ Fault \/ (phase[r] # "active" /\ UNCHANGED faults)
          /\ Become(r, [s EXCEPT !.pc = "serving", !.leak = @ + s.need])
          /\ UNCHANGED ledgerVars
    /\ UNCHANGED <<lateVars, tokenVars>>

\* A websocket request charges its parts while it is served.  A part that
\* cannot be charged ends the conversation and is then tried, and counted, once
\* more; last comes, at any end, what was counted locally since the last part.
AfterPart(pc) ==
    CASE pc = "serving" -> [charged |-> "serving", failed |-> "closing"]
      [] pc = "closing" -> [charged |-> "local", failed |-> "local"]
      [] pc = "local"   -> [charged |-> "settle", failed |-> "settle"]

\* preConsumeUsage: the part is added to the usage and charged at once by
\* PostConsumeQuota, whose key is made of request and amount.
ConsumeUsage(r, quota) ==
    LET s == session[r]
        after == AfterPart(s.pc)
        Go(pc) == Become(r, [s EXCEPT !.usage = @ + quota, !.need = quota, !.pc = pc,
                                      !.then = after.failed])
        allowed == funds["wallet"] >= quota /\ (TokenUnlimited \/ remain >= quota)
        replayed == quota = 0 \/ <<r, quota>> \in keys
        covered == Escrow!Covers(Source(r), quota)
    IN
    /\ IsRealtime(r)
    /\ \/ s.pc \in {"serving", "local"} /\ s.usage + quota <= MaxUsage
       \/ s.pc = "closing" /\ quota = s.need
       \/ s.pc = "local" /\ quota = 0
    /\ \/ /\ ~allowed \/ (~replayed /\ ~covered)
          /\ Go(after.failed)
          /\ UNCHANGED <<ledgerVars, lateVars>>
       \/ /\ allowed /\ replayed
          /\ Go(after.charged)
          /\ UNCHANGED <<ledgerVars, lateVars>>
       \/ /\ allowed /\ ~replayed /\ covered
          /\ Go("late")
          /\ keys' = keys \cup {<<r, quota>>}
          /\ late' = [late EXCEPT ![r] = @ + quota]
          /\ funds' = [funds EXCEPT ![Source(r)] = @ - quota]
          /\ UNCHANGED <<phase, owner, held>>
    /\ UNCHANGED <<tokenVars, faults>>

\* The token follows; a failure counts as a failure of the part.
ConsumeUsageToken(r) ==
    LET s == session[r] IN
    /\ At(r, "late")
    /\ \/ /\ ChangeToken(r, s.need)
          /\ Move(r, IF s.then = "closing" THEN "serving" ELSE s.then)
       \/ LoseToken(r) /\ Move(r, s.then)
    /\ UNCHANGED <<ledgerVars, lateVars>>
-----------------------------------------------------------------------------
(* The end of the request. *)

\* The upstream has answered, and the answer has a price; a websocket
\* request's is the sum of its usage, and what was counted locally comes first.
Answered(r, actual) ==
    /\ At(r, "serving")
    /\ IF IsRealtime(r) THEN actual = session[r].usage ELSE actual \in Quotas
    /\ Become(r, [session[r] EXCEPT !.usage = actual,
                                    !.pc = IF IsRealtime(r) THEN "local" ELSE "settle"])
    /\ UNCHANGED <<ledgerVars, lateVars, tokenVars, faults>>

\* Faulty variant: the difference has the wrong sign.
SettleFundingNegated(r) ==
    LET s == session[r]
        delta == s.pre - s.usage
    IN
    /\ At(r, "settle")
    /\ \/ Escrow!Charge(r, s.consumed + delta)
       \/ /\ Source(r) = "wallet"
          /\ Escrow!Open(r, "wallet", s.consumed + delta, "settled")
    /\ Become(r, [s EXCEPT !.pc = "done", !.outcome = "paid"])
    /\ UNCHANGED <<lateVars, tokenVars, faults>>

\* BillingSession.Settle, first step: the funding source is brought from what
\* it believes to hold to the price.  A request without a hold is charged.
SettleFunding(r) ==
    LET s == session[r]
        delta == s.usage - s.pre
    IN
    /\ At(r, "settle")
    /\ \/ Escrow!Charge(r, s.consumed + delta)
       \/ /\ Source(r) = "wallet"
          /\ Escrow!Open(r, "wallet", s.consumed + delta, "settled")
    /\ Become(r, [s EXCEPT !.consumed = @ + delta,
                           !.pc = IF delta # 0 /\ HasToken(r) THEN "adjust" ELSE "done",
                           !.outcome = "paid"])
    /\ UNCHANGED <<lateVars, tokenVars, faults>>

\* It fails, because quota is lacking, the sweeper has returned the hold, or
\* the database does not answer: the error is logged and nobody tries again.
SettleFundingFails(r) ==
    LET s == session[r]
        price == s.consumed + s.usage - s.pre
    IN
    /\ At(r, "settle")
    /\ \/ /\ \/ phase[r] = "refunded"
             \/ ~Escrow!Covers(Source(r), price - held[r])
          /\ UNCHANGED faults
       \/ Fault
    /\ End(r, "unpaid")
    /\ UNCHANGED <<ledgerVars, lateVars, tokenVars>>

\* Second step: the token follows; if it cannot, that is logged.
SettleToken(r) ==
    LET s == session[r] IN
    /\ At(r, "adjust")
    /\ ChangeToken(r, s.usage - s.pre) \/ LoseToken(r)
    /\ Move(r, "done")
    /\ UNCHANGED <<ledgerVars, lateVars>>

\* Faulty variant: without a token there is nothing to give back.
FailedWithToken(r) ==
    LET s == session[r] IN
    /\ At(r, "serving")
    /\ s.usage = 0
    /\ IF s.token > 0 /\ HasToken(r) THEN Move(r, "refund") ELSE End(r, "refunded")
    /\ UNCHANGED <<ledgerVars, lateVars, tokenVars, faults>>

\* Every attempt has failed, which a websocket request can only do before it
\* is connected: Refund marks the session and leaves the rest to a goroutine,
\* if there is anything to give back (needsRefundLocked).
Failed(r) ==
    LET s == session[r] IN
    /\ At(r, "serving")
    /\ s.usage = 0
    /\ IF s.token > 0 \/ (Source(r) = "subscription" /\ s.consumed > 0)
       THEN Move(r, "refund")
       ELSE End(r, "refunded")
    /\ UNCHANGED <<ledgerVars, lateVars, tokenVars, faults>>

\* The goroutine: the funding source first, three times if need be ...
RefundFunding(r) ==
    /\ At(r, "refund")
    /\ \/ phase[r] = "active" /\ Escrow!Return(r) /\ UNCHANGED faults
       \/ phase[r] # "active" /\ UNCHANGED <<ledgerVars, faults>>
       \/ Fault /\ UNCHANGED ledgerVars
    /\ Move(r, "restore")
    /\ UNCHANGED <<lateVars, tokenVars>>

\* Faulty variant: the estimate is given back, not what was taken since.
RefundTokenEstimate(r) ==
    /\ At(r, "restore")
    /\ ChangeToken(r, -session[r].quota) \/ LoseToken(r)
    /\ End(r, "refunded")
    /\ UNCHANGED <<ledgerVars, lateVars>>

\* ... then the token.
RefundToken(r) ==
    /\ At(r, "restore")
    /\ ChangeToken(r, -session[r].token) \/ LoseToken(r)
    /\ End(r, "refunded")
    /\ UNCHANGED <<ledgerVars, lateVars>>
-----------------------------------------------------------------------------
(* Around the requests. *)

\* The sweeper returns a hold on the wallet that has outlived its time.
Sweep(r) ==
    /\ phase[r] = "active" /\ owner[r] = "wallet"
    /\ Escrow!Return(r)
    /\ UNCHANGED <<lateVars, tokenVars, session, faults>>

\* The process dies, and with it every session and goroutine.
Crash ==
    /\ Fault
    /\ session' = [r \in Requests |->
            IF session[r].pc \in {"new", "done"} THEN session[r]
            ELSE [session[r] EXCEPT !.pc = "done", !.outcome = "lost"]]
    /\ UNCHANGED <<ledgerVars, lateVars, tokenVars>>

Next ==
    \/ \E r \in Requests :
        \/ Arrive(r) \/ TryWallet(r) \/ TrySubscription(r)
        \/ CheckToken(r) \/ DebitToken(r) \/ DebitTokenFails(r)
        \/ Fund(r) \/ FundFails(r) \/ UndoToken(r)
        \/ \E q \in Quotas : Reserve(r, q)
        \/ \E q \in Quotas \cup {0, session[r].need} : ConsumeUsage(r, q)
        \/ ShrinkHold(r) \/ ConsumeUsageToken(r)
        \/ \E actual \in Quotas \cup {session[r].usage} : Answered(r, actual)
        \/ SettleFunding(r) \/ SettleFundingFails(r) \/ SettleToken(r)
        \/ Failed(r) \/ RefundFunding(r) \/ RefundToken(r)
        \/ Sweep(r)
    \/ Crash

Spec == Init /\ [][Next]_vars
-----------------------------------------------------------------------------
Over(r, outcome) == session[r].pc = "done" /\ session[r].outcome = outcome

\* A request that was settled has paid its price out of its hold, once: over
\* fallbacks from source to source, trusted requests, growing holds and sweeps.
\* (A hold whose growth could not be rolled back is charged in full; leak is
\* that part.)  What a websocket request has paid for its parts comes on top.
PaidIsPrice ==
    \A r \in Requests : Over(r, "paid") =>
        /\ phase[r] = "settled"
        /\ held[r] = session[r].usage + session[r].leak

\* The same for a websocket request, whose parts have been charged when their
\* usage became known ("this part has been billed", relay_realtime.go).
RealtimeIsPaidOnce ==
    \A r \in Requests : Over(r, "paid") /\ IsRealtime(r) =>
        held[r] + late[r] = session[r].usage + session[r].leak

\* The token has paid for what was used: a settled request has taken its price
\* and its late charges from it, a refunded or refused one only the latter,
\* although token and funding source are changed in separate transactions.
\* Excepted are lost changes of the token; a leaked part of the hold, which the
\* source has paid, is not taken from the token.
TokenFollowsFunding ==
    \A r \in {q \in Requests \ tokenFailed : HasToken(q)} :
        /\ Over(r, "paid") => tokenTaken[r] = session[r].usage + late[r]
        /\ Over(r, "refunded") \/ Over(r, "refused") => tokenTaken[r] = late[r]

\* A failed or refused request leaves no hold behind, whichever sources were
\* tried, unless some database call has failed; a crash leaves what it finds.
NothingIsLeftHeld ==
    \A r \in Requests :
        /\ Over(r, "refused") => phase[r] = "none"
        /\ Over(r, "refunded") /\ faults = 0 => phase[r] \in {"none", "refunded"}

\* What the session believes to hold is what the ledger holds for it: the
\* prices of Settle and the amounts of Reserve are computed from that belief.
BeliefMatchesLedger ==
    \A r \in Requests : phase[r] = "active" /\ ~At(r, "done") =>
        /\ session[r].consumed = held[r]
        /\ session[r].pc \in {"serving", "settle", "refund"} =>
              held[r] = session[r].pre + session[r].leak
=============================================================================
