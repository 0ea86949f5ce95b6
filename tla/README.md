# TLA+ models of prox (new-api)

prox is an AI-API gateway: it forwards requests to model providers, charges
users in *quota*, and runs community features that pay quota out. It has a web
console and a desktop application. This directory models the parts that move
quota, from the billing of one request to the ledgers and outboxes behind it,
and the two parts of the front ends that have concurrency of their own, the
chat playground and the desktop shell. TLC checks the models, and TLAPS proves
their safety properties for every value of the constants.

## The system

API nodes (slaves) serve traffic; one master runs scheduled jobs; all share a
PostgreSQL database and a Redis cache (`docs/architecture.md`). Nothing is kept
in the memory of a node that another node could see, so concurrency on the
server means database transactions of several nodes, interleaved, with crashes
between them. In the browser and in the desktop shell it means callbacks:
each runs to its end, and what it read may be stale by the time it runs.

| component | state | operations | what is hard |
| --- | --- | --- | --- |
| Wallet ledger (`model/user_quota_ledger.go`, `user_quota_maintenance.go`) | `users.quota`, `user_quota_reservations`, `user_quota_transactions` | reserve, resize, settle, refund a hold; keyed mutations; override; repair; expiry sweep | the sweep acts on a list read earlier; keys that are used up; rows of deleted users |
| Tasks and billing outbox (`service/task_polling.go`, `*/task_billing_operation.go`) | `tasks`, `task_billing_operations` | poll, refresh on request, progress, terminal transition with outbox row; claim, five steps, complete, retry | leases that end while their holder works; effect and flag in two transactions; stale polls; a refresh that does not ask for the status; payers that are gone |
| Subscription holds (`model/subscription.go`, `service/subscription_reset_task.go`) | `user_subscriptions`, pre-consume records, their journal | pre-consume, resize, settle, refund; adjust; period reset; edit of a plan; expiry; clean-up | a hold that outlives its period or its record; two parties reset the same rows, one from a stale list; rows bought under another period |
| Subscription orders and groups (`model/subscription.go`) | `subscription_orders`, `user_subscriptions`, `users.group` | complete or expire an order, bind, cancel, delete, expire | repeated and overlapping webhooks; group, purchase count and other subscriptions read without a lock and written about later |
| Billing session (`service/billing_session.go`, `funding_source.go`, `quota.go`) | one request's session; token quota | pre-consume token and funding, reserve more, charge a websocket request in parts, settle, refund in the background | several commits per call, each of which can fail; fallback between sources; trust on values read earlier |
| Playground (`web/default/src/features/playground`) | messages, stream sources, `localStorage` | send, regenerate, edit, delete, stop, reload; pieces, end and errors of a stream | handlers see the last render; streams write to the last message; tags in pieces |
| Desktop shell (`electron/main.js`, `main.go`) | child process, probes, windows, tray, dialogs | start, probe, show, hide, quit; drain on SIGTERM | crash before or during a quit; doubled retries; kill timer against drain |
| Budget pools, operations fund, rewards (`model/ops_fund.go`, `reward_ledger.go`) | pools by day, fund account, their journals | grant, reserve, consume, restore | two keyed journals for one mutation; the change of day |
| Scheduled jobs (`model/scheduled_job_execution.go`) | one row per job and day | claim, take over, complete, fail | work outside the fence |
| Community bot (`model/community_bot.go`) | message claims, room cursor, rewards | claim, complete, advance | redelivery, two nodes, lost completions |
| Quiz (`service/quiz_bank.go`) | draws, rounds, entries | draw, answer, close | one open round per scope |
| Channel routing (`model/channel_routing_health.go`) | cooldowns, failure counts | record failure or success, select | cooldown shared through Redis and kept locally |
| Rate limiting (`common/limiter`, `middleware`) | token buckets, windows | allow | boundary of a window |

The server's components interact through the database only: a request opens a billing
session, which takes a wallet or a subscription hold; a task keeps the hold's
charge and settles the difference through its outbox operation, whose funding
step is a keyed mutation of the wallet ledger or of a subscription; rewards
take quota from a pool and credit it with another keyed mutation.
PROJECT.json lists every component, also those that are not modelled, and every
hazard at its line.

## Modules

`QuotaLedger` models the wallet ledger. Each operation is one transaction that
locks what it reads, hence one action. A call that returns an error rolls back,
and a replay that passes validation changes nothing; both are stuttering steps
and have no action. `Post` is the debit or credit together with its journal row,
guarded by the balance and by the unique index on the idempotency key.
`booked[r]` is the sum over the journal rows of reservation `r`: the column the
reconciliation query computes. The sweeper is the one operation that is not
atomic: `ListExpired` reads a batch, `SweepRefund`, `SweepSkip` and `SweepFail`
handle its head by the three outcomes the loop distinguishes, `SweepCrash` loses
the batch. `RepairNegativeUserQuotas` is one transaction of the start-up repair.
`Delete` and `HardDeleteUserById` are the two ways an account goes away.

`WalletEscrow` is the abstract specification: a request's quota is in exactly
one place, and is taken once and then either charged or returned.
`QuotaLedger!Escrow` maps the ledger to it, with `held` the negated `booked`.

`BillingSession` models the billing of one request and composes it with the
ledgers, which it uses through what `WalletEscrow` promises (INSTANCE with the two
funding sources in the place of the users; `QuotaLedger` refines the same
module). A call of `billing_session.go` is several commits and so several actions:
`CheckToken`, `DebitToken`, `Fund`, with `FundFails` and `UndoToken` when the source has
too little, then the next source of the plan; `Reserve` and `ShrinkHold`;
`SettleFunding`, `SettleToken`; `Failed`, which hands over to the goroutine of
`RefundFunding` and `RefundToken`. `consumed` is what the funding source object
believes to hold, `pre` what the session believes, `held` what the ledger says.
`ConsumeUsage` is a part of a websocket request, with the second attempt that
follows a failed one (`AfterPart`); the usage counted locally is charged when the
connection ends, and only once (`Answered`). `late` and `tokenTaken` add up what a request took
outside its hold and from the token; `leak` is a growth that could not be rolled back.

`Playground` models the chat page. `messages` is React's state with all queued
updates applied, `view` what the last render saw. A click handler works on
`view`, and its update is rendered at once, as React does for clicks; a stream's
event only queues its update (`Queue`), and `Render` comes later. The first queued
update may run, and save, at once or at the render: both are allowed. The
handlers are guarded by what the page disables and by nothing else: the prompt and
the buttons below a message wait for an answer, the suggestions and an open editor
do not. Content is a sequence of tokens, half a tag or a piece of text each, so that
a tag can arrive in two chunks, and two halves can meet when the thought between
them is taken out; what a user types may hold tags too. `asked` and `writers` are history
for the properties, and so is `overlapped`: a request was sent while another was
answered, or an edit was saved over updates that were not rendered yet.

`DesktopShell` models the desktop application with its child process. One event
handler is one action. A timeout destroys a request, whose error event comes
later: `destroyed` counts those. The code after the start (`Resolve`) may throw, which opens the dialog
of a failed start. `Quit` is `app.quit()`, that is `before-quit` and, if it
is not prevented, the closing of the windows.

`TaskBilling` models tasks and their outbox. A process is a goroutine: it reads a
task, gets an answer from upstream and acts on the row it has *read*; or it
claims an operation and takes its steps. One action is one database statement or
transaction. The polling loop reads unfinished tasks (`PollTask`); a request of the user
refreshes a task of a Gemini or Vertex channel whatever its status is (`FetchTask`).
Operations are kept by key, that is by task and stage: a task can be refunded, and settled
at several amounts. A row keeps only what time decides: whether its lease is running
and whether its back-off is over. The process stands for its lease token.
`payer` says whether the task's user or subscription can pay, cannot, or is gone
(`PayerChanges`); a funding step that cannot go through has no `ApplyMarked` and ends in a
retry. `paid` is the sum of the amounts that operations asked for. `effects` counts the
committed effects of each step: the journal row of the funding, the token's totals, the
usage totals, the log row; invalidating a cache entry is idempotent and counted once.

`SubscriptionHolds` models the quota of one user's subscriptions. Again each call is
one transaction and one action. `MaybeReset` is the row after a look at it: its
use is cleared when a period is over. `plan` is, for each subscription, the set of
the times at which a period of its plan ends (midnight, Monday, first of the month, or
every so many seconds), and empty for a plan without one. `AdminUpdateSubscriptionPlan`
changes it at any time, within `Periods`; rows bought before keep their `next_reset_time`.
A row that is due by the old period and not by the new one stays as it is (`Stuck`). Requests reset the subscriptions they look at;
the master's task lists the due rows (`ListDue`) and resets them one by one
(`ResetListed`), as of the time of the list. `applied[r]` is the sum of the journal
rows of a request, which is not what was asked for when a late refund meets a
use that a reset has cleared.

`SubscriptionLifecycle` models how subscriptions come and go. Creations and ends are
split at the point between their reads (purchase count, group, other subscriptions) and
their writes, because nothing but the order, or the rows that end, is locked:
`BeginCreate` and `CommitCreate`, `BeginEnd` and `CommitEnd`. The master lists the user first
(`ListExpired`) and works as of that time.

`QuotaLedgerProofs`, `TaskBillingProofs`, `SubscriptionHoldsProofs`, `SubscriptionLifecycleProofs`,
`BillingSessionProofs`, `PlaygroundProofs` and `DesktopShellProofs` hold the theorems about the
module each is named after; `DataInduction` has the induction and the facts about sums that
they share. The `MC` modules are the instances for TLC.

## Runs

| run | instance | shows |
| --- | --- | --- |
| `quota_ledger` | 2 users, one overdrawn, each deletable in one way; 2 requests, amounts 0..1, versions to 2, 1 mutation key, batches of 2, crashes | `HoldsReconciled`, `OpenHoldsCanClose`, `JournalChain`, `ClosedHoldsAreFinal`, `NeverOverdrawn`, `ExpiredHoldsAreReturned`; the ledger implements the escrow |
| `quota_poisoned` | 2 users, one deletable | **violated**: `LiveUsersHoldsAreReturned` |
| `task_billing` | 1 task: legacy with a token, on a subscription, or refreshed on request; held 0 or 2, costs to 1; 2 processes; the payer changes | `EffectsAtMostOnce`, `FlagsImplyEffects`, `SettledInFull`, `TerminalIsFinal`, `CompletedIsFinal` |
| `task_liveness` | 1 task, 2 processes, a wallet or a subscription that changes | `OperationsComplete` |
| `task_terminal` | 1 task that is refreshed on request, 2 processes | **violated**: `TaskRemainsTerminal` |
| `subscription_holds` | 2 subscriptions with a total of 1, one whose plan may lose or get its period; 1 request, 1 adjustment, amounts to 1, versions to 2; batches of 1, crashes | `WithinTotal`, `UseIsBacked`, `JournalMatchesHold`, `OpenHoldsCanClose`, `ClosedRecordsAreFinal`, `UseIsAccounted`, `DueSubscriptionsAreReset` |
| `subscription_orders` | 2 orders of 2 plans with different groups, the cheaper one limited to 1; 2 processes, 2 subscriptions, 3 time steps | `OrdersCreateOnce`, `NoEarlyDowngrade` |
| `billing_session` | 2 requests of 4 kinds, wallet 2, subscription 1, token 3, amounts 0..2, trust above 1, 1 fault | `TypeOK`, `PaidIsPrice`, `TokenFollowsFunding`, `NothingIsLeftHeld`, `BeliefMatchesLedger` |
| `billing_realtime` | 1 websocket request, amounts 1 and 2, no faults | **violated**: `RealtimeIsPaidOnce` |
| `playground` | 2 requests, 2 chunks of 5 kinds, what is typed with and without a tag | `TypeOK`, `GenerationMatches`, `StopHasASource`, `OwnAnswers`, `PayloadSettledAlone`, `ParseAgrees`, `FinishedIsFinal` |
| `playground_payload` | the same | **violated**: `PayloadIsSettled` |
| `desktop_shell` | 3 retries, 3 windows, any platform and mode, port free or taken | `MainWindowExists`, `NoOrphanServer`, `ProbesAreBounded`, `QuitEnds`, `StartupSettles`, `CrashEnds` |

Why the bounds suffice. Two requests compete for one balance and are listed
together by one sweep; in `quota_poisoned` the batch is 1. A hold is resized up and
down and settled above, at and below its reserve, and can expire, be extended and
expire again. Two processes let one overtake the other at every step; tasks are independent
rows, so one of each kind is enough. A hold of a subscription can live
through two resets and through the removal of its record, and a row can become stuck while
another waits behind it in batches of one. Two subscriptions can overlap and upgrade to
different groups while creations and ends overlap. Two requests of a session share a
token that covers one and a half of them, a wallet and a subscription that
cover one each, so that each check can be overtaken by the other request; one
fault can hit any call. Two streams are what it takes for one to write into the other's
message; the chunks cut a tag in two, close what was never opened, nest, and leave a
new tag when a thought is taken out. Three retries let a timeout double a chain twice
before the limit. The largest runs have 4.2 million (`billing_session`) and 3.1 million
(`task_billing`) distinct states. Larger instances were checked aside: two requests on
one subscription, with and without a late period (0.9 million states), three
subscriptions within one time step, and three chunks in the playground (3.4 million). The
theorems remove the bounds from every safety property that passes. The type invariants of
the ledgers, the subscriptions and the shell are proved and left out of the runs. `CHECK_DEADLOCK FALSE` is
set except for the playground: when all requests are closed, all keys used and
the clock at its bound, or the shell has exited, the system rests.

Fairness. `QuotaLedger!SweeperFairness`: the master's ticker calls the sweep
again and again (`user_quota_reservation_task.go`), and strong fairness of
`SweepRefund` says that the sweep is not interrupted before its first refund every
time. Clients, administrators and crashes have no fairness.
`SubscriptionHolds!FairSpec`: the master's ticker runs expiry and reset every minute
(`StartSubscriptionQuotaResetTask`), and the task does not stop before the same row
every time. A row that an edit of its plan has left due for good is excluded, and so are
the rows behind it, which a full batch of such rows keeps from being listed.
`TaskBilling!FairSpec`: every node's ticker comes back every five seconds
(`StartTaskBillingOperationTask`), time passes, and since a step takes
milliseconds out of a lease of thirty seconds, the holder of a row is not
interrupted every time it attempts the same kind of step. Strong fairness of the
funding step asks for a step that can be taken: a charge of a user who cannot pay and any
operation of a user or subscription that is gone are retried for ever, in
the code as in the model, and `OperationsComplete` promises nothing for them. `DesktopShell!FairSpec`: Node delivers events and timers, a request to the
port answers, fails or times out, and a user answers a dialog that blocks the
application. The child promises nothing: it may hang while it boots or drains.

## What the runs found

* **One row can stop the sweep** (`quota_poisoned`). The expired hold of a user who
  has deleted the account cannot be refunded, because the users row is hidden. The
  sweep returns the error (`user_quota_maintenance.go:33`) and, the row being the
  oldest, so does every later sweep: expired holds of other users stay open.
* **A websocket request is paid twice** (`billing_realtime`). Each response is charged
  when it is done (`relay_realtime.go:136`, `quota.go:149`), and the sum of them all
  again when the connection ends (`websocket.go:44`, `quota.go:229`). The parts are
  keyed by request and amount, so that of two equal parts only the first is charged.

* **A finished task does not stay finished** (`task_terminal`). The operations manual tells
  the operator to confirm that "the task remains terminal" (`docs/operations.md:53`).
  `tryRealtimeFetch` refreshes a task of any status and writes an unfinished one back
  (`relay_task.go:502`).
* **A request carries a half-written answer** (`playground_payload`), although
  `isValidMessage` says that it "Excludes loading/streaming assistant messages"
  (`message-utils.ts:94`): it looks at the content only, and the suggestions below the
  prompt stay enabled while an answer is written (`playground-input.tsx:110`).

The models also reach the following, which no run states as a property:

* **A refunded task can succeed.** By the same refresh a task that failed, or timed out,
  and was refunded becomes SUCCESS when the upstream says so. If the price is what was
  held, there is no new operation and the task is not paid; if it is less, the
  difference is returned once more, and the user ends with more than was taken
  (`paid` below zero). This is why `SettledInFull` and `TerminalIsFinal` speak of tasks that only
  the polling loop moves. `EffectsAtMostOnce` holds for all.
* **Operations of those who are gone.** A user who deleted the account, or a
  subscription that an administrator deleted, makes the funding step of an operation fail on
  every retry, refunds included (`service/task_billing_operation.go:116`); its later steps
  never run.
* **Overlapping requests in the playground.** After a suggestion, or an editor that was open
  before, starts a second stream, both write into the last message, Stop
  closes only the second, and after a reload the earlier message stays unfinished for
  ever, although `sanitizeMessagesOnLoad` "Converts stuck loading/streaming messages to stable state"
  (`message-utils.ts:266`). `GenerationMatches`, `OwnAnswers`, `PayloadSettledAlone` and
  `FinishedIsFinal` hold until then (`overlapped`) and not longer; `StopHasASource`,
  `TypeOK` and `ParseAgrees` hold whatever the user clicks.
* **A tag can survive the parser.** `parseThinkTags` joins what it keeps, so that
  `<thi<think>x</think>nk>` shows a tag, and a saved edit stores tags as they
  were typed (`index.tsx:163`). `ParseAgrees` says that this is what a reading from left to
  right gives too; nothing says that what is shown has no tag.
* **A due subscription can be stuck.** After an edit of its plan to a longer period or to none,
  a due row is listed and looked at, and not changed (`subscription.go:1073`, `:1088`). It heads
  every list, and `ResetDueSubscriptions` counts it as reset (`:1490`), so a full
  batch of such rows makes the task ask for the next batch for ever
  (`subscription_reset_task.go:70`) and keeps all later rows from being reset.
* **An end can overlook a renewal.** Cancelling or expiring a subscription reads the group and the
  other subscriptions (`subscription.go:429`, `:437`; `:977`, `:1001`) and writes the group later
  (`:449`; `:1008`). A renewal that commits in between loses its group.
  `NoEarlyDowngrade` therefore speaks of the subscriptions that the end could see. The
  opposite happens as well: two cancellations at once each see the other's
  subscription running, and neither returns the group.
* **Orphans stop the master.** `HardDeleteUserById` (`model/user.go:544`) deletes
  the users row only. Any reservation row of the user, closed ones included,
  makes `finalizeUserQuotaAccountingMigration` fail at the next start of the
  master (`model/main.go:527`).
* **A renewal keeps the group for ever.** A subscription bought while the user is
  already in its group stores no previous group. When it is the last to expire,
  `ExpireDueSubscriptions` finds nothing to return to (`model/subscription.go:998`),
  and the user stays in the paid group.
* **A renewal can lose the group.** The creation reads the group without a lock
  (`model/subscription.go:492`). If the old subscription ends between that read and
  the commit, the group is returned and the new subscription does not set it again.
* **Some requests are not paid.** A settlement that fails, for want of quota after a
  trusted start or because the sweeper has returned the hold, is only logged; the
  token is then not adjusted either. A token can go below zero, because its check
  and its decrement are two statements (`quota.go:396`).
* **A second window on macOS.** `activate` during the start creates a window and the
  start another; closing the first hides the second.
* **More probes than retries.** The shell's messages count `maxRetries` attempts
  (`electron/main.js:186`, `:202`); since a timeout is retried twice, up to twice as many less
  one are made, which is what `ProbesAreBounded` states.

Outside the models: `PurchaseSubscriptionWithBalance` (`model/subscription.go:730`) debits
the wallet with neither journal row nor idempotency key, so `JournalChain` holds for
the ledger's own operations only.

Other places where the code is exposed and no property is stated: purchases are counted
in one statement and inserted in a later one, so two completions can exceed the
limit (`model/subscription.go:468`), and an order paid when the limit was reached stays
pending (`:474`); the cached group can keep the older of two writes (`:592`); a task
with progress 100% and no terminal status is polled by nobody (`model/task.go:294`);
the legacy cut-off is 2025-02-22 where its comment says 2026 (`service/task_polling.go:70`);
the violation fee may be charged before the background refund (`service/violation_fee.go:102`);
a part that could not be charged is counted again at the end (`relay_realtime.go:214`);
any program on the port answers the shell's probe (`electron/main.js:189`); saving an edit
writes back the list of the last render (`playground/index.tsx:163`); and an empty thought whose
closing tag comes in two pieces leaves the first as reasoning (`message-utils.ts:226`).

## Proofs

The assumptions are the named ones in the modules that declare the constants
(`ConstantsAssumption`): amounts and bounds are natural numbers, the special
values are not users, tasks or processes. Nothing is assumed finite: a
batch that is repaired is measured with `Cardinality`, which no proof opens, and that only
finitely many requests have taken from a subscription is an invariant.

`QuotaLedgerProofs`. The inductive invariant is `TypeOK /\ Owned`, `Owned` saying that
a row which exists has a user. Every step is then one of four kinds (lemma
`StepKinds`): it moves one hold and posts one journal row; it posts one row of
another mutation; it repairs a set of balances; or it leaves quota, reservations
and journals alone. Each theorem is proved per kind instead of per action:
`Reconciled`, `ClosedIsFinal`, `NoOverdraft`, `JournalComplete` and
`LedgerImplementsEscrow`. `HoldsCloseable` needs more: that the keys a hold will
claim are free follows only if one knows which keys it has claimed. `KeysSpent`
says so: a journal row of a request with operation `resize` has at most the
hold's version, and rows of `settle` and `refund` belong to closed holds.

`TaskBillingProofs`. `EffectsAtMostOnce` is not inductive: a process between the
effect and its mark knows something that the row does not say yet. `KeyInv` relates
each operation to its effects (a flag implies its effect, an effect of an atomic step
implies its flag, an operation that does not exist has none); `ProcInv` relates each
process to its operation (it exists, and a process about to mark has committed the
effect). Their conjunction with `TypeOK` is inductive (`AdvanceKeepsInv` does the steps of a
worker) and holds for every task, refreshed ones included; it gives `AtMostOnce`,
`FlagsAreBacked` and `CompletedStays`. `PaidInFull` and `TerminalStays` need `PayInv`, about tasks that only the
polling loop moves: a pending task has no operation, a terminal one has at most one,
which stands for exactly what is still to be paid or returned, and a process that polls such
a task holds a pending status and the quota of the row. TLC checked
the invariants on the instances above before they were proved.

`SubscriptionHoldsProofs`. `TypeOK /\ Backed` is inductive; `Backed` says that a record
which exists names its subscription and that a listing is not from the future.
That a calendar has a next and a last period within a bound follows from the
well-foundedness of the natural numbers (`MinMember`, `MaxMember`). Every step
changes a subscription's use in one of three ways (`EveryUseStep`) and a record in
one of five (`EveryRecordStep`); `TotalIsKept` and `UseAccounted` follow from the first,
`ClosedIsFinal` and the inequality of `JournalCoversHold` from the second, its equality
from `UseBacked`: in the first period the use covers what a request holds, so that no return of
it is cut off at zero. `HoldsCloseable` needs
`KeysSpent`, as in the wallet ledger. `UseBacked` compares the use of a subscription
with a sum over its requests. `Owned` makes the sum one over a finite set, and every step
is then one of three kinds: it adds a request to the set of one subscription
(`OpensHold`), changes what one member holds (`ChangesHold`), or leaves the members alone,
clean-ups apart, and at most resets the use (`KeepsUse`); `SumExtended`, `SumChanged` and `SumMonotone` of `DataInduction` say what
happens to the sum. A refund that meets a cleared use returns less than the
request held, and a reset lowers the use alone, which is why the first part is an
inequality; the equality holds until the first of these.

`SubscriptionLifecycleProofs`. `OrdersCreateOnce` is inductive together with `LocksHeld`:
an open transaction has a pending order to itself. `GroupKeptWhileUpgraded` needs
`LooksKept`: of the rows an open end has read, those that it does not end itself are
still not upgrading, because a row that is not active never is again and the clock only rises.

`BillingSessionProofs`. The properties speak of requests that are over, and of holds
that are active. `Inv` says what is true of one request at every point of its session:
`SessionInv` relates what the session and the funding source believe (they differ by a leak,
and by the growth that still waits for its token), `HoldInv` relates that to the hold in the
ledger, `TokenInv` to what the token has given and to the late charges. No conjunct
relates two requests, although they share wallet, subscription and token, so each
action is looked at for the request it moves. `SettledHasPaid`, `TokenAgrees`, `RefundIsComplete` and
`BeliefIsRight` are then read off the point at which a session is. `ImplementsEscrow` says that
every step is one of `WalletEscrow` or changes nothing there: charges beside the hold, the
token and crashes included. TLC does not check that one, because the abstract
specification is instantiated with all natural numbers as amounts.

`DesktopShellProofs`. `Inv` is `TypeOK /\ ChildKnown /\ Owed`. `NoOrphanServer` needs
`ChildKnown`: a child that runs is recorded in `serverProcess`, so the quit that finds none
may exit. `ProbesAreBounded` is not inductive: `Owed` counts, beside the attempts made, those
that timers, requests under way (two each) and error events (one each) can still cause,
and adds that no retry is planned at the limit. `MainWindowExists` is inductive with `TypeOK`; one
lemma (`MainWindowSteps`) does the handlers that touch windows.

`PlaygroundProofs` has four parts. The first is about `parseThinkTags` for contents of
any length. The loop is a recursive function; that it has a solution and unfolds is
proved by induction on the place (`ParseExists`, `ParseUnfolds`), since TLA+ defines such a function by
CHOOSE. `ParseIsReading` says that it finds what `ThinkReading` finds: the reading stays in
its mode up to the tag it waits for (`ModeStays`) and there drops the half of the tag
that it had taken for text (`ModeEnds`), and by induction from the end of the content
the rest agrees (`TurnAgrees`). The second part is about any user: types (`TypeCorrect`) and with
them `ParseAgreesAlways`. The third, also about any user, is `StopFindsASource`. The fourth is about
the time until two requests overlap. `Inv` says
that all messages are settled but the last, that the last waits exactly while a
source is recorded and for the request of that source, that no other source is open, that
what was saved is such a list too, perhaps an older one, and that a handler which
`isGenerating` does not hold back sees the list as it is; `~overlapped => Inv` is
inductive across renders that lag behind, reloads and late events, and gives
`NoStuckMessage`, `AnswersAreOwn`, `PayloadSettled` and `FinishedStays`. Nothing restricts the user there: the step that
overlaps sets `overlapped`, and what the code does afterwards is described above.

`DataInduction`. The library's induction theorems take a predicate as parameter, which the
provers cannot instantiate. Here induction is over a set of numbers instead: a
set of naturals that is not empty has a least member (`LeastPlace`, from the
well-foundedness of `<`), whence `NatSet` upwards and `DownInduction` downwards; the set is
`{k \in Nat : P(k)}`, defined where it is used. By the same means the sum of a
function over a finite set, which the community modules define by a
recursion that takes the members in some order, exists, does not depend on the order, and
changes as expected when a member is added or changed.

Only model-checked: `ExpiredHoldsAreReturned`, `OperationsComplete`,
`DueSubscriptionsAreReset`, `QuitEnds`, `StartupSettles` and `CrashEnds`, which are liveness under
fairness; the four violated properties are checked by TLC too.

## Left out

Data: metadata and remarks of rows, token keys, error texts, `balance_after`.
A conflict (same key, different content) and a replay are not told apart: neither
changes state. Errors of the database itself appear as crashes.
Cache: `users.quota` is also cached in Redis and invalidated after commit; the
ledger never reads the cache. The cached group of a user is written after the
commit of a creation or an expiry and is not modelled. Request ids carry a
timestamp and are taken not to be used again after the clean-up of their record.
Billing session: the Redis copy of tokens and balances, batched updates of tokens,
notifications, free models, websocket requests with a fixed price and the violation
fee. A subscription's hold is an escrow there; resets within a request are the
subject of `SubscriptionHolds`. The upstream reader of a websocket and the end of its
handler share variables without a lock; parts are charged one at a time here.
`Reserve` has no caller outside tests at this commit.
Playground: white space, wording, the choice of model and parameters, the request
without streaming (no control turns streaming off), leaving the page without a reload.
Desktop shell: `kill` on Windows, the classification of error logs, dialog texts.
Components: see PROJECT.json for those not modelled and why. The rest of the web
consoles is forms and tables over the REST interface, relay adaptors are data
transformation, and the Hermes adapter is a separate service without balances.

## Plan

In this order; each step brings its runs, mutants and theorems.

1. Proofs: that `SubscriptionHolds` implements the abstract specification it
   shares with `WalletEscrow`, as the wallet ledger does, with a loss where a reset
   comes in between.
2. `BudgetPool`: pools, fund and rewards; a mutation and its two journals agree.
3. `ScheduledJob` and `CommunityBot`: leases with fencing tokens around work that
   is not fenced; cursors only advance; rewards at most once.
4. `Quiz`: one open round per scope, answers once.
5. `ChannelRouting` and `RateLimit`: cooldowns and windows.
6. In the present modules: the cached group, and the purchase limit as a property.
