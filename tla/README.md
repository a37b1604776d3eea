# Verification of Oblivious: money, workflows and agents

Oblivious is a Go server (`src/src/server`) in which organizations send requests
to model providers through a billed relay, run agents and workflows on top of
it, and pay for what they use. This directory holds TLA+ models of the parts in
which mistakes cost money (quota, relay, batches, top-ups) or act twice or
unapproved (scheduled workflows, agents), the TLC configurations that check
them, and theorems about them with proofs for TLAPS.

Paths below are relative to `src/src/server/internal/` unless they start with
`src/`.

## 1. Inventory

### The billed path

| Component | State it keeps | Operations | Talks to |
|---|---|---|---|
| **Quota ledger** `quota/service.go` | `quotas` (balance, used) per account; `billing_sessions` (preauthorized, settled, refunded); usage-limit rows that decide which account a user is charged to | PreConsume, Settle, Refund, Topup, SaveUsageLimitSettings; credits from `stripe/lifecycle.go` and `admin/store.go` | called by the router, by compensation, by the batch worker and by administrators, from any number of processes; PostgreSQL is the only thing they share |
| **Quota compensation** `relay/quota_compensation.go`, refunds of `relay/api_token.go` | `relay_quota_compensation_jobs` with a status, a lease and one flag per scope; refund receipts | Arm, immediate refund by the serving process, direct fallback, Claim, refund and mark by a worker | armed by the router's late denial; calls Refund of the ledger and the token's refund |
| **Relay router** `relay/router.go` | per request: attempt, slot, session, hold on the API token; `used_quota` of the token; `usage_records` | RouteWithBilling: select, limit, reserve, hold, record, call, record, settle or refund, try again | rate limiter, ledger, API token, usage store, provider, compensation |
| **Rate limiter** `relay/ratelimit` | slots in use, windows of requests and of tokens, in memory or in Redis | Begin, Allow, End | router |
| **Batch polling** `relay/batch_polling_worker.go`, `relay/store.go` | jobs with attempts, lease and dead letter | claim, poll, finalise, retry | ledger, token, usage store |
| **Circuit breakers, load balancer, affinity, semantic cache** `relay/` | breaker state per provider, weights, cached answers | record success or failure, select | router |

### Work on a schedule or in the background

| Component | State it keeps | Operations |
|---|---|---|
| **Schedule worker** `schedule/worker.go`, `schedule/store.go` | tasks with a next time, runs with a status | poll, claim due tasks, run a workflow or an agent, complete or fail with the next time, RunNow, enable and disable |
| **Task runtime** `task/runtime.go` | durable tasks | claim, run, retry |
| **Workflow engine** `workflow/service.go`, `workflow/executor/state_machine.go` | executions with a status, append-only node rows | start, queue, promote, run until blocked, pause, resume, decide about a failure, cancel |
| **Agent plans** `agent/service.go`, `agent/store.go` | a planning run and its steps, ordered and depending on each other by index | plan, edit, move, insert, delete, approve, execute, skip, retry, continue |
| **Agent tool runs** `agent/runner.go`, `agent/service.go` | a run, its messages and its tool runs | the loop of model and tools, approve, reject, retry, raise the token budget |
| **Knowledge jobs** `knowledge/ingestion_jobs.go`, `index_jobs.go` | job rows with leases | claim, index, retry |
| **Alert delivery** `observability/alert_delivery.go` | alert state, delivery attempts | evaluate, deliver, retry |
| **Readiness manager** `releasecontract/readiness_manager.go` | a snapshot of what may run | refresh, require |

### Payments and the rest

| Component | State it keeps | Operations |
|---|---|---|
| **Stripe lifecycle** `stripe/`, `http/billing_handler.go`, `http/domestic_payment_webhook_handler.go`, `admin/billing_store.go` | payment intents, top-up orders, webhook events, refunds, an audit table of transitions with unique keys, the organization's balance | check out, record and apply an event of Stripe or of a domestic provider, enter a refund |
| **Marketplace settlement** `marketplace/settlement.go` | orders, commissions, payouts | accrue, pay, reconcile |

Authentication,
tenants, channels, chat, console, configuration, gRPC, HTTP, MCP tools, memory,
metrics, migrations, notifications, outbound policy, secret storage, surface
reports, WebSocket and the web application are translation, I/O, pure data
conversion or single-statement CRUD. `PROJECT.json` lists each with the reason
it is not modelled.

### What is hard here

* Every process talks to one database through separate statements: what one
  read may be stale when it writes (scope of a user, status of a job).
* A commit may succeed and be reported as failed; refunds and marks drop their
  errors.
* The HTTP context of a client covers the refund too: a disconnect cancels it.
* Processes die between two statements, leases expire under slow workers.
* Two requests may share an idempotency key, hence a billing session.
* Amounts are `float64` in Go and `DECIMAL(15,6)` in the database.
* Nothing claims a workflow execution, a plan step or a tool run: two requests
  may work on one, and a status is read, judged and written in three steps.
* Edits of a plan are a series of updates under a unique index.
* Providers announce events at least once, in any order, and several events may
  announce one payment or refund.

What makes each component correct: the ledger neither creates nor loses money,
never overdraws, and gives one session to one key; compensation gives each
reservation back once and closes every job; the router frees every slot, keeps
the books of the token, leaves no open reservation without an owner, and sends
no answer that is not recorded and charged once; a limiter never lets more than
its limit run; a claimed piece of work is done by one worker at a time and is
not forgotten; a workflow runs each node to success once, in order, and leaves
none out; a plan is what its users made of it and runs in its order, and tools
run with the approvals they need; a payment is credited once, in the end.

## 2. Modules

```
QuotaLedger                   CompensationPromise
  MCQuotaLedger                 ^ implemented by
  Billing_proofs              QuotaCompensation
PaymentLifecycle                MCQuotaCompensation
  MCPaymentLifecycle            Billing_proofs
  Billing_proofs              ExecutionLifecycle
RelayRouter                     ^ implemented by        ^ used by
  MCRelayRouter               WorkflowExecution       ScheduleWorker
  Relay_proofs                  MCWorkflowExecution     MCScheduleWorker
BatchPolling                    WorkflowExecution_proofs  ScheduleWorker_proofs
  MCBatchPolling              AgentPlan               AgentToolRuns
  Relay_proofs                  MCAgentPlan             MCAgentToolRuns
Sums                            AgentPlan_proofs        AgentToolRuns_proofs
  used by the three that        AgentPlanEdits_proofs
  keep money; SumTheorems
```

`Billing_proofs` is about the ledger, its compensation and payments, three
specifications of the same money; it extends them, so the formulas that every
specification has bear the names of theirs in `PaymentLifecycle` and
`QuotaCompensation` (`PaymentInit`, `CompensationSpec`). `Relay_proofs` does so
for the router and the polling of batches (`PollingInit`).
`Sums` defines the sum of a function over a set, `SumTheorems` proves what sums
do when the function or the set changes.

Components meet by contract. `RelayRouter` has of the ledger the status and
amount of the sessions it makes (`PreConsume`, `Settled`, `Refunded`) and leaves
the balance open; of compensation it has what `CompensationPromise` states, that
each scope handed over is given back once (`Compensate`). `BatchPolling` takes
from the router that the session of a registered batch is settled already.
`ScheduleWorker` is composed with the executions its runs start by an `INSTANCE`
of `ExecutionLifecycle`, which `WorkflowExecution` is shown to implement: what
holds for the worker holds whatever the engine does within that contract.

### QuotaLedger

One organization, its users and their calls. A call of `PreConsume` is a small
process (`calls[c].pc`), because the code reads the database three times before
its transaction: looks the key up, makes the row of the scope
(`GetOrCreateQuota`), reads the scope again (`ResolveScope`), and then inserts
the session and takes the amount (`Reserve`, `ReserveInsufficient`,
`ReserveDuplicate`). Settlement, refund and credits are one transaction and one
action each. `Stored` is the rounding of the column: money is counted in units
of which `Grain` make one millionth. `SaveUsageLimitSettings` may move a user
to its own account at any time. History variables and fields (`charged`,
`returnedTo`, `credited`, `reversed`, `doubled`) are no rows of the database;
the properties need them. `doubled` counts the amounts of half a grain that two
columns rounded up at once, see below.

### QuotaCompensation and CompensationPromise

The serving process of a denied request and the workers are agents with the
same three steps: take up a task, refund, record the outcome. Between the
second and the third an agent holds a `report` that may be lost, may be stale,
or may never be recorded because the agent crashed. `Arm` may be reported as
failed though it committed. A lease expires (`BecomeDue`) under a worker that
is dead, or, at most `OverrunBound` times, under one that is only slow.
`CompensationPromise` is the abstract specification: scopes are returned once
and a request is closed after all of them. `PromiseKept` is the refinement,
with `returned` and `closed` computed from sessions, receipts and jobs.

### RelayRouter

One process and its requests; `req[q].pc` follows `RouteWithBilling` from top to
bottom. Each statement has an action for success and one for failure, which
covers "rejected" and "committed, reported as failed"; once the client is
`gone` statements fail. The two-step refund is shared by all failures, as in
the code, with what comes after it (`again`, `row`) in the request's record.
`Crash` kills every request of the process. `stranded`, `adrift` and `spent`
are history: which reservation was given up by whom, which token quota was left
behind, what an answer cost the token.

Left open (a choice in the model): which channel is selected and whether one is
left, what the provider answers and costs, the readiness guard, the limits per
minute, the price's disappearance between two quotes, and the balance.

### BatchPolling

Jobs, and workers that claim several at once under a lease (`ClaimBatchPollingJobs`,
one statement), then ask the provider about each (`RetrieveBatch`) and finalise
what has ended, one statement per action: the usage row (`ReplaceUsage`), the
session (refused, `AfterUsage`), the token (`CorrectToken`), the mark
(`MarkEnded`). An error of any of them makes the job fail or, at the last
attempt, a dead letter (`RecordFailedJob`). A worker holds copies
`<<batch, attempt>>`; when a lease expires another takes the job and both go on.
`corrected` counts the token's corrections, which leave no receipt.

### ExecutionLifecycle and WorkflowExecution

`ExecutionLifecycle` is the state machine of `workflow/executor/state_machine.go`
as a specification of one variable, `status`. `WorkflowExecution` is the engine:
requests (run, resume, retry, continue, branch, fail, pause, cancel) are
processes whose `pc` is the next statement. `run` looks for a row that is
pending or due, executes its node, inserts a row with the outcome, and seeds the
children one by one; a transition is read (`read`), asked of the state machine
and written under the status read (`write`). Rows are append-only in the code
and abstracted to what it asks of them. A `snapshot` is the definition an
execution was started with: its edges, forms, failure policies and branch, under
a node `Guard` that stands for the engine's own row when a limit is exceeded.
`wins`, `overlapped` and `faulted` are history.

### ScheduleWorker

Workers poll (`Poll` reads what is due), claim one task after the other with the
snapshot of that read (`Claim`, whose `NOT EXISTS` may miss a run inserted since:
`stale`), start and run an execution, and record the end of the run together
with the task's next time (`Complete`, `Fail`); when that fails the fallback
records the run alone (`Fallback`: `hurt`). `RunNow` and `UpdateEnabled` are the
users' requests; executions move by themselves (`ExecutionMoves`). Times are
unset, ahead or due. `claims` counts the claims of a time that has come.

### AgentPlan

A planning run and its steps. A request is a queue of statements computed from
what it read at its start: a move is a series of updates to indices above the
plan's and back, and dependencies, which are indices, are rewritten last. `plan`
and `needs` are history: the users' order and what each step was made to depend
on, by identity. `wrong` collects what went wrong at the moment it did: a step
run `early`, `unapproved`, two requests that wrote one step (`mixed`), an answer
that names an index which is no step's (`loose`), or the deletion of the last
open step (`trimmed`). A request names the ids of the rows it is going to insert
when it begins (`made`).

### AgentToolRuns

The loop of `agent/runner.go`: ask the model, execute its calls in order, show
the results, ask again. Approval, rejection, retry and a raised budget re-enter
it. Tools are of three classes, standing for what `decideToolApproval` makes of
their risk and the agent's mode: never, once per run, or always approved.

### PaymentLifecycle

The checkout request in its steps (`CreatePaymentIntent`, `CreatePendingTopup`,
`CreateCheckoutSession`, the two failures), each of which may be its last; the
provider, which is external and announces payments and refunds by `Events`, at
least once; and the webhooks in two steps, the row of the event
(`RecordWebhookEvent`) and its application (`ApplyCheckout`, `ApplyRefund`: one
transaction under a unique key, hence one action). Stripe's events are applied
on every delivery, those of the domestic providers only when their row is new:
`Applies`. A delivery may be dropped between the two or answered with an error
after its commit. Administrators enter refunds (`RecordTopupRefund`) under keys
of their own. `applied` and `entered` are the audit table; `credits` and `vain`
are history.

## 3. Runs

| Run | Question | Bounds |
|---|---|---|
| `QuotaLedger` | Does any interleaving create or lose money, overdraw, or split a key? | 2 concurrent calls, 1 user and the organization, 1 key and no key, 2 sessions, amounts 1 to 4 units with 4 units to a grain |
| `QuotaCompensation` | Do jobs, receipts and sessions agree, is the promise kept, and is every armed job closed? | 1 request with both scopes and a shared session, 2 workers, 1 overrun, fairness |
| `RelayRouter` | Do slots leak, does the token overrun its limit, is a reservation forgotten, is an answer paid once, recorded and charged? | a stream and an ordinary request under one key with different estimates, 1 slot, 2 attempts, 1 fault |
| `RelayRouterDisconnect` | Does a disconnect settle or refund? **No** | 1 stream |
| `BatchPolling` | Are ended batches finalised, stay so, and does polling end? | 1 batch, 3 workers, 3 attempts, fairness |
| `WorkflowExecution` | Do nodes take effect once, joins wait, successes include all, retries end, and does the status follow its state machine? | 3 definitions of 3 nodes, 2 processes, 1 retry, 2 decisions, 2 faults |
| `WorkflowExecutionRetries` | Is a node that waits for its retry tried again? **No** | the same, 1 process, no decision or fault, fairness |
| `ScheduleWorker` | Is a due task served, and once? | 1 task, 2 runs, 2 workers, 2 events (crash, failed record, RunNow, switch), fairness |
| `AgentPlan` | Does a plan stay the users', run in its order and with approvals, and complete? | plans of 3 and 1 steps, 2 requests, 2 edits, dependencies of 1 step, 1 fault, 1 change of the agent |
| `AgentToolRuns` | Do tools run approved, do results reach the model, can a waiting run be decided? | 5 replies of 1 or 2 tools, 3 tool runs, 2 iterations, 2 requests, 1 fault |
| `PaymentLifecycle` | Are payments credited, once, and do rows, audit and balance agree? | 1 top-up (Stripe: 2 refunds, one announced twice; domestic: paid twice announced, 1 refund), 2 deliveries at a time, fairness |
| `PaymentLifecycleRefunds` | Is a refund reversed once? **No** | 1 top-up, 1 refund, 1 event of it |

Why these bounds are enough to be interesting. Two calls are what it takes to
race on a balance, on the unique index and on a scope; amounts 1, 2, 3 and 4
with four units to a grain are rounded down, up, as a half and not at all. Two agents
besides the serving process are what it takes for a stale copy, a stolen lease
and a mark by somebody else; requests of compensation, and batches, share
nothing but a worker's claim, so one of them shows what happens to each. Two
requests and two attempts let one request settle or refund the session that the
other is using, and a retry meet what the first attempt left; one fault at any
statement reaches every error path. Three workers and three attempts (five in
the code) let a lease be lost twice. The three definitions are a join with a
retried and a skipped start, a chain with a form whose last node is also a
failure branch, and a fork. A plan of three steps has a middle, so moves cross
dependencies. Two top-ups share the balance only, and the constraint `OneTopup`
lets either of two kinds be asked for.

Caps on otherwise unbounded behaviour: `CreditBound`, `OverrunBound`,
`FaultBound`, `EventBound`, `EditBound`, `DepBound` (what a user may make a step
depend on; a model's answer is not bound), `MaxTools`, `MaxSteps`, `MaxDeliveries`
and the constraints `Bounded` of `MCAgentPlan` (after two requests wrote one
step nothing is claimed and nothing followed; requests overlap only on an
unedited plan; one edit, fault or change of the agent, or two edits before
anything is approved or executed) and of `MCAgentToolRuns` (requests overlap
only where nothing failed). No theorem depends on them. Symmetry is used in runs
without liveness only. The models may stop (all requests returned), so deadlock
is not checked.

Each property of a passing run has a mutant, an operator beside the one it
replaces whose comment says which mistake it is; under it TLC finds the
property violated. Most runs end within half a minute, `WorkflowExecution` and
`AgentPlan` take about one and a half.

### Fairness

* `ArmedIsClosed` (`FairSpec` of `QuotaCompensation`): a worker runs on a ticker
  and never stops claiming, time passes, and a worker gets on with the batch it
  claimed: weak fairness of `BecomeDue` and of the worker's steps, strong
  fairness of claiming, because a job is claimable on and off. A refund and the
  statement that marks it may fail any number of times but not for ever: strong
  fairness of their success. Nothing is assumed of the serving process.
* `PollingEnds` (`BatchPolling`): delays and leases expire, workers claim at
  every tick and go on with what they claimed (`Work` includes failures). Nothing
  is assumed of the provider, of readiness, or of success.
* `DueIsServed` (`ScheduleWorker`): workers tick and finish what they began.
  Nothing is assumed of executions, users or crashes.
* `RetriesHappen` (`WorkflowExecution`): processes go on and delays pass. It is
  violated even so.
* `PaidIsCredited` (`PaymentLifecycle`): a delivery ends, if only by a lost
  connection (weak); the provider repeats the events of a payment until they are
  answered with 200, and neither the statements nor the answers of their
  deliveries fail for ever (strong). Nothing is assumed of refunds,
  administrators or checkouts.

### What the violations show

Each is a finding in `PROJECT.json` with the line of code and the sentence it
contradicts.

* **`DisconnectsAreClosed`**: the refund of a stream is sent under the context
  that the disconnect cancelled; the reservation and the token's hold stay.
* **`RetriesHappen`**: a run of an execution returns when the only row left
  waits for a retry in the future, and nothing runs the execution again: it
  stays running.
* **`ReversedOnce`**: the key that makes a refund's effects happen once names
  the event, or the administrator's entry, and not the refund; a refund entered
  and announced is taken from the balance twice.

### What else the code does that one might not expect

The positive properties name these cases as exceptions, or include them, and
hold otherwise.

* *Ledger.* Settlement and refund look a user's scope up again instead of using
  the account that was charged, so limits saved while a call is open move money
  between accounts (`UsedIsOutstanding` excepts them; the total is conserved).
  A reservation is stored rounded and compared with the unrounded amount, so it
  may not be settleable in full. Half a grain is rounded up twice: a balance
  from which x.5 is taken is stored as if x had been taken while the
  reservation, and `used`, are stored as x + 1, and a settlement does the same
  the other way about. Each time a grain (0.000001) exists that nobody paid
  for; `Conservation` counts these (`doubled`) and allows nothing else.
* *Compensation.* Arming that commits and is reported as failed makes the direct
  fallback and the job both refund the token; an amount that is stored as 0, and
  a session another request settled, leave a job that never closes.
* *Router.* An answer that costs more than its reservation cannot be settled:
  the token is refunded, the reservation stays open. But the reservation of a key
  is the one made first, whatever amount a later request of that key expects
  (`quota/service.go:760`), and the settlement of the token compares the cost with
  nothing (`relay/api_token.go:335`). So a request that holds little under a key
  for which another reserved much may charge the token beyond its limit, by up to
  what the other reserved; `WithinLimit` says so and allows nothing else. A stream that is refused leaves
  its pending row, which finishing the next attempt's row updates too.
* *Batches.* The session a batch settles was settled by the request that created
  it (`relay/batch_polling_worker.go:134`), so a job with a session always ends
  as a dead letter, with its usage row and token corrected. Polls of a batch in
  progress count as attempts: five polls, some ten minutes, and the job is a
  dead letter. A refusal or death at the last attempt leaves a job that is never
  claimed again. A worker that dies between correction and mark makes the next
  correct again: at most once per attempt (`CorrectionsAreCounted`).
* *Workflows.* Two requests that run one execution at once execute its nodes
  twice (`overlapped`). `skip_on_failure` records the row, moves the execution,
  then seeds the children (`workflow/service.go:1900`): when a pause comes in
  between, the move is refused and the children are never seeded, and the
  resumed execution ends as a partial success without them; `SuccessIsComplete`
  is about successes only.
* *Schedule.* A run left running by a worker that died keeps its task from being
  claimed again. `NOT EXISTS` is evaluated before the row is locked, so a task
  may be claimed twice in a row (`stale`), and the fallback leaves the next time
  in the past (`hurt`).
* *Agents.* Overlapping edits or executions of a step may run it twice or lose
  an edit (`mixed`); a deleted last step leaves its run open (`trimmed`); calls
  that follow one that waits or failed in a reply are forgotten; a step whose
  process died stays running.
* *Payments.* A domestic event whose first delivery was recorded and not applied
  is never applied: the next delivery is answered with 200 (`Lost`). A refund
  applied before its payment, and any second announcement of a payment after a
  refund, credits the order again, since the refund has overwritten the status
  that is asked. Neither the status of the intent nor that of the refund is
  asked: a pending or failed refund reverses too. A reversal without a row of
  `quotas` is lost (`vain`).

## 4. Proofs

| Theorem | Module | For every |
|---|---|---|
| `TypeCorrect`, `AllTypesCorrect`, `PaymentTypeCorrect`, `CompensationTypeCorrect`, `PollingTypeCorrect` | one per component | value of the constants |
| `NeverOverdrawn`, `KeyOwnsOneSession`, `DuplicatesAgree`, `FinishedStaysFinished`, `MoneyConserved`, `UsedAgrees` | `Billing_proofs` | number of users, calls, keys and sessions, any amounts, any grain |
| `RowsAgree`, `CreditedAtMostOnce`, `RefundsAlwaysAgree`, `BalanceAudited` | `Billing_proofs` | number of payments, refunds and events, any amounts |
| `CompletedIsTrue`, `RefundedOnce`, `CompletedStays`, `KeepsPromise` | `Billing_proofs` | number of requests and workers |
| `ReservationsOwned`, `OneAnswer`, `AnswersCharged`, `SlotsHeld`, `AnswersRecorded`, `TokenAccounted`, `LimitKept` | `Relay_proofs` | number of requests, keys, attempts and faults, any estimates and costs |
| `EndsAreFinalised`, `CorrectionsCounted`, `EndsStay` | `Relay_proofs` | number of batches, workers and attempts |
| `ClaimedOnce`, `CompletedRunsRan` | `ScheduleWorker_proofs` | number of tasks, runs, workers and events |
| `JoinsWait`, `RetriesEnd`, `LifecycleIsKept`, `OnceEach`, `SuccessComplete` | `WorkflowExecution_proofs` | definitions, processes, executions, retries and events |
| `ApprovedFirst`, `AnsweredFirst`, `CompletedFinished`, `WaitingDecidable`, `AsksBounded` | `AgentToolRuns_proofs` | number of requests, tool runs, iterations and faults, any calls of the model |
| `ApprovedIsRun`, `CompletedDone` | `AgentPlan_proofs` | number of requests, steps, edits and faults, any tools, answers of the model and policies |
| `PlanAsEdited`, `StepsInOrder`, `LastDoneIsCompleted` | `AgentPlanEdits_proofs` | the same |

They rest on the named assumptions of the modules, which TLC evaluates in every
run: amounts are positive, credits are whole grains, the absent values are not
members of the sets they are absent from, what is summed over is finite, a
definition has finitely many nodes.

**Sums.** `SumOf` comes from a fold of the community modules, a recursive
function that takes one element after the other off a set. That this recursion
has a solution, and one only, is `AddsExists` and `AddsUnique`, by
`SubsetInduction`: a set of subsets of a finite set holds all of them when it
holds each whose strict subsets it holds, which follows from the library's
theorem that strict subsets are well-founded. The induction is over a set, not
over an operator, so the provers can do it. `SumStep` (a set is an element and the rest,
whichever element it is) is the one fact the others need: `SumAgrees`,
`SumChange` (one element changes), `SumRemove`, `SumAdd`, `SumBounds`, `SumZero`.

**Ledger.** `LedgerInv` adds two facts that the properties need to be inductive.
`AnswersOwnTheirKey`: two answers agree because each holds the session that
owns the key. `WholeGrains`: a balance is a whole number of grains, so taking an
amount that is covered and rounding cannot leave less than zero, and a credit
of whole grains is stored exactly. The lemmas about `Stored` (bounds, exactness
on whole grains) are proved from division alone. `MoneyInv` adds what the sums
need: every column holds whole grains, so that adding to it or taking from it
rounds the amount alone; an open session has returned nothing; a top-up under
way credits whole grains. Then each step changes one account by `Stored` of an
amount and one session by as much, and `doubled` by the grain they differ in.

**Compensation.** `CompensationInv` says that an outcome waiting to be recorded
is true (`ReportsAreTrue`), that a serving process has tasks of its own request
only (`OwnTasks`), and that outside the fallback the number of refunds is the
receipt (`RefundsAreReceipts`). Marks then cannot lie however late they come.
`KeepsPromise` maps every step to `Return`, `Close` or a stutter; `ClosingStep`
is the case in which a mark closes a job.

**Router.** `RouterInv` = `StageInv` (what each stage holds: slot, session,
hold) /\ `PaidInv` (a session settled for a request is settled for no other, at
the cost of its answer) /\ `ReservationsHaveOwners`. The proof has one lemma per
action, each of which shows the same four facts about the step (`Good`): the
request's own invariant, what it does to sessions, whom it pays, and what it
hands over; `GoodStage`, `GoodPaid` and `GoodOwners` derive the invariant from
them once. `Crash` and `Compensate` touch several requests or none and have
lemmas of their own. Two invariants follow on top of it. `SlotsInv`: each step
of a request keeps its slot, takes one under the limit or frees the one it has
(`RequestSlots`), so the count follows the set of holders and subtracting never
clamps. `RecordedInv`: a stream that is dispatched keeps its pending row until
its answer replaces it, and whatever is settled has a row; no step writes the
rows of another request (`OwnRows`).

A third, `TokenInv`, is about the token. `ReservedInv`: a session holds what some
request of its key estimated and is settled at no more. `ChargedInv`: a request
whose answer was charged holds nothing any more and is over. Each step changes
the `Share` of one request, what it holds, cost and is owed, and the token's
used quota by as much (`ShareChanges`); a refund takes what is part of the sum,
so it never clamps. `Crash` changes the shares of all that run and is
`CrashBalance`, a sum of three functions. `Excess` grows only when a settlement
of the organization allowed a cost beyond the hold, and that names the other
request.

**Batches.** `PollingInv` says that every copy a worker holds is of an attempt
that was counted and that no two workers hold one copy (`CopiesInv`), that what
a worker knows of the job it finalises stays true (`ProgressInv`), and that
corrections and copies not yet corrected are together no more than attempts
(`CountInv`): a correction spends a copy.

**Schedule.** `ScheduleInv` says that runs in a worker's hands are running and
in no other's (`HoldInv`, `ApartInv`), and that a time that was claimed has a
run still running until the task has left it behind (`ServedInv`): that is what
the claim's `NOT EXISTS` sees.

**Workflows.** `ExecutionInv` = `ProcInv` (what each process has in hand: it
writes what the state machine allowed, inserts children whose parents are ready)
/\ `RowInv` (attempts are bounded) /\ `ChildrenAfterParents`. Rows only grow
(`Grows`): a ready parent stays ready. Every step `Moves` one process, and the
lemmas about actions show what it leaves of the others'. `LifecycleIsKept` maps
each step to a transition of `ExecutionLifecycle` or a stutter: a write happens
only under the status that was read.

`OnceEach` needs a second invariant, `OnceInv`, for executions one process works
on at a time: a node that was run to success has no later row than that success,
so that the loop's choice, which looks at latest rows, never finds it again. What
a process has in hand meanwhile is `Clean`: the node it is about to record was
not run to success, and the children it is about to insert have no row yet.
`QuietOnce` and `RowOnce` derive the invariant for steps that write no row and
for steps that write one; `RequestOnce` for a request that begins, which either
finds nobody at work or marks the execution as overlapped.

`SuccessComplete` needs a third, `SuccessInv`, since completeness is lost long
before the status says "succeeded". A child of ready parents without a row is
`Missing`; each one either has a process that `Owes` it, at the steps between
recording the parent and inserting the children, or is `PassedBy`: a parent was
skipped, and the run that finds nothing to do then asks for a partial success. A
run asks for "complete" only at its end, when it owes nothing and nothing was
skipped, so nothing is missing; and nothing goes missing between that request
and the write, or after it, for rows are written only by the one process at
work. A skip must not be undone meanwhile: an execution's process never has a
skipped node in hand (`Unskipped`), and an answer to a form cannot have one
either, because forms wait and are never skipped (`Forms`). `QuietComplete`
derives the invariant for steps without a row, `RowComplete` for steps that
write one, `RequestComplete` for requests.

**Agents: tool runs.** `ApprovalInv` follows an approval through the places it passes:
the row of a tool run and the copy a request is about to write back (`Honest`),
the statements still to be sent (`Sound`), and what a request has read before it
executes (`Trusted`) say "approved", or "failed", which is what a retry asks
for, only of tool runs that a user approved or need not. Consent and classes are
never taken back (`Grows`), so what one request has in hand stays true whatever
the others write, and a stale copy written back cannot turn a refusal into an
approval. `AloneInv` is about requests that do not overlap: at most one tool run
is unfinished, every completed one has its result in the conversation, and what
the one request at work has still to send is about that tool run (`Orderly`), so
that it asks the model, or completes the run, only when nothing is unfinished. A
fault at any point leaves a prefix of its statements, which keeps all of this.
`SettledInv`, without faults, looks ahead instead: between requests the run's
status says what its tool runs say (`Settled`), and the statements a request at
work has still to send end in such a state, whichever loop it is in, with the
count of iterations stored before a user can be asked (`SettledTodo`).

**Agents: plans.** The theorems about `AgentPlan` are about lists of statements
executed one at a time, whatever other requests do in between; they come in three
layers, each resting on the one before.

`Guarded` holds after faults too. `Shape` says what each kind of request may have
left to write: an edit ends no step and completes no run, a worker ends its own
step only to look whether the run is done. `Unique` and `Fresh` are the unique
index and the ids that nobody has yet. As long as no two requests mixed, `Apart`
says that those under way work on different steps or one of them is between two
steps; hence the row a request has read is still the one in the table (`InHand`)
and a worker's step is there and open (`AtWork`). `Approved` follows an approval:
a statement approves nothing, or is its request's last and leaves a row that
names the tool the user approved. `Finished`: while the run is completed, or about
to be, all is done and nobody edits. `ApprovedIsRun` and `CompletedDone` follow.

`Planned` adds what the plan needs. `Structure` says that the statements an edit
has left add up to the plan (`Fits`): each finds the row it needs and a free index
when its turn comes (`FreeNow`, `FreeLater`: the places taken now, and by earlier
statements, are left before), the steps of the plan land at their places and the
rest is deleted (`Landing`), dependencies are right or are going to be set
(`Depending`). `FitsTail` shows that executing the head of such a list leaves such
a list; one lemma per edit (`CreateFits`, `MoveFits`, `DeleteFits`, `UpdateFits`,
`AdjustFits`, `AcceptFits`, `StartFits`) that the list it begins with is one.
What the statements of an edit are is computed with `\o` and with the steps in
order, which is defined by counting: `InOrderSorted` shows from the theorems on
finite sets that counting does sort, and the `Layout` lemmas say which statement
stands at which place. `Orderly`: what a done step depends on is done, edits leave
done steps alone (an adjustment could otherwise drop what one depends on, which is
why `Structure` needs this), and a request that runs a step, is going to or is
about to end it has waited for those before it. Without an edit under way
`Fits(<<>>)` is `PlanIsAsEdited`.

`Watched` adds the end. `LastDone`: when all steps are done and the run still
waits, some request is going to look whether it is done, to complete it, or to
create a step. It needs `Openness`: an edit that deletes steps or says that the
run waits creates one first or leaves one open, and a retry that says so is going
to open its step.

**Payments.** `PaymentInv` says that intent and order agree on what was refunded
and cap it (`RowsInv`; the administrator's update does not cap, its guard does),
that an order credited and not refunded is paid (`CreditInv`), and that an order
does not precede its request (`ProgressInv`), without which making it would
reset one that is paid. `AuditInv` adds that what is credited was entered
(`CheckoutsInv`); then a webhook or an administrator changes the reversals of one
intent by one transition's amount, and rows and balance by as much.

### Only model-checked

* `ArmedIsClosed`, `PollingEnds`, `DueIsServed`, `PaidIsCredited`: liveness is
  outside the prover's reach. Every other property that a passing run
  checks is a theorem.

## 5. Not modelled, and the plan

In the models: rate leases and subscriptions of `quota/service.go`, `Route`
without billing, agents as targets of schedules, several workflows and their
limits per organization, conditions on workflow edges, agents inside workflow
nodes, what steps and tools say, amounts of batches, subscriptions, invoices and
marketplace installs among the payments, and everything listed as open above.
Outside them: the components with status `not_modelled`.

The plan, in order:

1. **RelayRateLimit** (`relay/ratelimit`): the Redis slot counter with its TTL,
   `Begin` and `End` from several processes, the two windows. Abstract
   specification: at most `MaxConcurrent` holders. A call that outlives the TTL,
   and an `End` under the client's cancelled context, are expected to break it;
   how far the count can be off afterwards is the question.
2. **Subscriptions and invoices** in `PaymentLifecycle`, then
   **MarketplaceSettlement**: commissions, payouts and their reconciliation.
3. **CircuitBreaker** and the load balancer: state recomputed on reading,
   checked against a reference breaker with a clock.
4. Proofs: the router's `Compensate` against `CompensationPromise`.
5. Task runtime, knowledge jobs, readiness and alert delivery, as far as their
   control goes beyond a status column.

## 6. Running

```
tlc -config QuotaLedger.cfg MCQuotaLedger
tlc -config PaymentLifecycleRefunds.cfg MCPaymentLifecycle
tlapm Relay_proofs.tla
```

The runs, their modules and configurations are listed in `PROJECT.json`. No run
takes more than two minutes on two workers. Of the eight proof modules
`AgentPlanEdits_proofs`, which extends `AgentPlan_proofs`, takes some nine
minutes, those of the relay and of workflows some seven each, the others up to
five.
