# Verification of the commission management system

This directory holds TLA+ models of the server (`apps/server`, `packages/db`,
`packages/core`), of the worker (`apps/worker`), of the browser's side (`apps/web`) and of
the deployment scripts; the TLC configurations that check the models on small instances;
and proofs, checked by TLAPS, for instances of any size. `PROJECT.json` names, for every
definition, the lines of the program that it models.

    tlc -config X.cfg M        one run; the pairs are in the table under "Runs"
    tlapm M.tla                the proofs of a module whose name ends in Proofs

Paths in this document are relative to the repository.

## The system

The program is a REST service over PostgreSQL. It calculates the commission of
recruiting placements, holds it until the client has paid and the guarantee window is
over, and closes it in monthly runs that are exported to payroll. A worker process polls
a task queue for jobs of language-model agents. A web application has a view for each
role.

With two exceptions (the clawback trigger and the expiry of a guarantee period) no
handler opens a transaction: a handler is a sequence of SQL statements, each atomic, and
the statements of concurrent requests interleave. Handlers read a row, decide, and update
by id. In the browser a component sends calls and handles the answers in the order in
which they arrive. Nearly all that is hard in this program comes from these two facts, and
every model is built around one of them.

### Components

| component | state | operations | what makes it correct | modules |
|---|---|---|---|---|
| Commission records (`db/src/commission-records.ts`) | `commission_records`: status, hold reason, amounts | one INSERT, seven UPDATE statements that all other components use | a status changes only from the statuses that the event is about | `CommissionRecords` |
| Commission runs and payroll export (`api/commission-runs.ts`, `api/exports.ts`) | `commission_runs`, its junction rows, artifacts | create, review, approve, finalize, export | only reviewed records are approved; payroll gets the whole run, once | `CommissionRuns` |
| Financial reconciliation (`api/reconciliation.ts`, `ReconciliationReport.tsx`) | ingested AR rows, discrepancies | ingest, report, acknowledge, count | the gate of a finalization sees what the report found; what was acknowledged stays | `Reconciliation`, `MonthEnd` |
| Invoices, gates, guarantee, clawback (`api/invoices.ts`, `api/calculate.ts`, `api/clawback.ts`, `api/guarantee-expiry-worker.ts`) | `invoices`, `guarantee_periods`, records, adjustments, recovery schedules, journal | create, update, import invoices; calculate; expire; trigger | nothing is payable before its invoice is collected; a period ends once and is charged once | `CommissionHolds`, `ClawbackLedger`, `GuaranteeLife` |
| Exceptions (`api/exceptions.ts`) | `exceptions`, `net_payable` | create, approve, reject | one decision, one adjustment | `CommissionExceptions` |
| Disputes (`api/disputes.ts`, three pages) | `disputes`, audit | create, resolve | a dispute names who resolved it | `Disputes` |
| Manual adjustments (`api/adjustments.ts`) | appended rows, audit | post | the trails of the entries do not contradict each other | `Adjustments` |
| Task queue and worker (`db/task-queue.ts`, `db/worker-tokens.ts`, `api/tasks.ts`, `worker/src/index.ts`) | `task_queue`, `worker_tokens` | enqueue, mint, claim, submit, recover | at most `max_attempts` tries, one holder per attempt, final results | `TaskLife`, `TaskQueue` |
| Simulations (`api/simulations.ts`, `DealSimulator.tsx`) | `simulation_runs`, the queue, the page | request, embed a token, claim, store a forecast, poll | one forecast each; a page stops waiting | `Simulations` |
| Commission plans (`api/plans.ts`) | plans, versions, assignments, acknowledgments | create, number, activate, assign, acknowledge | dense numbers, forward life cycle, a plan keeps rules in force | `PlanVersions` |
| Calculation engine (`core/calculation-engine.ts`, `core/tier-progress.ts`) | none of its own | resolve a version for each contributor, price in five stages | the price follows rules that were in force; what accrues was collected | `CommissionPricing` |
| Placements and attribution (`api/placements.ts`, `api/attribution.ts`, `api/contributors.ts`) | placements, contributors, splits, journal | create, import, PATCH, submit, approve, reject, split | splits that were finalized fit; dates and journal agree with the row | `Placements` |
| Billing phases (`api/billing-phases.ts`) | phases, phase contributors, links to invoices | create, update, relink, calculate | a phase pays who is credited on it, when an invoice it was linked to is paid | `BillingPhases` |
| Reads and reports (`api/me.ts`, `api/analytics.ts`, `api/manager-team.ts`, `audit/sensitive-read.ts`) | none (audit rows) | lists, masking, figures | nothing confidential leaves, nothing sensitive leaves unlogged, figures add up | `PortalReads`, `Reports` |
| Field encryption (`db/src/encryption.ts`, `db/src/kms.ts`) | key caches, stored values | seal, open, expire, restart | what was stored can be opened | `FieldEncryption` |
| Sessions and passkeys (`api/auth.ts`, `auth/*`, `db/revocation.ts`, `db/passkeys.ts`) | challenges, credentials, keys, revocations | ceremonies, demo sign-in, request, logout, restart, rotation | a live token is accepted, a revoked one never again; a challenge is answered once | `Sessions` |
| Rate limiter (`security/rate-limiter.ts`) | timestamps of each client | check, clean up | no more than the limit in any window; `Retry-After` suffices | `RateLimiter` |
| Web application (`apps/web/src`) | routes, screens, calls under way | navigate, load, change, refetch | a screen does not tell what is not so | `Permissions`, `AppShell`, `SignIn`, `ReviewScreen`, `SelectionPages`, `EditorPages` |
| Deployment (`deploy.sh`, `scripts/gcp/deploy.ts`) | revisions of the cluster, tunnel, token file | check, migrate, roll out, undo, clean up | migrations first; a deployment that fails leaves what had not passed its gate | `Rollout` |
| Cron scheduler, lifecycle predicates of `core`, agents, migrations and seeds, UI package | | | | not modelled, see the end |

### How they interact

* The components of the money meet in the table `commission_records`. `CommissionRecords`
  has each SQL statement that writes it as an operator; the modules that extend it say
  which handler runs which statement, when. A module that leaves a handler to another one
  still has its statements as surroundings: `CommissionRuns` lets calculations, releases and
  clawbacks happen at any moment (`HoldSide`, `Calculate`), `CommissionHolds` lets runs
  approve records (`ApproveInRun`), `CommissionExceptions` lets runs close (`Close`).
* Reconciliation meets the close in the count of open discrepancies that a finalization
  reads. `MonthEnd` composes the two.
* The worker meets the server in the queue only, and simulations go through it with a token
  in the payload of their task: `Simulations` extends `TaskQueue`.
* Phases refer to contributors that requests about the placement add and remove:
  `BillingPhases` extends `Placements`. The engine resolves plan versions while they are
  activated: `CommissionPricing` extends `PlanVersions`.
* A page meets the server in calls that are sent, served, answered or lost. `ReviewScreen`
  serves them in one step each, over the one run it shows; the statements of the same
  handlers are in `CommissionRuns`.

### What is hard

* A handler reads a row and acts on it after other requests have changed it.
* A handler of several statements throws, or the server stops, in the middle: what was
  written stays, and the retry starts from there, or is refused because of it.
* A reply is lost and the client, or the worker, tries again; leases run out while their
  holder is still at work.
* A report is made of several statements without a snapshot.
* Answers reach a page in any order, after it has moved on.
* The key store and the key caches are filled by calls that meet half-way.
* A script is killed, or `kubectl` fails, between two steps of a rollout.

`PROJECT.json` lists forty such hazards, each at the line where it bites, with the
properties that would catch it going wrong.

## Modules

A handler is modelled in the same way everywhere. `req[q]` (or `call[..]`, `report[..]`,
`job`) is a request in a slot `q`: its `pc` names the statement its handler runs next, the
other fields are the handler's local variables, an early return is a step back to `Idle`,
and a statement that throws is `Fail`. An action is one statement with every check and
assignment up to the next one. A page is modelled likewise: a call is `sent`, `done` or
`failed`, and handled by the component that sent it, if it is still there.

### The close

**`CommissionRecords`** is the table. A row has a status, a hold reason and
`net_payable`, relative to its value at the INSERT. What is not obvious is the conditions
of the statements: the clawback does not take Approved records, the phase release
(`PayListed`) names rows by id only.

**`CommissionRuns`** is creation, review, approval, finalization and export. `runs[n]`
joins `commission_runs` with its junction rows. A run can be found and acted on from its
INSERT on, while its records are still being linked, and any statement may throw. What
goes wrong when an approver is faster than the creation is kept apart by a history
variable: `hasty` has the runs whose reviews were read, and found complete, before the last
link. All other runs must be right.

**`Reconciliation`** has the GET that deletes the unacknowledged rows and inserts what it
finds, one statement at a time, from the two tables it has read before; the
acknowledgments; and the page of the report with its calls. An acknowledgment reads the row
(404, 409) in one statement and updates it in another, which does not ask again: two of one
row may both be answered 200. The page counts both; `crossed` is the history of that, and of
a report that was run beside an acknowledgment. **`MonthEnd`** puts it beside
`CommissionRuns`: what that module leaves open, whether a run has an unacknowledged
discrepancy, here the rows tell.

**`CommissionHolds`** is the life of a record from calculation to Payable. The
transactions `Trigger` and `Expire` are one step each, since both begin with a conditional
UPDATE of the period, on whose row lock they meet. `collectedAt` is kept apart from the
status of an invoice because the code never clears it. Time is a flag (`over`: the end of
the window has passed). The lines of an import are one request each. Guarantee periods
begin and end at any moment: no code of the program inserts them or schedules their scan.

**`ClawbackLedger`** is the clawback statement by statement: the transaction with its row
lock, its charges and the recovery schedules, and the audit entry after the commit. It
implements **`GuaranteeLife`**, which says what `CommissionHolds` takes for one step.

**`CommissionExceptions`** is the decision on an exception and the read-modify-write of
`net_payable` that follows it (`ReadNet`, `WriteBack`: the amount is encrypted and cannot
be incremented in SQL). **`Disputes`** is the resolution of disputes from pages that were
loaded earlier; **`Adjustments`** is the ledger of refunds and credits.

### What the amounts come from

**`PlanVersions`** goes one level deeper than the others, because the code relies on what
one statement does: an activation supersedes and activates in a single statement with two
data-modifying CTEs. PostgreSQL runs it on a snapshot and tests a row again that others
changed meanwhile, so the statement is two steps, the snapshot (`seen`, `draft`) and the
writes; so is the INSERT that takes MAX(version_num) + 1 under a UNIQUE constraint.
**`CommissionPricing`** has the five stages of the engine as operators, the reads they are
fed from, and the tier progress that the portal computes by other code.

**`Placements`** has PATCH with the expiry it computes, submission, approval and rejection
with the journal, and the splits whose total is checked after the INSERT.
**`BillingPhases`** has phases, who is credited on them, their invoice, and the commission
calculated from them; a release is one step here, its statements are in `CommissionHolds`.

**`PortalReads`** has every list and page with confidential or sensitive fields: the ids,
the rows and the flags are read in statements of their own. **`Reports`** has the
executive's and the manager's figures against the changes that come between their
statements.

**`FieldEncryption`** has the caches of the encryptors, filled by calls that await the
adapter, in development (keys derived from names) and in production (keys drawn at
random).

### The queue

**`TaskQueue`** has tasks, tokens and jobs. A job is what a worker, or a request of a
worker, knows of an attempt, and may linger long after the attempt was recovered. A lease
and a retry delay are the flags that `LeaseExpires` and `RetryDue` move. The sweep
(`Recover`) may run at any time or never, as no server starts it. **`TaskLife`** is its abstract
specification, for whoever enqueues: a task is tried a bounded number of times, given up
only after the last, done only after a try, and done for ever. `TaskQueue` implements it
with `life <- lives, tries <- attempts`. **`Simulations`** has the five statements that
queue a simulation, the worker that posts the forecast with the token of the payload, and
the page that polls.

### The browser and the door

**`Sessions`**, **`RateLimiter`**, **`SignIn`** (the probe of the session, the login page
and its passkey buttons), **`ReviewScreen`** (the run review page), **`SelectionPages`**
(pages that show what is selected), **`EditorPages`** (pages that change rows and fetch
them again), **`AppShell`** over **`Permissions`** (who is sent where, what each page
loads, and what the server answers), **`Rollout`** (the deployment scripts).
A request is answered by `requireAuth`, then by the double-submit check of the CSRF token
(`verifyCsrf`), then by the route and its handler; a persona of the demo has no CSRF cookie
unless a passkey set one before (`csrf`). On the editing pages a click clears the error of
the form or the row it is made in (`ClearError`), so an error that told of a list that is
not fresh can be clicked away (`dismissed`). A deployment has the types of worker that it
was asked for, of which there are none by default.
**`WebApp`** composes all of these but `EditorPages`; they share no state.

The `MC...` modules give the constants of a run their values, join modules that one run
checks, and add symmetry of request slots, used by runs without liveness only. The
`...Proofs` modules hold the theorems; `Sums` has the lemmas about sums over finite sets
that they share.

## Runs

| run | module, configuration | outcome | properties |
|---|---|---|---|
| `month_end` | `MCMonthEnd`, `MonthEnd.cfg` | holds | `MCTypeOK`, `ReportTells`, `ApprovalSound`, `ExportSound`, `GateHolds`, `Irrevocable` |
| `commission_runs` | `MCCommissionRuns`, `CommissionRuns.cfg` | violated | `ApprovedRunReviewed` |
| `commission_holds` | `MCCommissionHolds`, `CommissionHolds.cfg` | holds | `TypeOK`, `HoldsSound`, `SerialReleases`, `OutcomeFinal` |
| `commission_exceptions` | `MCCommissionExceptions`, `CommissionExceptions.cfg` | holds | `MCTypeOK`, `NetFromApproved`, `TrailsTellTruth`, `ClawbackSound`, `DecidedOnce`, `ImplementsLife` |
| `commission_exceptions_lost` | `MCCommissionExceptions`, `CommissionExceptionsLost.cfg` | violated | `NetIsTotal` |
| `task_queue` | `MCSimulations`, `TaskQueue.cfg` | holds | `MCTypeOK`, `ClaimsExclusive`, `LivesAsPromised`, `ForecastOnce`, `PageSettles` |
| `plan_versions` | `MCPlanVersions`, `PlanVersions.cfg` | holds | `MCTypeOK`, `VersionsSound`, `PriceSound`, `ActivationKeepsPlan` |
| `released_net` | `MCPlanVersions`, `ReleasedNet.cfg` | violated | `ReleasedPaysNet` |
| `billing_phases` | `MCBillingPhases`, `BillingPhases.cfg` | holds | `MCTypeOK`, `TablesAgree`, `KeysSound`, `ReadsSound`, `SumsAgree`, `PagesTell` |
| `field_encryption` | `MCBillingPhases`, `FieldEncryption.cfg` | violated | `AlwaysOpens` |
| `placements_patch` | `MCBillingPhases`, `PlacementsPatch.cfg` | violated | `PatchKeepsAbsent` |
| `web_app` | `MCWebApp`, `WebApp.cfg` | holds | `TypeOK`, `SessionsSound`, `LimiterSound`, `PagesServed`, `ScreensTell`, `RolloutSound`, `ScreenSettles`, `FailureAtBoundary` |

Some properties join claims that have names of their own:

| property | says |
|---|---|
| `ApprovalSound` | `ApprovedAsReviewed`: an approved run was reviewed record by record and is complete, unless it was approved in haste; `ApprovedRecordBacked`: an Approved record is in an Approved run |
| `ExportSound` | `ExportedWhole`: the file has all records of the run (of a run approved in haste, no others); `ReplyIsArtifact`: all who ask get that file |
| `Irrevocable` | one formula: a stored file never changes, and no approval takes a record back from a clawback |
| `ReportTells` | `DifferencesStand`: after a report that ran alone each difference has a row; `RecPageTells`: the page never counts more than it lists, and counts right and gives the all-clear rightly but for a report run beside an acknowledgment and a row acknowledged twice |
| `HoldsSound` | `GateBacked`: what left the gate has a collected payer; `ChargedOnce` |
| `SerialReleases` | with requests one after the other: `PaidReleases`, `PhasePaidReleases`, `ExpiredReleases` |
| `TrailsTellTruth` | `ConfirmedByResolver`, `AuditNamesResolver`, `PriorsNest` |
| `ClaimsExclusive` | one job for each attempt, one request let through for each token |
| `TablesAgree` | `PlacementsSound`: `ExpiryMatches`, `TimelineTellsStatus`; `PhasesSound`: `CreditsValid`, `PhaseCredited`, `ReleasedByLinked` |
| `KeysSound` | `DevOpens`: in development what was stored opens; `DekAge`: no key is used past its time |
| `ReadsSound` | `TitlesMasked`, `NoUnloggedData`, `PayoutsAgree`, `ScopeKept` |
| `SumsAgree` | `FinalizedFits`: finalized splits share out no more than the fee; `FiguresAgree`: `BreakdownsAgree`, `RateIsShare`, `TeamAddsUp` |
| `PagesTell` | what is shown at rest is stored: always (`GuardedPagesTell`), for a user who waits (`PatientPagesTell`); `DecidedLeave`: no deal leaves the list undecided |
| `SessionsSound` | `AcceptsLive`, `LogoutSticks`, `CeremonyOnce` |
| `LimiterSound` | `RateBound`: no window holds more than the limit; `RetryAfterHolds`: who waits as long as told is let in |
| `PriceSound` | `PricedByRules`, `AccruedIsCollected`, `ProgressAgrees`: the portal shows the rate that the engine applies |
| `PagesServed` | `SidebarOpensPage`, `HighlightTells`; `LoadsServed`, `SelfServiceServed`: what a page loads, or offers, is served to its role; what changes something, in a browser with the CSRF cookie |
| `ScreensTell` | `ScreenTellsApproved`, `ViewMatchesCookie`, `ButtonsTell`, `ShownIsSelected`, `TrendsCoverRange` |
| `RolloutSound` | `MigratedFirst`, `WorkersFollowServer`, `CleansUp` |

What they show:

* **The close is sound but for an approver who is faster than the creation of the run.**
  Reviews, approvals, finalizations, exports, clawbacks and releases of two requests
  interleave in all ways, on runs that are listed before their records are linked, with
  statements that throw anywhere (`month_end`). A run whose reviews were read complete
  after its last link is approved as reviewed, and exported whole; that all exports
  agree, that no file has a record of another run, and that approvals do not undo a
  clawback holds for every run. A run whose reviews were read before can be approved with
  records that nobody reviewed, against the documentation (`commission_runs`).
* **The reconciliation gate holds what the last report found.** A finalization gets past it
  without an override only if every difference was acknowledged, as long as reports do
  not overlap; acknowledged rows stay in any case. The page counts down twice for a row
  that was acknowledged twice at once, and too early when its report already knew.
* **The collection gate does not leak, but may not open.** `GateBacked` holds with everything
  interleaving and failing; that a payment releases what it pays for holds for handlers that
  run one at a time, and fails as soon as a calculation overlaps a payment. What is wrong
  is the interleaving and not the rule.
* **An exception is decided once and posted at most once, but may not be posted.** Two
  approvals on one record that overlap lose one amount (`commission_exceptions_lost`).
* **A clawback charges what it takes, once**, and its audit follows the commit, whatever is
  calculated between its statements.
* **The queue is safe; that it goes on is not assured.** Tokens are single use, attempts
  exclusive and tries bounded without any help of the workers, whenever the sweep runs, and
  should it never: no server starts it today, and a claim whose worker stopped stays. A
  simulation keeps its first forecast although its task is never completed, and its
  page gives up by itself.
* **Activations are safe against each other.** Any number of them leave a plan that had
  rules with rules; prices follow rules that were in force. But a released record pays
  nothing (`released_net`).
* **Splits, phases and journal agree under any interleaving; a PATCH does not keep what it
  does not name** (`placements_patch`).
* **Development keys open everything, production keys do not** (`field_encryption`).
* **The browser shows what is so** on the pages that guard their refetches, and on the
  others for a user who waits, except that the user can click away the one error that tells of
  an added producer who is missing from the list; sessions survive restarts and rotations;
  a rollout that gives up leaves the cluster at a gate.

### Bounds

Two request slots make every pair of handlers race at every pair of statements; the wrong
outcomes of this program are all of two handlers. Slots are reused, so sequences of
requests of any length are covered. Where a third party matters (exceptions, plan versions,
page calls) there are three.

* *Month end*: `subject` chooses what a behaviour is about: one request at a time beside
  the reconciliation (`close`), two requests on one run from its creation on, with every
  statement allowed to throw (`runs`), or the page of the report (`page`). The run has two
  records, so that *some* differs from *all* and a link can come after the reviews were
  read; `commission_runs` has them of two placements, so that a creation reads them in
  two statements. One invoice
  number suffices for a difference in amount, a difference in date and a missing entry; two
  GETs overlap; three calls of the page are out at once.
* *Holds*: one placement, a contingency record and a record of a phase, an invoice for
  each. `serial` chooses between everything at once (with imports and failures) and one
  request after the other (with two invoices and all statuses).
* *Exceptions*: the impacts are 1, -2 and 4, of which no two sets have the same sum, so
  `NetFromApproved` tells which amounts were added. Two or three users on two disputes;
  three posts to one ledger; two clawbacks with two claims of two producers.
* *Queue*: `MaxAttempts = 2` has a first, a last and a recovered try; a token of the workers
  and one of a simulation. A job that exists never blocks another, and their number is
  bounded by the attempts. `setting` chooses tasks of any agent, or simulations.
* *Plans*: two versions of one plan and three requests, the shortest case in which one
  activation is overtaken by two others. For the price two contributors that reach different
  tiers, one exactly at its threshold.
* *Placements and phases*: six scenes (`MCScenes`), each a table and the operations that meet
  on it: the operations that share no table do not have to be explored together. Two
  placements, three contributors, two phases, two invoices. In the same run `subject`
  chooses phases, encryption (two encryptors, a time to live of two ticks), reads, reports
  or pages (three rows, three clicks, two calls out at once).
* *Web*: one part for a behaviour. Three keys make a rotation and a retired key; the window
  of the limiter is four ticks and a second three, so that rounding shows; two deployers,
  three images, one of them bad, and two types of worker, of which a deployment is asked for
  none, one or both.

Bounds that cut a counter off are guards of the user's, the clock's or the adapter's
action, never of a handler's: `MaxEdits`, `MaxChanges`, `MaxSelects`, `MaxReports`,
`MaxExceptions`, `MaxEvents`, `MaxDeploys`, `MaxTime`, `LastTick`, `MaxDrawn`, `MaxCount`.
Attempts end at `MaxAttempts`; amounts and version numbers end with the ids.

### Fairness and deadlock

* `MCSimulations!MCSpec` is weakly fair to the polling timer of the page (`PagesPoll`), which
  the browser runs as long as the page is open. Nothing is assumed of the workers, the
  sweep or the clocks of the queue.
* `WebApp!Spec` is weakly fair to a call of the review page being served or lost and to its
  answer being handled (`ScreenFair`): a browser settles every promise.

The other specifications state no fairness.

TLC looks for deadlocks in `plan_versions`, `released_net` and `commission_runs`, where some
request is always possible. In the others the ids or the user's clicks may be used up
and everything settled, which is no failure; `CHECK_DEADLOCK FALSE` says so there.

## Proofs

A `...Proofs` module extends the specification itself, or the `MC...` module that a run
checks, so the theorems are about the definitions that TLC evaluates, for all values of the
constants. A row says which specification the theorem is about; "(run)" marks a property
that a run checks.

| module | theorem | establishes |
|---|---|---|
| `CommissionRunsProofs` | `TypeCorrect`, `RepliesAgree` | `Spec => []TypeOK`, `[]ReplyIsArtifact`: two clients that ask for an export get the same file |
| | `ApprovalIsSound`, `ExportIsSound` | `Spec => []ApprovalSound`, `[]ExportSound`: every run that was not approved in haste is complete and reviewed, and exported whole |
| | `NothingIsUndone` | `Spec => Irrevocable` |
| | `MonthEndTyped`, `ReportsTell`, `GateStands`, `MonthUndoesNothing`, `MonthRunsSound` | the close and its reconciliation together: `MCSpec` implies `[]MCTypeOK`, `[]ReportTells`, `GateHolds`, `Irrevocable`, `[](ApprovalSound /\ ExportSound)` (run) |
| `CommissionHoldsProofs` | `TypeCorrect`, `GateSound`, `ChargedAtMostOnce`, `HoldsAreSound` | `Spec` implies `[]TypeOK`, `[]GateBacked`, `[]ChargedOnce`, `[]HoldsSound` (run) |
| | `OutcomesExclude` | `Spec => OutcomeFinal` (run): a period does not leave the outcome it has |
| | `SerialRequestsRelease` | `MCSpec => []SerialReleases` (run): handlers that do not overlap release what is paid |
| `CommissionExceptionsProofs` | `TypeCorrect`, `AdjustmentsAreSingle`, `DecisionsStand` | one decision (run) and at most one adjustment for each exception |
| | `NetIsFromApproved` | `Spec => []NetFromApproved` (run): a net is a sum of amounts that were approved, each at most once |
| | `ClawbackTyped`, `TakenRecordsAreCharged`, `AuditFollowsCommit`, `SchedulesAreOwed`, `ClawbackIsSound` | `ClawbackSpec => []ClawbackSound` (run) and its parts |
| | `ClawbackImplementsLife` | the statements implement `GuaranteeLife` (run) |
| | `AllTyped`, `TrailsAreTrue` | `MCSpec` implies `[]MCTypeOK`, `[]TrailsTellTruth` (run) of exceptions, disputes and ledger together |
| `TaskQueueProofs` | `TypeCorrect`, `RetriesBounded`, `AttemptsExclusive`, `TokensSingleUse`, `ClaimsAreExclusive`, `CompletionFinal` | the queue, without any assumption on workers |
| | `QueueImplementsLife` | `Spec => LivesAsPromised` (run): the queue implements `TaskLife` |
| | `SimulationsTyped`, `ForecastsAreSingle`, `SimulationsKeepQueue` | `MCSpec` with simulations on top keeps all that, and one forecast for each (run) |
| `PlanVersionsProofs` | `TypeCorrect`, `NumbersAreDense`, `AuditsAreTrue`, `LifecycleKept`, `PlanKept`, `VersionsAreSound` | `Spec => []VersionsSound`, `ActivationKeepsPlan` (run) and their parts |
| | `PricingTyped`, `PricesAreSound` | `PricingSpec` implies `[]MCTypeOK`, `[]PriceSound` (run): pricing while versions are activated |
| `FieldEncryptionProofs` | `DevelopmentOpens`, `CachedKeysAreFresh`, `KeysAreSound` | `EncryptionSpec => []KeysSound` (run) and its parts |
| | `TablesAreSound`, `PhasesAreSound` | `Spec => []TablesAgree` (run) of placements with billing phases, and its second part |
| | `ReadsAreSound` | `ReadsSpec => []ReadsSound` (run): masking, audit, payouts and scope |
| | `FiguresAdd`, `ReportsCount` | `ReportsSpec => []FiguresAgree`: the figures of a report add up, and what they are over |
| | `PagesAreTrue` | `PagesSpec => []PagesTell` (run) of the editing pages |
| | `BillingHolds`, `SumsAreSound` | `MCSpec` of the run implies `[]MCTypeOK`, all the above, and `[]SumsAgree` (run) |
| `WebAppProofs` | `LiveTokensAccepted`, `LogoutIsFinal`, `CeremoniesAreSingle`, `SessionsAreSound` | `Spec => []SessionsSound` (run) and its parts |
| | `ScreensTellTruth`, `RolloutsAreSound`, `FailuresLeaveBoundary` | `Spec` implies `[]ScreensTell`, `[]RolloutSound`, `FailureAtBoundary` (run) |
| | `WebTyped`, `LimiterIsSound`, `PagesWork` | `Spec` implies `[]TypeOK`, `[]LimiterSound`, `[]PagesServed` (run) |

Every safety invariant and every action property of a passing run is stated by a theorem.

### Assumptions

They are named in the modules that declare the constants, and TLC evaluates each in a run.
All are of three kinds.

* *Keys and columns*: an id refers to one row and NULL is no id (`PlacementOfAssumption`,
  `RecordOfAssumption`, `PlanOfAssumption`, `TaskOfAssumption`, `DealOfAssumption`,
  `DisputedRecordAssumption`, `KindOfAssumption`, `InvoicesAssumption`, `PhasesAssumption`,
  `NoneAssumption`, `NoTokenAssumption`, `NobodyAssumption`, `UnsetAssumption`,
  `RowsAssumption`, `NullAssumption`, `NoDisputeAssumption`, ...): foreign keys and primary
  keys of `packages/db/schema.sql`.
* *Numbers*: amounts, dates, terms and bounds are numbers of the right sign
  (`ImpactAssumption`, `CountsAssumption`, `DatesAssumption`, `SplitsAssumption`,
  `TtlAssumption`, `MaxAttemptsAssumption`, `WindowAssumption`, `AmountsAssumption`,
  `EditsAssumption`, ...); sets that are counted or summed are finite
  (`FiniteAssumption`, `GapsAssumption`, `ReportsAssumption`, `RowsAssumption`), a calendar has
  its months in order and a day at least (`CalendarAssumption`), and the tiers of a version
  ascend, as `validateTiers` sees to (`RulesAssumption`).
* *Beginnings*: the scenes a behaviour starts from are tables that the handlers can have
  left (`ScenesAssumption`, `PhaseScenesAssumption`, `NoBooksAssumption`), and switches are
  switches (`SwitchAssumption`, `FailuresAssumption`).

None excludes a setting the program is shipped with: `Types` may be 0, which is the empty
`WORKER_TYPES` of `deploy.sh`. No theorem has a hypothesis beyond its specification.

### Inductive invariants

The properties are about rows. None is inductive, because a handler acts on what it has
read before; an invariant has to say, for each statement a request may be at, what of the
values it carries is still true. It nearly always has three parts: the types, a conjunct
for each request (what it knows at its `pc`), and a conjunct about two requests (what one
may not do to the other).

* **Runs** (`Shape`, `Closed`). `Shape` is `WellFormed`: at each statement the run has the
  status that the preceding ones have given it, or a later one. `Closed` is `Knows`: a
  request about to approve has read a run that is complete and reviewed, unless the run is
  `hasty` (`Firm`), and one about to store an artifact has read records of the run, all of
  them unless it is `hasty`. It is inductive because links and reviews are only added, a
  run that is complete stays so, and `hasty` only grows. What no approval can undo follows
  from the WHERE conditions of `CommissionRecords` alone.
* **Month end** (`MonthInv`, `PageInv`). A report reads two tables, deletes, then inserts
  row by row, and only a history variable (`compared`) knows what it found. `MonthInv` says
  what is missing from the table while a report that runs alone inserts (`Alone`,
  `Inserting`), and that nothing is missing after; `Noting` says the same of its return.
  It also says that the flag the close reads is the count that the rows give.
  `PageInv` says that one GET is out at most (`OneFetch`), that what the page shows as
  acknowledged is stored, and one answer at most is on its way for a row (`Recorded`), so
  that the count is the number of the open rows (`Counted`). Where acknowledgments of a row
  overlapped, or a report ran beside one (`crossed`), the count is only bounded by them.
* **Holds** (`Inv`, `SerialInv`). A record that left the gate has a payer whose
  `collected_at` is set; a request that releases knows of one (`Knows`), and `PaidCollected`
  lets it learn that from the status. For handlers that do not overlap, `SerialInv` says what
  the one request that is served still has to release (`Due`) and what it has learnt, and
  that outside of it nothing is due (`HoldOK`, `Uncollected`).
* **Clawback** (`ClawbackInv`). All else follows from `Exclusive`: the row lock of the
  period, taken by the conditional UPDATE, is held by one transaction. Then `Covers` and
  `Scheduled` say which records the open transaction has still to charge, and `Quiet` that
  nobody else has written any.
* **Exceptions, disputes, ledger** (`Knows`/`Apart`, `DisputesInv`, `LedgerInv`). Two
  approvals both pass the check; what keeps them apart is that the conditional UPDATE of the
  second returns no row. A page may be stale but knows whose resolution it was told; trails
  nest because rows are only appended. For the amounts `NetInv` says that a net, and what a
  request has read of one, is the sum of a finite set of exceptions whose adjustment is
  over; such a set only grows by the one exception that a request is adding.
* **Queue** (`Inv`, `SimInv`). The attempts of a task are counted by its jobs
  (`JobsCounted`): a claim makes a job with the next attempt, so no two have the same. The
  refinement of `TaskLife` needs that and no more. `SimInv` follows the token that is
  embedded in a payload (`Embedded`), is carried by a job and is used by its post
  (`Carried`).
* **Plans** (`Inv`). `Numbered`: the numbers of a plan are 1 to n, so MAX + 1 is free unless
  somebody else took it, and the UNIQUE constraint refuses it then. `Snapshots` says how old a
  snapshot may be and `Ordered`, `Renewed` that versions go forward only, so that what an
  overtaken activation still writes is no harm.
* **Prices** (`PriceInv`). What a calculation has read stays true: an invoice is not unpaid, a
  window does not open again, and a version that was in force never becomes a Draft
  (`CalcOK`). A row is what the five stages make of its version (`RecordOK`). That engine and
  portal agree is a fact about two algorithms, a fold over the tiers and a search in a
  sorted copy: sorting ascending tiers changes nothing, and both find the last tier
  that is reached.
* **Encryption and phases** (`Inv`, `PhasesInv`). A cache entry is as old as the call that
  asked for it (`Dated`), in development it holds the key that the name gives (`Derived`). For
  phases `BillOK` keeps, per request, the links it has read: they may have been changed since
  but are in the history (`LinksNoted`), and a referenced contributor cannot be deleted
  (`References`).
* **Splits** (`SharesInv`). What is finalized of a placement was part of a sum that was tested,
  and only shrinks until the next; the request that is about to sum has its own
  contributor in the table, or undone.
* **Placements** (`PlacementsInv`). A request that will write a row carries the expiry of
  the dates it will write (`RequestOK`), although it computed it from an older row. As long
  as nobody interferes, one request at most decides on a placement, and the status is that
  of the event which it will note, or of the last that was noted (`Journaled`).
* **Reads and reports** (`ReadsInv`, `ReportsInv`). Whatever is public or in scope now was so
  at some moment since each request under way was received (`Witnessed`), so it may show what
  it reads (`Masked`, `Scoped`). A record that a report has read keeps its contributor, as the
  foreign key does, so each falls into exactly one part of every breakdown, and the sums by
  client and by producer are the same sum in another order.
* **Pages** (`EditInv`). On a page with `useAsync`, the loads of the last refresh have read
  what is stored, unless a change was made whose answer is still to come, which will refresh
  again (`Guarded`). For a user who waits, the one call that is out says how far the list
  is from what is stored (`Patient`); rows whose reload failed are missing from it, and an
  error says so (`Excused`) until the next click takes it away (`dismissed`).
* **Web** (`WebInv`). Each screen has a conjunct of its own, each call of it one that says
  what its answer will be worth; for a deployment what its gates have shown so far
  (`InPlace`, `Orderly`, `Rolled`). For the limiter, every admitted request that still counts is
  on the list (`Noted`), and a promise names the time that will have freed a place (`Room`).
  For the trends (`TrendsInv`), the months of a range are the values of a recursive
  function, for which the proof gives a closed form, so that the loop of the code finds
  each month once. For the shell (`Guided`), whoever did not type the path is on a page
  that the sidebar highlights, unless the redirect still has to follow a change of the role;
  what the pages ask for is then a finite table, and each request is put to the
  CSRF check, to the matrix of the permissions and to the check of its handler. A session
  without the cookie is one of the demo, whose mutations are refused, and nothing is
  promised of them. A rollout carries the types of worker it was asked for, perhaps none.

Sums are folds, and the induction theorems of the library take an operator, so `Sums`
argues by a smallest counterexample: strict inclusion is well founded on finite sets. That
gives what a sum does when its set or its summands change, from which all of the above
follows without induction.

Proof attempts found errors of the model, which were corrected. Guards of a CASE that overlap
were taken in the order in which they are written, as TLC does and TLA+ does not say: the
routes of the shell, the answer of the permission matrix and the check of a revocation
are IF ... ELSE now, as the code is. And a page that
changes a row by two calls (`SplitApproval.tsx`) was said to be among those that show the
stored rows however the clicks overlap. The proof failed because the answer to a reload
may be older than the first half of another change, and TLC confirms it with four
rows, where the run has three; the claim is now made for a user who waits, and the
stronger one is below (`SplitsFresh`).

### Only model-checked

* Liveness under fairness, which TLAPS cannot do here: `PageSettles`, `ScreenSettles`.
* The five violations below, which are counterexamples. The properties listed under "Other
  divergences" have no theorem either, being false.

## What the program does otherwise than it says

Five runs expect a violation, each of a sentence of the program's own documentation.

| run | property | what the program does |
|---|---|---|
| `commission_runs` | `ApprovedRunReviewed` | `createCommissionRun` links one record at a time (`db/commission-runs.ts:86`) after the run is listed (`:143`): who approves it meanwhile approves a run that then gets records nobody reviewed (`api/commission-runs.ts:409`) |
| `commission_exceptions_lost` | `NetIsTotal` | `adjustNetPayable` (`commission-records.ts:288`) reads the encrypted amount, adds and writes it back with no lock: of two approvals that overlap one amount is lost, and both replies say `ledger_adjusted` |
| `field_encryption` | `AlwaysOpens` | `GcpKmsAdapter.deriveKey` (`kms.ts:166`) draws a random key each time, and each module has a cache of its own: in production a stored amount cannot be opened by another module, nor after five minutes or a restart |
| `released_net` | `ReleasedPaysNet` | a held record is stored with `net_payable` 0 (`calculation-engine.ts:378`) and the release changes status and reason only: it becomes Payable with 0 |
| `placements_patch` | `PatchKeepsAbsent` | `updatePlacement` (`placements.ts:389`) writes NULL to start date, guarantee days and expiry when the body does not name them |

### Other divergences

The modules state more of what the documentation asks for and the code does not do. No run
checks these; each is violated when it takes the place of the properties of the configuration named.

| property | configuration | what happens |
|---|---|---|
| `ReconciledBeforeApproval`, `ApprovalCoversRun` | `CommissionRuns.cfg` | the gate guards one of two endpoints that approve; approval skips records that a calculation changed meanwhile (`docs/prd.md:140`, `api/commission-runs.ts:414`) |
| `ApprovedRunSettles` | `CommissionRuns.cfg`, with any fairness of the handlers | the statement that sets the records throws after the one that set the run: a retry is answered 409 (`db/commission-runs.ts:277`) and they wait for ever |
| `AcknowledgedOnce`, `GateHoldsDuringReports`, `AllClearAlways`, `AllClearUnblocks` | `MonthEnd.cfg` | a difference that was acknowledged gets a second, open row from the next report; the table is empty for a moment while a report is made; two acknowledgments of one row are both answered 200 and lower the page's count twice (`ReconciliationReport.tsx:651`), as does the answer for a row its report knew as acknowledged; another admin's report has put open rows in their place |
| `ClaimsEnd` | `TaskQueue.cfg`, with any fairness that leaves out `Recover` | no server starts `startStaleClaimRecovery`: a task whose worker stopped stays claimed |
| `DeadIsTerminal`, `FinishedIsNotRetried` | `TaskQueue.cfg` | a slow worker completes a task that was given up (`rule-task-queue.md:81`); the task of a finished simulation is run again |
| `OneResult` | `TaskQueue.cfg` with a second token of `t1` | a recovered task and its slow first worker both submit (`rule-task-queue.md:18`) |
| `AmountsFrozen` | `CommissionExceptionsLost.cfg` | an exception that was read before its run closed is posted after (`core/commission-run.ts:44`) |
| `EscalatedStaysOpen`, `SubmittedIsEscalated`, `PriorsComplete` | `CommissionExceptions.cfg` | what a manager escalates is resolved instead, and a submitted dispute never reaches the executive's list; two posts at once do not name each other |
| `ChargedIsTaken`, `InstallmentsRecover` | `CommissionExceptions.cfg` | Approved records, and those calculated meanwhile, are charged and not taken; installments are rounded: three of 0.33 for 1.00, 201 of 0.00 |
| `PaidReleases`, `PhasePaidReleases` | `CommissionHolds.cfg` | a record that is calculated from an unpaid invoice while that is paid stays held (`docs/prd.md:126`, `:128`) |
| `ReleasesHeld`, `ReleaseJournaled` | `CommissionHolds.cfg` | `PayListed` names rows by id and pays one that was taken meanwhile (`db/billing-phases.ts:432`); a release that breaks off has no row in the journal (`schema.sql:749`) |
| `WindowOverridesGate`, `ClawbackTakesApproved` | `CommissionHolds.cfg` | a payment releases within the window (`core/calculation-engine.ts:401`); a clawback leaves what was approved (`db/clawback.ts:168`) |
| `TransitionsValid` | `CommissionHolds.cfg`, second invoice free to be absent | a PATCH decides on a status read before (`api/invoices.ts:248`) |
| `OneActive`, `ActivationWhole`, `AuditedOnce` | `PlanVersions.cfg` | two activations that overlap leave two Active versions, or supersede without activating; an acknowledgment sent twice is audited twice (`api/plans.ts:624`) |
| `PricedAlike`, `CalculationWhole` | `PlanVersions.cfg` | contributors of one placement are priced by two versions; a failure leaves half of the records |
| `RecordsAgree`, `ExecutiveAddsUp` | `BillingPhases.cfg` | rows of one reply mask a placement differently; Approved commission is income, and in no column of the executive's |
| `PaidPhaseReleased` | `BillingPhases.cfg` | linking a phase to a paid invoice does not release it |
| `AddedShown` | `BillingPhases.cfg` | the reload after an addition failed, and the next removal clears the error (`placements/PlacementLedger.tsx:707`) without loading again |
| `LedgerFresh`, `CreatedShown`, `SplitsFresh` | `BillingPhases.cfg`, the last with four `Items` | reloads that are answered in the other order, the first load after a creation, a refresh between the two calls of a change |
| `OneDemoCall`, `LeftTabIsLeft` | `WebApp.cfg` | Enter sends the demo sign-in twice; a ceremony of a tab that was left may sign in |
| `FinalizedStays`, `BlockedClears`, `ApprovedCanFinalize` | `WebApp.cfg` | a queue asked for before replaces the page that says finalized; an old block is still shown beside "Run approved"; what the page says to finalize next is refused with 409 (`CommissionRunReview.tsx:537`, `api/commission-runs.ts:546`) |
| `TimelineOfSelected`, `OffersServed` | `WebApp.cfg` | a timeline answered late is shown under another placement; menus offer pages whose calls are refused, and a persona of the demo has no CSRF cookie, so that all it posts is refused (`index.ts:304`) |
| `DoneIsDeployed` | `WebApp.cfg` | a `deploy.sh` or `kubectl` that is killed counts as a success (`scripts/gcp/common.ts:258`) |
| `RerunHarmless` | `WebApp.cfg` | deploying the image that runs, with a gate that fails, goes back to the revision before it (`rule-deploy.md:354`) |

`DeployTsNeverPasses` is the other way round: it holds, and should not. `deploy.ts:248`
passes a URL that ends in `/healthz`, `deploy.sh:48` appends `/healthz` once more, the gate
never answers, and every deployment by `deploy.ts` is undone.

Met while modelling, and stated by no property:

* *Money.* `dispute_rate` can exceed 1, since a record counts once for each open dispute. A
  record in two approved runs is in `/me/payouts` twice, and can be: a run collects records
  that another has. `ytdGross` and `drawBalance` are always 0 (`calculate.ts:140`). Nothing
  ever sets a schedule recovered. Posted adjustments reach neither a net nor a file and have
  no idempotency key. One paid invoice releases all gate-held records of its placement. An
  activation does not move assignments.
* *Pages.* The placement form sends back all fields as they were when it was opened. The
  refetch of an added contributor can bring a removed one back.
  `finance/PlacementLedger.tsx` is imported by nobody, and ignores a removal that fails. A
  refresh unmounts the cards of `InvoiceCollection.tsx`, so "Saved" shows only when nothing
  was. `SplitApproval.tsx` changes a split by DELETE then POST: if the POST is refused the
  contributor is gone (a Manager's DELETE is refused by the matrix). `ExecTrends.tsx` drops
  months beyond 24.
* *Permissions.* `GET /producers` is HR's, yet Finance's ledger loads it; `GET
  /invoices/:id`, the download of an artifact and the arbitration of disputes are not
  routed; Executive's embedded Finance page is refused its calls; Finance may enter `/hr` and
  `/portal`, whose handlers refuse. The incomplete list and the ledger are not masked for HR
  and Executive (`placements.ts:104` says they are); reads of partners are not audited.
* *Sessions.* Logout answers ok even if the revocation failed; a failure of the revocation
  lookup is answered 401; the sign count is written unconditionally; a failed probe keeps
  the old persona; the demo session sets no CSRF cookie; two of the limiters are used.
* *Queue and simulations.* The result of a simulation never completes its task; a claim
  before the payload has its token wastes an attempt; a token is spent before the post that
  may fail.
* *Deployment.* A script that is killed leaves the new image without undo; two deployments
  share one port, and a tunnel that was left is used by the next; replay mode overwrites
  the token file.

## Not modelled

* **Cron scheduler and guarantee scan**: nothing boots the scheduler and no code outside the
  tests inserts guarantee periods. What a scan would do are `PeriodEnds` and
  `ExpireRequest` of `CommissionHolds`, at any moment.
* **Lifecycle predicates of `packages/core`**: tables of transitions no handler consults.
* **Agents and model clients**: calls to a language model; a job of the queue stands for
  them.
* **Migrations, seeds, cleanup, test containers**: straight-line tooling outside the service;
  that migrations come first is in `Rollout`, constraints of the schema are in the modules
  that rely on them.
* **UI package and documentation pages**: rendering, no state of their own.
* Within parts that are modelled: passwords (no route), the token of the KMS and
  wrapping of keys (unreachable), `updateTaskStatus`, `invalidateWorkerTokensForPod`,
  `fetchWorkerTokenByJti` (no caller), arbitration (no route), the sums of a draw balance,
  explanations and formatting, tenancy, logging, configuration and parsing.

## Plan

The modules are written, and the theorems above are proved. What is left waits for the
program: the arbitration of disputes and the scan for ended guarantees, once they are
reachable, and the five documented promises above, once the code keeps them.
