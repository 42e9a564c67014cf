# Vibefy in TLA+

Vibefy assesses software other people built, publishes a report, and licenses a badge that says
what the report said. This directory is a formal model of the parts of it where being wrong is
quiet: a badge that stands when nothing supports it, an assessment performed twice or never, a tick
for something nobody looked at, bytes nobody will ever delete, an event applied twice.

`tlc -config Services.cfg MCServices.tla` (and so on, as `PROJECT.json` pairs configuration and
module) checks a run; `tlapm Desk_proofs.tla`, and likewise the other `_proofs` modules, checks
proofs. `PROJECT.json` holds the components with their sources, the runs, a mutant of the code for
every property, the lines each definition stands for, the hazards, the findings and the theorems.

| Section | |
| --- | --- |
| 1 | the system: its parts, their state, what is hard about each, which module models it |
| 2 | the badge register and its sweeps |
| 3 | the assessment queue |
| 4 | the services around them |
| 5 | runs, bounds and fairness |
| 6 | what is proved, from what, and how; what is only model-checked |
| 7 | where the code and its words part |
| 8 | what is not modelled; what is left to do |

## 1. Inventory

The system is one PostgreSQL database, a web application whose server actions write to it under
row-level security, one worker process that writes to it as the owner, and a few providers that
call in. There is no message bus: **every interaction between components is a row one of them
writes and another reads later.** That is why almost every hazard below is a row read before
something and used after it.

| Component | State and operations | What is hard | Correct when | Module |
| --- | --- | --- | --- | --- |
| Badge register and review (`badges`, `assessments`, `badge_events`; `review/actions.ts`, triggers) | approve, reject, adjust, revoke, suspend, reinstate; the unique index | actions are `UPDATE ... WHERE id`, whatever the badge has become since the page was rendered | a mark and its report agree while the mark counts; only a reviewer lifts a suspension for cause | `BadgeLifecycle` |
| Sweeps over badges (`badge.ts`, `monitoring.ts`) | issuance, lifecycle, drift, liveness; the failure counter, alerts | rows read, up to fifty origins probed, rows decided; six writers of one status | an unsupported badge comes down; an outage's badge can come up; no sweep lifts another's suspension; a badge that is down has a notice on record | `BadgeLifecycle` |
| Queue and worker loop (`queue.ts`, `main.ts`) | `assessment_requests`; the claim, `orphanedRun` | two processes; a run that outlives the wait for it; claims taken back by age | one holder per claim; completed means assessed; an answer its worker knows of stands; nothing waits for ever | `RequestQueue` |
| Evidence and retention (`persist.ts`, `governance.ts`) | stored bytes, `evidence` rows, deletion and orphan records | bytes before rows, rows before bytes: two orders and two kinds of crash | a row has its bytes; what is held can be found again | `EvidenceStore` |
| Alert delivery (`email.ts`, `push.ts`, `notices.ts`) | delivery rows, suppressions, devices | a provider that took the message before the process died, or before its answer was lost | "not given" is said of what was not given | `AlertDelivery` |
| Billing (`packages/billing`) | `billing_events`, `subscriptions`, `invoices` | events duplicated, overlapping, answered late | an event counts once; the mirror agrees | `BillingEvents` |
| Seats and invitations (`workspace/actions.ts`, triggers) | `memberships`, `invitations` | triggers read what is committed and lock nothing | seats are oversold, and the last owner lost, by overlap only; a link lets one person in | `Workspace` |
| Assessment run (`pipeline.ts`, `stages/`) | stage results, the criteria not tested, cost | retries, half-done passes, three different stops | no criterion reads as a tick for nothing | `AssessmentRun` |
| Repository scan (`static-intake.ts`, `repository.ts`) | the clone, the walk and what it read | ceilings and unreadable files | silence is of what was read | `RepositoryScan` |
| Game and exit checks (`game-checks.ts`, `exit-checks.ts`) | measurements of a page | a page that falls silent, closes, reloads | a charge was measured; the way out published is the nearest | `GameSurvey`, `ExitSurvey` |
| Trust check and pre-flight (`packages/trustcheck`), and the surveys of a page (`deterministic.ts`, `design-checks.ts`) | none: one look at one page | whose failure it is that nothing was read; a tick is the absence of a finding | no failure of ours is put down to the site; near values do not all accuse each other; a tick was looked for | `PublicLook`, `PageSurvey` |
| Scoped session (`scope.ts`, `browser.ts`, `http.ts`, `client.ts`, `tools.ts`) | the guard's bucket and counts | requests awaiting one slot; errors thrown where nobody hears them | the authorised pace is kept | `ScopedSession` |
| Admission (`entitlements.ts`, screening, authorisations) | the plan, the check of acceptable use, the append-only grants | read in one statement and used in another; a decision overwritten late | no assessment is kept of a withdrawn run; free runs are spaced; a decision stands | `Admission` |
| Verdict (`rubric`, `assurance`, triage) | score, gates, nine public answers | caps, gates and gaps that interact | nothing filed helps | `PublishedVerdict` |
| Reports (`report.ts`) | `reports`, the stuck window, given up and recovered | a rendering between the read and the store | what is served is current | `ReportRelease` |
| Re-assessment and drift (`monitoring.ts`, `packages/monitoring`) | schedule, drift reports | two processes; looks of unequal reach | regressions do not add up unseen; cadence is kept | `Reassessment` |
| Spending pause (`governance.ts`, `main.ts`) | `spend_pauses` | asked before the claim, in another statement | a pause stops every worker | `SpendCeiling` |
| Privacy desk (`privacy/actions.ts`, `governance.ts`) | requests, appeals, exports | a log said once a day by several processes | what is owed is said | `PrivacyDesk` |
| Public badge (`packages/badge`, the public routes, the extension) | keys, copies kept by readers | two processes with their own keys; caches | the public is told what was true | `PublicBadge` |
| Directory, alert texts, rendering, copilot, build tools | none, or one update of one row | no protocol | | not modelled: section 8 |

## 2. The badge register: `BadgeLifecycle`

**Grain.** One action is one auto-committed statement or one transaction. A sweep that reads rows and
acts later is two kinds of action with the rows in a variable: `page` holds issuance candidates with the
score they were read with, `probes` holds liveness rows with the status and failure count they were read
with. Between the two, anything may happen. That is the point of the module. The insert of a badge and
the adjustment of a score are two actions each as well: the triggers that check them read what is
committed and lock nothing, so either may commit between the other's check and its commit. In hand they
are `issuing` and `adjusting`; one of each at a time, since the worker issues one by one.

| Variable | Code |
| --- | --- |
| `assess` | `assessments`: status, `certification_eligible`, `overall_score` in hundredths. Numbers are completion order |
| `sooner` | the order of `reviewed_at` among the approved ones, in which a page of candidates is read |
| `adjusting`, `issuing` | the update of a score, the insert of a badge: checked by its trigger, not yet committed |
| `overlapped` | history: the badges whose insert and a change of their score overlapped |
| `drift` | `drift_reports`: whether an assessment has been compared, and whether materially |
| `badge` | `badges`, with `due` for "`expires_at` has passed" and `events` for the `suspended` and `revoked` rows of `badge_events`, which later actions depend on |
| `told` | the alert row under `badge-suspended:<badge>`: none, of this suspension, or of an earlier one. The key is the badge's alone, so where a row stands a second suspension writes none |
| `authorised`, `pays`, `licensed`, `certifiable` | `app_is_authorised_for_testing`; what the organisation pays with; the licence accepted; whether the CHECK on `certified_origin` takes the origin of the application's address |
| `failures` | `apps.consecutive_liveness_failures` |
| `page`, `probes` | locals of `sweepBadgeIssuance` and `sweepLiveness` |

| Actions | Code |
| --- | --- |
| `RunCompletes` | the transaction of `persistOutcome` |
| `Approve`, `Reject`, `BeginAdjust`, `CommitAdjust` | the three review actions with the triggers that guard them |
| `RevokeBadge`, `SuspendBadge`, `ReinstateBadge` | the badge actions: no guard on the status *now* |
| `ReadCandidates`, `BeginIssue`, `CommitIssue`, `IndexRefuses`, `IssuanceRefused` | `sweepBadgeIssuance`: the page in order of review, then per candidate the trigger, and the index at the commit; the score goes through `toFixed(1)` (`ToFixed`) |
| `ExpireDue`, `SuspendLapsed`, `SuspendUnauthorised`, `RestoreReauthorised` | the four statements of `sweepBadgeLifecycle`, each with the notices raised after it, any of which may be lost |
| `RecordDrift` | `recordDriftFor`, one transaction: report, notices, suspension |
| `ReadForLiveness`, `DecideNothing`, `ProbeRefused`, `ProbeUp`, `ProbeDown`, `DecisionLost` | `sweepLiveness`: the read, the shared cause, and `applyProbe` with the row's transaction, for each outcome |
| `WorkerRestarts` | a crash or deploy: what was read is forgotten |
| `AuthorisationChanges`, `PaymentChanges`, `AcceptBadgeLicence`, `AddressChanges`, `TermEnds` | the customer, the provider, time |

**Left out, and why it is safe.** *Cadence and due dates*: any sweep may run at any time over any
subset of its rows, which allows every order a schedule would. *The monitoring switch* of
`issueBadgeFor`: a standing badge of a live plan may or may not be read, which covers switched on
and off. *The order within a page*: its candidates are issued in any order; which of them make the page is
as in the code. *A term that cannot be looked up*: `validityMonthsFor` throws for a plan or rubric without
one, and every plan and rubric of this code has one. *Organisations*: an application
pays for itself. *A second worker's sweeps*: `docs/RUNBOOK.md` runs one worker.

## 3. The queue: `RequestQueue`, implementing `RequestLifecycle`

A worker is a process with a loop at one of six places. Its loop awaits one run; after the timeout
the run goes on in the same process, in `orphans`, because a promise cannot be cancelled.

| Variable | Code |
| --- | --- |
| `request` | status, attempts; `stale` for "`claimed_at` is more than `RECLAIM_AFTER_MINUTES` ago" |
| `worker` | where `processNextRequest` is, the claim it holds, and whether the failure in hand will requeue |
| `orphaned`, `orphans` | `orphanedRun`, and the runs still in flight |
| `assessed` | assessments committed, by the attempt that ran them: a history of `persistOutcome` |

`failRequest` is two statements and two actions (`ReadAttempts`, `WriteFailure`); each of them may be
lost with its connection (`FailureLost`), or be made and only its answer lost (`FailureUnheard`), and so
may the assessment (`RunUnheard`) and the completion (`CompleteLost`, which falls into the `catch` and
fails the request whichever of the two it was: `failRequest` writes by id and asks for no status). The
reclaim sweep is two statements and two actions. `Restart` may take a process at any point; `Exit` is a
process with a stopped loop and nothing in flight. `RequestLifecycle` is what all this promises about
one row: the status graph, the attempt counter and the one live request per application, without
workers. In it a request that is completed by a write whose success its worker has not heard is
*unheard*, and that is the one answer it lets be taken back (`TakenBack`): to failed, or into the queue
where nothing else of the application is live. Once the worker knows, or is gone, the answer stands.

**`Timely`.** `queue.ts` argues that a claim may be taken back by age because a worker stops waiting
at sixty minutes and the sweep waits until ninety. `Timely = TRUE` is that argument as a constant: a
claim does not grow stale while a worker's loop still holds it. It assumes that the writes after a
timeout finish within thirty minutes. They wait on a pool with no acquisition timeout, so nothing
enforces this; with `Timely = FALSE` all three safety properties fail, and they and their
theorems should be read with that assumption.

## 4. The services

Each module below is one component with its own tables; no two of them share a variable, so
`MCServices` checks them side by side, one *subject* to a behaviour, and nothing is lost by it. In
all of them one action is one statement, one transaction or one call of a provider; a process that
reads and then writes holds what it read in a variable; crashes and lost connections are actions,
counted down from a bound named in the module (`MaxFaults`, `MaxAlertFaults`, ...). History
variables are marked as such where they are declared; no guard reads one.

| Module | Actors and their actions | How state corresponds to the code |
| --- | --- | --- |
| `EvidenceStore` | a run that stores and commits (`StoreArtefact`, `CommitRows`, `LoseConnection`, `RollBack`, `CleanOne`, `RecordAbandoned`); processes that sweep (`ReadDue`, `RemoveBytes`, `ReadOrphans`, `RetryAccepted`, ...) | `bytes` is the object store; `rows`, `deletions`, `orphanRows`, `recovered` are tables; `capture` and `sweep` are where a call of `persistOutcome` or `sweepRetention` is |
| `AlertDelivery` | email and push senders, the bounce webhook, the notice sweep | `record` is `alert_deliveries`; `post` and `notices` are a process's page in hand; `accepted` is what a provider took, `unheard` the history of alerts of which a provider's answer was lost |
| `BillingEvents` | the provider (external), webhook requests inside their transactions | `mirror` and `recorded` are committed rows, a handler's own writes are staged until its commit |
| `Workspace` | two console requests at a time, each a statement and then a commit | `asked` holds what has been decided and not committed; a row written is locked in between; `overlapped` is the history of two owners going at once |
| `AssessmentRun` | one run: stages, their passes, retries, ceilings | `draft` is the attempt's result, `result` the kept one, with the criteria looked at and not tested; `Puts` is what a stage asks of this application, which is less than the table `AskedByStage` says of something that is not a game |
| `RepositoryScan` | clone, walk, four checks | `tree` is what the walk has met, in order; `answer` the stage's result. A declaration has the lowest version it permits and the one its text names first, which may be another or none (`Illegible`) |
| `GameSurvey` | `measureGame` step by step, a page that runs or closes on its own | `game` is what is true, `measure` what was heard, `verdict` what is said |
| `ExitSurvey` | the breadth-first walk, the confirmation, the rating | `walk` is queue, seen, depth, candidates; `Nearest` is the reference definition the result is compared with; `FollowAll` is the loop over a page's links, a recursive function |
| `PublicLook` | no state: `fetchPublicPage`, `runChecks`, and the verdicts of the trust check and the pre-flight | a chain of replies, one to each request; `Fetched` says what came of it and whose fault it was |
| `PageSurvey` | no state: `measureTrust`, `measureDesign` and their findings, as the run's deterministic stage takes them | a page's scripts and fields; its values with how often each occurs; `AssessmentRun` takes from it the criteria a survey looks at |
| `ScopedSession` | the stage's conversation, its tools, the page's own requests, the bucket | `guard` is `ScopeGuard`, `routed` the requests in the route handler, `departed` those that left |
| `Admission` | the intake sweeps, console tabs, the worker's gate and commit, the customer | `grants` in order of `created_at`; `tab` and `ticket` carry the verdict they were decided on |
| `PublishedVerdict` | filing, scoring, review | scores in hundredths, weights in percent: the published arithmetic exactly; `Total` is its sum, a recursive function of a finite set |
| `ReportRelease` | the reviewer, plan changes, processes that render | `shelf` is `reports` with what the bytes say; `renderer` includes the stuck window a process keeps in memory |
| `Reassessment` | two scheduling and two drift sweeps, the queue's answers, reviews | `assessed` in order of completion, `reports` with the pair each compared |
| `SpendCeiling` | claim loops, two sweeps, an administrator, midnight | `pause` is the live row; `claimant` who was told he may claim, and whether before it |
| `PrivacyDesk` | subjects, staff, export requests, watching processes, days | `entry` the rows; `watcher` includes what a process remembers of having said |
| `PublicBadge` | the worker, the operator's two variables, one reader of one route | `copies` is whatever a `max-age` lets be kept; `standing` and `unpublished` look back |

**Left to a choice.** What a model answers, whether a probe or a render succeeds, what a reviewer
decides, what a site, a game or a repository is like: all of these are nondeterministic. The four
modules about checks (`RepositoryScan`, `GameSurvey`, `ExitSurvey`, `PublishedVerdict`) keep the thing
examined beside what was said of it, so that their properties compare the two. `PublicLook` and
`PageSurvey` have nothing that lasts from one step to the next; their operators are compared with what
they promise over bounded inputs by assumptions of `MCServices` (`LooksChecked`, `NearMissesChecked`,
`TicksChecked`), which every run of that module evaluates, and for every input by theorems.

## 5. Runs

| Run | What it shows |
| --- | --- |
| `badge_sweeps` | two assessments and one badge, or one assessment and two badges of which the second replaces the first while a sweep holds the old row: a badge down for a regression or an outage has a notice on record, one down for cause is lifted by a reviewer only, one down for an outage keeps what its restoration needs |
| `badge_liveness` | two scores, one of which no badge can carry, and fair sweeps: the score shown is the report's, an unsupported badge comes down, an eligible assessment a badge can carry is answered |
| `queue` | two requests of one application after a withdrawn one, or of two applications; two workers: exclusive claims, completion, the refinement with its one answer taken back, and that everything is answered |
| `services` | the sixteen modules of section 4 that have state, as twenty-two subjects; twenty-two properties and a type, and the three assumptions about looks at a page |
| `liveness` | evidence, alerts, billing and reports, small and fair: what is due goes, notices are answered, events acknowledged, reports rendered |
| the other seven | one disagreement each: section 7 |

**Bounds of the badge and queue runs.** One application: no statement of these sweeps relates two
applications except `sharedCause`, which is `DecideNothing`, a decision not to decide that may happen at
any time. Two assessments are what a drift report needs (a prior and its successor); three are used
where a cure must follow a regression. Two badges are what a replaced badge needs; the constraint
`TwoOfOneKind` takes the two pairs one at a time. The threshold is one, so that a single failure crosses
it; larger ones are left to the theorems, which hold for every threshold. A page holds one candidate, so
that one that is never issued fills it; the code's holds twenty. `badge_sweeps` has one score, a
monitored plan once a run has ended (`OnAPlan`) and 388,000 states; with both badges issued it follows
no further issuance (`NothingToIssue`). `badge_liveness` has two scores, 80.00 and 80.04, of which no
badge can carry the second, and takes what the customer does one thing at a time, beside one assessment,
or two assessments while the customer rests (`PageSpec`); its sixty-six thousand states are no more
because temporal formulas are checked over all of them. A withdrawal together with a lapse, or a badge
while a second assessment waits, is in `badge_sweeps` and in the theorems, and not in a liveness run.
Two requests of one application meet at the unique index. `CHECK_DEADLOCK` is off in every run because
each system may come to rest: everything revoked, nothing queued, nothing left of a bound.

**Bounds of the services.** Two processes or requests wherever two can meet, and one fault more than
a single recovery needs. Evidence: one run, two artefacts. Billing: two subscriptions, or one
purchase told of in any order, or in order; six events. Workspace: three accounts, two links, two
seats. The run: a ceiling of one call; for the game, probes and the survey of trust answer together
or not at all (`RunOnly`), and no target of the run asks for the two questions of practicality and
game experience together, since each multiplies the states by the sets a pass may miss: the theorem
has no such limit. Repository: a tree of three entries, two files kept, one manifest read, version
parts below two, so that each ceiling bites. Game: five games, four polls. Exit: five pages, depth
two, four pages read, two lost requests. Spending: a ceiling of two runs, one lift. Session: three
authorisations, one turn, one redirect, one artefact. Admission: a cooldown of one month and
authorisations that last two, over two months (`AuthorityOnly`, `EntitlementOnly`, `IntakeOnly` take its three
questions one at a time). Monitoring: three assessments of five kinds, a cadence of two days over
four, a window of one row (`DriftOnly`, `CadenceOnly`). Desk: one request, one appeal, four days.
Public: two keys, six pastes, seven routes, five ticks with a `max-age` of one or two (`PublicOnly`).
Verdict: five findings of which three are filed, three assignments, one criterion that may be missed
(`VerdictOnly`). Each of these restrictions is a conjunct of `MCServices` and of no component, so no
theorem depends on it.

**Fairness.** Liveness is stated only where something in the code runs again by itself. The badge
sweeps: `main.ts` runs them every thirty seconds while the process is up; `BeginIssue` of a candidate
and `CommitIssue` have strong fairness, since weak fairness would allow a process that dies between read
and insert every single time; it is stated for each assessment, as the sweep works through its page. The
queue: the loop goes on in a live process (every statement returns or throws, and the race with the
timer bounds the run), time passes on a claim, the reclaim sweep runs; a hung run has no fairness;
`FairSpec` adds that a stopped process is replaced by somebody, `HungSpec` does not, since nothing in
the repository does it. The services (`LiveFairness`): intervals run each sweep again, a process goes on
with what it has begun, time passes, and strong fairness says that a provider sends again what was not
answered and that a store asked again and again accepts a removal in the end. Reviewers, customers,
faults and probes are never owed anything.

## 6. What is proved

Every safety property that a passing run checks is also a theorem, for any number of applications,
badges, requests, processes, events, pages, faults and days. The one exception in name is
`ServicesTypeOK`, a conjunction every conjunct of which is a theorem. "For every value" is meant: each
bound is a constant the proofs know nothing of but its type.

| Theorems | Properties |
| --- | --- |
| `BadgeLifecycle_proofs` | `TypeOK`, `UnrevokedBadgeShowsTheReportScore`, `SuspendedBadgeHasANotice`, `SuspensionForCauseStaysDown`, `LivenessSuspensionIsRestorable`, `RestoredByTheNextSuccess` |
| `RequestQueue_proofs` | `TypeOK`, `OneWorkerPerRequest`, `CompletedWasAssessed`, `RequestsFollowTheirLifecycle` (the refinement) |
| `EvidenceStore_proofs` | `EveryRowHasItsBytes`, `NothingHeldIsForgotten`; the type, `RecordsAreTrue`, `RetryStops` |
| `Workspace_proofs` | `TriggersKeep` (seats and the last owner), `LinkLetsInOnce`; the type |
| `Delivery_proofs` | `NotGivenIsTrue`, `AppliedExactlyOnce`, `MirrorAgrees`; `DeliveredWasTaken`, `EachIdAppliedOnce`, `OneLiveSubscription`; both types |
| `Assessment_proofs` | `NothingIsKeptFromAWithdrawnRun`, `FreeRunsAreSpaced`, `DecisionStands`, `EveryQuestionIsAccountedFor`, `AuthorisedPaceIsKept`, `WhatIsServedIsCurrent`, `ReassessmentsAreSpaced`, `RegressionsDoNotAddUp`; all five types |
| `Desk_proofs` | `PausedWorkersStop`, `WhatIsOwedIsSaid`, `PublicIsToldTheTruth`, `NothingFiledHelps`; all four types |
| `Survey_proofs` | `GameVerdictsAreMeasured`, `SilenceWasRead`, `ExitIsTheNearest`; of operators, `EveryLookIsFair`, `NoCircleOfMisses`, `EveryTickIsEarned`; the three types |

**Assumptions.** Each module's `...Assumption` names what its constants are (positive bounds, disjoint
kinds, finite sets of processes); TLC evaluates all of them. Beyond these: the queue's theorems have
`Timely` as a hypothesis, in plain sight. `AppliedExactlyOnce` assumes `Ids = "stripe"`, one id to one
event, because Paystack's are not (section 7); `EachIdAppliedOnce` needs no such thing. `MirrorAgrees`
further assumes `"invoice" \notin Named`: where a provider names a payment by its invoice a refund
before the payment reference is stored finds no row. `SilenceWasRead` assumes that the second part of
the advisory's version is below the radix the comparison multiplies by, which is so of every advisory
in `packages/engine/src/data/advisories.json`.
`NothingFiledHelps` is about the two published rubrics, whose weights, caps and bands are definitions;
of what is filed it assumes only that there are finitely many kinds, each with a severity and a
confidence those tables have. The monitoring and the public clock run for a day and a tick at least.

**How.** None of these properties is inductive as it stands: each is about a moment when something
read earlier is used, so each invariant says what is still true of the thing in hand.

- *Badge, score.* A badge's score equals the report's when inserted (the trigger checks the row as it
  is then); the assessment behind it is past review, and nothing makes it anything else; its score
  changes only while every badge on it is revoked, and a revocation is logged for good (`BadgeFacts`). An
  adjustment in hand that would change the score has seen every badge of its assessment revoked, or the
  badge was inserted beside it (`AdjustmentFacts`); an insert in hand shows the score of its assessment,
  or an adjustment committed beside it (`InsertionFacts`).
  Every action that moves badges is an instance of `MovedBadges`; `HowABadgeMoves` classifies what any
  step does to one badge, and the theorems on suspensions read off it.
- *Badge, outages.* One badge stands per application; one row is held per application; a held row
  agrees with the counter; and a badge of its application down for an outage is the row's own and was
  read as suspended (`LivenessFacts`, `ProbeFacts`).
- *Queue.* A busy worker's row is claimed, not stale, counts its attempt and is nobody else's; a worker
  about to complete has written its assessment; one that fails a request it did not hear completed still
  holds it alone; a row that may still be begun has an attempt left. `Timely` enters at one place,
  `ClaimGoesStale`. The refinement is the step lemma `NextRefines`.
- *Evidence.* Until a run's transaction is decided nobody else has touched its artefact, and
  afterwards the run adds nothing to it (`Owned`); whatever the store holds is found by a row, an
  orphan or somebody's hands (`Accounted`); recoveries are counted against those who hold one
  (`Counted`).
- *Workspace.* What a request has decided and not committed still holds, since the rows it wrote are
  locked (`StillSo`); members and links exceed the peak by at most the requests that overlap. While no
  two have overlapped, at most one request in flight takes an owner away, and it saw another who is
  still there (`OwnersKept`).
- *Alerts.* A message a provider took is marked, in hand, with a sweep that died, or its answer was lost
  (`HandsFact`).
- *Billing.* Ids recorded are those of the events applied (`IdsFacts`), the event inside a transaction
  has neither yet (`InsideFacts`); where a live row is staged the index has shown every other over
  (`LiveFacts`). What the provider has told of an object determines its state (`ToldFacts`), and told
  in order it is applied in order (`OrderFacts`).
- *Admission.* A run is disturbed as soon as a newer grant exists and only then (`RunFacts`); a
  verdict, wherever it is held, carries how many rows it saw and that each had cooled down
  (`SpacingFacts`).
- *The run.* A stage that is over has answered or written down all it asks, or is among those whose
  questions go unasked; the attempt under way has done so for the passes behind it (`PipelineFacts`).
- *The session.* What left was counted and took a slot; slots come from a full bucket and from time
  (`PaceFacts`): an inequality of sums, kept by every interleaving.
- *Reports.* Unless a review or a change of plan overtook it, what a renderer has in hand is the
  assessment and the plan as they are (`HandsFacts`, `ServedFacts`).
- *Monitoring.* The severity of a key is that of its worst published finding, so what no rule calls
  material has lost nothing; what a sweep selected was due on the day it read (`MonitorInv`).
- *Spending.* While a pause is live, whoever was told he may claim was told before it and has begun
  nothing since (`PauseFacts`).
- *Desk.* An export in hand is of a request on record; a saying recorded is of a day the entry was
  late (`ExportFacts`, `SaidFacts`).
- *Public badge.* What every copy says of the moment it was made (`CopyFacts`), and the history in
  which those moments are looked up (`HistoryFacts`). That a key has a first mention is the
  well-ordering of the naturals.
- *Verdict.* A sum over a finite set exists and does not depend on the order it is taken in
  (`SumTakesOut`); sums keep the order of their terms (`TotalsOrdered`). Hence a finding more leaves a
  dimension no higher, capped or not (`CappedFalls`), and the score with it (`WeightedFalls`); gates and
  public answers are monotone in what was filed.
- *Game.* Each measurement is tied, as it is taken, to what of the game it can have seen (`GameFacts`).
- *Repository.* Every entry met is kept, noted, or of a kind no note names; each check has read the
  files kept that are its own, up to its limit (`ScanInv`); version numbers order as versions do
  while no part reaches the radix (`VersionsCompare`).
- *Exit.* Breadth first, said of the queue: its depths ascend and span two values at most, each page
  read stands at its depth because one a click before it links there (`AllJustified`), and each link
  followed leads to a page seen, no deeper, or to a candidate (`Followed`, `Weighed`). So what was read
  at a depth is that many clicks away (`ReadIsWithin`), and where no ceiling bit, what is that many
  clicks away over pages that answered was read, no further away (`WithinIsRead`).
- *Looks and surveys.* Which hop is the last is decided by the well-ordering of the naturals; each
  outcome is then followed back to the reply it is owed to. Of values that accuse each other in a circle
  one looks at least as intended as the rest; that it exists is shown for the smallest such circle. A
  criterion neither charged nor written down has an answer that the page gave.
- *Types.* Most of a type is immediate; its bounds are not. What a process has in hand it has not yet
  given up (`DeskBounds`, `WalkBounds`), the model is asked only while a turn is left (`TurnLeft`), no
  more polls are heard than were made (`PollsCounted`), nothing leaves a session uncounted
  (`DeparturesCounted`).

**Recursion.** That a recursive function exists and what it computes is a matter of induction over its
argument, and the library's induction theorems cannot be used here, since they take an operator as a
parameter. Where the proofs need such a fact (`Total`, `FollowAll`, `Within`) they take a least
counterexample instead: a nonempty set of naturals has a least element, and that can be cited of a set.
So are `SumExists`, `AfterExists` and `GrownExists` proved.

**Only model-checked, and why.** `ServicesTypeOK` names the subject of a behaviour and so belongs to
`MCServices`; its sixteen conjuncts are theorems of the modules they come from. The liveness properties
(`NothingStandsUnsupported`, `EligibleAssessmentIsAnswered`, `EveryRequestIsAnswered`, and the four of
`liveness`) are out of the prover's reach under fairness, as is `ENABLED`. The failing runs are
counterexamples and need no proof.

## 7. Where the code and its words part

Seven runs must fail, each on one property that states a quoted sentence (`findings` in
`PROJECT.json` has the quotations).

1. **`RenewsOnlyOnReassessment`** (licence: a badge "renews only on a successful re-assessment"). An
   expired badge no longer counts as standing, so its own assessment is a candidate again, and gets a
   new badge on the old score at the next sweep.
2. **`RegressionStaysDown`** (console: "so the badge was suspended"). The update touches active badges
   only; one already down for an outage keeps that reason, and the next successful check puts it up.
3. **`RestoredWhenANewAssessmentPasses`** (console: "The badge is restored when a new assessment passes
   review."). A suspended badge blocks issuance, and no sweep lifts a regression. `CalmSpec` leaves
   nothing but reviews and fair sweeps to blame.
4. **`AStoppedLoopEndsTheProcess`** (`main.ts`: ending the process is the only way to be sure). The loop
   stops; the process stays for as long as the run hangs, and claims nothing.
5. **`NothingIsAcceptedFromAnOrphan`** (the error: "Nothing it may still write will be accepted").
   `persistOutcome` never asks, so it is, and the request is performed again.
6. **`DependencyCheckIsAccountedFor`** (`DECISIONS.md`: SEC-10 is recorded as not tested on every path
   where the check did not run). The pipeline skips `static_intake` without a repository, and a skipped
   stage's questions are not written down.
7. **`UnfinishedPassIsSaid`** (test: a stage that did not finish "leaves its criteria marked not tested
   rather than clean"). FI-01 is listed under the deterministic checks, of which only the pass over a game
   asks it. Of anything else the exploration alone asks it, and where that fails and the deterministic
   checks succeed, `unasked` takes it for asked: nobody looked and nothing is written down.

Met while modelling, and kept in the model as the code has them. Where a property would otherwise
fail, its statement names the exception.

- *Workspaces.* Two owners who demote or remove each other (`foundations.sql:197`) can leave none,
  although "An organisation must never be left without an owner" (`184`): the exception `overlapped`
  of `TriggersKeep`, which holds otherwise. Overlapping requests oversell seats by as many as overlap
  (`workspaces.sql:81`).
- *Badges.* The notice of a suspension has the badge for its key (`alerts.ts:129`, `on conflict do
  nothing`), so that the second suspension of one badge is told nobody: `SuspendedBadgeHasANotice` asks
  for a notice and not for one of this suspension, although a badge taken down "now says so, like every
  other suspension" (`DECISIONS.md:572`). An insert and an adjustment that overlap leave a badge with
  another score than its report, since the triggers of `one_score` lock nothing: the exception
  `overlapped` of `UnrevokedBadgeShowsTheReportScore`. A reviewer may set any score; `toFixed(1)`
  (`badge.ts:322`) writes 84.3 for 84.25, the trigger wants them equal, and the assessment is refused at
  every sweep, in the log only; so is an application whose address carries an origin that the CHECK on
  `certified_origin` refuses. Such candidates keep their places in the page of twenty (`badge.ts:208`),
  and twenty of them stop every issuance behind them: `EligibleAssessmentIsAnswered` is of what a badge
  can carry, with fewer than a page of the others reviewed before it.
- *Queue.* A request completed by a write whose answer is lost is failed by the `catch`
  (`main.ts:152`), which moves a completed row back to the queue or to failed (`queue.ts:160`): an assessment
  performed twice, or one reported as failed that exists. The unique index refuses the requeue where the
  application has another live request.
- *Paid requests.* Counting the re-tests of an application with a paid invoice asks `assessments` for a
  column that `assessment_requests` has (`console/apps/actions.ts:625`); the action throws, and nothing
  is queued or refused in writing. `Admission` has the request end there.
- *Evidence and alerts.* A message whose answer a provider lost is recorded as a failure, or sent again:
  the exception `unheard` of `NotGivenIsTrue`. Two sweepers may both record one recovery; an address
  suppressed after a page was read is still written to.
- *Billing.* Paystack event ids are not distinct (`paystack.ts:203-209`); an invoice without a payment
  reference is met by a refund that finds no row (`webhooks.ts:228`); `invoice.paid` is left out, since
  no row has its invoice and, where `stripe.ts` creates the checkout, its metadata names no organisation.
- *Admission.* A withdrawal between the insert of an assessment and its commit is met by no check, and
  is not among the disturbed runs of `NothingIsKeptFromAWithdrawnRun`. A withdrawal can be overtaken by
  an older verification; the notice that "any run in flight stops" is not so; `persistOutcome` does not
  ask the screening again; starting a new authorisation un-authorises until it is verified; an audit row
  may read "cleared" while a refusal stands.
- *Reports.* A report rendered while a review changes it stays as it is; a crash between HTML and PDF
  loses the PDF; nothing calls `regenerateForPlanChange`; a report recovered and given up again is not
  recorded again and keeps its slot in the window; an abandonment row that fails is not tried again.
- *Repository.* A range whose text has no number of three parts (`^4`, `4.x`, `*`, `latest`), or an
  installed version not of three numbers, is below nothing and noted nowhere (`static-intake.ts:1027`,
  `1046`), and a range stands for the first version it names, lowest or not: `SilenceWasRead` asks for
  affected versions that the check has before it (`Legible`). The walk's ceiling is noted, the
  lockfile's first version wins (`static-intake.ts:977`), version parts of a thousand or more compare
  wrongly (`1028`), and files that cannot be examined are in no count (`459-484`).
- *Game.* FI-01 is charged when every poll was rejected by an open page; an unread first-frame time
  counts all transfers as before it was playable; a reload while hidden reads as pausing.
- *Exit.* The file's header names other limits than its constants; a lost page can let "No route found"
  be published; of two ways out at one depth a euphemism may be named.
- *Looks at a page.* The last permitted request takes a redirect for the page, so that the refusal
  "That address redirects too many times to follow." (`fetch.ts:163`) is never reached and a loop of
  redirects reads as an open site that says nothing; a redirect to an address that does not parse is
  put down to us.
- *Surveys of a page.* With two occurrences enough to be intended, a mistake made twice (two
  edges at 21, beside three at 24) accuses a legitimate indent (one at 32), which the comment on that
  constant says it cannot (`design-checks.ts:60`); at a
  phone's width findings are compared by their titles, which contain counts, so that one kind with
  another count is reported again (`deterministic.ts:735`).
- *Spending.* The pause is asked and the claim made in two statements; a lifted pause is entered again
  by the next sweep; a failed `recordUnattributedCost` loses the cost.
- *The run.* FI-01, as in item 7: the exception `TakenAsAsked` of `EveryQuestionIsAccountedFor`. With a test
  account the criteria behind a sign-in are no longer written down as not tested, and those no stage
  lists are asked by none.
- *Session.* A page's requests reach the guard through a route handler, which Playwright calls for the
  first address of a chain of redirects only: the later hops of a page's request are neither checked nor
  counted, and the model has none (`ScopedHttp` follows its own, one by one, and those are modelled). A
  ceiling met on the first page reads as a failure; requests dropped by a ceiling count as
  scope refusals; a first navigation that does not wait for its slot reads a rate limit as a scope
  violation.
- *Monitoring.* A regression seen in a narrower look is never compared again; an older assessment
  approved late can suspend on a stale result; a failed re-assessment waits a whole cadence.
- *Desk.* An appeal may be answered twice, and by whoever worked on the assessment; two requests of one
  kind may be open; an export never checks the status it selects.
- *Public badge.* Between signing with a new key and the end of the cached key set, a genuine badge
  reads as not issued by VibefyCode, whatever the order of the rotation in the runbook; the extension
  trusts its list however old, apart from a line of detail.
- *Verdict.* `gate_failures` holds labelled strings which `assurance` compares with bare ids, so that a
  gate alone never turns a public answer; a reviewer may certify under a blocker other than critical
  security and privacy, which the triage text denies.

## 8. Not modelled, and what is left

*Not modelled:* the drawing of pages, texts and alert wording (no protocol); how a browser comes by the
numbers a survey compares, and the arithmetic of contrast; the copilot and the directory (readers); the
creation of a checkout and the routing between payment providers (one call, no retry); single sign-on,
policy profiles and branding (one update of one row each); the superseded-rubric and expiry notices (one
more line of wording in a sweep that is modelled); the stuck-sweep stop of `main.ts`, which like a hung
run ends the loop and not the process; build tools and the generated `schema.sql`. Modelled with a
choice in place of the detail: the model provider, the object store, the mail and push providers, the
payment providers.

*Left for the proofs:* nothing that a run checks, apart from what section 6 says is out of reach.
*Left for the model:* two applications in one drift sweep; the worker's shutdown grace.
