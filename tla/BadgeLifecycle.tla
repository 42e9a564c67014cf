--------------------------- MODULE BadgeLifecycle ---------------------------
(***************************************************************************)
(* The badge register: how a badge is issued from an approved assessment,  *)
(* what takes it down, what puts it back, and who may do either.           *)
(*                                                                         *)
(* Actors: the reviewer's server actions, the worker's sweeps (issuance,   *)
(* lifecycle, drift, liveness), the customer's console and the payment     *)
(* provider.  One action is one auto-committed SQL statement or one        *)
(* transaction; a sweep that reads rows and writes them later is two       *)
(* actions, with the rows it read kept in a variable between them.  The    *)
(* insert of a badge and the adjustment of a score are two actions each:   *)
(* their triggers read what is committed and lock nothing, so another      *)
(* statement may commit between the check and the commit.                  *)
(*                                                                         *)
(* Abstracted: organisations (an application pays for itself), slugs,      *)
(* signatures and log lines; the order in which a page of candidates is    *)
(* worked through; the term of a badge, which every plan and rubric of     *)
(* this code has; applications without an address, which are never         *)
(* candidates; the cadence of the sweeps and which monitored rows are due  *)
(* (any sweep may run at any time, over any of its rows), and with it the  *)
(* monitoring switch issueBadgeFor turns on.  An assessment's number is    *)
(* its completion order; a score is in hundredths.                         *)
(***************************************************************************)
EXTENDS Naturals, FiniteSets

CONSTANTS
  Apps,          \* applications
  Assessments,   \* a set of numbers: completion order
  AppOf,         \* the application each assessment is of
  Badges,        \* badge ids
  Scores,        \* overall scores, in hundredths
  PageLimit,     \* candidates a sweep reads at a time
  Threshold,     \* livenessFailuresBeforeSuspension of a monitored plan
  MaxFailures    \* bound: checks in a row an application may fail

ASSUME BadgeAssumption ==
  /\ Assessments \subseteq Nat \ {0}
  /\ AppOf \in [Assessments -> Apps]
  /\ Scores \subseteq Nat
  /\ PageLimit \in Nat \ {0}
  /\ Threshold \in Nat \ {0}
  /\ MaxFailures \in Nat

VARIABLES
  assess,      \* assessments: status, certification_eligible, overall_score
  sooner,      \* pairs of approved assessments, the sooner reviewed_at first
  adjusting,   \* the change of a score whose trigger has looked, not yet committed
  drift,       \* drift_reports: the verdict on each assessment, once compared
  badge,       \* badges, and the two kinds of badge_events that are read again
  told,        \* whether an alert row stands under badge-suspended:<badge>, and of what
  authorised,  \* app_is_authorised_for_testing
  pays,        \* what the organisation pays for
  licensed,    \* the current Badge Licence accepted
  certifiable, \* badges.certified_origin would take the origin of apps.primary_url
  failures,    \* apps.consecutive_liveness_failures
  page,        \* issuance candidates read and not yet issued
  issuing,     \* the insert of a badge whose trigger has looked, not yet committed
  overlapped,  \* history: badges whose insert and a change of their score overlapped
  probes       \* liveness rows read and not yet decided

reviewVars   == <<assess, sooner, adjusting>>
customerVars == <<authorised, pays, licensed, certifiable>>
issueVars    == <<page, issuing, overlapped>>
sweepVars    == <<issueVars, probes>>

vars == <<reviewVars, drift, badge, told, customerVars, failures, sweepVars>>

----------------------------------------------------------------------------
(* State *)

AssessmentStatus == {"none", "awaiting_review", "approved", "rejected"}
AssessmentRow == [status: AssessmentStatus, eligible: BOOLEAN, score: Scores \cup {0}]
NoAssessment == [status |-> "none", eligible |-> FALSE, score |-> 0]

BadgeStatus == {"none", "active", "suspended", "expired", "revoked"}
Reason == {"none", "lapsed", "withdrawn", "liveness", "regression", "reviewer"}
LoggedEvent == {"suspended", "revoked"}
BadgeRow == [status: BadgeStatus, reason: Reason, of: Assessments \cup {0},
             score: Nat, due: BOOLEAN, events: SUBSET LoggedEvent]
NoBadge == [status |-> "none", reason |-> "none", of |-> 0, score |-> 0,
            due |-> FALSE, events |-> {}]

\* "live": a subscription active or trialing on a monitored plan.  "free": one on
\* the free plan.  "lapsed": past_due, cancelled or paused, nothing live beside it
\* and no paid, unrefunded invoice for the application.  "outright": neither a
\* live subscription nor a lapse: never subscribed, or an invoice still stands.
Payment == {"outright", "free", "live", "lapsed"}

Candidate == [of: Assessments, score: Scores, certifiable: BOOLEAN]
Adjustment == [of: Assessments \cup {0}, score: Scores \cup {0}]
NoAdjustment == [of |-> 0, score |-> 0]
\* beside: an adjustment of its assessment has committed since the trigger looked.
Insertion == [of: Assessments \cup {0}, score: Nat, beside: BOOLEAN]
NoInsertion == [of |-> 0, score |-> 0, beside |-> FALSE]

\* "this": of the suspension that raised it last.  "earlier": when one was last
\* raised there was a row under the key already, and on conflict do nothing.
Notice == {"nothing", "this", "earlier"}

ProbeRow  == [badge: Badges, status: {"active", "suspended"}, failures: Nat]

TypeOK ==
  /\ assess \in [Assessments -> AssessmentRow]
  /\ sooner \subseteq Assessments \X Assessments
  /\ adjusting \in Adjustment
  /\ drift \in [Assessments -> {"none", "immaterial", "material"}]
  /\ badge \in [Badges -> BadgeRow]
  /\ told \in [Badges -> Notice]
  /\ authorised \in [Apps -> BOOLEAN]
  /\ pays \in [Apps -> Payment]
  /\ licensed \in [Apps -> BOOLEAN]
  /\ certifiable \in [Apps -> BOOLEAN]
  /\ failures \in [Apps -> Nat]
  /\ page \subseteq Candidate
  /\ issuing \in Insertion
  /\ overlapped \subseteq Badges
  /\ probes \subseteq ProbeRow

Init ==
  /\ assess = [a \in Assessments |-> NoAssessment]
  /\ sooner = {}
  /\ adjusting = NoAdjustment
  /\ drift = [a \in Assessments |-> "none"]
  /\ badge = [b \in Badges |-> NoBadge]
  /\ told = [b \in Badges |-> "nothing"]
  /\ authorised = [p \in Apps |-> TRUE]
  /\ pays = [p \in Apps |-> "outright"]
  /\ licensed = [p \in Apps |-> FALSE]
  /\ certifiable \in [Apps -> BOOLEAN]
  /\ failures = [p \in Apps |-> 0]
  /\ page = {}
  /\ issuing = NoInsertion
  /\ overlapped = {}
  /\ probes = {}

----------------------------------------------------------------------------
(* The badges table *)

Issued(b) == badge[b].status # "none"
BadgeApp(b) == AppOf[badge[b].of]

\* The rows badges_one_active_per_app indexes.
Standing(b) == badge[b].status \in {"active", "suspended"}
StandingOf(p) == {b \in Badges : Standing(b) /\ BadgeApp(b) = p}

\* The unique index refuses a second standing badge for the application.
MayStand(b) == StandingOf(BadgeApp(b)) \subseteq {b}

\* record_badge_event appends an event when the status changes.
Logged(row, status) ==
  IF row.status = status THEN row.events
                         ELSE row.events \cup ({status} \cap LoggedEvent)

Moved(row, status, reason) ==
  [row EXCEPT !.status = status, !.reason = reason, !.events = Logged(row, status)]

\* An UPDATE over every row of S, in one statement.
Move(S, status, reason) ==
  badge' = [b \in Badges |-> IF b \in S THEN Moved(badge[b], status, reason)
                                        ELSE badge[b]]

----------------------------------------------------------------------------
(* Assessments: the run that produces one, and the reviewer's decisions *)

Reviewed(a) == assess[a].status = "approved"

\* reviewed_at = now, among the approved ones.
ReviewedLast(a) ==
  sooner' = {pair \in sooner : pair[1] # a}
              \cup {<<x, a>> : x \in {y \in Assessments \ {a} : Reviewed(y)}}

\* persistOutcome: the row is inserted under the application's current
\* authorisation and reaches awaiting_review in the same transaction.
RunCompletes(a) ==
  /\ assess[a].status = "none"
  /\ \A earlier \in Assessments :
       (earlier < a /\ AppOf[earlier] = AppOf[a]) => assess[earlier].status # "none"
  /\ authorised[AppOf[a]]
  /\ \E s \in Scores : assess' = [assess EXCEPT ![a].status = "awaiting_review",
                                                ![a].score = s]
  /\ UNCHANGED <<sooner, adjusting, drift, badge, told, failures, customerVars, sweepVars>>

\* approveAssessment.  assert_human_review refuses every other change to approved,
\* and asks nothing of a second approval, which writes the eligibility again.  A row
\* another statement is changing is waited for.
Approve(a) ==
  /\ assess[a].status \in {"awaiting_review", "approved"} /\ adjusting.of # a
  /\ \E e \in BOOLEAN : assess' = [assess EXCEPT ![a].status = "approved",
                                                 ![a].eligible = e]
  /\ ReviewedLast(a)
  /\ UNCHANGED <<adjusting, drift, badge, told, failures, customerVars, sweepVars>>

\* rejectAssessment, held to the same starting status
Reject(a) ==
  /\ assess[a].status = "awaiting_review" /\ adjusting.of # a
  /\ assess' = [assess EXCEPT ![a].status = "rejected"]
  /\ UNCHANGED <<sooner, adjusting, drift, badge, told, failures, customerVars, sweepVars>>

\* Mistake: only a standing badge is counted, so an expired one is left behind.
ScoreIsFreeOfStanding(a) ==
  \A b \in Badges : badge[b].of = a => ~Standing(b)

\* assert_score_is_not_pulled_from_under_a_badge: only badges that are revoked
\* now may be left behind by a change of score.
ScoreIsFree(a) ==
  \A b \in Badges : badge[b].of = a => badge[b].status = "revoked"

\* adjustAssessment puts no condition on the assessment's status and takes any
\* number.  Its trigger looks at the badges ...
BeginAdjust(a) ==
  /\ adjusting = NoAdjustment /\ assess[a].status # "none"
  /\ \E s \in Scores :
       /\ s # assess[a].score => ScoreIsFree(a)
       /\ adjusting' = [of |-> a, score |-> s]
  /\ UNCHANGED <<assess, sooner, drift, badge, told, failures, customerVars, sweepVars>>

\* ... and the change commits, whatever has been inserted meanwhile.
CommitAdjust(a) ==
  /\ adjusting.of = a /\ adjusting' = NoAdjustment
  /\ assess' = [assess EXCEPT ![a].score = adjusting.score]
  /\ IF Reviewed(a) THEN ReviewedLast(a) ELSE UNCHANGED sooner
  /\ issuing' = [issuing EXCEPT !.beside = @ \/ issuing.of = a]
  /\ UNCHANGED <<drift, badge, told, failures, customerVars, page, overlapped, probes>>

----------------------------------------------------------------------------
(* Reviewer badge actions: UPDATE ... WHERE id = badge, whatever its status *)
(* is by now.  The page offers Suspend and Revoke on a badge it read as     *)
(* active and Reinstate on one it read as suspended.                        *)

RevokeBadge(b) ==
  /\ Issued(b)
  /\ Move({b}, "revoked", badge[b].reason)
  /\ UNCHANGED <<reviewVars, drift, told, failures, customerVars, sweepVars>>

SuspendBadge(b) ==
  /\ Issued(b) /\ MayStand(b)
  /\ Move({b}, "suspended", "reviewer")
  /\ UNCHANGED <<reviewVars, drift, told, failures, customerVars, sweepVars>>

ReinstateBadge(b) ==
  /\ Issued(b) /\ "suspended" \in badge[b].events
  /\ MayStand(b)
  /\ Move({b}, "active", "none")
  /\ UNCHANGED <<reviewVars, drift, told, failures, customerVars, sweepVars>>

----------------------------------------------------------------------------
(* Sweep: issuance.  The page is read once; its candidates are issued one   *)
(* statement at a time.                                                     *)

\* findIssuanceCandidates
IsCandidate(a) ==
  LET p == AppOf[a] IN
  /\ Reviewed(a) /\ assess[a].eligible
  /\ authorised[p] /\ licensed[p]
  /\ pays[p] # "free"
  /\ StandingOf(p) = {}

\* order by reviewed_at limit PageLimit
Before(a, S) == {x \in S : <<x, a>> \in sooner}
First(S) == {a \in S : Cardinality(Before(a, S)) < PageLimit}
ReadPage(S) ==
  /\ page = {} /\ issuing = NoInsertion
  /\ page' = {[of |-> a, score |-> assess[a].score, certifiable |-> certifiable[AppOf[a]]] :
                a \in First(S)}
  /\ page' # {}
  /\ UNCHANGED <<reviewVars, drift, badge, told, failures, customerVars,
                 issuing, overlapped, probes>>

\* Mistake: the plan is joined, not left-joined, so an outright purchase is dropped.
ReadSubscribedCandidates ==
  ReadPage({a \in Assessments : IsCandidate(a) /\ pays[AppOf[a]] = "live"})

ReadCandidates == ReadPage({a \in Assessments : IsCandidate(a)})

\* Number(score.toFixed(1)).  Which way a half goes makes no number equal to it.
ToFixed(score) == 10 * ((score + 5) \div 10)

\* assert_badge_is_earned, on the row being inserted, and the check on its origin
Earned(c) ==
  /\ Reviewed(c.of) /\ assess[c.of].eligible
  /\ ToFixed(c.score) = assess[c.of].score
  /\ c.certifiable

\* issueBadgeFor's insert, as far as the trigger ...
BeginIssue(c) ==
  /\ c \in page /\ issuing = NoInsertion
  /\ Earned(c)
  /\ issuing' = [of |-> c.of, score |-> ToFixed(c.score), beside |-> FALSE]
  /\ page' = page \ {c}
  /\ UNCHANGED <<reviewVars, drift, badge, told, failures, customerVars, overlapped, probes>>

\* ... and by the unique index's leave.
CommitIssue ==
  /\ issuing # NoInsertion /\ StandingOf(AppOf[issuing.of]) = {}
  /\ \E b \in Badges :
       /\ ~Issued(b)
       /\ \A other \in Badges : (~Issued(other)) => b <= other
       /\ badge' = [badge EXCEPT ![b] = [NoBadge EXCEPT !.status = "active",
                                           !.of = issuing.of, !.score = issuing.score]]
       /\ overlapped' = IF issuing.beside \/ adjusting.of = issuing.of
                        THEN overlapped \cup {b} ELSE overlapped
  /\ issuing' = NoInsertion
  /\ UNCHANGED <<reviewVars, drift, told, failures, customerVars, page, probes>>

\* The database refuses the row; the sweep logs it and goes on.
IndexRefuses ==
  /\ issuing # NoInsertion /\ StandingOf(AppOf[issuing.of]) # {}
  /\ issuing' = NoInsertion
  /\ UNCHANGED <<reviewVars, drift, badge, told, failures, customerVars, page, overlapped, probes>>

IssuanceRefused(c) ==
  /\ c \in page /\ issuing = NoInsertion
  /\ ~Earned(c)
  /\ page' = page \ {c}
  /\ UNCHANGED <<reviewVars, drift, badge, told, failures, customerVars,
                 issuing, overlapped, probes>>

----------------------------------------------------------------------------
(* Sweep: lifecycle.  Four statements; the notices of the second and third  *)
(* are raised afterwards, each in its own try, so any of them may be lost.  *)

Active(p) == {b \in StandingOf(p) : badge[b].status = "active"}

\* raiseAlert: on conflict (organisation_id, dedupe_key) do nothing.
Tell(S) ==
  told' = [b \in Badges |->
            IF b \notin S THEN told[b] ELSE IF told[b] = "nothing" THEN "this" ELSE "earlier"]
SomeAreTold(S) == \E T \in SUBSET S : Tell(T)

ExpireDue ==
  LET S == {b \in Badges : badge[b].status = "active" /\ badge[b].due} IN
  /\ S # {}
  /\ badge' = [b \in Badges |-> IF b \in S THEN Moved(badge[b], "expired", badge[b].reason)
                                           ELSE badge[b]]
  /\ UNCHANGED <<reviewVars, drift, told, failures, customerVars, sweepVars>>

SuspendLapsed ==
  LET S == UNION {Active(p) : p \in {x \in Apps : pays[x] = "lapsed"}} IN
  /\ S # {}
  /\ Move(S, "suspended", "lapsed")
  /\ SomeAreTold(S)
  /\ UNCHANGED <<reviewVars, drift, failures, customerVars, sweepVars>>

\* Mistake: the sweep looks only at applications whose plan is monitored.
SuspendUnauthorisedMonitored ==
  LET S == UNION {Active(p) : p \in {x \in Apps : ~authorised[x] /\ pays[x] = "live"}} IN
  /\ S # {}
  /\ Move(S, "suspended", "withdrawn")
  /\ SomeAreTold(S)
  /\ UNCHANGED <<reviewVars, drift, failures, customerVars, sweepVars>>

SuspendUnauthorised ==
  LET S == UNION {Active(p) : p \in {x \in Apps : ~authorised[x]}} IN
  /\ S # {}
  /\ Move(S, "suspended", "withdrawn")
  /\ SomeAreTold(S)
  /\ UNCHANGED <<reviewVars, drift, failures, customerVars, sweepVars>>

RestoreReauthorised ==
  LET S == {b \in Badges : /\ badge[b].status = "suspended"
                           /\ badge[b].reason = "withdrawn"
                           /\ ~badge[b].due
                           /\ authorised[BadgeApp(b)]} IN
  /\ S # {}
  /\ Move(S, "active", "none")
  /\ UNCHANGED <<reviewVars, drift, told, failures, customerVars, sweepVars>>

----------------------------------------------------------------------------
(* Sweep: drift.  recordDriftFor is one transaction. *)

HasPrior(a) ==
  \E prior \in Assessments : prior < a /\ AppOf[prior] = AppOf[a] /\ Reviewed(prior)

\* Mistake: the notices are raised after the transaction and may be lost.
RecordDriftThenTell(a) ==
  /\ Reviewed(a) /\ HasPrior(a) /\ drift[a] = "none"
  /\ \/ /\ drift' = [drift EXCEPT ![a] = "immaterial"]
        /\ UNCHANGED <<badge, told>>
     \/ /\ drift' = [drift EXCEPT ![a] = "material"]
        /\ Move(Active(AppOf[a]), "suspended", "regression")
        /\ SomeAreTold(Active(AppOf[a]))
  /\ UNCHANGED <<reviewVars, failures, customerVars, sweepVars>>

\* The verdict is assessMateriality's, over findings and scores not kept here.
RecordDrift(a) ==
  /\ Reviewed(a) /\ HasPrior(a) /\ drift[a] = "none"
  /\ \/ /\ drift' = [drift EXCEPT ![a] = "immaterial"]
        /\ UNCHANGED <<badge, told>>
     \/ /\ drift' = [drift EXCEPT ![a] = "material"]
        /\ Move(Active(AppOf[a]), "suspended", "regression")
        /\ Tell(Active(AppOf[a]))
  /\ UNCHANGED <<reviewVars, failures, customerVars, sweepVars>>

----------------------------------------------------------------------------
(* Sweep: liveness.  Rows are read, every origin is probed, then each row   *)
(* is decided from what was read.                                           *)

DueForCheck(b) ==
  LET p == BadgeApp(b) IN
  Standing(b) /\ pays[p] = "live" /\ authorised[p]

ReadForLiveness ==
  /\ probes = {}
  /\ \E S \in SUBSET {b \in Badges : Standing(b)} :
       /\ S # {} /\ \A b \in S : DueForCheck(b)
       /\ probes' = {[badge |-> b, status |-> badge[b].status,
                      failures |-> failures[BadgeApp(b)]] : b \in S}
  /\ UNCHANGED <<reviewVars, drift, badge, told, failures, customerVars, issueVars>>

\* sharedCause: the control did not answer, or everything failed together.
DecideNothing ==
  /\ probes # {}
  /\ probes' = {}
  /\ UNCHANGED <<reviewVars, drift, badge, told, failures, customerVars, issueVars>>

Decided(row) ==
  /\ probes' = probes \ {row}
  /\ UNCHANGED <<reviewVars, drift, customerVars, issueVars>>

\* Mistake: a check that was never made clears the counter.
ProbeRefusedForgives(row) ==
  /\ failures' = [failures EXCEPT ![BadgeApp(row.badge)] = 0]
  /\ Decided(row) /\ UNCHANGED <<badge, told>>

\* A refusal (the guard would not send the request) writes back the counter it read.
ProbeRefused(row) ==
  /\ failures' = [failures EXCEPT ![BadgeApp(row.badge)] = row.failures]
  /\ Decided(row) /\ UNCHANGED <<badge, told>>

\* The transaction of one row is rolled back, and the sweep goes on to the next.
DecisionLost(row) == Decided(row) /\ UNCHANGED <<badge, told, failures>>

\* Mistake: the update does not ask whose suspension it lifts.
ProbeUpLiftsAny(row) ==
  LET b == row.badge
      restore == /\ row.status = "suspended" /\ row.failures >= Threshold
                 /\ badge[b].status = "suspended" IN
  /\ failures' = [failures EXCEPT ![BadgeApp(b)] = 0]
  /\ Move(IF restore THEN {b} ELSE {}, "active", "none")
  /\ Decided(row) /\ UNCHANGED told

\* Mistake: one failure more than the suspension needed.
ProbeUpOffByOne(row) ==
  LET b == row.badge
      restore == /\ row.status = "suspended" /\ row.failures > Threshold
                 /\ badge[b].status = "suspended" /\ badge[b].reason = "liveness" IN
  /\ failures' = [failures EXCEPT ![BadgeApp(b)] = 0]
  /\ Move(IF restore THEN {b} ELSE {}, "active", "none")
  /\ Decided(row) /\ UNCHANGED told

\* Mistake: a success counts the failures down without a floor.
ProbeUpCountsDown(row) ==
  LET b == row.badge
      restore == /\ row.status = "suspended" /\ row.failures >= Threshold
                 /\ badge[b].status = "suspended" /\ badge[b].reason = "liveness" IN
  /\ failures' = [failures EXCEPT ![BadgeApp(b)] = row.failures - 1]
  /\ Move(IF restore THEN {b} ELSE {}, "active", "none")
  /\ Decided(row) /\ UNCHANGED told

ProbeUp(row) ==
  LET b == row.badge
      restore == /\ row.status = "suspended" /\ row.failures >= Threshold
                 /\ badge[b].status = "suspended" /\ badge[b].reason = "liveness" IN
  /\ failures' = [failures EXCEPT ![BadgeApp(b)] = 0]
  /\ Move(IF restore THEN {b} ELSE {}, "active", "none")
  /\ Decided(row) /\ UNCHANGED told

ProbeDown(row) ==
  LET b == row.badge
      crossed == row.failures + 1 >= Threshold /\ row.status = "active" IN
  /\ row.failures < MaxFailures
  /\ failures' = [failures EXCEPT ![BadgeApp(b)] = row.failures + 1]
  /\ Move(IF crossed /\ badge[b].status = "active" THEN {b} ELSE {}, "suspended", "liveness")
  /\ Tell(IF crossed THEN {b} ELSE {})
  /\ Decided(row)

----------------------------------------------------------------------------
(* The rest of the world *)

\* The process stops between two statements; what it read is gone.
WorkerRestarts ==
  /\ page # {} \/ probes # {} \/ issuing # NoInsertion
  /\ page' = {} /\ probes' = {} /\ issuing' = NoInsertion
  /\ UNCHANGED <<reviewVars, drift, badge, told, failures, customerVars, overlapped>>

\* revokeAuthorisation, an authorisation running out, and granting a new one
AuthorisationChanges(p) ==
  /\ authorised' = [authorised EXCEPT ![p] = ~@]
  /\ UNCHANGED <<reviewVars, drift, badge, told, pays, licensed, certifiable, failures, sweepVars>>

\* The payment provider's webhooks
PaymentChanges(p) ==
  /\ \E new \in Payment : pays' = [pays EXCEPT ![p] = new]
  /\ UNCHANGED <<reviewVars, drift, badge, told, authorised, licensed, certifiable, failures, sweepVars>>

AcceptBadgeLicence(p) ==
  /\ ~licensed[p]
  /\ licensed' = [licensed EXCEPT ![p] = TRUE]
  /\ UNCHANGED <<reviewVars, drift, badge, told, authorised, pays, certifiable, failures, sweepVars>>

\* The owner gives the application another address.  https:// is all that
\* apps_url_is_https asks; the badge's check also asks for an ordinary host name.
AddressChanges(p) ==
  /\ certifiable' = [certifiable EXCEPT ![p] = ~@]
  /\ UNCHANGED <<reviewVars, drift, badge, told, authorised, pays, licensed, failures, sweepVars>>

\* expires_at passes
TermEnds(b) ==
  /\ Issued(b) /\ ~badge[b].due
  /\ badge' = [badge EXCEPT ![b].due = TRUE]
  /\ UNCHANGED <<reviewVars, drift, told, failures, customerVars, sweepVars>>

----------------------------------------------------------------------------

Reviewing == \E a \in Assessments : RunCompletes(a) \/ Approve(a) \/ Reject(a)
                                      \/ BeginAdjust(a) \/ CommitAdjust(a)
ActingOnBadges == \E b \in Badges : RevokeBadge(b) \/ SuspendBadge(b) \/ ReinstateBadge(b)
Issuance == ReadCandidates \/ CommitIssue \/ IndexRefuses
            \/ \E c \in Candidate : BeginIssue(c) \/ IssuanceRefused(c)
Lifecycle == ExpireDue \/ SuspendLapsed \/ SuspendUnauthorised \/ RestoreReauthorised
DriftSweep == \E a \in Assessments : RecordDrift(a)
Liveness == ReadForLiveness \/ DecideNothing
            \/ \E row \in probes : ProbeRefused(row) \/ ProbeUp(row)
                                    \/ ProbeDown(row) \/ DecisionLost(row)
World ==
  \/ WorkerRestarts
  \/ \E p \in Apps : AuthorisationChanges(p) \/ PaymentChanges(p)
                     \/ AcceptBadgeLicence(p) \/ AddressChanges(p)
  \/ \E b \in Badges : TermEnds(b)

Next == Reviewing \/ ActingOnBadges \/ Issuance \/ Lifecycle \/ DriftSweep
        \/ Liveness \/ World

Spec == Init /\ [][Next]_vars

\* Every sweep runs every thirty seconds (lifecycle, issuance) while the process
\* is up; an issuance that keeps becoming possible is not cut off by a restart
\* every single time.
SweepFairness ==
  /\ WF_vars(ExpireDue) /\ WF_vars(SuspendLapsed) /\ WF_vars(SuspendUnauthorised)
  /\ WF_vars(ReadCandidates) /\ SF_vars(CommitIssue) /\ WF_vars(IndexRefuses)
  /\ \A a \in Assessments :
       LET Read == {c \in Candidate : c.of = a} IN
       SF_vars(\E c \in Read : BeginIssue(c)) /\ WF_vars(\E c \in Read : IssuanceRefused(c))

FairSpec == Spec /\ SweepFairness

----------------------------------------------------------------------------
(* What must hold *)

SuspendedFor(b, reasons) == badge[b].status = "suspended" /\ badge[b].reason \in reasons

\* A badge that has never been revoked shows the score its report shows, however
\* reviews, adjustments and a sweep holding an old page of candidates interleave;
\* except where its insert and a change of the score overlapped, of which neither
\* trigger sees the other's.
\* (assert_badge_is_earned and assert_score_is_not_pulled_from_under_a_badge)
UnrevokedBadgeShowsTheReportScore ==
  \A b \in Badges : (Issued(b) /\ "revoked" \notin badge[b].events /\ b \notin overlapped)
                      => badge[b].score = assess[badge[b].of].score

\* What makes it inductive: where an issued badge points, that its revocation is
\* logged, that every assessment past its run has a score ...
Settled(b) == "revoked" \in badge[b].events \/ b \in overlapped
BadgeFacts ==
  /\ \A b \in Badges : Issued(b) =>
       /\ badge[b].of \in Assessments
       /\ Reviewed(badge[b].of)
       /\ badge[b].status = "revoked" => "revoked" \in badge[b].events
       /\ Settled(b) \/ badge[b].score = assess[badge[b].of].score
  /\ \A a \in Assessments : assess[a].status # "none" => assess[a].score \in Scores

\* ... and what a statement that has not committed has looked at.
AdjustmentFacts == adjusting # NoAdjustment =>
  /\ adjusting.of \in Assessments /\ adjusting.score \in Scores
  /\ assess[adjusting.of].status # "none"
  /\ adjusting.score # assess[adjusting.of].score =>
       \A b \in Badges : (Issued(b) /\ badge[b].of = adjusting.of) => Settled(b)
InsertionFacts == issuing # NoInsertion =>
  /\ issuing.of \in Assessments /\ Reviewed(issuing.of)
  /\ issuing.beside \/ issuing.score = assess[issuing.of].score
Facts == BadgeFacts /\ AdjustmentFacts /\ InsertionFacts

\* A badge the liveness sweep took down always has the failures on the counter
\* that the next success needs to put it back: no refusal, stale row or other
\* badge of the application strands it.  (sweepLiveness, applyProbe)
LivenessSuspensionIsRestorable ==
  \A b \in Badges : SuspendedFor(b, {"liveness"}) => failures[BadgeApp(b)] >= Threshold

\* A badge down for a regression or an outage is never down without a notice on
\* record, since both are written in the transaction that suspends it.  It need not
\* be a notice of this suspension: where one stands already for the badge, the key
\* they share keeps a second from being written ("earlier").
\* (recordDriftFor, sweepLiveness, raiseAlert, badgeSuspendedAlert)
SuspendedBadgeHasANotice ==
  \A b \in Badges : SuspendedFor(b, {"regression", "liveness"}) => told[b] # "nothing"

\* A suspension for a lapse, a regression or a reviewer's reason is lifted by a
\* reviewer only, never by a sweep acting on a row it read earlier.
\* (sweepLiveness, sweepBadgeLifecycle; liveness.ts on what stays down)
SuspensionForCauseStaysDown ==
  [][\A b \in Badges :
       (SuspendedFor(b, {"lapsed", "regression", "reviewer"}) /\ badge'[b].status = "active")
          => ReinstateBadge(b)]_vars

\* The next successful check restores a badge suspended for an outage, whatever
\* the row said when it was read.  (sweepLiveness)
RestoredByTheNextSuccess ==
  [][\A row \in probes :
       (ProbeUp(row) /\ SuspendedFor(row.badge, {"liveness"}))
          => badge'[row.badge].status = "active"]_vars

\* A mark does not stay up past its term, without an authorisation, or on a
\* lapsed subscription: the sweep takes it down or the cause goes away.
\* (sweepBadgeLifecycle)
NothingStandsUnsupported ==
  \A b \in Badges :
    LET up == badge[b].status = "active" IN
    /\ (up /\ badge[b].due) ~> ~up
    /\ (up /\ ~authorised[BadgeApp(b)]) ~> (~up \/ authorised[BadgeApp(b)])
    /\ (up /\ pays[BadgeApp(b)] = "lapsed") ~> (~up \/ pays[BadgeApp(b)] # "lapsed")

\* What no sweep can issue, as long as nobody changes it: the score is not one the
\* badge can carry, or the origin is not.
Issuable(a) == ToFixed(assess[a].score) = assess[a].score /\ certifiable[AppOf[a]]
Candidates == {a \in Assessments : IsCandidate(a)}
Answerable(a) ==
  /\ IsCandidate(a) /\ Issuable(a) /\ \E b \in Badges : ~Issued(b)
  /\ Cardinality({x \in Before(a, Candidates) : ~Issuable(x)}) < PageLimit

\* An assessment that meets every gate, and whose score and origin a badge can
\* carry, is issued a badge or stops meeting one: unless as many as a page holds
\* were reviewed before it that are candidates and never issued.
\* (sweepBadgeIssuance, findIssuanceCandidates)
EligibleAssessmentIsAnswered == \A a \in Assessments : Answerable(a) ~> ~Answerable(a)

----------------------------------------------------------------------------
(* What the documents say, and the code does not do *)

\* legal/badge-licence.md: a badge renews only on a successful re-assessment, so
\* no assessment whose badge has expired carries a second one.
RenewsOnlyOnReassessment ==
  \A b, c \in Badges :
    (Issued(b) /\ Issued(c) /\ b # c /\ badge[b].status = "expired")
      => badge[b].of # badge[c].of

\* The console, beside a material drift report: "The badge is restored when a new
\* assessment passes review."  Here a is the newest assessment, it passed, and it
\* came after the regression that took b down.
Cures(a, b) ==
  /\ Reviewed(a) /\ assess[a].eligible /\ drift[a] = "immaterial"
  /\ SuspendedFor(b, {"regression"}) /\ BadgeApp(b) = AppOf[a]
  /\ \E m \in Assessments : m < a /\ AppOf[m] = AppOf[a] /\ drift[m] = "material"
  /\ \A m \in Assessments : (m > a /\ AppOf[m] = AppOf[a]) => drift[m] # "material"

RestoredWhenANewAssessmentPasses ==
  \A a \in Assessments : \A b \in Badges :
    Cures(a, b) ~> (Active(AppOf[a]) # {} \/ ~Cures(a, b))
=============================================================================
