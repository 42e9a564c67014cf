---------------------------- MODULE Reassessment ----------------------------
(***************************************************************************)
(* Continuous monitoring between the assessments of one application: when  *)
(* the next one is queued (sweepScheduledReassessments, CADENCE), and what *)
(* is made of the difference between two of them (sweepDriftDetection,     *)
(* recordDriftFor, computeDrift, assessMateriality).                       *)
(*                                                                         *)
(* A look is what an assessment recorded.  Of the dimensions the floors    *)
(* name one is kept, of the findings their key and severity.  Several      *)
(* processes may run each sweep.  What a suspension does to the badge is   *)
(* in BadgeLifecycle.                                                      *)
(***************************************************************************)
EXTENDS Integers, Sequences, FiniteSets

CONSTANTS
  Looks,       \* what an assessment may record
  Queuers,     \* processes that run sweepScheduledReassessments
  Comparers,   \* processes that run sweepDriftDetection
  Every,       \* reassessEveryDays of the plan
  Attempts,    \* DRIFT_COMPARISON_ATTEMPTS
  WindowRows,  \* limit
  ScoreDrop,   \* scoreDropPoints
  Threshold,   \* certificationThreshold
  Floor,       \* dimensionFloors
  MaxLooks, MaxReviews, MaxDays, MaxDriftFaults   \* bounds

Sensitive == {"security", "privacy"}
Key == Sensitive \cup {"experience"}
Severity == 0..4          \* info to critical
Serious == {3, 4}
Finding == [key: Key, severity: Severity, published: BOOLEAN]

ASSUME ReassessmentAssumption ==
  /\ Looks \subseteq [score: Nat, dimension: Nat, rubric: Nat, notTested: Nat,
                      findings: SUBSET Finding]
  /\ Every \in Nat \ {0} /\ Attempts \in Nat \ {0} /\ WindowRows \in Nat \ {0}
  /\ ScoreDrop \in Nat \ {0} /\ Threshold \in Nat /\ Floor \in Nat
  /\ MaxLooks \in Nat /\ MaxReviews \in Nat /\ MaxDays \in Nat \ {0} /\ MaxDriftFaults \in Nat

VARIABLES
  assessed,   \* public.assessments of the application, in the order they were completed
  schedule,   \* its live assessment request, and what the sweep last wrote of it
  queuer,     \* where each scheduling sweep is
  queuedRows, \* the requests the sweep inserted: on what day, and how many it had seen
  comparer,   \* where each drift sweep is, and the failures it has counted
  reports,    \* public.drift_reports, by assessment
  abandoned,  \* the comparisons the audit log says were abandoned
  monitorDay,
  reviewed,   \* bound
  driftFaults \* bound
reassessmentVars ==
  <<assessed, schedule, queuer, queuedRows, comparer, reports, abandoned, monitorDay, reviewed,
    driftFaults>>

Assessed == [look: Looks, score: Nat, eligible: BOOLEAN, at: Nat,
             status: {"awaiting_review", "approved", "rejected"}]

ReassessmentTypeOK ==
  /\ assessed \in Seq(Assessed)
  /\ schedule \in [live: {"none", "queued", "claimed"}, monitored: BOOLEAN, stamped: Nat]
  /\ queuer \in [Queuers -> [at: {"idle", "selected"}, saw: Nat]]
  /\ queuedRows \in Seq([on: Nat, saw: Nat])
  /\ \A c \in Comparers :
       /\ comparer[c].at \in {"idle", "rows", "read", "compared"}
       /\ comparer[c].rows \in Seq(1..MaxLooks)
       /\ comparer[c].failures \in [1..MaxLooks -> 0..Attempts]
  /\ \A n \in DOMAIN reports :
       n \in DOMAIN assessed /\ reports[n].before \in 1..(n - 1) /\ reports[n].material \in BOOLEAN
  /\ abandoned \subseteq 1..MaxLooks
  /\ monitorDay \in 1..MaxDays /\ reviewed \in 0..MaxReviews /\ driftFaults \in 0..MaxDriftFaults

ReassessmentInit ==
  /\ assessed = <<>>
  /\ schedule = [live |-> "none", monitored |-> TRUE, stamped |-> 0]
  /\ queuer = [q \in Queuers |-> [at |-> "idle", saw |-> 0]] /\ queuedRows = <<>>
  /\ comparer = [c \in Comparers |->
       [at |-> "idle", rows |-> <<>>, was |-> <<>>, is |-> <<>>,
        failures |-> [n \in 1..MaxLooks |-> 0]]]
  /\ reports = <<>> /\ abandoned = {} /\ monitorDay = 1 /\ reviewed = 0 /\ driftFaults = 0

-----------------------------------------------------------------------------
(* What two looks differ in. *)

\* The severity under which a key is published, 0 when it is not.
\* One key may stand for several findings: the worst of them counts.
SeveritiesOf(a, key) == {f.severity + 1 : f \in {g \in a.look.findings : g.published /\ g.key = key}}
\* A plausible slip: the mildest of them counts.
PublishedByKeyMildest(a, key) ==
  IF SeveritiesOf(a, key) = {} THEN 0
  ELSE CHOOSE s \in SeveritiesOf(a, key) : \A other \in SeveritiesOf(a, key) : s <= other
PublishedByKey(a, key) ==
  IF SeveritiesOf(a, key) = {} THEN 0
  ELSE CHOOSE s \in SeveritiesOf(a, key) : \A other \in SeveritiesOf(a, key) : other <= s
IsSerious(published) == published > 0 /\ published - 1 \in Serious

NewFinding(was, is, key) == PublishedByKey(was, key) = 0 /\ PublishedByKey(is, key) > 0
Escalated(was, is, key) ==
  PublishedByKey(was, key) > 0 /\ PublishedByKey(is, key) > PublishedByKey(was, key)

\* RULES, by their ids.
Rule ==
  {"certification_lost", "serious_new_security_finding", "serious_escalation", "score_drop",
   "score_below_certification_threshold", "dimension_below_floor"}
Fires(rule, was, is) ==
  CASE rule = "certification_lost" -> was.eligible /\ ~is.eligible
    [] rule = "serious_new_security_finding" ->
         \E k \in Sensitive : NewFinding(was, is, k) /\ IsSerious(PublishedByKey(is, k))
    [] rule = "serious_escalation" ->
         \E k \in Key : /\ Escalated(was, is, k) /\ IsSerious(PublishedByKey(is, k))
                        /\ ~IsSerious(PublishedByKey(was, k))
    [] rule = "score_drop" -> is.score - was.score <= -ScoreDrop
    [] rule = "score_below_certification_threshold" -> was.score >= Threshold /\ is.score < Threshold
    [] rule = "dimension_below_floor" -> was.look.dimension >= Floor /\ is.look.dimension < Floor
Reasons(was, is) == {rule \in Rule : Fires(rule, was, is)}

\* A change of the rubric, or a narrower look, is no change of the application.
SameRubric(was, is) == was.look.rubric = is.look.rubric
CoverageShrank(was, is) == is.look.notTested > was.look.notTested
Material(was, is) ==
  SameRubric(was, is) /\ ~CoverageShrank(was, is) /\ Reasons(was, is) # {}

-----------------------------------------------------------------------------
(* The drift sweep. *)

DriftRests == UNCHANGED <<schedule, queuer, queuedRows, monitorDay>>

\* Completed before, and approved: the newest of them is what n is measured against.
Priors(n) == {m \in 1..(n - 1) : assessed[m].status = "approved"}
Uncompared ==
  {n \in DOMAIN assessed :
     assessed[n].status = "approved" /\ n \notin DOMAIN reports /\ Priors(n) # {}}
\* Those given up on come last.
SweptBefore(m, n) == IF (m \in abandoned) = (n \in abandoned) THEN m < n ELSE n \in abandoned

\* The select's first rows, in its order: all of them, or as many as its limit.
FirstRows(rows) ==
  /\ \A i, j \in DOMAIN rows : i < j => SweptBefore(rows[i], rows[j])
  /\ \A n \in Uncompared \ {rows[i] : i \in DOMAIN rows} :
       Len(rows) = WindowRows /\ \A i \in DOMAIN rows : SweptBefore(rows[i], n)

ReadUncompared(c) ==
  /\ comparer[c].at = "idle"
  /\ \E length \in 1..WindowRows : \E rows \in [1..length -> Uncompared] :
       FirstRows(rows) /\ comparer' = [comparer EXCEPT ![c].at = "rows", ![c].rows = rows]
  /\ DriftRests /\ UNCHANGED <<assessed, reports, abandoned, reviewed, driftFaults>>

\* On to the next row, or to rest.
NextRow(c, failures) ==
  comparer' = [comparer EXCEPT ![c] =
    [at |-> IF Len(comparer[c].rows) > 1 THEN "rows" ELSE "idle", rows |-> Tail(comparer[c].rows),
     was |-> <<>>, is |-> <<>>, failures |-> failures]]

\* A row that has failed too often in this process is passed over.
PassOver(c) ==
  /\ comparer[c].at = "rows" /\ comparer[c].failures[Head(comparer[c].rows)] >= Attempts
  /\ NextRow(c, comparer[c].failures)
  /\ DriftRests /\ UNCHANGED <<assessed, reports, abandoned, reviewed, driftFaults>>

SnapshotFor(c) ==
  /\ comparer[c].at = "rows" /\ comparer[c].failures[Head(comparer[c].rows)] < Attempts
  /\ comparer' = [comparer EXCEPT ![c].at = "read", ![c].is = <<assessed[Head(comparer[c].rows)]>>]
  /\ DriftRests /\ UNCHANGED <<assessed, reports, abandoned, reviewed, driftFaults>>

\* Read after it and not with it; it may have been rejected since.
PreviousSnapshotFor(c) ==
  /\ comparer[c].at = "read"
  /\ LET n == Head(comparer[c].rows) IN
     IF Priors(n) = {} THEN NextRow(c, comparer[c].failures)
     ELSE LET m == CHOOSE m \in Priors(n) : \A other \in Priors(n) : other <= m IN
          comparer' = [comparer EXCEPT ![c].at = "compared", ![c].was = <<m, assessed[m]>>]
  /\ DriftRests /\ UNCHANGED <<assessed, reports, abandoned, reviewed, driftFaults>>

\* The report, its alerts and the suspension in one transaction; another process's report stands.
RecordDriftFor(c) ==
  /\ comparer[c].at = "compared"
  /\ LET n == Head(comparer[c].rows)
         was == comparer[c].was[2]
         is == comparer[c].is[1]
         report == [before |-> comparer[c].was[1], was |-> was, is |-> is,
                    material |-> Material(was, is)] IN
     IF n \in DOMAIN reports
     THEN NextRow(c, comparer[c].failures) /\ UNCHANGED <<reports, abandoned>>
     ELSE /\ reports' = [m \in DOMAIN reports \cup {n} |-> IF m = n THEN report ELSE reports[m]]
          /\ NextRow(c, [comparer[c].failures EXCEPT ![n] = 0])
          /\ abandoned' = abandoned \ {n}
  /\ DriftRests /\ UNCHANGED <<assessed, reviewed, driftFaults>>

\* It threw: counted, and at the last attempt written down as given up.
ComparisonFails(c) ==
  /\ comparer[c].at \in {"read", "compared"} /\ driftFaults < MaxDriftFaults /\ driftFaults' = driftFaults + 1
  /\ LET n == Head(comparer[c].rows)
         failures == [comparer[c].failures EXCEPT ![n] = @ + 1] IN
     /\ NextRow(c, failures)
     /\ abandoned' = IF failures[n] >= Attempts THEN abandoned \cup {n} ELSE abandoned
  /\ DriftRests /\ UNCHANGED <<assessed, reports, reviewed>>

-----------------------------------------------------------------------------
(* The schedule. *)

ScheduleRests == UNCHANGED <<comparer, reports, abandoned, reviewed, driftFaults>>

ApprovedAt == {assessed[n].at : n \in {m \in DOMAIN assessed : assessed[m].status = "approved"}}
Latest(days) == CHOOSE d \in days : \A other \in days : other <= d
\* A plausible slip: only an assessment that came of it resets the clock.
LastAssessedByResult == Latest({0} \cup ApprovedAt)
\* The later of the sweep's own stamp and the newest approved assessment.
LastAssessed == Latest({0, schedule.stamped} \cup ApprovedAt)
IsReassessmentDue == LastAssessed > 0 /\ LastAssessed + Every <= monitorDay

SelectForReassessment(q) ==
  /\ queuer[q].at = "idle" /\ schedule.monitored /\ schedule.live = "none" /\ IsReassessmentDue
  /\ queuer' = [queuer EXCEPT ![q] = [at |-> "selected", saw |-> Len(queuedRows)]]
  /\ ScheduleRests /\ UNCHANGED <<assessed, schedule, queuedRows, monitorDay>>

\* The request and the stamp in one transaction; the one live request per application refuses it
\* while there is one, and nothing else is asked again.
QueueReassessment(q) ==
  /\ queuer[q].at = "selected"
  /\ queuer' = [queuer EXCEPT ![q].at = "idle"]
  /\ IF schedule.live = "none"
     THEN /\ schedule' = [schedule EXCEPT !.live = "queued", !.stamped = monitorDay]
          /\ queuedRows' = Append(queuedRows, [on |-> monitorDay, saw |-> queuer[q].saw])
     ELSE UNCHANGED <<schedule, queuedRows>>
  /\ ScheduleRests /\ UNCHANGED <<assessed, monitorDay>>

OwnerAsks ==
  /\ schedule.live = "none" /\ schedule' = [schedule EXCEPT !.live = "queued"]
  /\ ScheduleRests /\ UNCHANGED <<assessed, queuer, queuedRows, monitorDay>>
Withdrawn ==
  /\ schedule.live = "queued" /\ schedule' = [schedule EXCEPT !.live = "none"]
  /\ ScheduleRests /\ UNCHANGED <<assessed, queuer, queuedRows, monitorDay>>
Claimed ==
  /\ schedule.live = "queued" /\ schedule' = [schedule EXCEPT !.live = "claimed"]
  /\ ScheduleRests /\ UNCHANGED <<assessed, queuer, queuedRows, monitorDay>>
RunFails ==
  /\ schedule.live = "claimed" /\ schedule' = [schedule EXCEPT !.live = "none"]
  /\ ScheduleRests /\ UNCHANGED <<assessed, queuer, queuedRows, monitorDay>>
RunCompletes ==
  /\ schedule.live = "claimed" /\ Len(assessed) < MaxLooks /\ schedule' = [schedule EXCEPT !.live = "none"]
  /\ \E look \in Looks :
       assessed' = Append(assessed, [look |-> look, score |-> look.score, eligible |-> FALSE,
                                     at |-> monitorDay, status |-> "awaiting_review"])
  /\ ScheduleRests /\ UNCHANGED <<queuer, queuedRows, monitorDay>>

\* The plan, the switch on the application or its authorisation comes and goes.
MonitoringMoves ==
  /\ schedule' = [schedule EXCEPT !.monitored = ~@]
  /\ ScheduleRests /\ UNCHANGED <<assessed, queuer, queuedRows, monitorDay>>

\* A review in any order, and again.
Review(n) ==
  /\ n \in DOMAIN assessed /\ reviewed < MaxReviews /\ reviewed' = reviewed + 1
  /\ \/ \E eligible \in BOOLEAN :
          assessed' = [assessed EXCEPT ![n].status = "approved", ![n].eligible = eligible]
     \/ assessed' = [assessed EXCEPT ![n].status = "rejected"]
     \/ \E look \in Looks : assessed' = [assessed EXCEPT ![n].score = look.score]
  /\ DriftRests /\ UNCHANGED <<comparer, reports, abandoned, driftFaults>>

DayPasses ==
  /\ monitorDay < MaxDays /\ monitorDay' = monitorDay + 1
  /\ \A q \in Queuers : queuer[q].at = "idle"
  /\ ScheduleRests /\ UNCHANGED <<assessed, schedule, queuer, queuedRows>>

ReassessmentNext ==
  \/ \E c \in Comparers : \/ ReadUncompared(c) \/ PassOver(c) \/ SnapshotFor(c)
                          \/ PreviousSnapshotFor(c) \/ RecordDriftFor(c) \/ ComparisonFails(c)
  \/ \E q \in Queuers : SelectForReassessment(q) \/ QueueReassessment(q)
  \/ OwnerAsks \/ Withdrawn \/ Claimed \/ RunFails \/ RunCompletes \/ MonitoringMoves
  \/ \E n \in 1..MaxLooks : Review(n)
  \/ DayPasses

ReassessmentSpec == ReassessmentInit /\ [][ReassessmentNext]_reassessmentVars

-----------------------------------------------------------------------------

\* The comparisons that lead from one look to a later one, each of which read the earlier as the
\* comparison before it had.
Follows(n, m) ==
  /\ n \in DOMAIN reports /\ reports[n].before = m
  /\ m \in DOMAIN reports => reports[n].was = reports[m].is
Attributable(n) ==
  SameRubric(reports[n].was, reports[n].is) /\ ~CoverageShrank(reports[n].was, reports[n].is)
Quiet(n) == Attributable(n) /\ ~reports[n].material

\* As bad as the certificate may get: below what was certified, or with a serious finding in a
\* sensitive dimension that was not there.
Slipped(was, is) ==
  \/ was.eligible /\ ~is.eligible
  \/ was.score >= Threshold /\ is.score < Threshold
  \/ was.look.dimension >= Floor /\ is.look.dimension < Floor
  \/ \E f \in is.look.findings :
       /\ f.published /\ f.key \in Sensitive /\ f.severity \in Serious
       /\ \A g \in was.look.findings : g.published /\ g.key = f.key => g.severity \notin Serious

\* However gradually it gets worse: while no comparison of equal reach calls the change material,
\* the newest look has lost nothing of what the first stood for.  And a change is called material
\* only where something is worse (assessMateriality, over several re-assessments).
RegressionsDoNotAddUp ==
  /\ \A n \in DOMAIN reports : Quiet(n) =>
       /\ ~Slipped(reports[n].was, reports[n].is)
       /\ \A m \in DOMAIN reports : Follows(n, m) /\ Quiet(m) =>
            ~Slipped(reports[m].was, reports[n].is)
  /\ \A n \in DOMAIN reports : reports[n].material =>
       LET was == reports[n].was  is == reports[n].is IN
       \/ was.eligible /\ ~is.eligible
       \/ is.score < was.score
       \/ is.look.dimension < was.look.dimension
       \/ \E f \in is.look.findings : f.published /\ \A g \in was.look.findings :
            g.published /\ g.key = f.key => g.severity < f.severity

\* The sweep queues an application twice inside one cadence only where the second process had
\* selected it before the first wrote, and what the first queued was over by then: never because
\* the re-assessment failed, was withdrawn or waits for its review (sweepScheduledReassessments).
ReassessmentsAreSpaced ==
  \A i, j \in DOMAIN queuedRows :
    i < j /\ queuedRows[j].on < queuedRows[i].on + Every => queuedRows[j].saw < i
=============================================================================
