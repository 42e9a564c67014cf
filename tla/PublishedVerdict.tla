-------------------------- MODULE PublishedVerdict --------------------------
(***************************************************************************)
(* From what a run filed to what is published of it: findings are placed   *)
(* under the rubric's criteria and scored, the row is stored, a reviewer   *)
(* is told what to look at and decides, and the public page answers nine   *)
(* questions in plain words from the same findings and the criteria that   *)
(* were not tested.                                                        *)
(*                                                                         *)
(* Scores are in hundredths of a point, weights in percent, confidence in  *)
(* tenths: the published rubric's arithmetic is exact in them, where the   *)
(* code computes in binary fractions.  Abstracted: titles and texts, the   *)
(* evidence under a finding, the narrative, and who the reviewer is.       *)
(***************************************************************************)
EXTENDS Integers, FiniteSets, FiniteSetsExt

CONSTANTS
  Filings,      \* the findings a run may file, as its stages write them
  Assignments,  \* what a run is asked: rubric, depth, what the owner declared
  MayBeMissed,  \* criteria a run may come back without
  MaxFiled,     \* bound: findings of one run
  Adjustments   \* scores a reviewer may write instead

VARIABLES
  assignment,   \* [rubric, depth, declared]
  filed,        \* how often each finding was filed
  gaps,         \* notTested: the criteria that were not tested
  exploration,  \* what the functional stage said of the core flows
  phase,        \* where the assessment is
  outcome,      \* the stored row: score, gate_failures, certification_eligible
  advice        \* what the reviewer was told to look at

verdictVars == <<assignment, filed, gaps, exploration, phase, outcome, advice>>

-----------------------------------------------------------------------------
(* The published rubric.                                                    *)

Numbered(prefix, n) == {<<prefix, i>> : i \in 1..n}
Dimension(prefix, weight, criteria, floor) ==
  [prefix |-> prefix, weight |-> weight, criteria |-> Numbered(prefix, criteria), floor |-> floor]

RubricOf(fi, sec, pri, ux, prd, str) ==
  [functional |-> Dimension("FI", 25, fi, 6000), security |-> Dimension("SEC", 25, sec, 6500),
   privacy |-> Dimension("PRI", 15, pri, 6000), practicality |-> Dimension("UX", 15, ux, 0),
   production |-> Dimension("PRD", 10, prd, 0), store |-> Dimension("STR", 10, str, 0)]

Gate(id, cap, rules, dimensions, severities) ==
  [id |-> id, cap |-> cap, rules |-> rules, dimensions |-> dimensions, severities |-> severities,
   blocks |-> TRUE]
Severities == {"critical", "high", "medium", "low", "info"}
RunFactGates == {"no authorisation coverage"}
NoCap == 10000
AnyRule == {}
Gates ==
  {Gate("critical security", 4900, AnyRule, {"security", "privacy"}, {"critical"}),
   Gate("exposed secret", 3900, {<<"SEC", 4>>}, {}, Severities),
   Gate("no authorisation coverage", NoCap, AnyRule, {}, Severities)}

Rubrics ==
  [version \in {"1.0.0", "1.1.0"} |->
     [dimensions |-> IF version = "1.0.0" THEN RubricOf(7, 11, 6, 6, 5, 7) ELSE RubricOf(8, 13, 7, 7, 6, 8),
      gates |-> Gates, threshold |-> 7000]]
Bands == {<<9000, 10000>>, <<7500, 8999>>, <<6000, 7499>>, <<4000, 5999>>, <<0, 3999>>}
SeverityPenalty == [critical |-> 45, high |-> 22, medium |-> 9, low |-> 3, info |-> 0]
ConfidenceMultiplier == [high |-> 10, medium |-> 7, low |-> 4]

\* What the amounts come to, all together.
Total(amount) ==
  LET sum[of \in SUBSET DOMAIN amount] ==
        IF of = {} THEN 0
        ELSE LET x == CHOOSE x \in of : TRUE IN amount[x] + sum[of \ {x}]
  IN sum[DOMAIN amount]

CriteriaIn(rubric) == UNION {rubric.dimensions[d].criteria : d \in DOMAIN rubric.dimensions}
RubricCriteria == [version \in DOMAIN Rubrics |-> CriteriaIn(Rubrics[version])]

\* assertRubricIsScorable: weights that make a whole, and gates that something can trigger.
Scorable(rubric) ==
  /\ DOMAIN rubric.dimensions # {}
  /\ \A d \in DOMAIN rubric.dimensions : rubric.dimensions[d].weight > 0
  /\ Total([d \in DOMAIN rubric.dimensions |-> rubric.dimensions[d].weight]) = 100
  /\ \A g \in rubric.gates : g.id \notin RunFactGates =>
       /\ g.rules \cup g.dimensions # {}
       /\ g.rules \subseteq CriteriaIn(rubric) /\ g.dimensions \subseteq DOMAIN rubric.dimensions

ASSUME VerdictAssumption ==
  /\ IsFiniteSet(Filings) /\ MaxFiled \in Nat /\ Adjustments \subseteq 0..10000
  /\ \A f \in Filings : /\ f.severity \in DOMAIN SeverityPenalty
                        /\ f.confidence \in DOMAIN ConfidenceMultiplier
  /\ \A a \in Assignments : a.rubric \in DOMAIN Rubrics

-----------------------------------------------------------------------------
(* Placing and scoring.                                                     *)

\* A criterion named in another form is filed under the one it means; one that the
\* rubric does not know keeps its name and counts in its dimension.
Placed(version, f) ==
  [f EXCEPT !.named = IF f.rule \in RubricCriteria[version] THEN "as published" ELSE @]
Reads(version, f) == Placed(version, f).named = "as published"

Among(of) == {f \in DOMAIN of : of[f] > 0}

\* In hundredths of a point: a severity's points, by tenths of confidence.
Weight(f) == 10 * SeverityPenalty[f.severity] * ConfidenceMultiplier[f.confidence]
Penalty(of, d) ==
  Total([f \in DOMAIN of |-> IF f.dimension = d THEN of[f] * Weight(f) ELSE 0])
Clamp(n) == IF n < 0 THEN 0 ELSE IF n > 10000 THEN 10000 ELSE n
DimensionScore(of, d) == Clamp(10000 - Penalty(of, d))

Rounded(n) == (n + 50) \div 100
Weighted(version, of) ==
  LET dimensions == Rubrics[version].dimensions IN
  Rounded(Total([d \in DOMAIN dimensions |-> DimensionScore(of, d) * dimensions[d].weight]))

GateTriggers(version, gate, of, unreachable) ==
  IF gate.id \in RunFactGates THEN unreachable
  ELSE \E f \in Among(of) :
         /\ f.severity \in gate.severities
         /\ gate.rules # AnyRule => f.rule \in gate.rules /\ Reads(version, f)
         /\ gate.dimensions # {} => f.dimension \in gate.dimensions
GatesApplied(version, of, unreachable) ==
  {g \in Rubrics[version].gates : GateTriggers(version, g, of, unreachable)}

\* Each gate in turn lowers the score to its cap.
Capped(score, gates) == Min({score} \cup {g.cap : g \in gates})
OverallScore(version, of, unreachable) ==
  Capped(Weighted(version, of), GatesApplied(version, of, unreachable))

BandFor(score) == {b \in Bands : b[1] <= score /\ score <= b[2]}

Blocker(what, text) == [what |-> what, text |-> text]
CertificationBlockers(version, of, unreachable) ==
  {Blocker(g.id, "label") : g \in {g \in GatesApplied(version, of, unreachable) : g.blocks}}
  \cup (IF OverallScore(version, of, unreachable) < Rubrics[version].threshold
        THEN {Blocker("overall", "threshold")} ELSE {})
  \cup {Blocker(d, "floor") : d \in {d \in DOMAIN Rubrics[version].dimensions :
                                       DimensionScore(of, d) < Rubrics[version].dimensions[d].floor}}

-----------------------------------------------------------------------------
(* The nine questions of the public page.                                   *)

Claim(criteria, gate, asks, deep) == [criteria |-> criteria, gate |-> gate, asks |-> asks, deep |-> deep]
Criteria(prefix, numbers) == {<<prefix, n>> : n \in numbers}
ASSURANCE_CLAIMS ==
  {Claim(Criteria("SEC", {3, 5, 7, 9}), "critical security", "authentication", TRUE),
   Claim(Criteria("SEC", {6, 11}) \cup Criteria("PRI", {6}), "critical security", "nothing", TRUE),
   Claim(Criteria("SEC", {4}), "exposed secret", "nothing", FALSE),
   Claim(Criteria("SEC", {1, 2}), "none", "nothing", FALSE),
   Claim(Criteria("PRI", 1..5), "critical security", "nothing", FALSE),
   Claim(Criteria("SEC", {12}), "none", "payments", FALSE),
   Claim(Criteria("SEC", {13, 10}), "none", "nothing", FALSE),
   Claim(Criteria("PRI", {7}), "none", "nothing", FALSE),
   Claim(Criteria("FI", {1, 3, 4}) \cup Criteria("UX", {2, 3, 4, 6}), "none", "nothing", FALSE)}

Asks(claim, asked) == claim.asks = "nothing" \/ claim.asks \in asked.declared

\* A reason not to have looked: no such check, a criterion the run did not reach, the depth.
Unlooked(claim, asked, missed) ==
  \/ ~(claim.criteria \subseteq RubricCriteria[asked.rubric])
  \/ claim.criteria \cap missed # {}
  \/ claim.deep /\ asked.depth = "limited"

FoundFor(claim, asked, of) ==
  \E f \in Among(of) :
    f.rule \in claim.criteria /\ Reads(asked.rubric, f) /\ f.severity # "info"

\* The row holds "<gate id>: <label>", and the claim asks for the bare id.
GateFailed(claim, failures) == Blocker(claim.gate, "nothing") \in failures

AnswerToUnreached(claim, asked, of, missed, failures) ==
  IF ~Asks(claim, asked) \/ Unlooked(claim, asked, missed) THEN "not_tested"
  ELSE IF FoundFor(claim, asked, of) \/ GateFailed(claim, failures) THEN "checked_found"
  ELSE "checked_clear"

\* What was found outranks every reason not to have looked.
AnswerTo(claim, asked, of, missed, failures) ==
  IF FoundFor(claim, asked, of) \/ GateFailed(claim, failures) THEN "checked_found"
  ELSE IF ~Asks(claim, asked) \/ Unlooked(claim, asked, missed) THEN "not_tested"
  ELSE "checked_clear"
-----------------------------------------------------------------------------
(* What the reviewer is told to look at.                                    *)

NearThreshold == 400
LargeMove == 800
Distance(a, b) == IF a < b THEN b - a ELSE a - b
SecurityAndPrivacy == {"security", "privacy"}
Attention(of, row, failedStages, prior) ==
  {a \in {"incomplete_run", "suspiciously_few_findings", "critical_finding", "low_confidence",
          "certifying_with_high_severity", "near_threshold", "large_move"} :
     CASE a = "incomplete_run" -> failedStages
       [] a = "suspiciously_few_findings" -> Total(of) < 3
       [] a = "critical_finding" -> \E f \in Among(of) : f.severity = "critical"
       [] a = "low_confidence" -> \E f \in Among(of) : f.confidence = "low"
       [] a = "certifying_with_high_severity" ->
            /\ row.eligible
            /\ \E f \in Among(of) : /\ f.severity \in {"high", "critical"}
                                    /\ f.dimension \in SecurityAndPrivacy
       [] a = "near_threshold" -> Distance(row.score, 7000) <= NearThreshold
       [] a = "large_move" -> prior # -1 /\ Distance(row.score, prior) >= LargeMove}

-----------------------------------------------------------------------------
Unwritten == [score |-> 0, failures |-> {}, eligible |-> FALSE]
RubricVersion == assignment.rubric
Unreachable == exploration = "refused"

VerdictInit ==
  /\ assignment \in Assignments
  /\ filed = [f \in Filings |-> 0]
  /\ gaps = {}
  /\ exploration = "reached"
  /\ phase = "running"
  /\ outcome = Unwritten
  /\ advice = {}

FileFinding(f) ==
  /\ phase = "running"
  /\ Total(filed) < MaxFiled
  /\ filed' = [filed EXCEPT ![f] = @ + 1]
  /\ UNCHANGED <<assignment, gaps, exploration, phase, outcome, advice>>

MissCriterion(c) ==
  /\ phase = "running"
  /\ gaps' = gaps \cup {c}
  /\ UNCHANGED <<assignment, filed, exploration, phase, outcome, advice>>

\* The exploration could not reach the core flows, with or without a refusal by the scope.
ReportUnreached ==
  /\ phase = "running" /\ exploration = "reached"
  /\ \E e \in {"unreached", "refused"} : exploration' = e
  /\ UNCHANGED <<assignment, filed, gaps, phase, outcome, advice>>

\* scoreAssessment throws for a rubric that cannot be scored or a score without a band;
\* what is stored is never eligible yet.
ScoreRun ==
  /\ phase = "running"
  /\ LET score == OverallScore(RubricVersion, filed, Unreachable) IN
     IF Scorable(Rubrics[RubricVersion]) /\ BandFor(score) # {}
       THEN /\ phase' = "awaiting review"
            /\ outcome' = [score |-> score, eligible |-> FALSE,
                           failures |-> CertificationBlockers(RubricVersion, filed, Unreachable)]
       ELSE phase' = "unscored" /\ UNCHANGED outcome
  /\ UNCHANGED <<assignment, filed, gaps, exploration, advice>>

OpenReview ==
  /\ phase # "running"
  /\ \E failedStages \in BOOLEAN, prior \in Adjustments \cup {-1} :
       advice' = Attention(filed, outcome, failedStages, prior)
  /\ UNCHANGED <<assignment, filed, gaps, exploration, phase, outcome>>

\* The database refuses only a critical security or privacy finding.
CertificationGate(eligible) ==
  eligible => \A f \in Among(filed) : f.severity # "critical" \/ f.dimension \notin SecurityAndPrivacy
Reviewable == phase \in {"awaiting review", "approved", "rejected"}
ApproveVerdict ==
  /\ Reviewable
  /\ \E eligible \in BOOLEAN :
       /\ CertificationGate(eligible)
       /\ outcome' = [outcome EXCEPT !.eligible = eligible]
  /\ phase' = "approved"
  /\ UNCHANGED <<assignment, filed, gaps, exploration, advice>>
AdjustVerdict ==
  /\ Reviewable
  /\ \E score \in Adjustments : outcome' = [outcome EXCEPT !.score = score]
  /\ UNCHANGED <<assignment, filed, gaps, exploration, phase, advice>>
RejectVerdict ==
  /\ Reviewable
  /\ phase' = "rejected"
  /\ UNCHANGED <<assignment, filed, gaps, exploration, outcome, advice>>

VerdictNext ==
  \/ \E f \in Filings : FileFinding(f)
  \/ \E c \in MayBeMissed : MissCriterion(c)
  \/ ReportUnreached \/ ScoreRun \/ OpenReview \/ ApproveVerdict \/ AdjustVerdict
  \/ RejectVerdict

VerdictSpec == VerdictInit /\ [][VerdictNext]_verdictVars

-----------------------------------------------------------------------------
(* Properties.                                                              *)

Scores == 0..10000
Advised == {"incomplete_run", "suspiciously_few_findings", "critical_finding", "low_confidence",
            "certifying_with_high_severity", "near_threshold", "large_move"}

PossibleBlockers ==
  {Blocker(g.id, "label") : g \in Gates} \cup {Blocker("overall", "threshold")}
  \cup {Blocker(d, "floor") : d \in DOMAIN Rubrics["1.1.0"].dimensions}

\* Every variable has its type.
VerdictTypeOK ==
  /\ assignment \in Assignments
  /\ filed \in [Filings -> 0..MaxFiled]
  /\ gaps \subseteq MayBeMissed
  /\ exploration \in {"reached", "unreached", "refused"}
  /\ phase \in {"running", "unscored", "awaiting review", "approved", "rejected"}
  /\ outcome \in [score : Scores, failures : SUBSET PossibleBlockers, eligible : BOOLEAN]
  /\ advice \subseteq Advised

ScoreNow == OverallScore(RubricVersion, filed, Unreachable)
BlockersNow == CertificationBlockers(RubricVersion, filed, Unreachable)
AnswersNow ==
  LET failures == BlockersNow IN
  [claim \in ASSURANCE_CLAIMS |-> AnswerTo(claim, assignment, filed, gaps, failures)]

FilesMore ==
  phase = "running" /\ (filed' # filed \/ gaps' # gaps \/ exploration' # exploration)

\* "No combination of strong dimensions can outvote" a gate, and what was found
\* outranks every reason not to have looked: whatever a run still files, misses or
\* fails to reach, the rubric scores it and has a band for it, the score does not
\* rise, no blocker goes away, no question becomes clear and none that was answered
\* with a finding stops being.
NothingFiledHelps ==
  [][FilesMore =>
       LET said == AnswersNow  says == AnswersNow' IN
       /\ Scorable(Rubrics[RubricVersion])
       /\ ScoreNow' <= ScoreNow /\ BandFor(ScoreNow') # {}
       /\ BlockersNow \subseteq BlockersNow'
       /\ \A claim \in ASSURANCE_CLAIMS :
            /\ says[claim] = "checked_clear" => said[claim] = "checked_clear"
            /\ said[claim] = "checked_found" => says[claim] = "checked_found"]_verdictVars
=============================================================================
