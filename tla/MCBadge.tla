------------------------------- MODULE MCBadge -------------------------------
(* One application, one or two assessments of it, one or two badges. *)
EXTENDS BadgeLifecycle

OneOf == 1..1
TwoOf == 1..2
ThreeOf == 1..3

\* Either two assessments with one badge within its term, so that a regression has
\* something to be measured against, or one assessment with two badges, so that one
\* is replaced while a sweep holds the row of the other.  With both badges issued,
\* nothing is left to issue: no page, insert or eligibility is followed any further.
NothingToIssue == assess[1].eligible /\ page = {} /\ issuing = NoInsertion
TwoOfOneKind ==
  \/ badge[2] = NoBadge /\ ~badge[1].due
  \/ assess[2] = NoAssessment /\ (badge[2] = NoBadge \/ NothingToIssue)

\* Meanwhile the score rests, the origin is one a badge can carry and, once a run
\* has ended, the plan is a monitored one; BadgeLiveness varies these three.
OnAPlan ==
  /\ adjusting = NoAdjustment
  /\ \A p \in Apps : certifiable[p]
  /\ assess[1] # NoAssessment => \A p \in Apps : pays[p] \in {"live", "lapsed"}

OfOneApp == [a \in Assessments |-> "app"]

\* The world at rest: authorisation, payments and terms do not change, nobody
\* acts on a badge by hand and no origin is probed.  Its behaviours are
\* behaviours of FairSpec, so what fails here fails there.
CalmNext == Reviewing \/ Issuance \/ Lifecycle \/ DriftSweep
            \/ \E p \in Apps : AcceptBadgeLicence(p)
CalmSpec == Init /\ [][CalmNext]_vars /\ SweepFairness
            /\ \A a \in Assessments : WF_vars(RecordDrift(a))

\* Another part of them: one assessment while the customer changes one thing at a
\* time, without the liveness and drift sweeps; or two assessments, run and reviewed
\* while the world is at rest, so that one of them may hold the page.  The sweeps
\* are left as they are.
OneThing == \A p \in Apps :
  Cardinality({x \in 1..3 : <<~authorised[p], pays[p] # "outright", ~certifiable[p]>>[x]}) <= 1
AtRest == /\ \A p \in Apps : authorised[p] /\ pays[p] = "outright"
          /\ \A b \in Badges : badge[b] = NoBadge
Alone == assess[2] = NoAssessment
PageNext ==
  \/ Issuance \/ Lifecycle \/ \E p \in Apps : AcceptBadgeLicence(p)
  \/ \E a \in Assessments : CommitAdjust(a)
  \/ Reviewing /\ (Alone' \/ (AtRest /\ AtRest'))
  \/ Alone /\ ActingOnBadges
  \/ Alone /\ World /\ OneThing'
PageSpec == Init /\ [][PageNext]_vars /\ SweepFairness
=============================================================================
