----------------------- MODULE BadgeLifecycle_proofs -----------------------
(***************************************************************************)
(* What holds of the badge register for every set of applications,         *)
(* assessments, badges and scores.                                         *)
(*                                                                         *)
(* TypeOK and UnrevokedBadgeShowsTheReportScore are not inductive.  A type *)
(* alone does not say that an issued badge points at an assessment, and    *)
(* the score of a badge is safe only because an assessment that carries    *)
(* one is past its run and cannot be rejected (BadgeFacts), because a      *)
(* change of its score that has not committed found every badge of it      *)
(* revoked or has since been overlapped (AdjustmentFacts), and because an  *)
(* insert that has not committed still holds the score, or a change has    *)
(* committed beside it (InsertionFacts).  Inv is TypeOK and the three.     *)
(*                                                                         *)
(* The properties about suspensions follow from HowABadgeMoves, which says *)
(* of any step who may move a badge where.                                 *)
(*                                                                         *)
(* LivenessSuspensionIsRestorable and RestoredByTheNextSuccess are of a    *)
(* counter written from a row read before fifty probes.  They are          *)
(* inductive only together with what such a row still says when it is      *)
(* decided (ProbeFacts): it agrees with the counter, it is the only row of *)
(* its application, and a badge of that application the liveness sweep has *)
(* taken down is the row's own and was read as suspended.  All of this     *)
(* rests on one badge standing per application (OneStands).                *)
(***************************************************************************)
EXTENDS BadgeLifecycle, TLAPS

Inv == TypeOK /\ Facts

\* What BadgeFacts says of the row of a badge, given the assessments.
RowFacts(row, b) ==
  row.status # "none" =>
    /\ row.of \in Assessments
    /\ Reviewed(row.of)
    /\ row.status = "revoked" => "revoked" \in row.events
    /\ "revoked" \in row.events \/ b \in overlapped \/ row.score = assess[row.of].score

\* Moving an issued row to another status keeps its type and its facts.
LEMMA MovedRow ==
  ASSUME NEW b, NEW row \in BadgeRow, NEW status \in BadgeStatus \ {"none"}, NEW reason \in Reason,
         row.status # "none", RowFacts(row, b)
  PROVE  /\ Moved(row, status, reason) \in BadgeRow
         /\ RowFacts(Moved(row, status, reason), b)
         /\ Moved(row, status, reason).status # "none"
         /\ Moved(row, status, reason).of = row.of
         /\ row.events \subseteq Moved(row, status, reason).events
<1> DEFINE new == Moved(row, status, reason)
<1>1. Logged(row, status) \in SUBSET LoggedEvent /\ row.events \subseteq Logged(row, status)
  BY DEF Logged, BadgeRow
<1>2. /\ new.status = status /\ new.of = row.of /\ new.score = row.score
      /\ new.events = Logged(row, status)
  BY DEF Moved, BadgeRow
<1>3. new \in BadgeRow
  BY <1>1 DEF Moved, BadgeRow
<1>4. status = "revoked" => "revoked" \in Logged(row, status)
  BY DEF Logged, LoggedEvent, RowFacts
<1>5. RowFacts(new, b)
  BY <1>1, <1>2, <1>4 DEF RowFacts
<1> QED BY <1>1, <1>2, <1>3, <1>5

\* Rows that keep their assessment and their facts keep what is known of the
\* statements that have not committed.
LEMMA FactsFromRows ==
  ASSUME Inv, UNCHANGED <<assess, adjusting, issuing, overlapped>>,
         \A b \in Badges : /\ RowFacts(badge'[b], b)
                           /\ Issued(b)' => Issued(b) /\ badge'[b].of = badge[b].of
                           /\ badge[b].events \subseteq badge'[b].events
  PROVE  Facts'
<1>1. BadgeFacts'
  BY DEF Inv, Facts, BadgeFacts, RowFacts, Issued, Reviewed, Settled
<1>2. AdjustmentFacts'
  BY DEF Inv, Facts, AdjustmentFacts, Settled
<1>3. InsertionFacts'
  BY DEF Inv, Facts, InsertionFacts, Reviewed
<1> QED BY <1>1, <1>2, <1>3 DEF Facts

\* One UPDATE over issued badges, each with a reason of its own.
LEMMA MovedBadges ==
  ASSUME Inv, UNCHANGED <<assess, adjusting, issuing, overlapped>>,
         NEW S, NEW status \in BadgeStatus \ {"none"},
         NEW reason \in [Badges -> Reason], \A b \in S \cap Badges : Issued(b),
         badge' = [b \in Badges |-> IF b \in S THEN Moved(badge[b], status, reason[b])
                                               ELSE badge[b]]
  PROVE  Facts' /\ badge' \in [Badges -> BadgeRow]
<1>1. ASSUME NEW b \in Badges
      PROVE  /\ badge'[b] \in BadgeRow /\ RowFacts(badge'[b], b)
             /\ Issued(b)' => Issued(b) /\ badge'[b].of = badge[b].of
             /\ badge[b].events \subseteq badge'[b].events
  <2>1. badge[b] \in BadgeRow /\ RowFacts(badge[b], b)
    BY DEF Inv, TypeOK, Facts, BadgeFacts, RowFacts, Issued, Settled
  <2>2. CASE b \in S
    <3>1. badge[b].status # "none" /\ Issued(b)
      BY <2>2 DEF Issued
    <3>2. badge'[b] = Moved(badge[b], status, reason[b])
      BY <2>2
    <3> QED BY <2>1, <3>1, <3>2, MovedRow
  <2>3. CASE b \notin S
    BY <2>1, <2>3 DEF Issued
  <2> QED BY <2>2, <2>3
<1>2. badge' \in [Badges -> BadgeRow]
  BY <1>1
<1>3. Facts'
  BY <1>1, FactsFromRows
<1> QED BY <1>2, <1>3

\* The same with one reason for all of them.
LEMMA MoveKeeps ==
  ASSUME Inv, UNCHANGED <<assess, adjusting, issuing, overlapped>>,
         NEW S, NEW status \in BadgeStatus \ {"none"},
         NEW reason \in Reason, \A b \in S \cap Badges : Issued(b), Move(S, status, reason)
  PROVE  Facts' /\ badge' \in [Badges -> BadgeRow]
<1> DEFINE reasons == [b \in Badges |-> reason]
<1>1. badge' = [b \in Badges |-> IF b \in S THEN Moved(badge[b], status, reasons[b])
                                            ELSE badge[b]]
  BY DEF Move
<1>2. reasons \in [Badges -> Reason]
  OBVIOUS
<1> HIDE DEF reasons
<1> QED BY <1>1, <1>2, MovedBadges

\* A statement that ends without a row having changed leaves the facts as they are.
LEMMA FactsKept ==
  ASSUME Inv, UNCHANGED <<assess, badge, overlapped>>,
         adjusting' \in {adjusting, NoAdjustment}, issuing' \in {issuing, NoInsertion}
  PROVE  Facts'
<1>1. BadgeFacts'
  BY DEF Inv, Facts, BadgeFacts, Issued, Reviewed, Settled
<1>2. AdjustmentFacts'
  BY DEF Inv, Facts, AdjustmentFacts, Issued, Settled
<1>3. InsertionFacts'
  BY DEF Inv, Facts, InsertionFacts, Reviewed
<1> QED BY <1>1, <1>2, <1>3 DEF Facts

\* The application of an issued badge is one of the applications.
LEMMA AppOfIssued ==
  ASSUME Inv, NEW b \in Badges, Issued(b)
  PROVE  BadgeApp(b) \in Apps
BY BadgeAssumption DEF Inv, Facts, BadgeFacts, BadgeApp

\* A notice once raised stays, and raising one leaves a notice of every badge named.
LEMMA ToldTyped ==
  ASSUME told \in [Badges -> Notice], NEW S, Tell(S)
  PROVE  /\ told' \in [Badges -> Notice]
         /\ \A b \in Badges : (told[b] # "nothing" \/ b \in S) => told'[b] # "nothing"
BY DEF Tell, Notice

\* The same where some of the notices are lost.
LEMMA SomeToldTyped ==
  ASSUME told \in [Badges -> Notice], NEW S, SomeAreTold(S)
  PROVE  /\ told' \in [Badges -> Notice]
         /\ \A b \in Badges : told[b] # "nothing" => told'[b] # "nothing"
<1>1. PICK T \in SUBSET S : Tell(T)
  BY DEF SomeAreTold
<1> QED BY <1>1, ToldTyped

\* A score to one decimal is still a natural number of hundredths.
LEMMA ToFixedTyped == ASSUME NEW score \in Nat PROVE ToFixed(score) \in Nat
BY DEF ToFixed

\* The empty tables satisfy Inv.
THEOREM InitInv == Init => Inv
<1> SUFFICES ASSUME Init PROVE Inv
  OBVIOUS
<1>1. TypeOK
  BY DEF Init, TypeOK, AssessmentRow, AssessmentStatus, NoAssessment, BadgeRow, BadgeStatus,
         Reason, LoggedEvent, NoBadge, Payment, Notice, Adjustment, NoAdjustment, Insertion,
         NoInsertion
<1>2. Facts
  BY DEF Init, Facts, BadgeFacts, AdjustmentFacts, InsertionFacts, Issued, NoBadge, NoAssessment
<1> QED BY <1>1, <1>2 DEF Inv

\* One step for each action, by what it may disturb: the badges, the assessments
\* the badges point at, or what a statement has looked at.
THEOREM NextInv == Inv /\ [Next]_vars => Inv'
<1> SUFFICES ASSUME Inv, [Next]_vars PROVE Inv'
  OBVIOUS
<1>t. TypeOK /\ BadgeFacts /\ AdjustmentFacts /\ InsertionFacts
  BY DEF Inv, Facts
<1>0. adjusting \in Adjustment /\ issuing \in Insertion /\ NoInsertion \in Insertion
      /\ page \subseteq Candidate
  BY <1>t DEF TypeOK, Insertion, NoInsertion
\* The assessments change, and no badge or unfinished statement is of the one that does.
<1>1. ASSUME NEW a \in Assessments, RunCompletes(a) PROVE Inv'
  <2>1. PICK s \in Scores : assess' = [assess EXCEPT ![a].status = "awaiting_review",
                                                     ![a].score = s]
    BY <1>1 DEF RunCompletes
  <2>2. TypeOK'
    <3>1. assess[a] \in AssessmentRow
      BY <1>t DEF TypeOK
    <3>2. assess' = [assess EXCEPT ![a] = [assess[a] EXCEPT !.status = "awaiting_review",
                                                            !.score = s]]
      BY <2>1
    <3>3. [assess[a] EXCEPT !.status = "awaiting_review", !.score = s] \in AssessmentRow
      BY <3>1 DEF AssessmentRow, AssessmentStatus
    <3>4. assess' \in [Assessments -> AssessmentRow]
      BY <1>t, <3>2, <3>3 DEF TypeOK
    <3> QED BY <1>t, <1>1, <3>4 DEF RunCompletes, TypeOK, customerVars, sweepVars, issueVars
  <2>3. \A b \in Badges : Issued(b) => badge[b].of # a
    BY <1>t, <1>1 DEF RunCompletes, BadgeFacts, Reviewed
  <2>4. UNCHANGED <<adjusting, badge, issuing, overlapped>>
    BY <1>1 DEF RunCompletes, sweepVars, issueVars
  <2>5. BadgeFacts'
    BY <1>t, <2>1, <2>3, <2>4 DEF TypeOK, BadgeFacts, Issued, Reviewed, AssessmentRow, Settled
  <2>6. AdjustmentFacts'
    <3>1. adjusting # NoAdjustment => adjusting.of # a
      BY <1>t, <1>1 DEF RunCompletes, AdjustmentFacts
    <3> QED BY <1>t, <2>1, <2>4, <3>1 DEF TypeOK, AdjustmentFacts, Issued, Settled
  <2>7. InsertionFacts'
    <3>1. issuing # NoInsertion => issuing.of # a
      BY <1>t, <1>1 DEF RunCompletes, InsertionFacts, Reviewed
    <3> QED BY <1>t, <2>1, <2>4, <3>1 DEF TypeOK, InsertionFacts, Reviewed
  <2> QED BY <2>2, <2>5, <2>6, <2>7 DEF Inv, Facts
<1>2. ASSUME NEW a \in Assessments, Approve(a) PROVE Inv'
  <2>1. PICK e \in BOOLEAN : assess' = [assess EXCEPT ![a].status = "approved",
                                                      ![a].eligible = e]
    BY <1>2 DEF Approve
  <2>2. assess' \in [Assessments -> AssessmentRow]
    <3>1. assess[a] \in AssessmentRow
      BY <1>t DEF TypeOK
    <3>2. assess' = [assess EXCEPT ![a] = [assess[a] EXCEPT !.status = "approved",
                                                            !.eligible = e]]
      BY <2>1
    <3>3. [assess[a] EXCEPT !.status = "approved", !.eligible = e] \in AssessmentRow
      BY <3>1 DEF AssessmentRow, AssessmentStatus
    <3> QED BY <1>t, <3>2, <3>3 DEF TypeOK
  <2>3. sooner' \subseteq Assessments \X Assessments
    BY <1>t, <1>2 DEF Approve, ReviewedLast, TypeOK
  <2>4. TypeOK'
    BY <1>t, <1>2, <2>2, <2>3 DEF Approve, TypeOK, customerVars, sweepVars, issueVars
  <2>5. UNCHANGED <<adjusting, badge, issuing, overlapped>>
    BY <1>2 DEF Approve, sweepVars, issueVars
  <2>6. \A x \in Assessments : /\ assess'[x].score = assess[x].score
                               /\ assess[x].status # "none" <=> assess'[x].status # "none"
                               /\ assess[x].status = "approved" => assess'[x].status = "approved"
    <3>1. assess[a].status # "none"
      BY <1>2 DEF Approve
    <3> QED BY <1>t, <2>1, <3>1 DEF TypeOK, AssessmentRow
  <2>7. BadgeFacts'
    BY <1>t, <2>5, <2>6 DEF BadgeFacts, Issued, Reviewed, Settled
  <2>8. AdjustmentFacts'
    BY <1>t, <2>5, <2>6 DEF AdjustmentFacts, Issued, Settled
  <2>9. InsertionFacts'
    BY <1>t, <2>5, <2>6 DEF InsertionFacts, Reviewed
  <2> QED BY <2>4, <2>7, <2>8, <2>9 DEF Inv, Facts
<1>3. ASSUME NEW a \in Assessments, Reject(a) PROVE Inv'
  <2>1. TypeOK'
    BY <1>t, <1>3 DEF Reject, TypeOK, AssessmentRow, AssessmentStatus, customerVars, sweepVars, issueVars
  <2>2. \A b \in Badges : Issued(b) => badge[b].of # a
    BY <1>t, <1>3 DEF Reject, BadgeFacts, Reviewed
  <2>3. UNCHANGED <<adjusting, badge, issuing, overlapped>>
        /\ assess' = [assess EXCEPT ![a].status = "rejected"]
    BY <1>3 DEF Reject, sweepVars, issueVars
  <2>4. BadgeFacts'
    BY <1>t, <1>3, <2>2, <2>3 DEF Reject, TypeOK, BadgeFacts, Issued, Reviewed, AssessmentRow, Settled
  <2>5. AdjustmentFacts'
    <3>1. adjusting # NoAdjustment => adjusting.of # a
      BY <1>t, <1>3 DEF Reject, AdjustmentFacts
    <3> QED BY <1>t, <2>3, <3>1 DEF TypeOK, AdjustmentFacts, Issued, Settled
  <2>6. InsertionFacts'
    <3>1. issuing # NoInsertion => issuing.of # a
      BY <1>t, <1>3 DEF Reject, InsertionFacts, Reviewed
    <3> QED BY <1>t, <2>3, <3>1 DEF TypeOK, InsertionFacts, Reviewed
  <2> QED BY <2>1, <2>4, <2>5, <2>6 DEF Inv, Facts
\* The trigger has looked: no badge but a revoked one is of the assessment, or the
\* score is the one it has.
<1>4. ASSUME NEW a \in Assessments, BeginAdjust(a) PROVE Inv'
  <2>1. PICK s \in Scores : /\ s # assess[a].score => ScoreIsFree(a)
                            /\ adjusting' = [of |-> a, score |-> s]
    BY <1>4 DEF BeginAdjust
  <2>2. UNCHANGED <<assess, badge, issuing, overlapped>>
    BY <1>4 DEF BeginAdjust, sweepVars, issueVars
  <2>3. TypeOK'
    BY <1>t, <1>4, <2>1 DEF BeginAdjust, TypeOK, Adjustment, customerVars, sweepVars, issueVars
  <2>4. BadgeFacts'
    BY <1>t, <2>2 DEF BadgeFacts, Issued, Reviewed, Settled
  <2>5. AdjustmentFacts'
    <3>1. adjusting'.of = a /\ adjusting'.score = s
      BY <2>1
    <3>2. assess[a].status # "none"
      BY <1>4 DEF BeginAdjust
    <3>3. ScoreIsFree(a) => \A b \in Badges : (Issued(b) /\ badge[b].of = a) => Settled(b)
      BY <1>t DEF ScoreIsFree, BadgeFacts, Settled
    <3> QED BY <2>1, <2>2, <3>1, <3>2, <3>3 DEF AdjustmentFacts, Issued, Settled
  <2>6. InsertionFacts'
    BY <1>t, <2>2 DEF InsertionFacts, Reviewed
  <2> QED BY <2>3, <2>4, <2>5, <2>6 DEF Inv, Facts
\* The change commits: the badges it is under are settled, and an insert whose
\* trigger looked before is now beside it.
<1>5. ASSUME NEW a \in Assessments, CommitAdjust(a) PROVE Inv'
  <2> DEFINE s == adjusting.score
  <2>1. /\ adjusting.of = a /\ adjusting' = NoAdjustment
        /\ assess' = [assess EXCEPT ![a].score = s]
        /\ issuing' = [issuing EXCEPT !.beside = @ \/ issuing.of = a]
        /\ UNCHANGED <<badge, overlapped>>
    BY <1>5 DEF CommitAdjust
  <2>2. adjusting # NoAdjustment
    <3>1. a # 0
      BY BadgeAssumption
    <3> QED BY <2>1, <3>1 DEF NoAdjustment
  <2>3. /\ s \in Scores /\ assess[a].status # "none"
        /\ s # assess[a].score =>
             \A b \in Badges : (Issued(b) /\ badge[b].of = a) => Settled(b)
    BY <1>t, <2>1, <2>2 DEF AdjustmentFacts
  <2> HIDE DEF s
  <2>4. /\ assess'[a].score = s /\ assess'[a].status = assess[a].status
        /\ \A x \in Assessments : x # a => assess'[x] = assess[x]
    BY <1>t, <2>1 DEF TypeOK, AssessmentRow
  <2>5. /\ issuing'.of = issuing.of /\ issuing'.score = issuing.score
        /\ issuing'.beside <=> (issuing.beside \/ issuing.of = a)
    BY <1>0, <2>1 DEF Insertion
  <2>6. assess' \in [Assessments -> AssessmentRow]
    BY <1>t, <2>1, <2>3 DEF TypeOK, AssessmentRow
  <2>7. sooner' \subseteq Assessments \X Assessments
    BY <1>t, <1>5 DEF CommitAdjust, ReviewedLast, TypeOK
  <2>8. issuing' \in Insertion
    <3>1. (issuing.beside \/ issuing.of = a) \in BOOLEAN
      BY Zenon
    <3> QED BY <1>0, <2>1, <3>1 DEF Insertion
  <2>9. TypeOK'
    <3>1. adjusting' \in Adjustment
      BY <2>1 DEF Adjustment, NoAdjustment
    <3> QED BY <1>t, <1>5, <2>6, <2>7, <2>8, <3>1 DEF CommitAdjust, TypeOK, customerVars
  <2>10. BadgeFacts'
    BY <1>t, <2>1, <2>3, <2>4 DEF BadgeFacts, Issued, Reviewed, Settled
  <2>11. AdjustmentFacts'
    BY <2>1 DEF AdjustmentFacts
  <2>12. InsertionFacts'
    <3> SUFFICES ASSUME issuing' # NoInsertion PROVE InsertionFacts'
      BY DEF InsertionFacts
    <3>1. issuing # NoInsertion
      <4>1. ASSUME issuing = NoInsertion PROVE FALSE
        <5>1. issuing.of # a /\ ~issuing.beside
          BY <4>1, BadgeAssumption DEF NoInsertion
        <5>2. issuing' = issuing
          BY <2>1, <4>1, <5>1 DEF NoInsertion
        <5> QED BY <4>1, <5>2
      <4> QED BY <4>1
    <3>2. issuing.of \in Assessments /\ Reviewed(issuing.of)
          /\ (issuing.beside \/ issuing.score = assess[issuing.of].score)
      BY <1>t, <3>1 DEF InsertionFacts
    <3>3. Reviewed(issuing.of)'
      BY <2>4, <2>5, <3>2 DEF Reviewed
    <3> QED BY <2>4, <2>5, <3>2, <3>3 DEF InsertionFacts, Reviewed
  <2> QED BY <2>9, <2>10, <2>11, <2>12 DEF Inv, Facts
<1>6. ASSUME NEW b \in Badges, RevokeBadge(b) \/ SuspendBadge(b) \/ ReinstateBadge(b) PROVE Inv'
  <2>1. UNCHANGED <<assess, adjusting, issuing, overlapped>>
    BY <1>6 DEF RevokeBadge, SuspendBadge, ReinstateBadge, reviewVars, sweepVars, issueVars
  <2>2. PICK status \in {"revoked", "suspended", "active"}, reason \in Reason :
          Move({b}, status, reason)
    <3>1. badge[b].reason \in Reason
      BY <1>t DEF TypeOK, BadgeRow
    <3> QED BY <1>6, <3>1 DEF RevokeBadge, SuspendBadge, ReinstateBadge, Reason
  <2>3. Issued(b)
    BY <1>6 DEF RevokeBadge, SuspendBadge, ReinstateBadge
  <2>4. Facts' /\ badge' \in [Badges -> BadgeRow]
    BY <2>1, <2>2, <2>3, MoveKeeps DEF BadgeStatus
  <2>5. UNCHANGED <<reviewVars, drift, told, failures, customerVars, sweepVars>>
    BY <1>6 DEF RevokeBadge, SuspendBadge, ReinstateBadge
  <2> QED BY <1>t, <2>4, <2>5 DEF Inv, TypeOK, reviewVars, customerVars, sweepVars, issueVars
<1>7. ASSUME ReadCandidates PROVE Inv'
  <2> DEFINE S == {a \in Assessments : IsCandidate(a)}
  <2>1. \A a \in S : assess[a].score \in Scores /\ certifiable[AppOf[a]] \in BOOLEAN
    BY <1>t, BadgeAssumption DEF IsCandidate, Reviewed, BadgeFacts, TypeOK
  <2>2. S \subseteq Assessments /\ ReadPage(S)
    BY <1>7 DEF ReadCandidates
  <2> HIDE DEF S
  <2>3. page' \subseteq Candidate
    BY <2>1, <2>2 DEF ReadPage, First, Candidate
  <2>4. Facts'
    BY <2>2, FactsKept DEF ReadPage, reviewVars
  <2> QED BY <1>t, <2>2, <2>3, <2>4 DEF Inv, ReadPage, TypeOK, reviewVars, customerVars
\* The trigger has looked: the score to be written is the one the assessment has.
<1>8. ASSUME NEW c \in Candidate, BeginIssue(c) PROVE Inv'
  <2>1. /\ issuing' = [of |-> c.of, score |-> ToFixed(c.score), beside |-> FALSE]
        /\ c.of \in Assessments /\ c.score \in Scores
        /\ Reviewed(c.of) /\ ToFixed(c.score) = assess[c.of].score
        /\ UNCHANGED <<reviewVars, badge, overlapped>>
    BY <1>8 DEF BeginIssue, Earned, Candidate
  <2>2. ToFixed(c.score) \in Nat
    BY <2>1, ToFixedTyped, BadgeAssumption
  <2>3. TypeOK'
    <3>1. issuing' \in Insertion
      BY <2>1, <2>2 DEF Insertion
    <3> QED BY <1>t, <1>8, <3>1 DEF BeginIssue, TypeOK, reviewVars, customerVars
  <2>4. BadgeFacts' /\ AdjustmentFacts'
    BY <1>t, <2>1 DEF BadgeFacts, AdjustmentFacts, Issued, Reviewed, Settled, reviewVars
  <2>5. InsertionFacts'
    BY <2>1 DEF InsertionFacts, Reviewed, reviewVars
  <2> QED BY <2>3, <2>4, <2>5 DEF Inv, Facts
\* The badge is of that score, or a change of it overlapped.
<1>9. ASSUME CommitIssue PROVE Inv'
  <2>1. PICK b \in Badges :
          /\ ~Issued(b)
          /\ badge' = [badge EXCEPT ![b] = [NoBadge EXCEPT !.status = "active", !.of = issuing.of,
                                                           !.score = issuing.score]]
          /\ overlapped' = IF issuing.beside \/ adjusting.of = issuing.of
                           THEN overlapped \cup {b} ELSE overlapped
    BY <1>9 DEF CommitIssue
  <2> DEFINE new == [NoBadge EXCEPT !.status = "active", !.of = issuing.of, !.score = issuing.score]
  <2>2. /\ new.status = "active" /\ new.of = issuing.of /\ new.score = issuing.score
        /\ new \in BadgeRow
    BY <1>0 DEF NoBadge, Insertion, BadgeRow, BadgeStatus, Reason, LoggedEvent
  <2>3. /\ issuing # NoInsertion /\ issuing' = NoInsertion
        /\ UNCHANGED <<reviewVars, drift, told, failures, customerVars, page, probes>>
    BY <1>9 DEF CommitIssue
  <2>4. badge' = [badge EXCEPT ![b] = new]
    BY <2>1
  <2> HIDE DEF new
  <2>5. /\ issuing.of \in Assessments /\ Reviewed(issuing.of)
        /\ issuing.beside \/ issuing.score = assess[issuing.of].score
    BY <1>t, <2>3 DEF InsertionFacts
  <2>6. badge'[b] = new /\ \A d \in Badges \ {b} : badge'[d] = badge[d]
    BY <1>t, <2>4 DEF TypeOK
  <2>7. overlapped \subseteq overlapped' /\ overlapped' \subseteq Badges
    BY <1>t, <2>1 DEF TypeOK
  <2>8. TypeOK'
    <3>1. issuing' \in Insertion
      BY <2>3 DEF Insertion, NoInsertion
    <3>2. badge' \in [Badges -> BadgeRow]
      BY <1>t, <2>2, <2>4 DEF TypeOK
    <3> QED BY <1>t, <2>3, <2>7, <3>1, <3>2 DEF TypeOK, reviewVars, customerVars
  <2>9. BadgeFacts'
    <3>1. ASSUME NEW d \in Badges, Issued(d)'
          PROVE  /\ badge'[d].of \in Assessments /\ Reviewed(badge'[d].of)
                 /\ badge'[d].status = "revoked" => "revoked" \in badge'[d].events
                 /\ Settled(d)' \/ badge'[d].score = assess[badge'[d].of].score
      <4>1. CASE d = b
        BY <2>1, <2>2, <2>5, <2>6, <4>1 DEF Settled
      <4>2. CASE d # b
        BY <1>t, <2>6, <2>7, <3>1, <4>2 DEF BadgeFacts, Issued, Settled
      <4> QED BY <4>1, <4>2
    <3> QED BY <1>t, <2>3, <3>1 DEF BadgeFacts, Reviewed, reviewVars
  <2>10. AdjustmentFacts'
    <3> SUFFICES ASSUME adjusting # NoAdjustment PROVE AdjustmentFacts'
      BY <2>3 DEF AdjustmentFacts, reviewVars
    <3>1. ASSUME NEW d \in Badges, Issued(d)', badge'[d].of = adjusting.of,
                 adjusting.score # assess[adjusting.of].score
          PROVE  Settled(d)'
      <4>1. CASE d = b
        <5>1. adjusting.of = issuing.of
          BY <2>2, <2>6, <3>1, <4>1
        <5> QED BY <2>1, <4>1, <5>1 DEF Settled
      <4>2. CASE d # b
        <5>1. badge'[d] = badge[d]
          BY <2>6, <4>2
        <5>2. Settled(d)
          BY <1>t, <3>1, <5>1 DEF AdjustmentFacts, Issued
        <5> QED BY <2>7, <5>1, <5>2 DEF Settled
      <4> QED BY <4>1, <4>2
    <3> QED BY <1>t, <2>3, <3>1 DEF AdjustmentFacts, reviewVars
  <2>11. InsertionFacts'
    BY <2>3 DEF InsertionFacts
  <2> QED BY <2>8, <2>9, <2>10, <2>11 DEF Inv, Facts
<1>10. ASSUME IndexRefuses \/ \E c \in Candidate : IssuanceRefused(c) PROVE Inv'
  <2>1. /\ UNCHANGED <<reviewVars, drift, badge, told, failures, customerVars, overlapped, probes>>
        /\ issuing' \in {issuing, NoInsertion} /\ page' \subseteq page
    BY <1>10 DEF IndexRefuses, IssuanceRefused
  <2>2. Facts'
    BY <2>1, FactsKept DEF reviewVars
  <2>3. issuing' \in Insertion /\ page' \subseteq Candidate
    BY <1>0, <2>1
  <2> QED BY <1>t, <2>1, <2>2, <2>3 DEF Inv, TypeOK, reviewVars, customerVars
<1>11. ASSUME ExpireDue PROVE Inv'
  <2> DEFINE S == {b \in Badges : badge[b].status = "active" /\ badge[b].due}
             reasons == [b \in Badges |-> badge[b].reason]
  <2>1. reasons \in [Badges -> Reason] /\ \A b \in S \cap Badges : Issued(b)
    BY <1>t DEF TypeOK, BadgeRow, Issued
  <2>2. badge' = [b \in Badges |-> IF b \in S THEN Moved(badge[b], "expired", reasons[b])
                                              ELSE badge[b]]
    BY <1>11 DEF ExpireDue
  <2>3. UNCHANGED <<assess, adjusting, issuing, overlapped>> /\ "expired" \in BadgeStatus \ {"none"}
    BY <1>11 DEF ExpireDue, BadgeStatus, reviewVars, sweepVars, issueVars
  <2> HIDE DEF S, reasons
  <2>4. Facts' /\ badge' \in [Badges -> BadgeRow]
    BY <2>1, <2>2, <2>3, MovedBadges
  <2> QED BY <1>t, <1>11, <2>4 DEF Inv, ExpireDue, TypeOK, reviewVars, customerVars, sweepVars, issueVars
\* The three other statements of the lifecycle sweep move badges that stand.
<1>12. ASSUME NEW S, NEW status \in {"suspended", "active"}, NEW reason \in Reason,
              Move(S, status, reason), S \subseteq {b \in Badges : Standing(b)},
              told' \in [Badges -> Notice],
              UNCHANGED <<reviewVars, drift, failures, customerVars, sweepVars>>
       PROVE  Inv'
  <2>1. \A b \in S \cap Badges : Issued(b)
    BY <1>12 DEF Standing, Issued
  <2>2. UNCHANGED <<assess, adjusting, issuing, overlapped>>
    BY <1>12 DEF reviewVars, sweepVars, issueVars
  <2>3. Facts' /\ badge' \in [Badges -> BadgeRow]
    BY <1>12, <2>1, <2>2, MoveKeeps DEF BadgeStatus
  <2> QED BY <1>t, <1>12, <2>3 DEF Inv, TypeOK, reviewVars, customerVars, sweepVars, issueVars
<1>13. ASSUME SuspendLapsed PROVE Inv'
  <2> DEFINE S == UNION {Active(p) : p \in {x \in Apps : pays[x] = "lapsed"}}
  <2>1. S \subseteq {b \in Badges : Standing(b)}
    BY DEF Active, StandingOf
  <2>2. told' \in [Badges -> Notice]
    BY <1>t, <1>13, SomeToldTyped DEF SuspendLapsed, TypeOK
  <2> QED BY <1>12, <1>13, <2>1, <2>2 DEF SuspendLapsed, Reason
<1>14. ASSUME SuspendUnauthorised PROVE Inv'
  <2> DEFINE S == UNION {Active(p) : p \in {x \in Apps : ~authorised[x]}}
  <2>1. S \subseteq {b \in Badges : Standing(b)}
    BY DEF Active, StandingOf
  <2>2. told' \in [Badges -> Notice]
    BY <1>t, <1>14, SomeToldTyped DEF SuspendUnauthorised, TypeOK
  <2> QED BY <1>12, <1>14, <2>1, <2>2 DEF SuspendUnauthorised, Reason
<1>15. ASSUME RestoreReauthorised PROVE Inv'
  <2> DEFINE S == {b \in Badges : /\ badge[b].status = "suspended"
                                  /\ badge[b].reason = "withdrawn"
                                  /\ ~badge[b].due
                                  /\ authorised[BadgeApp(b)]}
  <2>1. S \subseteq {b \in Badges : Standing(b)}
    BY DEF Standing
  <2>2. told' \in [Badges -> Notice]
    BY <1>t, <1>15 DEF RestoreReauthorised, TypeOK
  <2> QED BY <1>12, <1>15, <2>1, <2>2 DEF RestoreReauthorised, Reason
<1>16. ASSUME NEW a \in Assessments, RecordDrift(a) PROVE Inv'
  <2>1. drift' \in [Assessments -> {"none", "immaterial", "material"}]
    BY <1>t, <1>16 DEF RecordDrift, TypeOK
  <2>2. UNCHANGED <<assess, adjusting, issuing, overlapped>>
        /\ UNCHANGED <<reviewVars, failures, customerVars, sweepVars>>
    BY <1>16 DEF RecordDrift, reviewVars, sweepVars, issueVars
  <2>3. CASE UNCHANGED <<badge, told>>
    <3>1. Facts'
      BY <2>2, <2>3, FactsKept
    <3> QED BY <1>t, <2>1, <2>2, <2>3, <3>1 DEF Inv, TypeOK, reviewVars, customerVars, sweepVars, issueVars
  <2>4. CASE Move(Active(AppOf[a]), "suspended", "regression") /\ Tell(Active(AppOf[a]))
    <3>1. Active(AppOf[a]) \subseteq Badges /\ \A b \in Active(AppOf[a]) \cap Badges : Issued(b)
      BY DEF Active, StandingOf, Issued
    <3>2. "suspended" \in BadgeStatus \ {"none"} /\ "regression" \in Reason
      BY DEF BadgeStatus, Reason
    <3>3. Facts' /\ badge' \in [Badges -> BadgeRow]
      BY <2>2, <2>4, <3>1, <3>2, MoveKeeps
    <3>4. told' \in [Badges -> Notice]
      BY <1>t, <2>4, ToldTyped DEF TypeOK
    <3> QED BY <1>t, <2>1, <2>2, <3>3, <3>4 DEF Inv, TypeOK, reviewVars, customerVars, sweepVars, issueVars
  <2> QED BY <1>16, <2>3, <2>4 DEF RecordDrift
<1>17. ASSUME ReadForLiveness PROVE Inv'
  <2>1. \A b \in Badges : Standing(b) =>
          [badge |-> b, status |-> badge[b].status, failures |-> failures[BadgeApp(b)]] \in ProbeRow
    BY <1>t, AppOfIssued DEF Standing, Issued, TypeOK, ProbeRow
  <2>2. probes' \subseteq ProbeRow
    BY <1>17, <2>1 DEF ReadForLiveness
  <2>3. UNCHANGED <<reviewVars, drift, badge, told, failures, customerVars, issueVars>>
    BY <1>17 DEF ReadForLiveness
  <2>4. Facts'
    BY <2>3, FactsKept DEF reviewVars, issueVars
  <2> QED BY <1>t, <2>2, <2>3, <2>4 DEF Inv, TypeOK, reviewVars, customerVars, issueVars
<1>18. ASSUME DecideNothing \/ WorkerRestarts PROVE Inv'
  <2>1. /\ UNCHANGED <<reviewVars, drift, badge, told, failures, customerVars, overlapped>>
        /\ probes' = {} /\ page' \subseteq page /\ issuing' \in {issuing, NoInsertion}
    BY <1>18 DEF DecideNothing, WorkerRestarts, issueVars
  <2>2. Facts'
    BY <2>1, FactsKept DEF reviewVars
  <2>3. issuing' \in Insertion /\ page' \subseteq Candidate
    BY <1>0, <2>1
  <2> QED BY <1>t, <2>1, <2>2, <2>3 DEF Inv, TypeOK, reviewVars, customerVars
\* A decision on one row that was read: at most a move of an issued badge.
<1>19. ASSUME NEW row \in probes, Decided(row), NEW S, NEW status \in {"suspended", "active"},
              NEW reason \in Reason, Move(S, status, reason), \A b \in S \cap Badges : Issued(b),
              told' \in [Badges -> Notice], failures' \in [Apps -> Nat]
       PROVE  Inv'
  <2>1. UNCHANGED <<assess, adjusting, issuing, overlapped>> /\ status \in BadgeStatus \ {"none"}
    BY <1>19 DEF Decided, BadgeStatus, reviewVars, issueVars
  <2>2. Facts' /\ badge' \in [Badges -> BadgeRow]
    BY <1>19, <2>1, MoveKeeps
  <2> QED BY <1>t, <1>19, <2>2 DEF Inv, Decided, TypeOK, reviewVars, customerVars, issueVars
<1>20. ASSUME NEW row \in probes, ProbeRefused(row) \/ DecisionLost(row) PROVE Inv'
  <2>1. row.failures \in Nat
    BY <1>t DEF TypeOK, ProbeRow
  <2>2. failures' \in [Apps -> Nat]
    BY <1>t, <1>20, <2>1 DEF ProbeRefused, DecisionLost, TypeOK
  <2>3. UNCHANGED <<badge, told>> /\ Decided(row)
    BY <1>20 DEF ProbeRefused, DecisionLost
  <2>4. Facts'
    BY <2>3, FactsKept DEF Decided, reviewVars, issueVars
  <2> QED BY <1>t, <2>2, <2>3, <2>4 DEF Inv, Decided, TypeOK, reviewVars, customerVars, issueVars
<1>21. ASSUME NEW row \in probes, ProbeUp(row) PROVE Inv'
  <2> DEFINE b == row.badge
             restore == /\ row.status = "suspended" /\ row.failures >= Threshold
                        /\ badge[b].status = "suspended" /\ badge[b].reason = "liveness"
             S == IF restore THEN {b} ELSE {}
  <2>1. Decided(row) /\ Move(S, "active", "none") /\ told' = told
        /\ failures' = [failures EXCEPT ![BadgeApp(b)] = 0]
    BY <1>21 DEF ProbeUp
  <2>2. \A c \in S \cap Badges : Issued(c)
    BY DEF Issued
  <2>3. told' \in [Badges -> Notice] /\ failures' \in [Apps -> Nat]
    BY <1>t, <2>1 DEF TypeOK
  <2>4. "none" \in Reason
    BY DEF Reason
  <2> HIDE DEF S
  <2> QED BY <1>19, <2>1, <2>2, <2>3, <2>4
<1>22. ASSUME NEW row \in probes, ProbeDown(row) PROVE Inv'
  <2> DEFINE b == row.badge
             crossed == row.failures + 1 >= Threshold /\ row.status = "active"
             S == IF crossed /\ badge[b].status = "active" THEN {b} ELSE {}
             T == IF crossed THEN {b} ELSE {}
  <2>1. Decided(row) /\ Move(S, "suspended", "liveness") /\ Tell(T)
        /\ failures' = [failures EXCEPT ![BadgeApp(b)] = row.failures + 1]
    BY <1>22 DEF ProbeDown
  <2>2. \A c \in S \cap Badges : Issued(c)
    BY DEF Issued
  <2>3. row.badge \in Badges /\ row.failures \in Nat
    BY <1>t DEF TypeOK, ProbeRow
  <2>4. "liveness" \in Reason /\ row.failures + 1 \in Nat
    BY <2>3 DEF Reason
  <2> HIDE DEF crossed, S, T
  <2>5. told' \in [Badges -> Notice]
    BY <1>t, <2>1, ToldTyped DEF TypeOK
  <2>6. failures' \in [Apps -> Nat]
    BY <1>t, <2>1, <2>4 DEF TypeOK
  <2> QED BY <1>19, <2>1, <2>2, <2>4, <2>5, <2>6
<1>23. ASSUME NEW p \in Apps, AuthorisationChanges(p) \/ PaymentChanges(p) \/ AcceptBadgeLicence(p)
                              \/ AddressChanges(p)
       PROVE  Inv'
  <2>1. /\ UNCHANGED <<reviewVars, drift, badge, told, failures, sweepVars>>
        /\ authorised' \in [Apps -> BOOLEAN] /\ pays' \in [Apps -> Payment]
        /\ licensed' \in [Apps -> BOOLEAN] /\ certifiable' \in [Apps -> BOOLEAN]
    BY <1>t, <1>23 DEF AuthorisationChanges, PaymentChanges, AcceptBadgeLicence, AddressChanges, TypeOK
  <2>2. Facts'
    BY <2>1, FactsKept DEF reviewVars, sweepVars, issueVars
  <2> QED BY <1>t, <2>1, <2>2 DEF Inv, TypeOK, reviewVars, sweepVars, issueVars
<1>24. ASSUME NEW b \in Badges, TermEnds(b) PROVE Inv'
  <2>1. badge[b] \in BadgeRow /\ badge' = [badge EXCEPT ![b] = [badge[b] EXCEPT !.due = TRUE]]
        /\ UNCHANGED <<reviewVars, drift, told, failures, customerVars, sweepVars>>
    BY <1>t, <1>24 DEF TermEnds, TypeOK
  <2>2. [badge[b] EXCEPT !.due = TRUE] \in BadgeRow
    BY <2>1 DEF BadgeRow
  <2>3. TypeOK'
    BY <1>t, <2>1, <2>2 DEF TypeOK, reviewVars, customerVars, sweepVars, issueVars
  <2>4. \A d \in Badges : /\ badge'[d].status = badge[d].status /\ badge'[d].of = badge[d].of
                          /\ badge'[d].score = badge[d].score /\ badge'[d].events = badge[d].events
    BY <1>t, <2>1 DEF TypeOK, BadgeRow
  <2>5. \A d \in Badges : RowFacts(badge[d], d)
    BY <1>t DEF BadgeFacts, RowFacts, Issued, Settled
  <2>6. Facts'
    BY <2>1, <2>4, <2>5, FactsFromRows DEF RowFacts, Issued, reviewVars, sweepVars, issueVars
  <2> QED BY <2>3, <2>6 DEF Inv
<1>25. ASSUME UNCHANGED vars PROVE Inv'
  <2>1. Facts'
    BY <1>25, FactsKept DEF vars, reviewVars, sweepVars, issueVars
  <2> QED BY <1>t, <1>25, <2>1 DEF Inv, vars, TypeOK, reviewVars, customerVars, sweepVars, issueVars
<1>26. CASE Reviewing
  BY <1>1, <1>2, <1>3, <1>4, <1>5, <1>26 DEF Reviewing
<1>27. CASE ActingOnBadges
  BY <1>6, <1>27 DEF ActingOnBadges
<1>28. CASE Issuance \/ Lifecycle \/ DriftSweep
  BY <1>7, <1>8, <1>9, <1>10, <1>11, <1>13, <1>14, <1>15, <1>16, <1>28 DEF Issuance, Lifecycle, DriftSweep
<1>29. CASE Liveness
  BY <1>17, <1>18, <1>20, <1>21, <1>22, <1>29 DEF Liveness
<1>30. CASE World
  BY <1>18, <1>23, <1>24, <1>30 DEF World
<1> QED BY <1>25, <1>26, <1>27, <1>28, <1>29, <1>30 DEF Next

\* Inv holds in every reachable state.
THEOREM Invariance == Spec => []Inv
BY InitInv, NextInv, PTL DEF Spec

\* Every row of every table has its type, whatever the actors do: in particular
\* the failure counter stays a natural number, and a sweep's copies name real rows.
THEOREM TypeCorrect == Spec => []TypeOK
<1>1. Inv => TypeOK
  BY DEF Inv
<1> QED BY <1>1, Invariance, PTL

\* However reviews, adjustments, revocations and an issuance sweep on an old page
\* interleave, a badge never revoked shows the score of its assessment, unless its
\* insert and a change of that score overlapped.
THEOREM ScoreIsTheReports == Spec => []UnrevokedBadgeShowsTheReportScore
<1>1. Inv => UnrevokedBadgeShowsTheReportScore
  BY DEF Inv, Facts, BadgeFacts, UnrevokedBadgeShowsTheReportScore, Issued, Settled
<1> QED BY <1>1, Invariance, PTL

----------------------------------------------------------------------------
(* How one badge may move in a step, and who is told *)

Kept(b) == badge'[b].status = badge[b].status /\ badge'[b].reason = badge[b].reason
Ended(b) == badge'[b].status \in {"expired", "revoked"}
Suspended(b, reasons) == badge'[b].status = "suspended" /\ badge'[b].reason \in reasons
Raised(b) ==
  /\ badge'[b].status = "active"
  /\ \/ ~Issued(b) /\ CommitIssue
     \/ SuspendedFor(b, {"withdrawn", "liveness"})
     \/ ReinstateBadge(b)

BadgeStep(b) ==
  /\ told[b] # "nothing" => told'[b] # "nothing"
  /\ Issued(b) => badge'[b].of = badge[b].of
  /\ \/ Kept(b) \/ Ended(b) \/ Raised(b)
     \/ Suspended(b, {"reviewer"}) /\ SuspendBadge(b)
     \/ Suspended(b, {"lapsed", "withdrawn"}) /\ Standing(b)
     \/ Suspended(b, {"regression"}) /\ Standing(b) /\ told'[b] # "nothing"
     \/ /\ Suspended(b, {"liveness"}) /\ Standing(b) /\ told'[b] # "nothing"
        /\ \E row \in probes : row.badge = b /\ ProbeDown(row)

\* What Move does to one row.
LEMMA MoveRow ==
  ASSUME TypeOK, NEW S, NEW status, NEW reason, Move(S, status, reason), NEW b \in Badges
  PROVE  /\ b \in S => badge'[b].status = status /\ badge'[b].reason = reason
         /\ b \notin S => Kept(b)
         /\ badge'[b].of = badge[b].of
<1>1. badge[b] \in BadgeRow
  BY DEF TypeOK
<1>2. /\ Moved(badge[b], status, reason).status = status
      /\ Moved(badge[b], status, reason).reason = reason
      /\ Moved(badge[b], status, reason).of = badge[b].of
  BY <1>1 DEF Moved, BadgeRow
<1> QED BY <1>2 DEF Move, Kept

\* Six writers share a badge's status, and no step of theirs moves it any other way.
LEMMA HowABadgeMoves ==
  ASSUME Inv, [Next]_vars, NEW b \in Badges
  PROVE  BadgeStep(b)
<1>t. TypeOK /\ badge[b] \in BadgeRow
  BY DEF Inv, TypeOK
<1>1. CASE Reviewing \/ DecideNothing \/ WorkerRestarts \/ ReadForLiveness \/ ReadCandidates
           \/ IndexRefuses
           \/ \E p \in Apps : AuthorisationChanges(p) \/ PaymentChanges(p) \/ AcceptBadgeLicence(p)
                              \/ AddressChanges(p)
  <2>1. UNCHANGED <<badge, told>>
    BY <1>1 DEF Reviewing, RunCompletes, Approve, Reject, BeginAdjust, CommitAdjust, DecideNothing,
                WorkerRestarts, ReadForLiveness, ReadCandidates, ReadPage, IndexRefuses,
                AuthorisationChanges, PaymentChanges, AcceptBadgeLicence, AddressChanges
  <2> QED BY <2>1 DEF BadgeStep, Kept
<1>2. ASSUME NEW d \in Badges, RevokeBadge(d) \/ SuspendBadge(d) \/ ReinstateBadge(d)
      PROVE  BadgeStep(b)
  <2>1. told' = told
    BY <1>2 DEF RevokeBadge, SuspendBadge, ReinstateBadge
  <2>2. CASE RevokeBadge(d)
    BY <1>t, <2>1, <2>2, MoveRow DEF RevokeBadge, BadgeStep, Ended
  <2>3. CASE SuspendBadge(d)
    <3>1. Move({d}, "suspended", "reviewer")
      BY <2>3 DEF SuspendBadge
    <3>2. CASE b = d
      <4>1. Suspended(b, {"reviewer"}) /\ badge'[b].of = badge[b].of
        BY <1>t, <3>1, <3>2, MoveRow DEF Suspended
      <4> QED BY <2>1, <2>3, <3>2, <4>1 DEF BadgeStep
    <3>3. CASE b # d
      BY <1>t, <2>1, <3>1, <3>3, MoveRow DEF BadgeStep
    <3> QED BY <3>2, <3>3
  <2>4. CASE ReinstateBadge(d)
    <3>1. Move({d}, "active", "none")
      BY <2>4 DEF ReinstateBadge
    <3>2. CASE b = d
      <4>1. badge'[b].status = "active" /\ badge'[b].of = badge[b].of
        BY <1>t, <3>1, <3>2, MoveRow
      <4> QED BY <2>1, <2>4, <3>2, <4>1 DEF BadgeStep, Raised
    <3>3. CASE b # d
      BY <1>t, <2>1, <3>1, <3>3, MoveRow DEF BadgeStep
    <3> QED BY <3>2, <3>3
  <2> QED BY <1>2, <2>2, <2>3, <2>4
<1>3. CASE CommitIssue
  <2>1. PICK d \in Badges :
          /\ ~Issued(d)
          /\ badge' = [badge EXCEPT ![d] = [NoBadge EXCEPT !.status = "active", !.of = issuing.of,
                                                           !.score = issuing.score]]
    BY <1>3 DEF CommitIssue
  <2> DEFINE new == [NoBadge EXCEPT !.status = "active", !.of = issuing.of, !.score = issuing.score]
  <2>2. new.status = "active"
    BY DEF NoBadge
  <2>3. badge' = [badge EXCEPT ![d] = new] /\ told' = told
    BY <1>3, <2>1 DEF CommitIssue
  <2> HIDE DEF new
  <2>4. CASE b = d
    BY <1>3, <1>t, <2>1, <2>2, <2>3, <2>4 DEF TypeOK, BadgeStep, Raised
  <2>5. CASE b # d
    BY <1>t, <2>3, <2>5 DEF TypeOK, BadgeStep, Kept
  <2> QED BY <2>4, <2>5
<1>4. ASSUME NEW c \in Candidate, BeginIssue(c) \/ IssuanceRefused(c) PROVE BadgeStep(b)
  BY <1>4 DEF BeginIssue, IssuanceRefused, BadgeStep, Kept
<1>5. CASE ExpireDue
  <2>1. /\ Moved(badge[b], "expired", badge[b].reason).status = "expired"
        /\ Moved(badge[b], "expired", badge[b].reason).of = badge[b].of
    BY <1>t DEF Moved, BadgeRow
  <2> QED BY <1>5, <2>1 DEF ExpireDue, BadgeStep, Kept, Ended
<1>6. CASE SuspendLapsed
  <2>1. PICK S : Move(S, "suspended", "lapsed") /\ \A d \in S : Standing(d)
    BY <1>6 DEF SuspendLapsed, Active, StandingOf
  <2>2. told[b] # "nothing" => told'[b] # "nothing"
    BY <1>t, <1>6, SomeToldTyped DEF SuspendLapsed, TypeOK
  <2> QED BY <1>t, <2>1, <2>2, MoveRow DEF BadgeStep, Suspended
<1>7. CASE SuspendUnauthorised
  <2>1. PICK S : Move(S, "suspended", "withdrawn") /\ \A d \in S : Standing(d)
    BY <1>7 DEF SuspendUnauthorised, Active, StandingOf
  <2>2. told[b] # "nothing" => told'[b] # "nothing"
    BY <1>t, <1>7, SomeToldTyped DEF SuspendUnauthorised, TypeOK
  <2> QED BY <1>t, <2>1, <2>2, MoveRow DEF BadgeStep, Suspended
<1>8. CASE RestoreReauthorised
  <2>1. PICK S : /\ Move(S, "active", "none")
                 /\ \A d \in S : SuspendedFor(d, {"withdrawn"})
    BY <1>8 DEF RestoreReauthorised, SuspendedFor
  <2>2. told' = told
    BY <1>8 DEF RestoreReauthorised
  <2>3. CASE b \in S
    BY <1>t, <2>1, <2>2, <2>3, MoveRow DEF BadgeStep, Raised, SuspendedFor
  <2>4. CASE b \notin S
    BY <1>t, <2>1, <2>2, <2>4, MoveRow DEF BadgeStep
  <2> QED BY <2>3, <2>4
<1>9. ASSUME NEW a \in Assessments, RecordDrift(a) PROVE BadgeStep(b)
  <2>1. CASE UNCHANGED <<badge, told>>
    BY <2>1 DEF BadgeStep, Kept
  <2>2. CASE Move(Active(AppOf[a]), "suspended", "regression") /\ Tell(Active(AppOf[a]))
    <3>1. /\ Active(AppOf[a]) \subseteq {d \in Badges : Standing(d)}
          /\ (told[b] # "nothing" \/ b \in Active(AppOf[a])) => told'[b] # "nothing"
      BY <1>t, <2>2, ToldTyped DEF Active, StandingOf, TypeOK
    <3>2. CASE b \in Active(AppOf[a])
      <4>1. Suspended(b, {"regression"}) /\ badge'[b].of = badge[b].of
        BY <1>t, <2>2, <3>2, MoveRow DEF Suspended
      <4> QED BY <2>2, <3>1, <3>2, <4>1 DEF BadgeStep
    <3>3. CASE b \notin Active(AppOf[a])
      BY <1>t, <2>2, <3>1, <3>3, MoveRow DEF BadgeStep
    <3> QED BY <3>2, <3>3
  <2> QED BY <1>9, <2>1, <2>2 DEF RecordDrift
<1>10. ASSUME NEW row \in probes, ProbeRefused(row) \/ DecisionLost(row) PROVE BadgeStep(b)
  BY <1>10 DEF ProbeRefused, DecisionLost, BadgeStep, Kept
<1>11. ASSUME NEW row \in probes, ProbeUp(row) PROVE BadgeStep(b)
  <2>1. PICK S : /\ Move(S, "active", "none")
                 /\ \A d \in S : SuspendedFor(d, {"liveness"})
    BY <1>11 DEF ProbeUp, SuspendedFor
  <2>2. told' = told
    BY <1>11 DEF ProbeUp
  <2>3. CASE b \in S
    BY <1>t, <2>1, <2>2, <2>3, MoveRow DEF BadgeStep, Raised, SuspendedFor
  <2>4. CASE b \notin S
    BY <1>t, <2>1, <2>2, <2>4, MoveRow DEF BadgeStep
  <2> QED BY <2>3, <2>4
<1>12. ASSUME NEW row \in probes, ProbeDown(row) PROVE BadgeStep(b)
  <2>1. PICK S : /\ Move(S, "suspended", "liveness") /\ S \subseteq {row.badge}
                 /\ \A d \in S : Standing(d)
                 /\ \E T : S \subseteq T /\ Tell(T)
    BY <1>12 DEF ProbeDown, Standing
  <2>4. (told[b] # "nothing" \/ b \in S) => told'[b] # "nothing"
    BY <1>t, <2>1, ToldTyped DEF TypeOK
  <2>2. CASE b \in S
    <3>1. Suspended(b, {"liveness"})
      BY <1>t, <2>1, <2>2, MoveRow DEF Suspended
    <3>2. \E down \in probes : down.badge = b /\ ProbeDown(down)
      BY <1>12, <2>1, <2>2
    <3>3. badge'[b].of = badge[b].of
      BY <1>t, <2>1, MoveRow
    <3> QED BY <2>1, <2>2, <2>4, <3>1, <3>2, <3>3 DEF BadgeStep
  <2>3. CASE b \notin S
    BY <1>t, <2>1, <2>3, <2>4, MoveRow DEF BadgeStep
  <2> QED BY <2>2, <2>3
<1>13. ASSUME NEW d \in Badges, TermEnds(d) PROVE BadgeStep(b)
  BY <1>13, <1>t DEF TermEnds, TypeOK, BadgeRow, BadgeStep, Kept
<1>14. CASE UNCHANGED vars
  BY <1>14 DEF vars, BadgeStep, Kept
<1> QED BY <1>1, <1>2, <1>3, <1>4, <1>5, <1>6, <1>7, <1>8, <1>9, <1>10, <1>11, <1>12, <1>13, <1>14
        DEF Next, ActingOnBadges, Issuance, Lifecycle, DriftSweep, Liveness, World

\* However many badges, failures and drift reports there are, a badge down for a
\* regression or an outage has a notice on record, of this suspension or of an earlier
\* one of the same badge.  (recordDriftFor, sweepLiveness, raiseAlert)
THEOREM SuspendedBadgesHaveANotice == Spec => []SuspendedBadgeHasANotice
<1>1. Init => SuspendedBadgeHasANotice
  BY DEF Init, NoBadge, SuspendedBadgeHasANotice, SuspendedFor
<1>2. Inv /\ SuspendedBadgeHasANotice /\ [Next]_vars => SuspendedBadgeHasANotice'
  <2> SUFFICES ASSUME Inv, SuspendedBadgeHasANotice, [Next]_vars, NEW b \in Badges,
                      SuspendedFor(b, {"regression", "liveness"})'
               PROVE  told'[b] # "nothing"
    BY DEF SuspendedBadgeHasANotice
  <2>1. BadgeStep(b)
    BY HowABadgeMoves
  <2> QED BY <2>1 DEF BadgeStep, Kept, Ended, Raised, Suspended, SuspendedFor, SuspendedBadgeHasANotice
<1> QED BY <1>1, <1>2, Invariance, PTL DEF Spec

\* A suspension for a lapse, a regression or a reviewer's reason is lifted by a
\* reviewer only.  (sweepLiveness, sweepBadgeLifecycle)
THEOREM OnlyAReviewerLiftsForCause == Spec => SuspensionForCauseStaysDown
<1>1. Inv /\ [Next]_vars
        => [\A b \in Badges :
              (SuspendedFor(b, {"lapsed", "regression", "reviewer"}) /\ badge'[b].status = "active")
                 => ReinstateBadge(b)]_vars
  <2> SUFFICES ASSUME Inv, [Next]_vars, NEW b \in Badges,
                      SuspendedFor(b, {"lapsed", "regression", "reviewer"}),
                      badge'[b].status = "active"
               PROVE  ReinstateBadge(b)
    OBVIOUS
  <2>1. BadgeStep(b)
    BY HowABadgeMoves
  <2> QED BY <2>1 DEF BadgeStep, Kept, Ended, Raised, Suspended, SuspendedFor, Issued
<1> QED BY <1>1, Invariance, PTL DEF Spec, SuspensionForCauseStaysDown

----------------------------------------------------------------------------
(* Outages                                                                *)

Down(b) == SuspendedFor(b, {"liveness"})

OneStands ==
  \A b, c \in Badges : (Standing(b) /\ Standing(c) /\ BadgeApp(b) = BadgeApp(c)) => b = c

\* What a row read for liveness still says, however long ago it was read.
ProbeFacts(row) ==
  /\ Issued(row.badge)
  /\ row.failures = failures[BadgeApp(row.badge)]
  /\ \A b \in Badges : (Down(b) /\ BadgeApp(b) = BadgeApp(row.badge))
                          => b = row.badge /\ row.status = "suspended"

OneProbeEach ==
  \A one, two \in probes : BadgeApp(one.badge) = BadgeApp(two.badge) => one = two

LivenessFacts ==
  /\ OneStands /\ OneProbeEach
  /\ LivenessSuspensionIsRestorable
  /\ \A row \in probes : ProbeFacts(row)

----------------------------------------------------------------------------
(* The badges of a step *)

\* An issued badge stays issued, of the same application.
LEMMA IssuedStays ==
  ASSUME Inv, [Next]_vars, NEW b \in Badges, Issued(b)
  PROVE  Issued(b)' /\ BadgeApp(b)' = BadgeApp(b)
<1>1. BadgeStep(b)
  BY HowABadgeMoves
<1> QED BY <1>1 DEF BadgeStep, Kept, Ended, Raised, Suspended, Issued, BadgeApp

\* Only a failed probe of its own takes a badge down for an outage.
LEMMA DownByItsProbe ==
  ASSUME Inv, [Next]_vars, NEW b \in Badges, Down(b)'
  PROVE  Down(b) \/ \E row \in probes : row.badge = b /\ ProbeDown(row)
<1>1. BadgeStep(b)
  BY HowABadgeMoves
<1> QED BY <1>1 DEF BadgeStep, Kept, Ended, Raised, Suspended, Down, SuspendedFor

\* A badge that comes to stand was put there by a reviewer or by the issuance
\* sweep, past the unique index.
LEMMA ComesToStand ==
  ASSUME Inv, [Next]_vars, NEW b \in Badges, Standing(b)', ~Standing(b)
  PROVE  /\ \A d \in Badges : d # b => badge'[d] = badge[d]
         /\ \A d \in Badges : (Standing(d) /\ BadgeApp(d) = BadgeApp(b)') => d = b
<1>t. TypeOK
  BY DEF Inv
<1>1. BadgeStep(b)
  BY HowABadgeMoves
<1>2. ASSUME NEW d \in Badges, SuspendBadge(d) \/ ReinstateBadge(d)
      PROVE  /\ \A c \in Badges : c # b => badge'[c] = badge[c]
             /\ \A c \in Badges : (Standing(c) /\ BadgeApp(c) = BadgeApp(b)') => c = b
  <2>1. PICK status, reason : Move({d}, status, reason)
    BY <1>2 DEF SuspendBadge, ReinstateBadge
  <2>2. \A c \in Badges : c # d => badge'[c] = badge[c]
    BY <2>1 DEF Move
  <2>3. b = d
    BY <2>2 DEF Standing
  <2>4. Issued(b) /\ MayStand(b)
    BY <1>2, <2>3 DEF SuspendBadge, ReinstateBadge
  <2>5. BadgeApp(b)' = BadgeApp(b)
    BY <2>4, IssuedStays
  <2> QED BY <2>2, <2>3, <2>4, <2>5 DEF MayStand, StandingOf
<1>3. ASSUME CommitIssue
      PROVE  /\ \A d \in Badges : d # b => badge'[d] = badge[d]
             /\ \A d \in Badges : (Standing(d) /\ BadgeApp(d) = BadgeApp(b)') => d = b
  <2>1. PICK d \in Badges :
          badge' = [badge EXCEPT ![d] = [NoBadge EXCEPT !.status = "active", !.of = issuing.of,
                                                        !.score = issuing.score]]
    BY <1>3 DEF CommitIssue
  <2> DEFINE new == [NoBadge EXCEPT !.status = "active", !.of = issuing.of, !.score = issuing.score]
  <2>2. new.of = issuing.of
    BY DEF NoBadge
  <2>3. badge' = [badge EXCEPT ![d] = new]
    BY <2>1
  <2> HIDE DEF new
  <2>4. badge'[d] = new /\ \A e \in Badges : e # d => badge'[e] = badge[e]
    BY <1>t, <2>3 DEF TypeOK
  <2>5. b = d
    BY <2>4 DEF Standing
  <2>6. BadgeApp(b)' = AppOf[issuing.of]
    BY <2>2, <2>4, <2>5 DEF BadgeApp
  <2>7. StandingOf(AppOf[issuing.of]) = {}
    BY <1>3 DEF CommitIssue
  <2> QED BY <2>4, <2>5, <2>6, <2>7 DEF StandingOf
<1>4. Standing(b)' => badge'[b].status \in {"active", "suspended"}
  BY DEF Standing
<1>5. SuspendBadge(b) \/ ReinstateBadge(b) \/ CommitIssue
  BY <1>1, <1>4 DEF BadgeStep, Kept, Ended, Raised, Suspended, Standing, SuspendedFor
<1> QED BY <1>2, <1>3, <1>5

\* The unique index keeps one standing badge per application.
LEMMA OneStandsInv ==
  ASSUME Inv, OneStands, [Next]_vars
  PROVE  OneStands'
<1> SUFFICES ASSUME NEW b \in Badges, NEW c \in Badges, Standing(b)', Standing(c)',
                    BadgeApp(b)' = BadgeApp(c)', b # c
             PROVE  FALSE
  BY DEF OneStands
\* A badge that stood before is of the application it was of.
<1>1. \A d \in Badges : Standing(d) => BadgeApp(d)' = BadgeApp(d)
  BY IssuedStays DEF Standing, Issued
<1>2. CASE Standing(b) /\ Standing(c)
  BY <1>1, <1>2 DEF OneStands
<1>3. ASSUME NEW new \in Badges, NEW old \in Badges, new # old, ~Standing(new), Standing(new)',
             Standing(old)', BadgeApp(new)' = BadgeApp(old)'
      PROVE  FALSE
  <2>1. badge'[old] = badge[old] /\ (Standing(old) => BadgeApp(old) # BadgeApp(new)')
    BY <1>3, ComesToStand
  <2>2. Standing(old)
    BY <1>3, <2>1 DEF Standing
  <2> QED BY <1>1, <1>3, <2>1, <2>2
<1> QED BY <1>2, <1>3

----------------------------------------------------------------------------
(* Three kinds of step *)

\* Nothing is read and no counter is written, and so nothing comes down for an outage.
LEMMA QuietKeeps ==
  ASSUME Inv, LivenessFacts, [Next]_vars, failures' = failures, probes' \subseteq probes
  PROVE  LivenessFacts'
<1>1. OneStands'
  BY OneStandsInv DEF LivenessFacts
<1>2. \A row \in probes : row.badge \in Badges /\ ProbeFacts(row)
  BY DEF Inv, TypeOK, ProbeRow, LivenessFacts
<1>3. \A row \in probes : Issued(row.badge)' /\ BadgeApp(row.badge)' = BadgeApp(row.badge)
  BY <1>2, IssuedStays DEF ProbeFacts
<1>4. ASSUME NEW row \in probes, ProbeDown(row) PROVE FALSE
  <2>1. failures \in [Apps -> Nat] /\ BadgeApp(row.badge) \in Apps
    BY <1>2, AppOfIssued DEF Inv, TypeOK, ProbeFacts
  <2>2. failures' = [failures EXCEPT ![BadgeApp(row.badge)] = row.failures + 1]
    BY <1>4 DEF ProbeDown
  <2>3. row.failures = failures[BadgeApp(row.badge)]
    BY <1>2 DEF ProbeFacts
  <2> QED BY <2>1, <2>2, <2>3
<1>5. \A b \in Badges : Down(b)' => Down(b) /\ BadgeApp(b)' = BadgeApp(b)
  BY <1>4, DownByItsProbe, IssuedStays DEF Down, SuspendedFor, Issued
<1>6. OneProbeEach'
  BY <1>3 DEF LivenessFacts, OneProbeEach
<1>7. LivenessSuspensionIsRestorable'
  BY <1>5 DEF LivenessFacts, LivenessSuspensionIsRestorable, Down
<1>8. \A row \in probes' : ProbeFacts(row)'
  BY <1>2, <1>3, <1>5 DEF ProbeFacts
<1> QED BY <1>1, <1>6, <1>7, <1>8 DEF LivenessFacts

\* A page of rows is read: each of a standing badge, and so of the only one its
\* application has.
LEMMA ReadKeeps ==
  ASSUME Inv, LivenessFacts, ReadForLiveness
  PROVE  LivenessFacts'
<1>1. PICK S \in SUBSET {b \in Badges : Standing(b)} :
        probes' = {[badge |-> b, status |-> badge[b].status,
                    failures |-> failures[BadgeApp(b)]] : b \in S}
  BY DEF ReadForLiveness
<1>2. badge' = badge /\ failures' = failures
  BY DEF ReadForLiveness
<1>3. \A row \in probes' : /\ row.badge \in Badges /\ Standing(row.badge)
                            /\ row.status = badge[row.badge].status
                            /\ row.failures = failures[BadgeApp(row.badge)]
  BY <1>1
<1>4. OneProbeEach'
  <2> SUFFICES ASSUME NEW one \in probes', NEW two \in probes',
                      BadgeApp(one.badge) = BadgeApp(two.badge)
               PROVE  one = two
    BY <1>2 DEF OneProbeEach, BadgeApp
  <2>1. one.badge = two.badge
    BY <1>3 DEF LivenessFacts, OneStands
  <2> QED BY <1>1, <2>1
<1>5. \A row \in probes' : ProbeFacts(row)'
  <2> SUFFICES ASSUME NEW row \in probes' PROVE ProbeFacts(row)'
    OBVIOUS
  <2>1. Issued(row.badge)' /\ row.failures = failures'[BadgeApp(row.badge)']
    BY <1>2, <1>3 DEF Issued, Standing, BadgeApp
  <2>2. ASSUME NEW b \in Badges, Down(b)', BadgeApp(b)' = BadgeApp(row.badge)'
        PROVE  b = row.badge /\ row.status = "suspended"
    <3>1. Standing(b) /\ badge[b].status = "suspended" /\ BadgeApp(b) = BadgeApp(row.badge)
      BY <1>2, <2>2 DEF Down, SuspendedFor, Standing, BadgeApp
    <3>2. b = row.badge
      BY <1>3, <3>1 DEF LivenessFacts, OneStands
    <3> QED BY <1>3, <3>1, <3>2
  <2> QED BY <2>1, <2>2 DEF ProbeFacts
<1>6. OneStands' /\ LivenessSuspensionIsRestorable'
  BY <1>2 DEF LivenessFacts, OneStands, Standing, BadgeApp, LivenessSuspensionIsRestorable,
              SuspendedFor
<1> QED BY <1>4, <1>5, <1>6 DEF LivenessFacts

\* One row is decided and the counter of its application written.
LEMMA DecisionKeeps ==
  ASSUME Inv, LivenessFacts, [Next]_vars, NEW row \in probes, NEW count \in Nat,
         probes' = probes \ {row},
         failures' = [failures EXCEPT ![BadgeApp(row.badge)] = count],
         \A b \in Badges : (Down(b)' /\ BadgeApp(b) = BadgeApp(row.badge)) => count >= Threshold,
         \A b \in Badges : Down(b)' => Down(b) \/ b = row.badge
  PROVE  LivenessFacts'
<1> DEFINE p == BadgeApp(row.badge)
<1>1. OneStands'
  BY OneStandsInv DEF LivenessFacts
<1>2. \A other \in probes : other.badge \in Badges /\ ProbeFacts(other)
  BY DEF Inv, TypeOK, ProbeRow, LivenessFacts
<1>3. \A other \in probes :
         Issued(other.badge)' /\ BadgeApp(other.badge)' = BadgeApp(other.badge)
  BY <1>2, IssuedStays DEF ProbeFacts
<1>4. \A other \in probes' : other \in probes /\ BadgeApp(other.badge) # p
  BY DEF LivenessFacts, OneProbeEach
<1>5. failures \in [Apps -> Nat] /\ p \in Apps
  BY <1>2, AppOfIssued DEF Inv, TypeOK, ProbeFacts
<1>6. failures'[p] = count /\ \A q \in Apps : q # p => failures'[q] = failures[q]
  BY <1>5
<1>7. \A b \in Badges : Down(b)' => BadgeApp(b)' = BadgeApp(b) /\ BadgeApp(b) \in Apps
  BY <1>2, IssuedStays, AppOfIssued DEF Down, SuspendedFor, Issued, ProbeFacts
<1>8. OneProbeEach'
  BY <1>3, <1>4 DEF LivenessFacts, OneProbeEach
<1>9. LivenessSuspensionIsRestorable'
  <2> SUFFICES ASSUME NEW b \in Badges, Down(b)' PROVE failures'[BadgeApp(b)'] >= Threshold
    BY DEF LivenessSuspensionIsRestorable, Down
  <2>1. CASE BadgeApp(b) = p
    BY <1>6, <1>7, <2>1
  <2>2. CASE BadgeApp(b) # p
    <3>1. Down(b)
      BY <2>2
    <3>2. failures[BadgeApp(b)] >= Threshold
      BY <3>1 DEF LivenessFacts, LivenessSuspensionIsRestorable, Down
    <3> QED BY <1>6, <1>7, <2>2, <3>2
  <2> QED BY <2>1, <2>2
<1>10. \A other \in probes' : ProbeFacts(other)'
  <2> SUFFICES ASSUME NEW other \in probes' PROVE ProbeFacts(other)'
    OBVIOUS
  <2>1. /\ other \in probes /\ ProbeFacts(other) /\ other.badge \in Badges
        /\ BadgeApp(other.badge) # p
        /\ Issued(other.badge)' /\ BadgeApp(other.badge)' = BadgeApp(other.badge)
    BY <1>2, <1>3, <1>4
  <2>2. BadgeApp(other.badge) \in Apps
    BY <2>1, AppOfIssued DEF ProbeFacts
  <2>3. other.failures = failures'[BadgeApp(other.badge)']
    BY <1>6, <2>1, <2>2 DEF ProbeFacts
  <2>4. ASSUME NEW b \in Badges, Down(b)', BadgeApp(b)' = BadgeApp(other.badge)'
        PROVE  b = other.badge /\ other.status = "suspended"
    <3>1. BadgeApp(b) = BadgeApp(other.badge) /\ b # row.badge
      BY <1>7, <2>1, <2>4
    <3>2. Down(b)
      BY <2>4, <3>1
    <3> QED BY <2>1, <3>1, <3>2 DEF ProbeFacts
  <2> QED BY <2>1, <2>3, <2>4 DEF ProbeFacts
<1> QED BY <1>1, <1>8, <1>9, <1>10 DEF LivenessFacts

----------------------------------------------------------------------------
(* The invariant *)

\* The three decisions that write the counter.
LEMMA ProbeKeeps ==
  ASSUME Inv, LivenessFacts, [Next]_vars, NEW row \in probes,
         ProbeRefused(row) \/ ProbeUp(row) \/ ProbeDown(row)
  PROVE  LivenessFacts'
<1>t. TypeOK
  BY DEF Inv
<1> DEFINE p == BadgeApp(row.badge)
<1>1. row.failures \in Nat /\ row.badge \in Badges /\ ProbeFacts(row)
  BY <1>t DEF TypeOK, ProbeRow, LivenessFacts
\* A badge of the application that is down is the row's, and its failures are enough.
<1>2. ASSUME NEW b \in Badges, Down(b), BadgeApp(b) = p
      PROVE  b = row.badge /\ row.status = "suspended" /\ row.failures >= Threshold
  BY <1>1, <1>2 DEF ProbeFacts, LivenessFacts, LivenessSuspensionIsRestorable, Down
<1>3. CASE ProbeRefused(row)
  <2>1. \A b \in Badges : (Down(b)' => Down(b))
    BY <1>3 DEF ProbeRefused, Down, SuspendedFor
  <2>2. /\ probes' = probes \ {row}
        /\ failures' = [failures EXCEPT ![BadgeApp(row.badge)] = row.failures]
    BY <1>3 DEF ProbeRefused, Decided
  <2> QED BY <1>1, <1>2, <2>1, <2>2, DecisionKeeps
<1>4. CASE ProbeUp(row)
  <2> DEFINE restore == /\ row.status = "suspended" /\ row.failures >= Threshold
                        /\ badge[row.badge].status = "suspended"
                        /\ badge[row.badge].reason = "liveness"
             S == IF restore THEN {row.badge} ELSE {}
  <2>1. /\ probes' = probes \ {row} /\ Move(S, "active", "none")
        /\ failures' = [failures EXCEPT ![BadgeApp(row.badge)] = 0]
    BY <1>4 DEF ProbeUp, Decided
  <2>2. ASSUME NEW b \in Badges, Down(b)' PROVE Down(b) /\ b \notin S
    <3> HIDE DEF S
    <3>1. b \notin S
      BY <1>t, <2>1, <2>2, MoveRow DEF Down, SuspendedFor
    <3> QED BY <1>t, <2>1, <2>2, <3>1, MoveRow DEF Down, SuspendedFor, Kept
  <2>3. ASSUME NEW b \in Badges, Down(b)', BadgeApp(b) = p PROVE FALSE
    <3>1. Down(b) /\ b \notin S
      BY <2>2, <2>3
    <3>2. restore /\ b = row.badge
      BY <1>2, <2>3, <3>1 DEF Down, SuspendedFor
    <3> QED BY <3>1, <3>2
  <2> HIDE DEF S
  <2> QED BY <2>1, <2>2, <2>3, DecisionKeeps
<1>5. CASE ProbeDown(row)
  <2> DEFINE count == row.failures + 1
             crossed == count >= Threshold /\ row.status = "active"
             S == IF crossed /\ badge[row.badge].status = "active" THEN {row.badge} ELSE {}
  <2>1. /\ probes' = probes \ {row} /\ Move(S, "suspended", "liveness")
        /\ failures' = [failures EXCEPT ![BadgeApp(row.badge)] = count]
    BY <1>5 DEF ProbeDown, Decided
  <2>2. S \subseteq {row.badge} /\ (S # {} => count >= Threshold) /\ count \in Nat
    BY <1>1
  <2>3. ASSUME NEW b \in Badges, Down(b)' PROVE Down(b) \/ b \in S
    <3> HIDE DEF S
    <3> QED BY <1>t, <2>1, <2>3, MoveRow DEF Down, SuspendedFor, Kept
  <2>4. ASSUME NEW b \in Badges, Down(b)', BadgeApp(b) = p PROVE count >= Threshold
    <3>1. CASE Down(b)
      BY <1>1, <1>2, <2>4, <3>1, BadgeAssumption
    <3>2. CASE b \in S
      BY <2>2, <3>2
    <3> QED BY <2>3, <2>4, <3>1, <3>2
  <2> HIDE DEF S, count
  <2> QED BY <2>1, <2>2, <2>3, <2>4, DecisionKeeps
<1> QED BY <1>3, <1>4, <1>5

\* Every other step of the system is one of the three kinds.
LEMMA LivenessInv == Inv /\ LivenessFacts /\ [Next]_vars => LivenessFacts'
<1> SUFFICES ASSUME Inv, LivenessFacts, [Next]_vars PROVE LivenessFacts'
  OBVIOUS
<1>1. CASE ReadForLiveness
  BY <1>1, ReadKeeps
<1>2. ASSUME NEW row \in probes, ProbeRefused(row) \/ ProbeUp(row) \/ ProbeDown(row)
      PROVE  LivenessFacts'
  BY <1>2, ProbeKeeps
<1>3. CASE Reviewing \/ ActingOnBadges
  BY <1>3, QuietKeeps DEF Reviewing, RunCompletes, Approve, Reject, BeginAdjust, CommitAdjust,
                          ActingOnBadges, RevokeBadge, SuspendBadge, ReinstateBadge, sweepVars
<1>4. CASE Issuance \/ Lifecycle \/ DriftSweep
  BY <1>4, QuietKeeps DEF Issuance, ReadCandidates, ReadPage, BeginIssue, CommitIssue,
                          IndexRefuses, IssuanceRefused, Lifecycle, ExpireDue, SuspendLapsed,
                          SuspendUnauthorised, RestoreReauthorised, DriftSweep, RecordDrift, sweepVars
<1>5. CASE World \/ DecideNothing \/ \E row \in probes : DecisionLost(row)
  BY <1>5, QuietKeeps DEF World, WorkerRestarts, AuthorisationChanges, PaymentChanges,
                          AcceptBadgeLicence, AddressChanges, TermEnds, DecideNothing, DecisionLost, Decided,
                          sweepVars
<1>6. CASE UNCHANGED vars
  BY <1>6, QuietKeeps DEF vars, sweepVars
<1> QED BY <1>1, <1>2, <1>3, <1>4, <1>5, <1>6 DEF Next, Liveness

\* Whatever refusals, rollbacks, stale rows and replaced badges come between, a badge
\* the liveness sweep took down has the failures its restoration asks for.
\* (sweepLiveness, applyProbe)
THEOREM OutagesAreRestorable == Spec => []LivenessSuspensionIsRestorable
<1>1. Init => LivenessFacts
  BY DEF Init, NoBadge, LivenessFacts, OneStands, OneProbeEach, Standing, SuspendedFor,
         LivenessSuspensionIsRestorable
<1>2. LivenessFacts => LivenessSuspensionIsRestorable
  BY DEF LivenessFacts
<1> QED BY <1>1, <1>2, Invariance, LivenessInv, PTL DEF Spec

\* And the next success lifts it: the row it is decided from, however old, says
\* suspended and has failures enough.  (sweepLiveness)
THEOREM TheNextSuccessRestores == Spec => RestoredByTheNextSuccess
<1>1. Init => LivenessFacts
  BY DEF Init, NoBadge, LivenessFacts, OneStands, OneProbeEach, Standing, SuspendedFor,
         LivenessSuspensionIsRestorable
<1>2. Inv /\ LivenessFacts
        => \A row \in probes : (ProbeUp(row) /\ SuspendedFor(row.badge, {"liveness"}))
                                => badge'[row.badge].status = "active"
  <2> SUFFICES ASSUME Inv, LivenessFacts, NEW row \in probes, ProbeUp(row), Down(row.badge)
               PROVE  badge'[row.badge].status = "active"
    BY DEF Down
  <2>1. /\ TypeOK /\ row.badge \in Badges /\ ProbeFacts(row)
        /\ failures[BadgeApp(row.badge)] >= Threshold
    BY DEF Inv, TypeOK, ProbeRow, LivenessFacts, LivenessSuspensionIsRestorable, Down
  <2>2. row.status = "suspended" /\ row.failures >= Threshold
    BY <2>1 DEF ProbeFacts
  <2>3. Move({row.badge}, "active", "none")
    BY <2>2 DEF ProbeUp, Down, SuspendedFor
  <2> QED BY <2>1, <2>3, MoveRow
<1> QED BY <1>1, <1>2, Invariance, LivenessInv, PTL DEF Spec, RestoredByTheNextSuccess
=============================================================================
