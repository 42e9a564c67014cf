------------------------ MODULE Assessment_proofs -------------------------
(*************************************************************************)
(* An assessment from the decision to run it to what it leads to, for    *)
(* every number of tabs, words, runs, stages, requests and processes:    *)
(* what the decision rests on (Admission), whether every criterion is    *)
(* answered (AssessmentRun), the pace a session is held to               *)
(* (ScopedSession), which report is served (ReportRelease), and when the *)
(* application is looked at again and what a worse result does           *)
(* (Reassessment).                                                       *)
(*                                                                       *)
(* NothingIsKeptFromAWithdrawnRun needs the run to be marked as          *)
(* disturbed as soon as a newer authorisation exists, and only then      *)
(* (RunFacts). FreeRunsAreSpaced is about rows read in one request and   *)
(* used in a later one, so a verdict, wherever it is held, carries how   *)
(* many rows it saw and that each of them had cooled down when it was    *)
(* reached (SpacingFacts).                                               *)
(*                                                                       *)
(* EveryQuestionIsAccountedFor is about the end of a run. On the way     *)
(* there a stage that is over has answered, or written down, all it      *)
(* asks, or is among those whose questions go unasked; and the attempt   *)
(* under way has done so for the passes it has behind it                 *)
(* (PipelineFacts).                                                      *)
(*                                                                       *)
(* AuthorisedPaceIsKept is a sum: what has left was counted and took a   *)
(* slot, and slots come from a full bucket and from time (PaceFacts).    *)
(*                                                                       *)
(* WhatIsServedIsCurrent compares stored bytes with the assessment as it *)
(* is. Between the two lies a rendering: unless a review or a change of  *)
(* plan overtook it, what a renderer has in hand is the assessment and   *)
(* the plan as they are (HandsFacts, ServedFacts).                       *)
(*                                                                       *)
(* RegressionsDoNotAddUp is of one comparison, whatever led to it: the   *)
(* severity of a key is its worst published finding's, so what no rule   *)
(* calls material has lost nothing. ReassessmentsAreSpaced rests on what *)
(* a sweep selected having been due on the day it read (MonitorInv).     *)
(*************************************************************************)
EXTENDS Admission, AssessmentRun, ScopedSession, ReportRelease, Reassessment,
        SequenceTheorems, WellFoundedInduction, TLAPS

----------------------------------------------------------------------------
(* What a decision rests on (Admission)                                     *)

KeptRow == [verdict : Verdict, completed : Nat, disturbed : BOOLEAN]
TabRow == [at : {"idle", "verifying", "revoking", "asking", "deciding", "threw"},
           of : Nat, verdict : Verdict]
ScreenerRow == [at : {"idle", "judging", "clearing", "selected"}, read : Words]

\* A run is disturbed when a row has come after the one it took, and only a run.
RunFacts ==
  /\ ticket.at # "running" => ~ticket.disturbed
  /\ ticket.at = "running" => ticket.of <= Newest /\ (ticket.disturbed => ticket.of < Newest)
  /\ \A i \in DOMAIN kept : ~kept[i].disturbed

\* What a verdict for a free run saw was complete, and had cooled down.
Spaced(verdict) ==
  /\ verdict.seen <= Len(kept)
  /\ verdict.plan = "free" =>
       \A i \in 1..verdict.seen : kept[i].completed + Cooldown <= verdict.decided

SpacingFacts ==
  /\ \A i \in DOMAIN kept : kept[i].completed <= month /\ Spaced(kept[i].verdict)
  /\ \A i, j \in DOMAIN kept : i <= j => kept[i].completed <= kept[j].completed
  /\ \A t \in Tabs : Spaced(tab[t].verdict)
  /\ Spaced(ticket.verdict)

AdmissionInv == AdmissionTypeOK /\ RunFacts /\ SpacingFacts

LEMMA NoVerdictIsSound == NoVerdict \in Verdict /\ NoTicket \in Ticket /\ RestingTab \in TabRow
<1>1. NoVerdict \in Verdict
  BY DEF NoVerdict, Verdict
<1> QED
  BY <1>1 DEF NoTicket, Ticket, RestingTab, TabRow

LEMMA KeptRows ==
  ASSUME AdmissionTypeOK, NEW i \in DOMAIN kept
  PROVE  /\ kept[i] \in KeptRow /\ kept[i].completed \in Nat /\ kept[i].verdict \in Verdict
         /\ kept[i].verdict.seen \in Nat /\ kept[i].verdict.decided \in Nat
         /\ i \in 1..Len(kept) /\ Len(kept) \in Nat
<1>1. kept \in Seq(KeptRow)
  BY DEF AdmissionTypeOK, KeptRow
<1>2. kept[i] \in KeptRow /\ i \in 1..Len(kept) /\ Len(kept) \in Nat
  BY <1>1
<1>3. kept[i].completed \in Nat /\ kept[i].verdict \in Verdict
  BY <1>2 DEF KeptRow
<1> QED
  BY <1>2, <1>3 DEF Verdict

LEMMA AdmissionStarts == AdmissionInit => AdmissionInv
<1> SUFFICES ASSUME AdmissionInit PROVE AdmissionInv
  OBVIOUS
<1>1. AdmissionTypeOK
  <2>1. intake \in {"done", "refused", "pending"} /\ words \in Words
    BY DEF AdmissionInit, AtIntake
  <2>2. /\ screening \in [status : ScreeningStatus, by : Judge]
        /\ screener \in [Screeners -> ScreenerRow]
    BY DEF AdmissionInit, ScreeningStatus, Judge, ScreenerRow, Words
  <2>3. tab \in [Tabs -> TabRow] /\ ticket \in Ticket
    BY NoVerdictIsSound DEF AdmissionInit
  <2>4. grants \in Seq(Grant) /\ kept \in Seq(KeptRow)
    BY DEF AdmissionInit
  <2> QED
    BY <2>1, <2>2, <2>3, <2>4 DEF AdmissionTypeOK, AdmissionInit, KeptRow, TabRow, ScreenerRow
<1>2. RunFacts
  BY DEF RunFacts, AdmissionInit, NoTicket
<1>3. SpacingFacts
  BY DEF SpacingFacts, Spaced, AdmissionInit, NoTicket, RestingTab, NoVerdict
<1> QED
  BY <1>1, <1>2, <1>3 DEF AdmissionInv

----------------------------------------------------------------------------
(* Steps that leave the runs alone                                          *)

\* The check of acceptable use, and what is paid: no run and no verdict changes.
LEMMA RunsAlone ==
  ASSUME AdmissionInv, UNCHANGED <<grants, tab, ticket, kept>>,
         month' \in Nat, month <= month',
         words' \in Words, screening' \in [status : ScreeningStatus, by : Judge],
         intake' \in {"done", "refused", "pending"}, screener' \in [Screeners -> ScreenerRow],
         subscription' \in {"none", "active", "past_due"}, purchase' \in {"none", "paid", "refunded"}
  PROVE  AdmissionInv'
<1>1. AdmissionTypeOK'
  BY DEF AdmissionInv, AdmissionTypeOK, ScreenerRow
<1>2. RunFacts'
  BY DEF AdmissionInv, RunFacts, Newest
<1>3. SpacingFacts'
  <2>1. kept \in Seq(KeptRow) /\ month \in Nat
    BY DEF AdmissionInv, AdmissionTypeOK, KeptRow
  <2>2. \A i \in DOMAIN kept : kept[i].completed \in Nat
    BY KeptRows DEF AdmissionInv
  <2>3. \A i \in DOMAIN kept : kept[i].completed <= month'
    BY <2>1, <2>2 DEF AdmissionInv, SpacingFacts
  <2> QED
    BY <2>3 DEF AdmissionInv, SpacingFacts, Spaced
<1> QED
  BY <1>1, <1>2, <1>3 DEF AdmissionInv

LEMMA ScreeningMoves ==
  ASSUME AdmissionInv,
         \/ RecordIntake \/ Rewrite \/ ReviewerDecides
         \/ \E s \in Screeners : ScreenerStep(s)
         \/ SubscriptionMoves \/ PurchaseMoves \/ MonthPasses
  PROVE  AdmissionInv'
<1>1. /\ words \in Words /\ screening \in [status : ScreeningStatus, by : Judge]
      /\ intake \in {"done", "refused", "pending"} /\ screener \in [Screeners -> ScreenerRow]
      /\ subscription \in {"none", "active", "past_due"}
      /\ purchase \in {"none", "paid", "refunded"} /\ month \in Nat
  BY DEF AdmissionInv, AdmissionTypeOK, ScreenerRow
<1>2. \A status \in ScreeningStatus, by \in Judge :
        [status |-> status, by |-> by] \in [status : ScreeningStatus, by : Judge]
  OBVIOUS
<1>3. CASE RecordIntake
  <2>1. screening' \in [status : ScreeningStatus, by : Judge]
    BY <1>1, <1>3 DEF RecordIntake, Decide, ScreeningStatus, Judge
  <2> QED
    BY <1>1, <1>3, <2>1, RunsAlone DEF RecordIntake
<1>4. CASE Rewrite
  BY <1>1, <1>4, RunsAlone DEF Rewrite
<1>5. CASE ReviewerDecides
  <2>1. screening' \in [status : ScreeningStatus, by : Judge]
    BY <1>1, <1>5 DEF ReviewerDecides, Decide, ScreeningStatus, Judge
  <2> QED
    BY <1>1, <1>5, <2>1, RunsAlone DEF ReviewerDecides
<1>6. ASSUME NEW s \in Screeners, ScreenerStep(s) PROVE AdmissionInv'
  <2>1. screening' \in [status : ScreeningStatus, by : Judge]
    <3>1. CASE ClearSubmission(s)
      BY <1>1, <3>1 DEF ClearSubmission, Decide, ScreeningStatus, Judge
    <3>2. CASE UNCHANGED screening
      BY <1>1, <3>2
    <3> QED
      BY <1>6, <3>1, <3>2 DEF ScreenerStep, ReadSubmission, JudgeSubmission, SelectSubmission
  <2>2. screener[s].read \in Words /\ "plain" \in Words
    BY <1>1 DEF ScreenerRow, Words
  <2>3. \E at \in {"idle", "judging", "clearing", "selected"}, read \in Words :
          ScreenerGoes(s, at, read)
    BY <1>1, <1>6, <2>2 DEF ScreenerStep, ReadSubmission, JudgeSubmission, SelectSubmission,
       ClearSubmission
  <2>4. screener' \in [Screeners -> ScreenerRow]
    BY <1>1, <2>3 DEF ScreenerGoes, ScreenerRow
  <2> QED
    BY <1>1, <2>1, <2>3, <2>4, RunsAlone DEF ScreenerGoes
<1>7. CASE SubscriptionMoves
  BY <1>1, <1>7, RunsAlone DEF SubscriptionMoves
<1>8. CASE PurchaseMoves
  BY <1>1, <1>8, RunsAlone DEF PurchaseMoves
<1>9. CASE MonthPasses
  BY <1>1, <1>9, RunsAlone DEF MonthPasses
<1> QED
  BY <1>3, <1>4, <1>5, <1>6, <1>7, <1>8, <1>9

----------------------------------------------------------------------------
(* The console's requests                                                   *)

\* A new row disturbs the run that is on its way, and nothing else.
LEMMA RowsInserted ==
  ASSUME AdmissionInv, NEW grant \in Grant, Insert(grant), ConsoleRests,
         tab' \in [Tabs -> TabRow], \A t \in Tabs : Spaced(tab'[t].verdict)
  PROVE  AdmissionInv'
<1>1. /\ grants \in Seq(Grant) /\ ticket \in Ticket
      /\ grants' = Append(grants, grant)
      /\ ticket' = [ticket EXCEPT !.disturbed = @ \/ ticket.at = "running"]
  BY DEF AdmissionInv, AdmissionTypeOK, Insert
<1>2. grants' \in Seq(Grant) /\ Newest' = Newest + 1 /\ Newest \in Nat
  BY <1>1 DEF Newest
<1>3. /\ ticket' \in Ticket /\ ticket'.at = ticket.at /\ ticket'.of = ticket.of
      /\ ticket'.verdict = ticket.verdict
  BY <1>1 DEF Ticket
<1>4. ticket'.disturbed <=> (ticket.disturbed \/ ticket.at = "running")
  BY <1>1 DEF Ticket
<1>5. ticket.of \in Nat
  BY <1>1 DEF Ticket
<1>6. AdmissionTypeOK'
  BY <1>2, <1>3 DEF AdmissionInv, AdmissionTypeOK, ConsoleRests, TabRow
<1>7. RunFacts'
  <2>1. ticket'.at # "running" => ~ticket'.disturbed
    BY <1>3, <1>4 DEF AdmissionInv, RunFacts
  <2>2. ticket'.at = "running" => ticket'.of <= Newest' /\ ticket'.of < Newest'
    BY <1>2, <1>3, <1>5 DEF AdmissionInv, RunFacts
  <2> QED
    BY <2>1, <2>2 DEF AdmissionInv, RunFacts, ConsoleRests
<1>8. SpacingFacts'
  BY <1>3 DEF AdmissionInv, SpacingFacts, Spaced, ConsoleRests
<1> QED
  BY <1>6, <1>7, <1>8 DEF AdmissionInv

\* A request that goes on without a row, with a verdict that is sound.
LEMMA TabsGo ==
  ASSUME AdmissionInv, ConsoleRests, UNCHANGED <<grants, ticket>>,
         tab' \in [Tabs -> TabRow], \A t \in Tabs : Spaced(tab'[t].verdict)
  PROVE  AdmissionInv'
<1>1. AdmissionTypeOK'
  BY DEF AdmissionInv, AdmissionTypeOK, ConsoleRests, TabRow
<1>2. RunFacts'
  BY DEF AdmissionInv, RunFacts, ConsoleRests, Newest
<1>3. SpacingFacts'
  BY DEF AdmissionInv, SpacingFacts, Spaced, ConsoleRests
<1> QED
  BY <1>1, <1>2, <1>3 DEF AdmissionInv

LEMMA NothingSeenIsSpaced ==
  ASSUME AdmissionInv, NEW verdict \in Verdict, verdict.seen = 0
  PROVE  Spaced(verdict)
<1>1. Len(kept) \in Nat
  BY DEF AdmissionInv, AdmissionTypeOK
<1> QED
  BY <1>1 DEF Spaced

\* Where a tab goes, its verdict is a verdict and sound.
LEMMA TabGone ==
  ASSUME AdmissionInv, NEW t \in Tabs, NEW of \in Nat, NEW verdict \in Verdict, Spaced(verdict),
         NEW at \in {"idle", "verifying", "revoking", "asking", "deciding", "threw"},
         TabGoes(t, at, of, verdict)
  PROVE  tab' \in [Tabs -> TabRow] /\ \A u \in Tabs : Spaced(tab'[u].verdict)
<1>1. tab \in [Tabs -> TabRow]
  BY DEF AdmissionInv, AdmissionTypeOK, TabRow
<1>2. [at |-> at, of |-> of, verdict |-> verdict] \in TabRow
  BY DEF TabRow
<1>3. \A u \in Tabs : Spaced(tab[u].verdict)
  BY DEF AdmissionInv, SpacingFacts
<1> QED
  BY <1>1, <1>2, <1>3 DEF TabGoes

\* What is decided now saw every assessment that is complete, and the last has cooled down.
LEMMA DecidedNowIsSpaced ==
  ASSUME AdmissionInv, NEW t \in Tabs, NEW crowded \in BOOLEAN,
         Allowed(tab[t].verdict.plan, crowded)
  PROVE  /\ [tab[t].verdict EXCEPT !.seen = Len(kept), !.decided = month] \in Verdict
         /\ Spaced([tab[t].verdict EXCEPT !.seen = Len(kept), !.decided = month])
<1> DEFINE verdict == [tab[t].verdict EXCEPT !.seen = Len(kept), !.decided = month]
<1>1. kept \in Seq(KeptRow) /\ month \in Nat /\ Cooldown \in Nat /\ tab[t].verdict \in Verdict
  BY AdmissionAssumption DEF AdmissionInv, AdmissionTypeOK, KeptRow
<1>2. /\ verdict \in Verdict /\ verdict.seen = Len(kept) /\ verdict.decided = month
      /\ verdict.plan = tab[t].verdict.plan /\ Len(kept) \in Nat
  <2>1. Len(kept) \in Nat
    BY <1>1
  <2>2. month \in Nat /\ tab[t].verdict \in Verdict
    BY <1>1
  <2> QED
    BY <2>1, <2>2 DEF Verdict
<1>3. ASSUME verdict.plan = "free", NEW i \in 1..Len(kept)
      PROVE  kept[i].completed + Cooldown <= month
  <2>1. kept # <<>> /\ Len(kept) \in DOMAIN kept /\ i \in DOMAIN kept /\ i <= Len(kept)
    BY <1>1, <1>3
  <2>2. kept[Len(kept)].completed + Cooldown <= month
    BY <1>2, <1>3, <2>1 DEF Allowed, CooledDown
  <2>3. kept[i].completed <= kept[Len(kept)].completed
    BY <2>1 DEF AdmissionInv, SpacingFacts
  <2>4. kept[i].completed \in Nat /\ kept[Len(kept)].completed \in Nat
    BY <2>1, KeptRows DEF AdmissionInv
  <2> QED
    BY <1>1, <2>2, <2>3, <2>4
<1> HIDE DEF verdict
<1>4. Spaced(verdict)
  BY <1>2, <1>3 DEF Spaced
<1> QED
  BY <1>2, <1>4 DEF verdict

LEMMA ConsoleSteps ==
  ASSUME AdmissionInv, StartAuthorisation \/ \E t \in Tabs : TabStep(t)
  PROVE  AdmissionInv'
<1>1. CASE StartAuthorisation
  <2>1. PICK covers \in BOOLEAN :
          Insert([status |-> "pending", supersedes |-> 0, covers |-> covers, until |-> 0])
    BY <1>1 DEF StartAuthorisation
  <2>2. [status |-> "pending", supersedes |-> 0, covers |-> covers, until |-> 0] \in Grant
    BY DEF Grant
  <2>3. tab' = tab /\ ConsoleRests
    BY <1>1 DEF StartAuthorisation
  <2> QED
    BY <2>1, <2>2, <2>3, RowsInserted DEF AdmissionInv, AdmissionTypeOK, SpacingFacts, TabRow
<1>2. ASSUME NEW t \in Tabs, TabStep(t) PROVE AdmissionInv'
  <2>1. /\ tab[t] \in TabRow /\ Len(grants) \in Nat /\ month \in Nat /\ Validity \in Nat
        /\ ticket \in Ticket
    BY AdmissionAssumption DEF AdmissionInv, AdmissionTypeOK, TabRow
  <2>2. /\ NoVerdict \in Verdict /\ Spaced(NoVerdict) /\ tab[t].verdict \in Verdict
        /\ tab[t].of \in Nat /\ Spaced(tab[t].verdict)
    BY <2>1, NoVerdictIsSound, NothingSeenIsSpaced DEF NoVerdict, TabRow, AdmissionInv, SpacingFacts
  <2>3. ConsoleRests
    BY <1>2 DEF TabStep, ReadChallenge, OwnershipShown, ReadToWithdraw, Withdraw, TabFails,
       ReadToAsk, CountReTests, DecideRequest, QueueRequest
  <2>4. CASE ReadChallenge(t) \/ ReadToWithdraw(t)
    BY <2>1, <2>2, <2>3, <2>4, TabGone, TabsGo DEF ReadChallenge, ReadToWithdraw, Newest
  <2>5. CASE OwnershipShown(t)
    <3>1. [status |-> "verified", supersedes |-> tab[t].of, covers |-> TRUE,
           until |-> month + Validity] \in Grant
      BY <2>1, <2>2 DEF Grant
    <3> QED
      BY <2>2, <2>3, <2>5, <3>1, TabGone, RowsInserted DEF OwnershipShown, TabRests
  <2>6. CASE Withdraw(t)
    <3>1. [status |-> "revoked", supersedes |-> tab[t].of, covers |-> FALSE, until |-> 0] \in Grant
      BY <2>2 DEF Grant
    <3> QED
      BY <2>2, <2>3, <2>6, <3>1, TabGone, RowsInserted DEF Withdraw, TabRests
  <2>7. CASE TabFails(t)
    BY <2>2, <2>3, <2>7, TabGone, TabsGo DEF TabFails, TabRests
  <2>8. CASE ReadToAsk(t)
    <3>1. /\ [NoVerdict EXCEPT !.plan = PlanFor] \in Verdict
          /\ [NoVerdict EXCEPT !.plan = PlanFor].seen = 0
      BY DEF NoVerdict, Verdict, PlanFor, PaidPlan
    <3>2. Spaced([NoVerdict EXCEPT !.plan = PlanFor])
      BY <3>1, NothingSeenIsSpaced
    <3> QED
      BY <2>3, <2>8, <3>1, <3>2, TabGone, TabsGo DEF ReadToAsk
  <2>9. CASE CountReTests(t)
    BY <2>2, <2>3, <2>9, TabGone, TabsGo DEF CountReTests
  <2>10. CASE DecideRequest(t)
    <3>1. PICK crowded \in BOOLEAN :
            IF Allowed(tab[t].verdict.plan, crowded)
            THEN TabGoes(t, "deciding", 0,
                         [tab[t].verdict EXCEPT !.seen = Len(kept), !.decided = month])
            ELSE TabRests(t)
      BY <2>10 DEF DecideRequest
    <3>2. UNCHANGED <<grants, ticket>>
      BY <2>10 DEF DecideRequest
    <3>3. CASE Allowed(tab[t].verdict.plan, crowded)
      BY <2>3, <3>1, <3>2, <3>3, DecidedNowIsSpaced, TabGone, TabsGo
    <3>4. CASE ~Allowed(tab[t].verdict.plan, crowded)
      BY <2>2, <2>3, <3>1, <3>2, <3>4, TabGone, TabsGo DEF TabRests
    <3> QED
      BY <3>3, <3>4
  <2>11. CASE QueueRequest(t)
    <3> DEFINE queued == [NoTicket EXCEPT !.at = "queued", !.verdict = tab[t].verdict]
    <3>1. /\ queued \in Ticket /\ queued.at = "queued" /\ ~queued.disturbed
          /\ queued.verdict = tab[t].verdict
      BY <2>2 DEF NoTicket, Ticket
    <3>2. ticket' = ticket \/ ticket' = queued
      BY <2>11 DEF QueueRequest
    <3>3. /\ tab' \in [Tabs -> TabRow] /\ \A u \in Tabs : Spaced(tab'[u].verdict)
          /\ UNCHANGED grants
      BY <2>2, <2>11, TabGone DEF QueueRequest, TabRests
    <3> HIDE DEF queued
    <3>4. CASE ticket' = ticket
      BY <2>3, <3>3, <3>4, TabsGo
    <3>5. CASE ticket' = queued
      <4>1. AdmissionTypeOK'
        BY <2>3, <3>1, <3>3, <3>5 DEF AdmissionInv, AdmissionTypeOK, ConsoleRests, TabRow
      <4>2. RunFacts'
        BY <2>3, <3>1, <3>3, <3>5 DEF AdmissionInv, RunFacts, ConsoleRests
      <4>3. SpacingFacts'
        BY <2>2, <2>3, <3>1, <3>3, <3>5 DEF AdmissionInv, SpacingFacts, Spaced, ConsoleRests
      <4> QED
        BY <4>1, <4>2, <4>3 DEF AdmissionInv
    <3> QED
      BY <3>2, <3>4, <3>5
  <2> QED
    BY <1>2, <2>4, <2>5, <2>6, <2>7, <2>8, <2>9, <2>10, <2>11 DEF TabStep
<1> QED
  BY <1>1, <1>2

----------------------------------------------------------------------------
(* The run                                                                  *)

\* A ticket that is not running, or that relies on the newest row, with its verdict.
LEMMA TicketMoves ==
  ASSUME AdmissionInv, RunGoes(ticket'), kept' = kept, ticket' \in Ticket, Spaced(ticket'.verdict),
         ~ticket'.disturbed, ticket'.at = "running" => ticket'.of = Newest
  PROVE  AdmissionInv'
<1>1. AdmissionTypeOK'
  BY DEF AdmissionInv, AdmissionTypeOK, RunGoes
<1>2. RunFacts'
  <2>1. Newest \in Nat /\ Newest' = Newest
    BY DEF AdmissionInv, AdmissionTypeOK, Newest, RunGoes
  <2> QED
    BY <2>1 DEF AdmissionInv, RunFacts
<1>3. SpacingFacts'
  BY DEF AdmissionInv, SpacingFacts, Spaced, RunGoes
<1> QED
  BY <1>1, <1>2, <1>3 DEF AdmissionInv

\* The ticket that is tried again keeps its verdict.
LEMMA TriedAgain ==
  ASSUME AdmissionInv
  PROVE  LET again == [NoTicket EXCEPT !.at = "queued", !.retried = TRUE, !.verdict = ticket.verdict]
         IN  /\ again \in Ticket /\ again.at = "queued" /\ ~again.disturbed
             /\ again.verdict = ticket.verdict
<1>1. ticket.verdict \in Verdict
  BY DEF AdmissionInv, AdmissionTypeOK, Ticket
<1> QED
  BY <1>1 DEF NoTicket, Ticket

LEMMA RunSteps ==
  ASSUME AdmissionInv,
         CancelTicket \/ ClaimTicket \/ GateRun \/ TakeAuthorisation \/ WriteAssessment \/ RunIsLost
  PROVE  AdmissionInv'
<1>1. /\ ticket \in Ticket /\ Spaced(ticket.verdict) /\ Newest \in Nat
      /\ ticket.at # "running" => ~ticket.disturbed
  BY DEF AdmissionInv, AdmissionTypeOK, SpacingFacts, RunFacts, Newest
<1>2. NoTicket \in Ticket /\ Spaced(NoTicket.verdict) /\ ~NoTicket.disturbed /\ NoTicket.at = "none"
  BY NoVerdictIsSound, NothingSeenIsSpaced DEF NoTicket, NoVerdict
<1>3. CASE TicketEnds
  BY <1>2, <1>3, TicketMoves DEF TicketEnds, RunGoes
<1>4. ASSUME NEW at \in {"claimed", "gated", "written"}, TicketGoes(at), ~ticket.disturbed
      PROVE  AdmissionInv'
  <2>1. ticket' = [ticket EXCEPT !.at = at] /\ RunGoes(ticket') /\ kept' = kept
    BY <1>4 DEF TicketGoes, RunGoes
  <2>2. /\ ticket' \in Ticket /\ ticket'.at = at /\ ticket'.verdict = ticket.verdict
        /\ ticket'.disturbed = ticket.disturbed
    BY <1>1, <2>1 DEF Ticket
  <2> QED
    BY <1>1, <1>4, <2>1, <2>2, TicketMoves
<1>5. CASE CancelTicket
  BY <1>3, <1>5 DEF CancelTicket
<1>6. CASE ClaimTicket
  BY <1>1, <1>4, <1>6 DEF ClaimTicket
<1>7. CASE GateRun
  BY <1>1, <1>3, <1>4, <1>7 DEF GateRun
<1>8. CASE TakeAuthorisation
  <2>1. /\ ticket' = [ticket EXCEPT !.at = "running", !.of = Newest, !.disturbed = FALSE]
        /\ RunGoes(ticket') /\ kept' = kept
    BY <1>8 DEF TakeAuthorisation, RunGoes
  <2>2. /\ ticket' \in Ticket /\ ticket'.of = Newest /\ ticket'.verdict = ticket.verdict
        /\ ~ticket'.disturbed
    BY <1>1, <2>1 DEF Ticket
  <2> QED
    BY <1>1, <2>1, <2>2, TicketMoves
<1>9. CASE WriteAssessment
  <2>1. MayBeKept => ~ticket.disturbed
    BY <1>1, <1>9 DEF WriteAssessment, MayBeKept, AdmissionInv, RunFacts
  <2> QED
    BY <1>3, <1>4, <1>9, <2>1 DEF WriteAssessment
<1>10. CASE RunIsLost
  <2> DEFINE again == [NoTicket EXCEPT !.at = "queued", !.retried = TRUE, !.verdict = ticket.verdict]
  <2>1. /\ again \in Ticket /\ again.at = "queued" /\ ~again.disturbed
        /\ again.verdict = ticket.verdict
    BY TriedAgain
  <2>2. TicketEnds \/ (RunGoes(again) /\ kept' = kept)
    BY <1>10 DEF RunIsLost
  <2> HIDE DEF again
  <2>3. CASE RunGoes(again) /\ kept' = kept
    <3>1. ticket' = again /\ RunGoes(ticket')
      BY <2>3 DEF RunGoes
    <3> QED
      BY <1>1, <2>1, <2>3, <3>1, TicketMoves
  <2> QED
    BY <1>3, <2>2, <2>3
<1> QED
  BY <1>5, <1>6, <1>7, <1>8, <1>9, <1>10

\* What was spaced stays spaced when one more assessment is complete.
LEMMA SpacedOnAppend ==
  ASSUME AdmissionInv, NEW row \in KeptRow, kept' = Append(kept, row),
         NEW verdict \in Verdict, Spaced(verdict)
  PROVE  /\ verdict.seen <= Len(kept')
         /\ verdict.plan = "free" =>
              \A i \in 1..verdict.seen : kept'[i].completed + Cooldown <= verdict.decided
<1>1. kept \in Seq(KeptRow) /\ verdict.seen \in Nat
  BY DEF AdmissionInv, AdmissionTypeOK, KeptRow, Verdict
<1>2. /\ Len(kept') = Len(kept) + 1 /\ \A i \in 1..Len(kept) : kept'[i] = kept[i]
      /\ Len(kept) \in Nat
  BY <1>1
<1> QED
  BY <1>1, <1>2 DEF Spaced

LEMMA CommitSteps == ASSUME AdmissionInv, CommitAssessment PROVE AdmissionInv'
<1> DEFINE row == [verdict |-> ticket.verdict, completed |-> month, disturbed |-> ticket.disturbed]
           again == [NoTicket EXCEPT !.at = "queued", !.retried = TRUE, !.verdict = ticket.verdict]
<1>1. /\ ticket \in Ticket /\ ticket.at = "written" /\ ~ticket.disturbed
      /\ kept \in Seq(KeptRow) /\ month \in Nat /\ Spaced(ticket.verdict)
      /\ ticket.verdict \in Verdict
  BY DEF CommitAssessment, AdmissionInv, AdmissionTypeOK, RunFacts, SpacingFacts, KeptRow, Ticket
<1>2. row \in KeptRow /\ row.completed = month /\ row.verdict = ticket.verdict /\ ~row.disturbed
  <2>1. row \in KeptRow
    BY <1>1 DEF KeptRow, Ticket
  <2>2. row.completed = month /\ row.verdict = ticket.verdict
    OBVIOUS
  <2>3. row.disturbed = ticket.disturbed
    OBVIOUS
  <2> HIDE DEF row
  <2> QED
    BY <1>1, <2>1, <2>2, <2>3
<1>3. kept' = Append(kept, row)
  BY DEF CommitAssessment
<1>4. /\ again \in Ticket /\ again.at = "queued" /\ ~again.disturbed
      /\ again.verdict = ticket.verdict
  BY TriedAgain
<1>5. /\ NoTicket \in Ticket /\ NoTicket.at = "none" /\ ~NoTicket.disturbed
      /\ NoTicket.verdict = NoVerdict /\ NoVerdict \in Verdict /\ Spaced(NoVerdict)
  BY NoVerdictIsSound, NothingSeenIsSpaced DEF NoTicket, NoVerdict
<1>6. RunGoes(NoTicket) \/ RunGoes(again)
  BY DEF CommitAssessment
<1> HIDE DEF row, again
<1>7. /\ UNCHANGED <<words, screening, intake, screener, grants, tab, subscription, purchase, month>>
      /\ ticket' \in Ticket /\ ticket'.at # "running" /\ ~ticket'.disturbed
      /\ ticket'.verdict \in Verdict /\ Spaced(ticket'.verdict)
  BY <1>1, <1>4, <1>5, <1>6 DEF RunGoes
<1>8. /\ kept' \in Seq(KeptRow) /\ Len(kept') = Len(kept) + 1 /\ Len(kept) \in Nat
      /\ \A i \in 1..Len(kept) : kept'[i] = kept[i]
      /\ kept'[Len(kept) + 1] = row /\ DOMAIN kept' = 1..(Len(kept) + 1)
      /\ DOMAIN kept = 1..Len(kept)
  BY <1>1, <1>2, <1>3
<1>9. \A i \in DOMAIN kept' : i \in DOMAIN kept \/ i = Len(kept) + 1
  BY <1>8
<1>10. AdmissionTypeOK'
  BY <1>7, <1>8 DEF AdmissionInv, AdmissionTypeOK, KeptRow
<1>11. RunFacts'
  BY <1>2, <1>7, <1>8, <1>9 DEF AdmissionInv, RunFacts
<1>12. SpacingFacts'
  <2>1. ASSUME NEW verdict \in Verdict, Spaced(verdict)
        PROVE  /\ verdict.seen <= Len(kept')
               /\ verdict.plan = "free" =>
                    \A i \in 1..verdict.seen : kept'[i].completed + Cooldown <= verdict.decided
    BY <1>2, <1>3, <2>1, SpacedOnAppend
  <2>2. \A i \in DOMAIN kept : kept[i].completed \in Nat /\ kept[i].completed <= month
                               /\ kept[i].verdict \in Verdict /\ Spaced(kept[i].verdict)
    BY KeptRows DEF AdmissionInv, SpacingFacts
  <2>3. ASSUME NEW i \in DOMAIN kept'
        PROVE  /\ kept'[i].completed <= month' /\ kept'[i].completed \in Nat
               /\ kept'[i].verdict \in Verdict /\ Spaced(kept'[i].verdict)
    BY <1>1, <1>2, <1>7, <1>8, <1>9, <2>2
  <2>4. \A i, j \in DOMAIN kept' : i <= j => kept'[i].completed <= kept'[j].completed
    <3>1. TAKE i, j \in DOMAIN kept'
    <3>2. CASE i \in DOMAIN kept /\ j \in DOMAIN kept
      BY <1>8, <3>2 DEF AdmissionInv, SpacingFacts
    <3>3. CASE j = Len(kept) + 1
      BY <1>2, <1>7, <1>8, <2>3, <3>3
    <3>4. CASE i = Len(kept) + 1 /\ j \in DOMAIN kept
      BY <1>8, <3>4
    <3> QED
      BY <1>9, <3>2, <3>3, <3>4
  <2>5. \A t \in Tabs : tab[t].verdict \in Verdict /\ Spaced(tab[t].verdict)
    BY DEF AdmissionInv, AdmissionTypeOK, SpacingFacts
  <2> QED
    BY <1>7, <2>1, <2>3, <2>4, <2>5 DEF SpacingFacts, Spaced
<1> QED
  BY <1>10, <1>11, <1>12 DEF AdmissionInv

LEMMA AdmissionSteps == AdmissionInv /\ [AdmissionNext]_admissionVars => AdmissionInv'
<1>1. ASSUME AdmissionInv, UNCHANGED admissionVars PROVE AdmissionInv'
  BY <1>1 DEF admissionVars, AdmissionInv, AdmissionTypeOK, RunFacts, SpacingFacts, Spaced, Newest
<1> QED
  BY <1>1, ScreeningMoves, ConsoleSteps, RunSteps, CommitSteps DEF AdmissionNext

\* Every variable of the admission keeps its type, for any number of requests and
\* sweeps (requestAssessment, verifyOwnership, sweepIntakeScreening).
THEOREM AdmissionTypeCorrect == AdmissionSpec => []AdmissionTypeOK
<1>1. AdmissionInv => AdmissionTypeOK
  BY DEF AdmissionInv
<1> QED
  BY AdmissionStarts, AdmissionSteps, <1>1, PTL DEF AdmissionSpec

\* No assessment is kept of a run whose authorisation was replaced or withdrawn
\* while it ran (persistOutcome, assert_assessment_is_authorised).
THEOREM WithdrawnRunsAreNotKept == AdmissionSpec => []NothingIsKeptFromAWithdrawnRun
<1>1. AdmissionInv => NothingIsKeptFromAWithdrawnRun
  BY DEF AdmissionInv, RunFacts, NothingIsKeptFromAWithdrawnRun
<1> QED
  BY AdmissionStarts, AdmissionSteps, <1>1, PTL DEF AdmissionSpec

\* A free assessment inside the cooldown of an earlier one could not have seen it,
\* for any cooldown and any number of requests and retries (decideAssessmentRequest).
THEOREM FreeRunsSpaced == AdmissionSpec => []FreeRunsAreSpaced
<1>1. ASSUME AdmissionInv PROVE FreeRunsAreSpaced
  <2>1. kept \in Seq(KeptRow) /\ Cooldown \in Nat
    BY <1>1, AdmissionAssumption DEF AdmissionInv, AdmissionTypeOK, KeptRow
  <2>2. ASSUME NEW i \in DOMAIN kept, NEW j \in DOMAIN kept, i < j,
               kept[j].verdict.plan = "free",
               kept[j].verdict.decided < kept[i].completed + Cooldown,
               ~(kept[j].verdict.seen < i)
        PROVE  FALSE
    <3>1. /\ kept[j].verdict.seen \in Nat /\ kept[j].verdict.decided \in Nat
          /\ kept[i].completed \in Nat /\ i \in Nat \ {0}
      BY <1>1, KeptRows DEF AdmissionInv
    <3>2. i \in 1..kept[j].verdict.seen
      BY <2>2, <3>1
    <3>3. kept[i].completed + Cooldown <= kept[j].verdict.decided
      BY <1>1, <2>2, <3>2 DEF AdmissionInv, SpacingFacts, Spaced
    <3> QED
      BY <2>1, <2>2, <3>1, <3>3
  <2> QED
    BY <2>2 DEF FreeRunsAreSpaced
<1> QED
  BY AdmissionStarts, AdmissionSteps, <1>1, PTL DEF AdmissionSpec

\* A decision on acceptable use is changed by a reviewer and by nobody else: for
\* any sweeps and submissions (record_automated_screening, record_intake_screening).
THEOREM DecisionsStand == AdmissionSpec => DecisionStands
<1>1. ASSUME AdmissionNext, screening.status # "pending", screening' # screening
      PROVE  screening'.by = "reviewer"
  <2>1. ASSUME NEW s \in Screeners, ScreenerStep(s) PROVE FALSE
    BY <1>1, <2>1 DEF ScreenerStep, ReadSubmission, JudgeSubmission, SelectSubmission,
       ClearSubmission, PendingStill
  <2>2. ASSUME NEW t \in Tabs, TabStep(t) PROVE FALSE
    BY <1>1, <2>2 DEF TabStep, ReadChallenge, OwnershipShown, ReadToWithdraw, Withdraw, TabFails,
       ReadToAsk, CountReTests, DecideRequest, QueueRequest, ConsoleRests
  <2>3. CASE RecordIntake \/ Rewrite \/ ReviewerDecides
    BY <1>1, <2>3 DEF RecordIntake, Rewrite, ReviewerDecides, PendingStill, Decide
  <2>4. CASE StartAuthorisation \/ SubscriptionMoves \/ PurchaseMoves \/ MonthPasses
    BY <1>1, <2>4 DEF StartAuthorisation, ConsoleRests, SubscriptionMoves, PurchaseMoves, MonthPasses
  <2>5. CASE CancelTicket \/ ClaimTicket \/ GateRun \/ TakeAuthorisation \/ WriteAssessment
             \/ CommitAssessment \/ RunIsLost
    BY <1>1, <2>5 DEF CancelTicket, ClaimTicket, GateRun, TakeAuthorisation, WriteAssessment,
       CommitAssessment, RunIsLost, TicketGoes, TicketEnds, RunGoes
  <2> QED
    BY <1>1, <2>1, <2>2, <2>3, <2>4, <2>5 DEF AdmissionNext
<1>2. [AdmissionNext]_admissionVars =>
        [screening.status # "pending" /\ screening' # screening
          => screening'.by = "reviewer"]_admissionVars
  BY <1>1
<1> QED
  BY <1>2, PTL DEF AdmissionSpec, DecisionStands

----------------------------------------------------------------------------
(* The stages, and what each pass of one has behind it                      *)

LEMMA StagesInOrder ==
  /\ Len(Stages) = 6 /\ DOMAIN Stages = 1..6
  /\ StageId = {"static_intake", "deterministic_checks", "functional_exploration",
                "adversarial_practicality", "game_experience", "store_readiness"}
  /\ \A i, j \in 1..6 : Stages[i] \in StageId /\ (Stages[i] = Stages[j] => i = j)
  /\ \A s \in StageId : \E i \in 1..6 : s = Stages[i]
  /\ ModelStages \subseteq StageId
<1>1. Len(Stages) = 6 /\ DOMAIN Stages = 1..6
  BY DEF Stages
<1>2. /\ Stages[1] = "static_intake" /\ Stages[2] = "deterministic_checks"
      /\ Stages[3] = "functional_exploration" /\ Stages[4] = "adversarial_practicality"
      /\ Stages[5] = "game_experience" /\ Stages[6] = "store_readiness"
  BY DEF Stages
<1>3. \A i \in 1..6 : i = 1 \/ i = 2 \/ i = 3 \/ i = 4 \/ i = 5 \/ i = 6
  OBVIOUS
<1>4. 1 \in 1..6 /\ 2 \in 1..6 /\ 3 \in 1..6 /\ 4 \in 1..6 /\ 5 \in 1..6 /\ 6 \in 1..6
  OBVIOUS
<1>5. StageId = {"static_intake", "deterministic_checks", "functional_exploration",
                 "adversarial_practicality", "game_experience", "store_readiness"}
  <2>1. \A s \in StageId : s \in {Stages[1], Stages[2], Stages[3], Stages[4], Stages[5], Stages[6]}
    BY <1>1, <1>3 DEF StageId
  <2>2. \A s \in {Stages[1], Stages[2], Stages[3], Stages[4], Stages[5], Stages[6]} : s \in StageId
    BY <1>1, <1>4 DEF StageId
  <2> QED
    BY <1>2, <2>1, <2>2
<1>6. \A i, j \in 1..6 : Stages[i] = Stages[j] => i = j
  <2> SUFFICES ASSUME NEW i \in 1..6, NEW j \in 1..6, Stages[i] = Stages[j] PROVE i = j
    OBVIOUS
  <2> QED
    BY <1>2, <1>3
<1>7. \A i \in 1..6 : Stages[i] \in StageId
  BY <1>1 DEF StageId
<1>8. \A s \in StageId : \E i \in 1..6 : s = Stages[i]
  BY <1>1 DEF StageId
<1> QED
  BY <1>1, <1>5, <1>6, <1>7, <1>8 DEF ModelStages

InnerPass == Pass \ {"enter", "synthesis", "done"}
ChecksPass == {"root", "probe", "browser", "trust", "design", "phone", "game", "exit"}

\* The criteria of deterministic_checks that the passes before one have answered or
\* written down.
BrowserCriteria == BrowserPassCriteria \cup TrustSurveyCriteria \cup DesignSurveyCriteria
Behind(p) ==
  CASE p = "probe" -> RootCriteria
    [] p = "browser" -> RootCriteria \cup ProbedCriteria
    [] p = "trust" -> RootCriteria \cup ProbedCriteria \cup {"UX-03"}
    [] p = "design" -> RootCriteria \cup ProbedCriteria \cup {"UX-03"} \cup TrustSurveyCriteria
    [] p = "phone" -> RootCriteria \cup ProbedCriteria \cup {"UX-03"} \cup TrustSurveyCriteria
                        \cup DesignSurveyCriteria
    [] p = "game" -> RootCriteria \cup ProbedCriteria \cup BrowserCriteria
    [] p \in {"compute", "exit"} -> RootCriteria \cup ProbedCriteria \cup BrowserCriteria
                                      \cup IF target.isGame THEN GamePassCriteria ELSE {}
    [] OTHER -> {}

Noted(d) == d.looked \cup d.notTested
Answers(s, noted) == Puts(s) \subseteq noted \cup WithoutACheck

DraftFacts ==
  /\ pass \in {"repository", "scan"} => Current = "static_intake"
  /\ pass \in ChecksPass => Current = "deterministic_checks" /\ Behind(pass) \subseteq Noted(draft)
  /\ pass \in {"open", "explore", "extract"} => Current \in ModelStages
  /\ pass = "compute" =>
       \/ Current = "deterministic_checks" /\ Behind(pass) \subseteq Noted(draft)
       \/ Current \in ModelStages /\ Answers(Current, Noted(draft))

Standing(s) ==
  /\ result[s].status # "none"
  /\ result[s].status = "skipped" => ~Applies(s)
  /\ result[s].status = "succeeded" => Answers(s, Noted(result[s]))
  /\ result[s].status \in {"skipped", "unreached", "failed", "succeeded", "aborted"}

PipelineFacts ==
  /\ stage \in 0..6 /\ pass \in Pass /\ DOMAIN result = StageId
  /\ DOMAIN draft = {"looked", "notTested", "complete"}
  /\ pass \in InnerPass => stage < 6
  /\ pass \in {"synthesis", "done"} => stage = 6
  /\ \A i \in 1..6 : i <= stage => Standing(Stages[i])
  /\ DraftFacts

LEMMA RunStarts == RunInit => PipelineFacts
<1> SUFFICES ASSUME RunInit PROVE PipelineFacts
  OBVIOUS
<1>1. stage = 0 /\ pass = "enter" /\ draft = Blank /\ result = [s \in StageId |-> Untried]
  BY DEF RunInit
<1>2. DraftFacts
  BY <1>1 DEF DraftFacts, ChecksPass
<1> QED
  BY <1>1, <1>2 DEF PipelineFacts, InnerPass, Pass, Blank

\* What does not change over a run.
LEMMA SameRun ==
  ASSUME UNCHANGED target
  PROVE  /\ \A s : Applies(s)' <=> Applies(s)
         /\ \A s, noted : Answers(s, noted)' <=> Answers(s, noted)
         /\ \A p : Behind(p)' = Behind(p)
         /\ WithoutACheck' = WithoutACheck /\ \A s : Puts(s)' = Puts(s)
<1>1. WithoutACheck' = WithoutACheck /\ \A s : Puts(s)' = Puts(s)
  BY DEF WithoutACheck, Puts
<1>2. \A s : Applies(s)' <=> Applies(s)
  BY DEF Applies
<1>3. \A s, noted : Answers(s, noted)' <=> Answers(s, noted)
  BY <1>1 DEF Answers
<1>4. \A p : Behind(p)' = Behind(p)
  BY DEF Behind
<1> QED
  BY <1>1, <1>2, <1>3, <1>4

\* An attempt goes on to the next of its passes.
LEMMA AttemptGoesOn ==
  ASSUME PipelineFacts, pass \in InnerPass, pass' \in InnerPass,
         UNCHANGED <<target, stage, result>>, DOMAIN draft' = {"looked", "notTested", "complete"},
         DraftFacts'
  PROVE  PipelineFacts'
<1>1. \A i \in 1..6 : i <= stage => Standing(Stages[i])'
  BY SameRun DEF PipelineFacts, Standing
<1> QED
  BY <1>1 DEF PipelineFacts, InnerPass, Pass

LEMMA StageSettles ==
  ASSUME PipelineFacts, stage < 6, NEW status, NEW looked, NEW notTested, Settle(status, looked, notTested),
         status \in {"skipped", "unreached", "failed", "succeeded", "aborted"},
         status = "skipped" => ~Applies(Current),
         status = "succeeded" => Answers(Current, looked \cup notTested)
  PROVE  PipelineFacts'
<1> DEFINE row == [status |-> status, looked |-> looked, notTested |-> notTested]
<1>1. /\ result' = [result EXCEPT ![Current] = row] /\ stage' = stage + 1 /\ pass' = "enter"
      /\ draft' = Blank /\ UNCHANGED target
  BY DEF Settle
<1>2. row.status = status /\ row.looked = looked /\ row.notTested = notTested
  OBVIOUS
<1> HIDE DEF row
<1>3. stage \in 0..6 /\ stage + 1 \in 1..6 /\ Current \in StageId
  BY StagesInOrder DEF PipelineFacts, Current
<1>4. /\ DOMAIN result' = StageId /\ result'[Current] = row
      /\ \A s \in StageId : s # Current => result'[s] = result[s]
  BY <1>1, <1>3 DEF PipelineFacts
<1>5. ASSUME NEW i \in 1..6, i <= stage + 1 PROVE Standing(Stages[i])'
  <2>1. CASE i = stage + 1
    <3>1. Stages[i] = Current
      BY <2>1 DEF Current
    <3>2. Noted(result'[Current]) = looked \cup notTested
      BY <1>2, <1>4 DEF Noted
    <3>3. Answers(Stages[i], Noted(result[Stages[i]]))' <=> Answers(Stages[i], looked \cup notTested)
      BY <1>1, <3>1, <3>2, SameRun DEF Answers
    <3>4. Applies(Stages[i])' <=> Applies(Stages[i])
      BY <1>1, SameRun
    <3> QED
      BY <1>2, <1>4, <3>1, <3>3, <3>4 DEF Standing
  <2>2. CASE i # stage + 1
    <3>1. i <= stage /\ Stages[i] \in StageId /\ Stages[i] # Current
      BY <1>3, <1>5, <2>2, StagesInOrder DEF Current
    <3>2. Standing(Stages[i]) /\ result'[Stages[i]] = result[Stages[i]]
      BY <1>4, <3>1 DEF PipelineFacts
    <3> QED
      BY <1>1, <3>2, SameRun DEF Standing
  <2> QED
    BY <2>1, <2>2
<1>6. DraftFacts'
  BY <1>1 DEF DraftFacts, ChecksPass
<1> QED
  BY <1>1, <1>3, <1>4, <1>5, <1>6 DEF PipelineFacts, Blank, Pass, InnerPass

LEMMA AttemptFails ==
  ASSUME PipelineFacts, pass \in InnerPass, NEW looked, NEW notTested, Fail(looked, notTested)
  PROVE  PipelineFacts'
<1>1. CASE pass' = "settle" /\ draft' = Blank /\ UNCHANGED <<target, stage, result>>
  <2>1. DraftFacts' /\ pass' \in InnerPass
    BY <1>1 DEF DraftFacts, ChecksPass, InnerPass, Pass
  <2> QED
    BY <1>1, <2>1, AttemptGoesOn DEF Blank
<1>2. CASE Settle("failed", looked, notTested)
  BY <1>2, StageSettles DEF PipelineFacts
<1> QED
  BY <1>1, <1>2 DEF Fail

LEMMA RunIsStopped == ASSUME PipelineFacts, pass \in InnerPass, Abort PROVE PipelineFacts'
BY StageSettles DEF PipelineFacts, Abort

\* A pass that adds to the attempt's notes.
LEMMA AttemptNotes ==
  ASSUME PipelineFacts, NEW next, NEW looked, NEW notTested,
         Proceed(next, looked, notTested)
           \/ (looked = {} /\ Miss(next, notTested))
  PROVE  /\ pass' = next /\ UNCHANGED <<target, stage, result>>
         /\ DOMAIN draft' = {"looked", "notTested", "complete"}
         /\ Noted(draft') = Noted(draft) \cup looked \cup notTested
         /\ Current' = Current
<1>1. pass' = next /\ UNCHANGED <<target, stage, result>>
  BY DEF Proceed, Miss
<1>2. DOMAIN draft = {"looked", "notTested", "complete"}
  BY DEF PipelineFacts
<1>3. CASE Proceed(next, looked, notTested)
  <2>1. draft' = [draft EXCEPT !.looked = @ \cup looked, !.notTested = @ \cup notTested]
    BY <1>3 DEF Proceed
  <2>2. DOMAIN draft' = {"looked", "notTested", "complete"}
        /\ draft'.looked = draft.looked \cup looked /\ draft'.notTested = draft.notTested \cup notTested
    BY <1>2, <2>1
  <2> QED
    BY <1>1, <2>2 DEF Noted, Current
<1>4. CASE looked = {} /\ Miss(next, notTested)
  <2>1. draft' = [draft EXCEPT !.notTested = @ \cup notTested, !.complete = FALSE]
    BY <1>4 DEF Miss
  <2>2. DOMAIN draft' = {"looked", "notTested", "complete"}
        /\ draft'.looked = draft.looked /\ draft'.notTested = draft.notTested \cup notTested
    BY <1>2, <2>1
  <2> QED
    BY <1>1, <1>4, <2>2 DEF Noted, Current
<1> QED
  BY <1>3, <1>4

\* A pass of the deterministic checks leads to the next of them.
LEMMA ChecksGoOn ==
  ASSUME PipelineFacts, pass \in InnerPass, Current = "deterministic_checks",
         NEW next \in ChecksPass \cup {"compute"}, NEW looked, NEW notTested,
         Proceed(next, looked, notTested)
           \/ (looked = {} /\ Miss(next, notTested)),
         Behind(next) \subseteq Noted(draft) \cup looked \cup notTested
  PROVE  PipelineFacts'
<1>1. /\ pass' = next /\ UNCHANGED <<target, stage, result>>
      /\ DOMAIN draft' = {"looked", "notTested", "complete"}
      /\ Noted(draft') = Noted(draft) \cup looked \cup notTested /\ Current' = Current
  BY AttemptNotes
<1>2. Behind(pass)' = Behind(next)
  BY <1>1 DEF Behind
<1>3. DraftFacts'
  BY <1>1, <1>2 DEF DraftFacts, ChecksPass
<1>4. pass' \in InnerPass
  BY <1>1 DEF ChecksPass, InnerPass, Pass
<1> QED
  BY <1>1, <1>3, <1>4, AttemptGoesOn

----------------------------------------------------------------------------
(* The passes                                                               *)

LEMMA StageIsEntered == ASSUME PipelineFacts, EnterStage PROVE PipelineFacts'
<1>1. pass = "enter" /\ stage < 6
  BY StagesInOrder DEF EnterStage
<1>2. CASE pass' = "settle" /\ UNCHANGED <<target, stage, draft, result>>
  <2>1. DraftFacts'
    BY <1>2 DEF DraftFacts, ChecksPass
  <2>2. \A i \in 1..6 : i <= stage => Standing(Stages[i])'
    BY <1>2, SameRun DEF PipelineFacts, Standing
  <2> QED
    BY <1>1, <1>2, <2>1, <2>2 DEF PipelineFacts, InnerPass, Pass
<1>3. CASE ~Applies(Current) /\ Settle("skipped", {}, {})
  BY <1>1, <1>3, StageSettles
<1>4. CASE Settle("unreached", {}, {})
  BY <1>1, <1>4, StageSettles
<1> QED
  BY <1>2, <1>3, <1>4 DEF EnterStage

LEMMA AttemptBegins == ASSUME PipelineFacts, BeginAttempt PROVE PipelineFacts'
<1>1. pass = "settle" /\ Proceed(FirstPass, {}, {})
  BY DEF BeginAttempt
<1>2. /\ pass' = FirstPass /\ UNCHANGED <<target, stage, result>> /\ Current' = Current
      /\ DOMAIN draft' = {"looked", "notTested", "complete"}
  BY <1>1, AttemptNotes
<1>3. Current \in StageId
  <2>1. stage + 1 \in 1..6
    BY <1>1 DEF PipelineFacts, InnerPass, Pass
  <2> QED
    BY <2>1, StagesInOrder DEF Current
<1>4. \/ Current = "static_intake" /\ FirstPass = "repository"
      \/ Current = "deterministic_checks" /\ FirstPass = "root"
      \/ Current \in ModelStages /\ FirstPass = "open"
  BY <1>3, StagesInOrder DEF FirstPass, ModelStages
<1>5. Behind("root")' = {}
  BY DEF Behind
<1>6. DraftFacts'
  BY <1>2, <1>4, <1>5 DEF DraftFacts, ChecksPass
<1>7. pass \in InnerPass /\ pass' \in InnerPass
  BY <1>1, <1>2, <1>4 DEF InnerPass, Pass
<1> QED
  BY <1>2, <1>6, <1>7, AttemptGoesOn

LEMMA RepositoryIsRead == ASSUME PipelineFacts, ReadRepository \/ ScanRepository PROVE PipelineFacts'
<1>1. pass \in {"repository", "scan"} /\ pass \in InnerPass /\ Current = "static_intake" /\ stage < 6
  BY DEF ReadRepository, ScanRepository, InnerPass, Pass, PipelineFacts, DraftFacts
<1>2. CASE \E looked, notTested : Fail(looked, notTested)
  BY <1>1, <1>2, AttemptFails
<1>3. CASE Abort
  BY <1>1, <1>3, RunIsStopped
<1>4. CASE Proceed("scan", {}, {})
  <2>1. /\ pass' = "scan" /\ UNCHANGED <<target, stage, result>> /\ Current' = Current
        /\ DOMAIN draft' = {"looked", "notTested", "complete"}
    BY <1>4, AttemptNotes
  <2>2. DraftFacts' /\ pass' \in InnerPass
    BY <1>1, <2>1 DEF DraftFacts, ChecksPass, InnerPass, Pass
  <2> QED
    BY <1>1, <2>1, <2>2, AttemptGoesOn
<1>5. ASSUME NEW checked \in SUBSET {"SEC-10"},
             Settle("succeeded", {"SEC-04", "PRD-04"} \cup checked, {"SEC-10"} \ checked)
      PROVE  PipelineFacts'
  <2>1. AskedByStage["static_intake"] = {"PRD-04", "SEC-04", "SEC-10"}
    BY StagesInOrder DEF AskedByStage
  <2>2. Answers(Current, ({"SEC-04", "PRD-04"} \cup checked) \cup ({"SEC-10"} \ checked))
    BY <1>1, <2>1 DEF Answers, Puts
  <2> QED
    BY <1>1, <1>5, <2>2, StageSettles
<1> QED
  BY <1>2, <1>3, <1>4, <1>5 DEF ReadRepository, ScanRepository

LEMMA ChecksAreOf ==
  ASSUME PipelineFacts, pass \in ChecksPass
  PROVE  /\ pass \in InnerPass /\ Current = "deterministic_checks"
         /\ Behind(pass) \subseteq Noted(draft)
BY DEF PipelineFacts, DraftFacts, ChecksPass, InnerPass, Pass

LEMMA RootIsRequested == ASSUME PipelineFacts, RequestRoot PROVE PipelineFacts'
<1>1. pass = "root" /\ pass \in InnerPass /\ Current = "deterministic_checks"
  BY ChecksAreOf DEF RequestRoot, ChecksPass
<1>2. CASE \E looked, notTested : Fail(looked, notTested)
  BY <1>1, <1>2, AttemptFails
<1>3. CASE Abort
  BY <1>1, <1>3, RunIsStopped
<1>4. ASSUME NEW noCookie \in SUBSET {"SEC-03"}, Proceed("probe", RootCriteria \ noCookie, noCookie)
      PROVE  PipelineFacts'
  <2>1. Behind("probe") \subseteq Noted(draft) \cup (RootCriteria \ noCookie) \cup noCookie
    BY DEF Behind
  <2> QED
    BY <1>1, <1>4, <2>1, ChecksGoOn DEF ChecksPass
<1> QED
  BY <1>2, <1>3, <1>4 DEF RequestRoot, Refused

LEMMA PathsAreProbed == ASSUME PipelineFacts, ProbePaths PROVE PipelineFacts'
<1>1. /\ pass = "probe" /\ pass \in InnerPass /\ Current = "deterministic_checks"
      /\ Behind(pass) \subseteq Noted(draft)
  BY ChecksAreOf DEF ProbePaths, ChecksPass
<1>2. CASE Abort
  BY <1>1, <1>2, RunIsStopped
<1>3. ASSUME NEW nothing \in SUBSET ProbedCriteria, Proceed("browser", ProbedCriteria \ nothing, nothing)
      PROVE  PipelineFacts'
  <2>1. Behind("browser") = Behind(pass) \cup ProbedCriteria
    BY <1>1 DEF Behind
  <2>2. Behind("browser") \subseteq Noted(draft) \cup (ProbedCriteria \ nothing) \cup nothing
    BY <1>1, <2>1
  <2> QED
    BY <1>1, <1>3, <2>2, ChecksGoOn DEF ChecksPass
<1> QED
  BY <1>2, <1>3 DEF ProbePaths, Refused

\* The browser pass dies, whichever of its criteria it had answered.
LEMMA BrowserPassDies ==
  ASSUME PipelineFacts, pass \in {"browser", "phone"}, BrowserDies PROVE PipelineFacts'
<1>1. /\ pass \in InnerPass /\ Current = "deterministic_checks" /\ Behind(pass) \subseteq Noted(draft)
  BY ChecksAreOf DEF ChecksPass
<1>2. RootCriteria \cup ProbedCriteria \subseteq Behind(pass)
  BY DEF Behind
<1>3. Behind(AfterBrowser) = RootCriteria \cup ProbedCriteria \cup BrowserCriteria
  BY DEF Behind, AfterBrowser
<1>4. Behind(AfterBrowser) \subseteq Noted(draft) \cup {} \cup BrowserCriteria
  BY <1>1, <1>2, <1>3
<1>5. AfterBrowser \in ChecksPass \cup {"compute"}
  BY DEF AfterBrowser, ChecksPass
<1>6. Miss(AfterBrowser, BrowserCriteria)
  BY DEF BrowserDies, BrowserCriteria
<1> QED
  BY <1>1, <1>4, <1>5, <1>6, ChecksGoOn

LEMMA BrowserIsOpened == ASSUME PipelineFacts, OpenBrowser PROVE PipelineFacts'
<1>1. /\ pass = "browser" /\ pass \in InnerPass /\ Current = "deterministic_checks"
      /\ Behind(pass) \subseteq Noted(draft)
  BY ChecksAreOf DEF OpenBrowser, ChecksPass
<1>2. CASE Abort
  BY <1>1, <1>2, RunIsStopped
<1>3. CASE BrowserDies
  BY <1>1, <1>3, BrowserPassDies
<1>4. CASE Proceed("trust", {"UX-03"}, {})
  <2>1. Behind("trust") = Behind(pass) \cup {"UX-03"}
    BY <1>1 DEF Behind
  <2> QED
    BY <1>1, <1>4, <2>1, ChecksGoOn DEF ChecksPass
<1> QED
  BY <1>2, <1>3, <1>4 DEF OpenBrowser, Refused

LEMMA TrustIsSurveyed == ASSUME PipelineFacts, SurveyTrust PROVE PipelineFacts'
<1>1. /\ pass = "trust" /\ pass \in InnerPass /\ Current = "deterministic_checks"
      /\ Behind(pass) \subseteq Noted(draft)
  BY ChecksAreOf DEF SurveyTrust, ChecksPass
<1>2. CASE Abort
  BY <1>1, <1>2, RunIsStopped
<1>3. ASSUME NEW missed \in SUBSET TrustSurveyCriteria,
             Proceed("design", TrustSurveyCriteria \ missed, missed)
      PROVE  PipelineFacts'
  <2>1. Behind("design") = Behind(pass) \cup TrustSurveyCriteria
    BY <1>1 DEF Behind
  <2>2. Behind("design") \subseteq Noted(draft) \cup (TrustSurveyCriteria \ missed) \cup missed
    BY <1>1, <2>1
  <2> QED
    BY <1>1, <1>3, <2>2, ChecksGoOn DEF ChecksPass
<1>4. \A survey : TrustNotTested(survey, target.hasPayments) \in SUBSET TrustSurveyCriteria
  BY DEF TrustNotTested
<1>5. TrustSurveyCriteria \ TrustSurveyCriteria = {}
  OBVIOUS
<1> QED
  BY <1>2, <1>3, <1>4, <1>5 DEF SurveyTrust, Refused

LEMMA DesignIsSurveyed == ASSUME PipelineFacts, SurveyDesign PROVE PipelineFacts'
<1>1. /\ pass = "design" /\ pass \in InnerPass /\ Current = "deterministic_checks"
      /\ Behind(pass) \subseteq Noted(draft)
  BY ChecksAreOf DEF SurveyDesign, ChecksPass
<1>2. Behind("phone") = Behind(pass) \cup DesignSurveyCriteria
  BY <1>1 DEF Behind
<1>3. Proceed("phone", DesignSurveyCriteria, {}) \/ Proceed("phone", {}, DesignSurveyCriteria)
  BY DEF SurveyDesign
<1> QED
  BY <1>1, <1>2, <1>3, ChecksGoOn DEF ChecksPass

LEMMA PhoneIsSurveyed == ASSUME PipelineFacts, SurveyPhone PROVE PipelineFacts'
<1>1. /\ pass = "phone" /\ pass \in InnerPass /\ Current = "deterministic_checks"
      /\ Behind(pass) \subseteq Noted(draft)
  BY ChecksAreOf DEF SurveyPhone, ChecksPass
<1>2. CASE Abort
  BY <1>1, <1>2, RunIsStopped
<1>3. CASE BrowserDies
  BY <1>1, <1>3, BrowserPassDies
<1>4. CASE Proceed(AfterBrowser, {"UX-02", "PRD-02"}, {})
  <2>1. Behind(AfterBrowser) = RootCriteria \cup ProbedCriteria \cup BrowserCriteria
    BY DEF Behind, AfterBrowser
  <2>2. Behind(pass) = RootCriteria \cup ProbedCriteria \cup {"UX-03"} \cup TrustSurveyCriteria
                         \cup DesignSurveyCriteria
    BY <1>1 DEF Behind
  <2>3. BrowserCriteria = {"UX-03"} \cup TrustSurveyCriteria \cup DesignSurveyCriteria
                            \cup {"UX-02", "PRD-02"}
    BY DEF BrowserCriteria, BrowserPassCriteria
  <2>4. Behind(AfterBrowser) \subseteq Noted(draft) \cup {"UX-02", "PRD-02"} \cup {}
    BY <1>1, <2>1, <2>2, <2>3
  <2>5. AfterBrowser \in ChecksPass \cup {"compute"}
    BY DEF AfterBrowser, ChecksPass
  <2> QED
    BY <1>1, <1>4, <2>4, <2>5, ChecksGoOn
<1> QED
  BY <1>2, <1>3, <1>4 DEF SurveyPhone, Refused

LEMMA GameIsPlayed == ASSUME PipelineFacts, PlayGame PROVE PipelineFacts'
<1>1. /\ pass = "game" /\ pass \in InnerPass /\ Current = "deterministic_checks"
      /\ Behind(pass) \subseteq Noted(draft)
  BY ChecksAreOf DEF PlayGame, ChecksPass
<1>2. CASE Abort
  BY <1>1, <1>2, RunIsStopped
<1>3. CASE Proceed("compute", GamePassCriteria, {}) \/ Miss("compute", GamePassCriteria)
  <2>1. Behind("compute") \subseteq Behind(pass) \cup GamePassCriteria
    BY <1>1 DEF Behind
  <2>2. /\ Behind("compute") \subseteq Noted(draft) \cup GamePassCriteria \cup {}
        /\ Behind("compute") \subseteq Noted(draft) \cup {} \cup GamePassCriteria
    BY <1>1, <2>1
  <2> QED
    BY <1>1, <1>3, <2>2, ChecksGoOn
<1> QED
  BY <1>2, <1>3 DEF PlayGame, Refused

LEMMA ComputeIsRecorded == ASSUME PipelineFacts, RecordCompute PROVE PipelineFacts'
<1>1. pass = "compute" /\ pass \in InnerPass /\ stage < 6
  BY DEF RecordCompute, InnerPass, Pass, PipelineFacts
<1>2. CASE Abort
  BY <1>1, <1>2, RunIsStopped
<1>3. CASE Current = "deterministic_checks" /\ Proceed("exit", {}, {})
  <2>1. Behind("exit") = Behind(pass) /\ Current \notin ModelStages
    BY <1>1, <1>3 DEF Behind, ModelStages
  <2>2. Behind("exit") \subseteq Noted(draft)
    BY <1>1, <2>1 DEF PipelineFacts, DraftFacts
  <2> QED
    BY <1>1, <1>3, <2>2, ChecksGoOn DEF ChecksPass
<1>4. CASE Current \in ModelStages /\ Succeed
  <2>1. Current # "deterministic_checks"
    BY <1>4 DEF ModelStages
  <2>2. Answers(Current, draft.looked \cup draft.notTested)
    BY <1>1, <1>4, <2>1 DEF PipelineFacts, DraftFacts, Noted
  <2> QED
    BY <1>1, <1>4, <2>2, StageSettles DEF Succeed
<1> QED
  BY <1>2, <1>3, <1>4 DEF RecordCompute

\* What deterministic_checks has answered by then is what it asks, but for what it
\* asks of games only.
LEMMA ChecksAnswerAll ==
  ASSUME Behind("exit") \subseteq Noted(draft) PROVE Answers("deterministic_checks", Noted(draft))
<1>1. AskedByStage["deterministic_checks"] =
        RootCriteria \cup ProbedCriteria \cup BrowserPassCriteria
          \cup TrustSurveyCriteria \cup DesignSurveyCriteria \cup GamePassCriteria
  BY StagesInOrder DEF AskedByStage
<1>2. Behind("exit") = RootCriteria \cup ProbedCriteria \cup BrowserCriteria
                         \cup IF target.isGame THEN GamePassCriteria ELSE {}
  BY DEF Behind
<1>3. ~target.isGame => GamePassCriteria \ OfAGame \subseteq BrowserPassCriteria \cup WithoutACheck
  BY DEF GamePassCriteria, BrowserPassCriteria, OfAGame, WithoutACheck
<1>4. Puts("deterministic_checks") =
        AskedByStage["deterministic_checks"] \ (IF target.isGame THEN {} ELSE OfAGame)
  BY DEF Puts
<1> QED
  BY <1>1, <1>2, <1>3, <1>4 DEF Answers, BrowserCriteria

LEMMA ExitIsWalked == ASSUME PipelineFacts, WalkToTheExit PROVE PipelineFacts'
<1>1. /\ pass = "exit" /\ pass \in InnerPass /\ Current = "deterministic_checks" /\ stage < 6
      /\ Behind(pass) \subseteq Noted(draft)
  BY ChecksAreOf DEF WalkToTheExit, ChecksPass, PipelineFacts
<1>2. CASE Abort
  BY <1>1, <1>2, RunIsStopped
<1>3. CASE Succeed
  <2>1. Answers(Current, draft.looked \cup draft.notTested)
    BY <1>1, ChecksAnswerAll DEF Noted
  <2> QED
    BY <1>1, <1>3, <2>1, StageSettles DEF Succeed
<1>4. CASE Fail(draft.looked, draft.notTested)
  BY <1>1, <1>4, AttemptFails
<1> QED
  BY <1>2, <1>3, <1>4 DEF WalkToTheExit, Refused

LEMMA ModelStageRuns == ASSUME PipelineFacts, OpenPage \/ Explore \/ Extract PROVE PipelineFacts'
<1>1. pass \in {"open", "explore", "extract"} /\ pass \in InnerPass /\ Current \in ModelStages
  BY DEF OpenPage, Explore, Extract, InnerPass, Pass, PipelineFacts, DraftFacts
<1>2. CASE Abort
  BY <1>1, <1>2, RunIsStopped
<1>3. CASE Fail({}, {})
  BY <1>1, <1>3, AttemptFails
<1>4. ASSUME NEW next \in {"explore", "extract"}, Proceed(next, {}, {}) PROVE PipelineFacts'
  <2>1. /\ pass' = next /\ UNCHANGED <<target, stage, result>> /\ Current' = Current
        /\ DOMAIN draft' = {"looked", "notTested", "complete"}
    BY <1>4, AttemptNotes
  <2>2. DraftFacts' /\ pass' \in InnerPass
    BY <1>1, <2>1 DEF DraftFacts, ChecksPass, InnerPass, Pass
  <2> QED
    BY <1>1, <2>1, <2>2, AttemptGoesOn
<1>5. CASE UNCHANGED <<target, stage, pass, draft, result>>
  <2>1. DraftFacts' /\ pass' \in InnerPass
    BY <1>1, <1>5 DEF PipelineFacts, DraftFacts, ChecksPass, InnerPass, Pass, Current
  <2> QED
    BY <1>1, <1>5, <2>1, AttemptGoesOn DEF PipelineFacts
<1>6. CASE Proceed("compute", AskedByStage[Current], {})
  <2>1. /\ pass' = "compute" /\ UNCHANGED <<target, stage, result>> /\ Current' = Current
        /\ DOMAIN draft' = {"looked", "notTested", "complete"}
        /\ Noted(draft') = Noted(draft) \cup AskedByStage[Current] \cup {}
    BY <1>6, AttemptNotes
  <2>2. Answers(Current, Noted(draft))'
    <3>1. AskedByStage[Current] \subseteq Noted(draft')
      BY <2>1
    <3>2. Puts(Current) \subseteq AskedByStage[Current] /\ Puts(Current)' = Puts(Current)
      BY <2>1 DEF Puts
    <3> QED
      BY <2>1, <3>1, <3>2 DEF Answers, Noted
  <2>3. DraftFacts' /\ pass' \in InnerPass
    BY <1>1, <2>1, <2>2 DEF DraftFacts, ChecksPass, InnerPass, Pass
  <2> QED
    BY <1>1, <2>1, <2>3, AttemptGoesOn
<1> QED
  BY <1>2, <1>3, <1>4, <1>5, <1>6 DEF OpenPage, Explore, Extract, Refused

\* What leaves the stages as they are.
LEMMA StagesRest ==
  ASSUME PipelineFacts, UNCHANGED <<target, stage, draft, result>>,
         pass' = pass \/ (stage = 6 /\ pass' \in {"synthesis", "done"})
  PROVE  PipelineFacts'
<1>1. \A i \in 1..6 : i <= stage => Standing(Stages[i])'
  BY SameRun DEF PipelineFacts, Standing
<1>2. DraftFacts'
  <2>1. Behind(pass)' = IF pass' = pass THEN Behind(pass) ELSE {}
    BY DEF Behind
  <2>2. \A s, noted : Answers(s, noted)' <=> Answers(s, noted)
    BY SameRun
  <2>3. Current' = Current
    BY DEF Current
  <2>4. CASE pass' = pass
    BY <2>1, <2>2, <2>3, <2>4 DEF PipelineFacts, DraftFacts, Answers
  <2>5. CASE pass' \in {"synthesis", "done"}
    BY <2>5 DEF DraftFacts, ChecksPass
  <2> QED
    BY <2>4, <2>5
<1> QED
  BY <1>1, <1>2 DEF PipelineFacts, InnerPass, Pass

LEMMA PipelineSteps == PipelineFacts /\ [RunNext]_runVars => PipelineFacts'
<1> SUFFICES ASSUME PipelineFacts, [RunNext]_runVars PROVE PipelineFacts'
  OBVIOUS
<1>1. CASE UNCHANGED runVars
  BY <1>1, StagesRest DEF runVars
<1>2. CASE CeilingReached
  BY <1>2, StagesRest DEF CeilingReached
<1>3. CASE FinishStages
  BY <1>3, StagesRest, StagesInOrder DEF FinishStages
<1>4. CASE Synthesise
  BY <1>4, StagesRest DEF Synthesise, PipelineFacts
<1> QED
  BY <1>1, <1>2, <1>3, <1>4, StageIsEntered, AttemptBegins, RepositoryIsRead, RootIsRequested,
     PathsAreProbed, BrowserIsOpened, TrustIsSurveyed, DesignIsSurveyed, PhoneIsSurveyed,
     GameIsPlayed, ComputeIsRecorded, ExitIsWalked, ModelStageRuns DEF RunNext, RunStep

\* What the table gives deterministic_checks, and it asks of games only, no other stage
\* asks but the exploration, FI-01.
LEMMA OnlyTheExplorationAsks ==
  ASSUME NEW s \in StageId, s # "deterministic_checks", NEW c \in AskedByStage[s], c \in OfAGame
  PROVE  c = "FI-01" /\ s = "functional_exploration"
<1>1. /\ s = "static_intake" => AskedByStage[s] = {"PRD-04", "SEC-04", "SEC-10"}
      /\ s = "adversarial_practicality" => AskedByStage[s] = {"SEC-06", "SEC-07", "SEC-09"}
      /\ s = "game_experience" => AskedByStage[s] = {}
      /\ s = "store_readiness" =>
           AskedByStage[s] = {"STR-01", "STR-02", "STR-04", "STR-05", "STR-06", "STR-07"}
      /\ s = "functional_exploration" =>
           AskedByStage[s] = {"FI-01", "FI-03", "FI-04", "FI-05", "FI-06", "UX-01", "UX-05"}
  BY DEF AskedByStage
<1>2. s \in {"static_intake", "functional_exploration", "adversarial_practicality",
            "game_experience", "store_readiness"}
  BY StagesInOrder
<1>3. c \in {"FI-01", "FI-07"}
  BY DEF OfAGame
<1> QED
  BY <1>1, <1>2, <1>3

\* Whatever fails, is retried, is stopped or dies half way, every criterion a stage of
\* the run asks was looked at by the attempt whose result stands or is written down as
\* not tested, except FI-01 of something that is not a game, which a finished
\* deterministic_checks is taken to have asked (runPipeline, unasked,
\* notTestedCriteria), for any targets, costs and ceilings.
THEOREM NothingIsTickedUnseen == RunSpec => []EveryQuestionIsAccountedFor
<1>1. ASSUME PipelineFacts PROVE EveryQuestionIsAccountedFor
  <2> SUFFICES ASSUME pass = "done", NEW s \in StageId, Applies(s), NEW c \in Puts(s)
               PROVE  AccountedFor(c) \/ TakenAsAsked(c)
    BY DEF EveryQuestionIsAccountedFor
  <2>1. \A t \in StageId : Standing(t)
    BY <1>1, StagesInOrder DEF PipelineFacts
  <2> DEFINE behind == IF target.noTestAccount THEN BehindASignIn ELSE {}
             noted == UNION {result[t].notTested : t \in StageId}
  <2>2. NotTestedCriteria = noted \cup WithoutACheck \cup Unasked \cup behind
    BY DEF NotTestedCriteria
  <2>3. ASSUME NEW t \in StageId, result[t].status = "succeeded", c \in Puts(t)
        PROVE  AccountedFor(c)
    <3>1. c \in Noted(result[t]) \cup WithoutACheck
      BY <2>1, <2>3 DEF Standing, Answers
    <3>2. result[t].looked \subseteq LookedAt
      BY DEF LookedAt
    <3>3. result[t].notTested \subseteq noted
      OBVIOUS
    <3> HIDE DEF noted, behind
    <3> QED
      BY <2>2, <3>1, <3>2, <3>3 DEF AccountedFor, Noted
  <2>4. CASE result[s].status = "succeeded"
    BY <2>3, <2>4
  <2>5. CASE result[s].status \in {"failed", "aborted", "unreached"}
    <3>a. c \in AskedByStage[s]
      BY DEF Puts
    <3>1. CASE c \in UNION {AskedByStage[t] : t \in Succeeded}
      <4>1. PICK t \in StageId : result[t].status = "succeeded" /\ c \in AskedByStage[t]
        BY <3>1 DEF Succeeded
      <4>2. CASE c \in Puts(t)
        BY <2>3, <4>1, <4>2
      <4>3. CASE c \notin Puts(t)
        <5>1. t = "deterministic_checks" /\ ~target.isGame /\ c \in OfAGame
          BY <4>1, <4>3 DEF Puts
        <5>2. s # t
          BY <2>5, <4>1
        <5>3. c = "FI-01" /\ s = "functional_exploration"
          BY <3>a, <5>1, <5>2, OnlyTheExplorationAsks
        <5> QED
          BY <2>5, <4>1, <5>1, <5>3 DEF TakenAsAsked
      <4> QED
        BY <4>2, <4>3
    <3>2. CASE c \notin UNION {AskedByStage[t] : t \in Succeeded}
      <4>1. s \in {t \in StageId : result[t].status \in {"failed", "aborted", "unreached"}}
        BY <2>5
      <4>2. c \in UNION {AskedByStage[t] : t \in {u \in StageId : result[u].status \in {"failed", "aborted", "unreached"}}}
        BY ONLY <4>1, <3>a
      <4>3. c \in Unasked
        BY ONLY <4>2, <3>2 DEF Unasked
      <4> HIDE DEF noted, behind
      <4> QED
        BY <2>2, <4>3 DEF AccountedFor
    <3> QED
      BY <3>1, <3>2
  <2> QED
    BY <2>1, <2>4, <2>5 DEF Standing
<1> QED
  BY RunStarts, PipelineSteps, <1>1, PTL DEF RunSpec

----------------------------------------------------------------------------
(* The pace of a session (ScopedSession)                                  *)

\* What has left, was counted, and took a slot that the bucket had: full at first, and
\* filled since.
PaceFacts ==
  /\ stated \in Ceilings /\ guard \in [made: Nat, tokens: Nat, age: Nat] /\ departed \in Nat
  /\ ~Malformed(stated) =>
       /\ departed <= guard.made /\ guard.made <= Policy["total"]
       /\ guard.made + guard.tokens <= Policy["rate"] + guard.age

LEMMA PolicyIsALimit ==
  ASSUME stated \in Ceilings, ~Malformed(stated)
  PROVE  Policy["total"] \in Nat \ {0} /\ Policy["rate"] \in Nat \ {0}
<1>1. PICK K \in SUBSET CeilingKey : stated \in [K -> Nat]
  BY SessionAssumption
<1>2. \A c \in CeilingKey : c \in DOMAIN stated => stated[c] \in Nat \ {0}
  BY <1>1 DEF Malformed
<1>3. \A c \in CeilingKey : Policy[c] \in Nat \ {0}
  BY <1>2, SessionAssumption DEF Policy
<1> QED
  BY <1>3 DEF CeilingKey

LEMMA PaceStarts == SessionInit => PaceFacts
<1> SUFFICES ASSUME SessionInit PROVE PaceFacts
  OBVIOUS
<1>1. CASE Malformed(stated)
  BY <1>1 DEF SessionInit, PaceFacts
<1>2. CASE ~Malformed(stated)
  BY <1>2, PolicyIsALimit DEF SessionInit, PaceFacts
<1> QED
  BY <1>1, <1>2

\* Asking the guard: what passes is counted and takes a slot, and nothing else does.
LEMMA AskingKeepsPace ==
  ASSUME PaceFacts, UNCHANGED stated, NEW inside, Admit(ScopeVerdict(inside)),
         departed' \in {departed, departed + 1},
         departed' = departed + 1 => Passes(ScopeVerdict(inside))
  PROVE  PaceFacts'
<1>1. /\ guard.made \in Nat /\ guard.tokens \in Nat /\ guard.age \in Nat /\ departed \in Nat
      /\ guard \in [made: Nat, tokens: Nat, age: Nat] /\ Policy' = Policy
  BY DEF PaceFacts, Policy
<1>2. CASE ~Passes(ScopeVerdict(inside))
  BY <1>1, <1>2 DEF PaceFacts, Admit
<1>3. CASE Passes(ScopeVerdict(inside))
  <2>1. guard.made < Policy["total"] \/ ~(guard.made >= Policy["total"])
    BY <1>3 DEF Passes, ScopeVerdict
  <2>2. guard.tokens # 0
    BY <1>3 DEF Passes, ScopeVerdict
  <2> DEFINE made == guard.made + 1
             tokens == guard.tokens - 1
             asked == [guard EXCEPT !.made = made, !.tokens = tokens]
  <2>0. made \in Nat /\ tokens \in Nat
    BY <1>1, <2>2
  <2>3. guard' = asked
    BY <1>3, <2>2 DEF Admit
  <2> HIDE DEF made, tokens
  <2>4. /\ asked \in [made: Nat, tokens: Nat, age: Nat] /\ asked.made = made
        /\ asked.tokens = tokens /\ asked.age = guard.age
    BY <1>1, <2>0
  <2> HIDE DEF asked
  <2>5. stated \in Ceilings /\ stated' = stated /\ departed' \in Nat
    BY <1>1 DEF PaceFacts
  <2>6. ASSUME ~Malformed(stated)
        PROVE  /\ departed' <= guard.made + 1 /\ guard.made + 1 <= Policy["total"]
               /\ guard.made + 1 + (guard.tokens - 1) <= Policy["rate"] + guard.age
    BY <1>1, <2>1, <2>2, <2>5, <2>6, PolicyIsALimit DEF PaceFacts
  <2> QED
    BY <1>1, <2>3, <2>4, <2>5, <2>6 DEF PaceFacts, made, tokens
<1> QED
  BY <1>2, <1>3

LEMMA RefillKeepsPace == ASSUME PaceFacts, Refill PROVE PaceFacts'
<1>1. /\ guard.made \in Nat /\ guard.tokens \in Nat /\ guard.age \in Nat
      /\ guard \in [made: Nat, tokens: Nat, age: Nat]
      /\ Policy' = Policy /\ UNCHANGED <<stated, departed>>
  BY DEF PaceFacts, Policy, Refill
<1> DEFINE tokens == IF guard.tokens < Policy["rate"] THEN guard.tokens + 1 ELSE guard.tokens
           age == guard.age + 1
           later == [guard EXCEPT !.age = age, !.tokens = tokens]
<1>2. guard' = later
  BY DEF Refill
<1>3. tokens \in Nat /\ tokens <= guard.tokens + 1 /\ age \in Nat /\ age = guard.age + 1
  BY <1>1
<1> HIDE DEF tokens, age
<1>4. /\ later \in [made: Nat, tokens: Nat, age: Nat] /\ later.made = guard.made
      /\ later.tokens = tokens /\ later.age = age
  BY <1>1, <1>3
<1> HIDE DEF later
<1>5. ASSUME ~Malformed(stated)
      PROVE  /\ departed <= guard.made /\ guard.made <= Policy["total"]
             /\ guard.made + tokens <= Policy["rate"] + (guard.age + 1)
  BY <1>1, <1>3, <1>5, PolicyIsALimit DEF PaceFacts
<1> QED
  BY <1>1, <1>2, <1>3, <1>4, <1>5 DEF PaceFacts

LEMMA PaceSteps == PaceFacts /\ [SessionNext]_sessionVars => PaceFacts'
<1> SUFFICES ASSUME PaceFacts, [SessionNext]_sessionVars PROVE PaceFacts'
  OBVIOUS
<1>1. CASE UNCHANGED <<stated, guard, departed>>
  BY <1>1 DEF PaceFacts, Policy
<1>11. departed # departed + 1
  BY DEF PaceFacts
<1>2. CASE GotoFirst
  <2>1. \/ UNCHANGED <<stated, guard, departed>>
        \/ Admit(ScopeVerdict(TRUE)) /\ UNCHANGED <<stated, departed>>
    BY <1>2 DEF GotoFirst, SessionGoto
  <2> QED
    BY <1>1, <1>11, <2>1, AskingKeepsPace
<1>3. CASE Navigate
  <2>1. PICK inside \in BOOLEAN : SessionGoto(inside, "navigating", ToolReturns(talk))
    BY <1>3 DEF Navigate
  <2>2. \/ UNCHANGED <<stated, guard, departed>>
        \/ Admit(ScopeVerdict(inside)) /\ UNCHANGED <<stated, departed>>
    BY <2>1 DEF SessionGoto
  <2> QED
    BY <1>1, <1>11, <2>2, AskingKeepsPace
<1>4. CASE HttpAsserts
  <2>1. PICK inside \in BOOLEAN :
          /\ Admit(ScopeVerdict(inside))
          /\ \/ Passes(ScopeVerdict(inside)) /\ departed' = departed + 1
             \/ departed' = departed
    BY <1>4 DEF HttpAsserts
  <2>2. stated' = stated
    BY <1>4 DEF HttpAsserts
  <2> QED
    BY <1>11, <2>1, <2>2, AskingKeepsPace
<1>5. ASSUME NEW r \in Routed, RouteDecides(r) PROVE PaceFacts'
  <2>1. /\ Admit(ScopeVerdict(routed[r].inside)) /\ stated' = stated
        /\ \/ Passes(ScopeVerdict(routed[r].inside)) /\ departed' = departed + 1
           \/ departed' = departed
    BY <1>5 DEF RouteDecides
  <2> QED
    BY <1>11, <2>1, AskingKeepsPace
<1>6. CASE Refill
  BY <1>6, RefillKeepsPace
<1>7. CASE UseTool
  BY <1>1, <1>3, <1>4, <1>7
     DEF UseTool, DescribePage, Navigated, Click, Fill, Screenshot, Attempt, HttpWaits, HttpAnswers
<1>8. CASE RefuseCeiling \/ OpenSession \/ Loaded \/ AskModel \/ ExtractFindings
  BY <1>1, <1>8 DEF RefuseCeiling, OpenSession, Loaded, AskModel, ExtractFindings
<1>9. ASSUME NEW r \in Routed, PageAsks(r) \/ WaitEnds(r) PROVE PaceFacts'
  BY <1>1, <1>9 DEF PageAsks, WaitEnds
<1>10. CASE UNCHANGED sessionVars
  BY <1>1, <1>10 DEF sessionVars
<1> QED
  BY <1>2, <1>5, <1>6, <1>7, <1>8, <1>9, <1>10 DEF SessionNext

\* However many requests of the page, the navigations and the HTTP client await one
\* slot, no more leave than the authorisation allows in all, and no more than a full
\* bucket and what has flowed into it since (ScopeGuard.check, for any ceilings).
THEOREM PaceIsKept == SessionSpec => []AuthorisedPaceIsKept
<1>1. PaceFacts => AuthorisedPaceIsKept
  BY PolicyIsALimit DEF PaceFacts, AuthorisedPaceIsKept
<1> QED
  BY PaceStarts, PaceSteps, <1>1, PTL DEF SessionSpec

----------------------------------------------------------------------------
(* The report that is served (ReportRelease)                                *)

PaperRow == [status : {"awaiting_review", "approved", "rejected"}, says : Nat, edits : Nat]
ShelfRow == [says : Nat, whole : BOOLEAN, current : BOOLEAN, held : BOOLEAN]
Reading == [of : Papers \cup {Nobody}, says : Nat, whole : BOOLEAN]
DeskRow == [at : {"idle", "sweeping", "rendering", "html stored"}, page : SUBSET Papers,
            source : Reading, failures : [Papers -> Nat]]

ReportTyped ==
  /\ paper \in [Papers -> PaperRow]
  /\ shelf \in [Papers -> [Format -> ShelfRow]]
  /\ renderer \in [Renderers -> DeskRow]

\* A process has an assessment in hand while it renders it, and then only.
HandsFacts ==
  \A w \in Renderers :
    /\ renderer[w].at \in {"rendering", "html stored"} <=> renderer[w].source.of # Nobody
    /\ renderer[w].at = "html stored" => renderer[w].source.whole

InStore(p, format) == shelf[p][format].held /\ shelf[p][format].says = paper[p].says
UpToDate(p) == shelf[p]["html"].held /\ shelf[p]["html"].current
Has(w, p) == renderer[w].source.of = p

\* Unless something came between, what is being rendered is the assessment and the
\* plan as they are, and a current report says what the assessment says, with its
\* PDF stored too or about to be.
ReadAsItIs(p) ==
  \A w \in Renderers : Has(w, p) => /\ renderer[w].source.says = paper[p].says
                                    /\ renderer[w].source.whole <=> p \in paidFor
SaysAsItIs(p) == UpToDate(p) => shelf[p]["html"].says = paper[p].says
PdfFollows(p) ==
  UpToDate(p) /\ p \in paidFor =>
    InStore(p, "pdf") \/ \E w \in Renderers : Has(w, p) /\ renderer[w].at = "html stored"
ServedFacts == \A p \in Papers \ slipped : ReadAsItIs(p) /\ SaysAsItIs(p) /\ PdfFollows(p)

ReportInv == ReportTyped /\ HandsFacts /\ ServedFacts

LEMMA ReportStarts == ReportInit => ReportInv
<1> SUFFICES ASSUME ReportInit PROVE ReportInv
  OBVIOUS
<1>1. ReportTyped
  <2>1. paper \in [Papers -> PaperRow]
    BY DEF ReportInit, PaperRow
  <2>2. NotStored \in ShelfRow
    BY DEF NotStored, ShelfRow
  <2>3. AtItsDesk \in DeskRow
    BY DEF AtItsDesk, EmptyHanded, DeskRow, Reading
  <2> QED
    BY <2>1, <2>2, <2>3 DEF ReportInit, ReportTyped
<1>2. HandsFacts
  BY DEF ReportInit, HandsFacts, AtItsDesk, EmptyHanded
<1>3. \A w \in Renderers, p \in Papers : ~Has(w, p)
  BY ReportAssumption DEF ReportInit, Has, AtItsDesk, EmptyHanded
<1>4. \A p \in Papers : ~UpToDate(p)
  BY DEF ReportInit, UpToDate, NotStored, Format
<1>5. ServedFacts
  BY <1>3, <1>4 DEF ServedFacts, ReadAsItIs, SaysAsItIs, PdfFollows
<1> QED
  BY <1>1, <1>2, <1>5 DEF ReportInv

----------------------------------------------------------------------------
(* The reviewer and the plan                                                *)

\* What a step leaves alone stays as it was.
LEMMA LeftAlone ==
  ASSUME NEW p \in Papers, ReadAsItIs(p), SaysAsItIs(p), PdfFollows(p),
         paper'[p] = paper[p], shelf'[p] = shelf[p], p \in paidFor' <=> p \in paidFor,
         \A v \in Renderers : Has(v, p)' => Has(v, p) /\ renderer'[v] = renderer[v],
         \A v \in Renderers :
           Has(v, p) /\ renderer[v].at = "html stored" => renderer'[v] = renderer[v]
  PROVE  ReadAsItIs(p)' /\ SaysAsItIs(p)' /\ PdfFollows(p)'
<1>1. ReadAsItIs(p)'
  BY DEF ReadAsItIs
<1>2. (UpToDate(p)' <=> UpToDate(p)) /\ (InStore(p, "pdf")' <=> InStore(p, "pdf"))
  BY DEF UpToDate, InStore
<1>3. SaysAsItIs(p)'
  BY <1>2 DEF SaysAsItIs
<1>4. ASSUME NEW v \in Renderers, Has(v, p), renderer[v].at = "html stored"
      PROVE  Has(v, p)' /\ renderer'[v].at = "html stored"
  BY <1>4 DEF Has
<1>5. PdfFollows(p)'
  BY <1>2, <1>4 DEF PdfFollows
<1> QED
  BY <1>1, <1>3, <1>5

\* What is stored of p is older than its review; what was read is too.
LEMMA ReviewsOutdate ==
  ASSUME ReportInv, NEW p \in Papers, paper' \in [Papers -> PaperRow],
         \A q \in Papers \ {p} : paper'[q] = paper[q],
         shelf' = Outdated(p), Overtakes(p), ReviewFrame
  PROVE  ReportInv'
<1>1. \A f \in Format : shelf[p][f] \in ShelfRow
  BY DEF ReportInv, ReportTyped
<1>2. shelf'[p] = [f \in Format |-> [shelf[p][f] EXCEPT !.current = FALSE]]
  BY DEF Outdated, ReportInv, ReportTyped
<1>3. \A row \in ShelfRow : /\ [row EXCEPT !.current = FALSE] \in ShelfRow
                             /\ [row EXCEPT !.current = FALSE].current = FALSE
  BY DEF ShelfRow
<1>4. shelf'[p] \in [Format -> ShelfRow] /\ \A f \in Format : ~shelf'[p][f].current
  <2>1. ASSUME NEW f \in Format
        PROVE  /\ [shelf[p][f] EXCEPT !.current = FALSE] \in ShelfRow
               /\ [shelf[p][f] EXCEPT !.current = FALSE].current = FALSE
    BY <1>1, <1>3
  <2>2. ASSUME NEW f \in Format PROVE shelf'[p][f] \in ShelfRow /\ ~shelf'[p][f].current
    BY <1>2, <2>1
  <2>3. shelf'[p] = [f \in Format |-> shelf'[p][f]]
    BY <1>2
  <2> QED
    BY <2>2, <2>3
<1>5. \A q \in Papers \ {p} : shelf'[q] = shelf[q]
  BY DEF Outdated, ReportInv, ReportTyped
<1>6. shelf' \in [Papers -> [Format -> ShelfRow]]
  <2>1. DOMAIN shelf' = Papers /\ shelf' = [q \in Papers |-> shelf'[q]]
    BY DEF Outdated, ReportInv, ReportTyped
  <2>2. \A q \in Papers : shelf'[q] \in [Format -> ShelfRow]
    BY <1>4, <1>5 DEF ReportInv, ReportTyped
  <2> QED
    BY <2>1, <2>2
<1>7. ReportTyped' /\ HandsFacts'
  BY <1>6 DEF ReportInv, ReportTyped, HandsFacts, ReviewFrame
<1>8. ASSUME NEW q \in Papers \ slipped' PROVE ReadAsItIs(q)' /\ SaysAsItIs(q)' /\ PdfFollows(q)'
  <2>1. q \notin slipped /\ renderer' = renderer /\ paidFor' = paidFor
    BY DEF Overtakes, ReviewFrame
  <2>2. CASE q = p
    <3>1. \A v \in Renderers : ~Has(v, p)
      BY <2>2 DEF Overtakes, ReadBy, Has
    <3>2. \A v \in Renderers : ~Has(v, p)'
      BY <2>1, <3>1 DEF Has
    <3>3. ~UpToDate(p)'
      BY <1>4 DEF UpToDate, Format
    <3> QED
      BY <2>2, <3>2, <3>3 DEF ReadAsItIs, SaysAsItIs, PdfFollows
  <2>3. CASE q # p
    <3>1. paper'[q] = paper[q] /\ shelf'[q] = shelf[q] /\ ReadAsItIs(q) /\ SaysAsItIs(q)
          /\ PdfFollows(q)
      BY <1>5, <2>1, <2>3 DEF ReportInv, ServedFacts
    <3>2. \A v \in Renderers : (Has(v, q)' <=> Has(v, q)) /\ renderer'[v] = renderer[v]
      BY <2>1 DEF Has
    <3> QED
      BY <2>1, <3>1, <3>2, LeftAlone
  <2> QED
    BY <2>2, <2>3
<1> QED
  BY <1>7, <1>8 DEF ReportInv, ServedFacts

LEMMA ReviewerSteps == ASSUME ReportInv, ReviewerActs PROVE ReportInv'
<1>1. PICK p \in Papers : ApprovePaper(p) \/ RejectPaper(p) \/ AdjustPaper(p)
  BY DEF ReviewerActs
<1>2. paper \in [Papers -> PaperRow]
  BY DEF ReportInv, ReportTyped
<1>3. \E row \in PaperRow : paper' = [paper EXCEPT ![p] = row]
  <2>1. CASE ApprovePaper(p) /\ paper' = [paper EXCEPT ![p].status = "approved"]
    <3>1. [paper[p] EXCEPT !.status = "approved"] \in PaperRow
      BY <1>2 DEF PaperRow
    <3> QED
      BY <2>1, <3>1
  <2>2. CASE paper' = [paper EXCEPT ![p].edits = @ + 1]
    <3>1. [paper[p] EXCEPT !.edits = @ + 1] \in PaperRow
      BY <1>2 DEF PaperRow
    <3> QED
      BY <2>2, <3>1
  <2>3. CASE RejectPaper(p)
    <3>1. [paper[p] EXCEPT !.status = "rejected"] \in PaperRow
      BY <1>2 DEF PaperRow
    <3> QED
      BY <2>3, <3>1 DEF RejectPaper
  <2>4. CASE AdjustPaper(p)
    <3> DEFINE row == [status |-> paper[p].status, says |-> paper[p].says + 1,
                       edits |-> paper[p].edits + 1]
    <3>1. row \in PaperRow
      BY <1>2 DEF PaperRow
    <3>2. paper'[p] = row
      BY <1>2, <2>4 DEF AdjustPaper, PaperRow
    <3>3. paper' = [paper EXCEPT ![p] = paper'[p]]
      BY <1>2, <2>4 DEF AdjustPaper
    <3> QED
      BY <3>1, <3>2, <3>3
  <2> QED
    BY <1>1, <2>1, <2>2, <2>3, <2>4 DEF ApprovePaper
<1>4. paper' \in [Papers -> PaperRow] /\ \A q \in Papers \ {p} : paper'[q] = paper[q]
  BY <1>2, <1>3
<1>5. shelf' = Outdated(p) /\ Overtakes(p) /\ ReviewFrame
  BY <1>1 DEF ApprovePaper, RejectPaper, AdjustPaper
<1> QED
  BY <1>4, <1>5, ReviewsOutdate

LEMMA PlanSteps == ASSUME ReportInv, NEW p \in Papers, PlanTurns(p) PROVE ReportInv'
<1>1. UNCHANGED <<paper, shelf, renderer>>
  BY DEF PlanTurns
<1>2. ReportTyped' /\ HandsFacts'
  BY <1>1 DEF ReportInv, ReportTyped, HandsFacts
<1>3. ASSUME NEW q \in Papers \ slipped' PROVE ReadAsItIs(q)' /\ SaysAsItIs(q)' /\ PdfFollows(q)'
  <2>1. q \notin slipped
    BY DEF PlanTurns
  <2>2. CASE q = p
    <3>1. ~shelf[p]["html"].held /\ ReadBy(p) = {}
      BY <2>1, <2>2 DEF PlanTurns
    <3>2. ~UpToDate(p)' /\ \A v \in Renderers : ~Has(v, p)'
      BY <1>1, <3>1 DEF UpToDate, ReadBy, Has
    <3> QED
      BY <2>2, <3>2 DEF ReadAsItIs, SaysAsItIs, PdfFollows
  <2>3. CASE q # p
    <3>1. q \in paidFor' <=> q \in paidFor
      BY <2>3 DEF PlanTurns
    <3>2. ReadAsItIs(q) /\ SaysAsItIs(q) /\ PdfFollows(q)
      BY <2>1 DEF ReportInv, ServedFacts
    <3>3. \A v \in Renderers : (Has(v, q)' <=> Has(v, q)) /\ renderer'[v] = renderer[v]
      BY <1>1 DEF Has
    <3> QED
      BY <1>1, <3>1, <3>2, <3>3, LeftAlone
  <2> QED
    BY <2>2, <2>3
<1> QED
  BY <1>2, <1>3 DEF ReportInv, ServedFacts

----------------------------------------------------------------------------
(* The sweep                                                                *)

\* What w has next, and that nobody else moved.
Moves(w, row) == renderer' = [renderer EXCEPT ![w] = row]

LEMMA RendererMoves ==
  ASSUME ReportInv, NEW w \in Renderers, NEW row \in DeskRow, Moves(w, row)
  PROVE  /\ renderer' \in [Renderers -> DeskRow] /\ renderer'[w] = row
         /\ \A v \in Renderers \ {w} : renderer'[v] = renderer[v]
BY DEF ReportInv, ReportTyped, Moves

\* A sweep that turns from p has nothing in hand.
LEMMA SweepTurns ==
  ASSUME ReportInv, NEW w \in Renderers, NEW p \in Papers, NEW n \in Nat, Turns(w, p, n)
  PROVE  \E row \in DeskRow : /\ Moves(w, row) /\ row.source.of = Nobody
                              /\ row.at \in {"idle", "sweeping"}
<1> DEFINE left == renderer[w].page \ {p}
           row == [at |-> IF left = {} THEN "idle" ELSE "sweeping", page |-> left,
                   source |-> EmptyHanded,
                   failures |-> [renderer[w].failures EXCEPT ![p] = n]]
<1>1. renderer[w] \in DeskRow
  BY DEF ReportInv, ReportTyped
<1>2. left \in SUBSET Papers /\ [renderer[w].failures EXCEPT ![p] = n] \in [Papers -> Nat]
  BY <1>1 DEF DeskRow
<1>3. EmptyHanded \in Reading /\ EmptyHanded.of = Nobody
  BY DEF EmptyHanded, Reading
<1>4. row \in DeskRow
  BY <1>2, <1>3 DEF DeskRow
<1>5. Moves(w, row)
  BY DEF Turns, Moves
<1>6. row.source.of = Nobody /\ row.at \in {"idle", "sweeping"}
  BY <1>3
<1> QED
  BY <1>4, <1>5, <1>6

\* A process that puts down what it has in hand, before it stored any of it.
LEMMA HandsEmpty ==
  ASSUME ReportInv, NEW w \in Renderers, NEW row \in DeskRow, Moves(w, row),
         row.source.of = Nobody, row.at \in {"idle", "sweeping"},
         UNCHANGED <<paper, paidFor, shelf>>, slipped \subseteq slipped',
         renderer[w].at = "html stored" => renderer[w].source.of \in slipped'
  PROVE  ReportInv'
<1>1. /\ renderer' \in [Renderers -> DeskRow] /\ renderer'[w] = row
      /\ \A v \in Renderers \ {w} : renderer'[v] = renderer[v]
  BY RendererMoves
<1>2. ReportTyped'
  BY <1>1 DEF ReportInv, ReportTyped
<1>3. HandsFacts'
  BY <1>1 DEF ReportInv, HandsFacts
<1>4. ASSUME NEW p \in Papers \ slipped' PROVE ReadAsItIs(p)' /\ SaysAsItIs(p)' /\ PdfFollows(p)'
  <2>1. ReadAsItIs(p) /\ SaysAsItIs(p) /\ PdfFollows(p)
    BY DEF ReportInv, ServedFacts
  <2>2. ~Has(w, p)'
    BY <1>1, ReportAssumption DEF Has
  <2>3. ~(Has(w, p) /\ renderer[w].at = "html stored")
    BY DEF Has
  <2>4. \A v \in Renderers : Has(v, p)' => Has(v, p) /\ renderer'[v] = renderer[v]
    BY <1>1, <2>2 DEF Has
  <2>5. \A v \in Renderers :
          Has(v, p) /\ renderer[v].at = "html stored" => renderer'[v] = renderer[v]
    BY <1>1, <2>3
  <2> QED
    BY <2>1, <2>4, <2>5, LeftAlone
<1> QED
  BY <1>2, <1>3, <1>4 DEF ReportInv, ServedFacts

\* p is finished: its documents are stored, and w turns from it.
LEMMA ReportFinishes ==
  ASSUME ReportInv, NEW w \in Renderers, NEW p \in Papers, Has(w, p), Finished(w, p),
         UNCHANGED <<paper, paidFor>>, shelf' \in [Papers -> [Format -> ShelfRow]],
         \A q \in Papers \ {p} : shelf'[q] = shelf[q],
         \/ shelf'[p]["html"] = StoredNow(renderer[w].source) /\ ~renderer[w].source.whole
         \/ shelf'[p]["html"] = shelf[p]["html"] /\ renderer[w].source.whole
            /\ shelf'[p]["pdf"] = StoredNow(renderer[w].source)
  PROVE  ReportInv'
<1> DEFINE source == renderer[w].source
<1>1. PICK row \in DeskRow : /\ Moves(w, row) /\ row.source.of = Nobody
                             /\ row.at \in {"idle", "sweeping"}
  BY SweepTurns DEF Finished
<1>2. /\ renderer' \in [Renderers -> DeskRow] /\ renderer'[w] = row
      /\ \A v \in Renderers \ {w} : renderer'[v] = renderer[v]
  BY <1>1, RendererMoves
<1>3. ReportTyped'
  BY <1>2 DEF ReportInv, ReportTyped
<1>4. HandsFacts'
  BY <1>1, <1>2 DEF ReportInv, HandsFacts
<1>5. slipped \ {p} \subseteq slipped'
      /\ (p \in slipped /\ p \notin slipped' => StoredInStep(w, p))
  BY DEF Finished
<1>6. \A q \in Papers : ~Has(w, q)'
  BY <1>1, <1>2, ReportAssumption DEF Has
<1>7. \A q \in Papers : \A v \in Renderers : Has(v, q)' => Has(v, q) /\ renderer'[v] = renderer[v]
  BY <1>2, <1>6 DEF Has
<1>8. StoredNow(source).says = source.says /\ StoredNow(source).held
  BY DEF StoredNow
<1>9. ASSUME p \notin slipped' PROVE ReadAsItIs(p)' /\ SaysAsItIs(p)' /\ PdfFollows(p)'
  <2>1. CASE p \in slipped
    <3>1. /\ source.says = paper[p].says /\ (source.whole <=> p \in paidFor) /\ ReadBy(p) = {w}
          /\ shelf'[p]["html"] = StoredNow(source)
      BY <1>5, <1>9, <2>1 DEF StoredInStep
    <3>2. \A v \in Renderers : ~Has(v, p)'
      BY <1>6, <1>7, <3>1 DEF ReadBy, Has
    <3>3. shelf'[p]["html"].says = paper'[p].says
      BY <1>8, <3>1
    <3>4. CASE source.whole
      <4>1. shelf'[p]["pdf"].held /\ shelf'[p]["pdf"].says = paper'[p].says
        BY <1>8, <3>1, <3>4
      <4> QED
        BY <3>2, <3>3, <4>1 DEF ReadAsItIs, SaysAsItIs, PdfFollows, InStore
    <3>5. CASE ~source.whole
      BY <3>1, <3>2, <3>3, <3>5 DEF ReadAsItIs, SaysAsItIs, PdfFollows
    <3> QED
      BY <3>4, <3>5
  <2>2. CASE p \notin slipped
    <3>1. ReadAsItIs(p) /\ SaysAsItIs(p) /\ PdfFollows(p)
      BY <2>2 DEF ReportInv, ServedFacts
    <3>2. source.says = paper[p].says /\ (source.whole <=> p \in paidFor)
      BY <3>1 DEF ReadAsItIs
    <3>3. ReadAsItIs(p)'
      BY <1>7, <3>1 DEF ReadAsItIs
    <3>4. CASE source.whole
      <4>1. shelf'[p]["pdf"].held /\ shelf'[p]["pdf"].says = paper'[p].says
            /\ shelf'[p]["html"] = shelf[p]["html"]
        BY <1>8, <3>2, <3>4
      <4>2. SaysAsItIs(p)'
        BY <3>1, <4>1 DEF SaysAsItIs, UpToDate
      <4> QED
        BY <3>3, <4>1, <4>2 DEF PdfFollows, InStore
    <3>5. CASE ~source.whole
      <4>1. shelf'[p]["html"].says = paper'[p].says /\ p \notin paidFor'
        BY <1>8, <3>2, <3>5
      <4> QED
        BY <3>3, <4>1 DEF SaysAsItIs, PdfFollows
    <3> QED
      BY <3>4, <3>5
  <2> QED
    BY <2>1, <2>2
<1>10. ASSUME NEW q \in Papers \ slipped', q # p
       PROVE  ReadAsItIs(q)' /\ SaysAsItIs(q)' /\ PdfFollows(q)'
  <2>1. shelf'[q] = shelf[q] /\ ReadAsItIs(q) /\ SaysAsItIs(q) /\ PdfFollows(q)
    BY <1>5, <1>10 DEF ReportInv, ServedFacts
  <2>2. \A v \in Renderers : Has(v, q) => renderer'[v] = renderer[v]
    BY <1>2, <1>10 DEF Has
  <2> QED
    BY <1>7, <2>1, <2>2, LeftAlone
<1> QED
  BY <1>3, <1>4, <1>9, <1>10 DEF ReportInv, ServedFacts

LEMMA StoredFits ==
  ASSUME ReportInv, NEW w \in Renderers
  PROVE  /\ renderer[w] \in DeskRow /\ renderer[w].source \in Reading
         /\ StoredNow(renderer[w].source) \in ShelfRow
         /\ renderer[w].at \in {"rendering", "html stored"} => renderer[w].source.of \in Papers
<1>1. renderer[w] \in DeskRow
  BY DEF ReportInv, ReportTyped
<1>2. renderer[w].source \in Reading
  BY <1>1 DEF DeskRow
<1>3. StoredNow(renderer[w].source) \in ShelfRow
  BY <1>2 DEF StoredNow, ShelfRow, Reading
<1>4. renderer[w].at \in {"rendering", "html stored"} => renderer[w].source.of \in Papers
  BY <1>2 DEF Reading, ReportInv, HandsFacts
<1> QED
  BY <1>1, <1>2, <1>3, <1>4

\* One document of p is stored, and the other is as it was.
LEMMA OneIsStored ==
  ASSUME ReportInv, NEW p \in Papers, NEW f \in Format, NEW row \in ShelfRow,
         shelf' = [shelf EXCEPT ![p][f] = row]
  PROVE  /\ shelf' \in [Papers -> [Format -> ShelfRow]] /\ shelf'[p][f] = row
         /\ \A g \in Format \ {f} : shelf'[p][g] = shelf[p][g]
         /\ \A q \in Papers \ {p} : shelf'[q] = shelf[q]
<1>1. shelf \in [Papers -> [Format -> ShelfRow]]
  BY DEF ReportInv, ReportTyped
<1>2. [shelf[p] EXCEPT ![f] = row] \in [Format -> ShelfRow]
  BY <1>1
<1>3. shelf' = [shelf EXCEPT ![p] = [shelf[p] EXCEPT ![f] = row]]
  OBVIOUS
<1> QED
  BY <1>1, <1>2, <1>3

LEMMA HtmlIsStored == ASSUME ReportInv, NEW w \in Renderers, StoreHtml(w) PROVE ReportInv'
<1> DEFINE source == renderer[w].source
<1>1. PICK p \in Papers : p = source.of
  BY StoredFits DEF StoreHtml
<1>2. /\ renderer[w] \in DeskRow /\ source \in Reading /\ StoredNow(source) \in ShelfRow
  BY StoredFits
<1>3. shelf' = [shelf EXCEPT ![p]["html"] = StoredNow(source)] /\ UNCHANGED <<paper, paidFor>>
  BY <1>1 DEF StoreHtml
<1>4. "html" \in Format /\ "pdf" \in Format \ {"html"}
  BY DEF Format
<1>5. /\ shelf' \in [Papers -> [Format -> ShelfRow]] /\ shelf'[p]["html"] = StoredNow(source)
      /\ shelf'[p]["pdf"] = shelf[p]["pdf"] /\ \A q \in Papers \ {p} : shelf'[q] = shelf[q]
  <2>1. /\ shelf' \in [Papers -> [Format -> ShelfRow]] /\ shelf'[p]["html"] = StoredNow(source)
        /\ \A g \in Format \ {"html"} : shelf'[p][g] = shelf[p][g]
        /\ \A q \in Papers \ {p} : shelf'[q] = shelf[q]
    <3> DEFINE row == StoredNow(source)
    <3>1. row \in ShelfRow /\ shelf' = [shelf EXCEPT ![p]["html"] = row]
      BY <1>2, <1>3
    <3> HIDE DEF row
    <3>2. /\ shelf' \in [Papers -> [Format -> ShelfRow]] /\ shelf'[p]["html"] = row
          /\ \A g \in Format \ {"html"} : shelf'[p][g] = shelf[p][g]
          /\ \A q \in Papers \ {p} : shelf'[q] = shelf[q]
      BY <3>1, <1>4, OneIsStored
    <3> QED
      BY <3>2 DEF row
  <2> QED
    BY <1>4, <2>1
<1>6. Has(w, p)
  BY <1>1 DEF Has
<1>7. CASE ~source.whole
  <2>1. Finished(w, p)
    BY <1>1, <1>7 DEF StoreHtml
  <2> QED
    BY <1>3, <1>5, <1>6, <1>7, <2>1, ReportFinishes
<1>8. CASE source.whole
  <2> DEFINE row == [renderer[w] EXCEPT !.at = "html stored"]
  <2>1. Moves(w, row) /\ slipped' = slipped
    BY <1>8 DEF StoreHtml, Moves
  <2>2. row \in DeskRow /\ row.source = source /\ row.at = "html stored"
    BY <1>2 DEF DeskRow
  <2> HIDE DEF row
  <2>3. /\ renderer' \in [Renderers -> DeskRow] /\ renderer'[w] = row
        /\ \A v \in Renderers \ {w} : renderer'[v] = renderer[v]
    BY <2>1, <2>2, RendererMoves
  <2>4. \A v \in Renderers : renderer'[v].source = renderer[v].source
    BY <2>2, <2>3
  <2>5. \A q \in Papers, v \in Renderers : Has(v, q)' <=> Has(v, q)
    BY <2>4 DEF Has
  <2>6. ReportTyped'
    BY <1>3, <1>5, <2>3 DEF ReportInv, ReportTyped
  <2>7. HandsFacts'
    BY <1>1, <1>8, <2>2, <2>3, ReportAssumption DEF ReportInv, HandsFacts
  <2>8. ASSUME p \notin slipped PROVE ReadAsItIs(p)' /\ SaysAsItIs(p)' /\ PdfFollows(p)'
    <3>1. ReadAsItIs(p)
      BY <2>8 DEF ReportInv, ServedFacts
    <3>2. ReadAsItIs(p)'
      BY <1>3, <2>4, <2>5, <3>1 DEF ReadAsItIs
    <3>3. shelf'[p]["html"].says = paper'[p].says
      BY <1>3, <1>5, <1>6, <3>1 DEF ReadAsItIs, StoredNow
    <3>4. Has(w, p)' /\ renderer'[w].at = "html stored"
      BY <1>6, <2>2, <2>3, <2>5
    <3> QED
      BY <3>2, <3>3, <3>4 DEF SaysAsItIs, PdfFollows
  <2>9. ASSUME NEW q \in Papers \ slipped', q # p
        PROVE  ReadAsItIs(q)' /\ SaysAsItIs(q)' /\ PdfFollows(q)'
    <3>1. shelf'[q] = shelf[q] /\ ReadAsItIs(q) /\ SaysAsItIs(q) /\ PdfFollows(q)
      BY <1>5, <2>1, <2>9 DEF ReportInv, ServedFacts
    <3>2. ~Has(w, q)
      BY <1>1, <2>9 DEF Has
    <3>3. \A v \in Renderers : Has(v, q)' => Has(v, q) /\ renderer'[v] = renderer[v]
      BY <2>3, <2>5, <3>2
    <3>4. \A v \in Renderers : Has(v, q) => renderer'[v] = renderer[v]
      BY <2>3, <3>2
    <3> QED
      BY <1>3, <3>1, <3>3, <3>4, LeftAlone
  <2> QED
    BY <2>1, <2>6, <2>7, <2>8, <2>9 DEF ReportInv, ServedFacts
<1> QED
  BY <1>7, <1>8

LEMMA PdfIsStored == ASSUME ReportInv, NEW w \in Renderers, StorePdf(w) PROVE ReportInv'
<1> DEFINE source == renderer[w].source
<1>1. PICK p \in Papers : p = source.of
  BY StoredFits DEF StorePdf
<1>2. StoredNow(source) \in ShelfRow
  BY StoredFits
<1>3. source.whole
  BY DEF StorePdf, ReportInv, HandsFacts
<1>4. /\ shelf' = [shelf EXCEPT ![p]["pdf"] = StoredNow(source)] /\ UNCHANGED <<paper, paidFor>>
      /\ Finished(w, p)
  BY <1>1 DEF StorePdf
<1>5. "pdf" \in Format /\ "html" \in Format \ {"pdf"}
  BY DEF Format
<1>6. /\ shelf' \in [Papers -> [Format -> ShelfRow]] /\ shelf'[p]["pdf"] = StoredNow(source)
      /\ shelf'[p]["html"] = shelf[p]["html"] /\ \A q \in Papers \ {p} : shelf'[q] = shelf[q]
  <2>1. /\ shelf' \in [Papers -> [Format -> ShelfRow]] /\ shelf'[p]["pdf"] = StoredNow(source)
        /\ \A g \in Format \ {"pdf"} : shelf'[p][g] = shelf[p][g]
        /\ \A q \in Papers \ {p} : shelf'[q] = shelf[q]
    <3> DEFINE row == StoredNow(source)
    <3>1. row \in ShelfRow /\ shelf' = [shelf EXCEPT ![p]["pdf"] = row]
      BY <1>2, <1>4
    <3> HIDE DEF row
    <3>2. /\ shelf' \in [Papers -> [Format -> ShelfRow]] /\ shelf'[p]["pdf"] = row
          /\ \A g \in Format \ {"pdf"} : shelf'[p][g] = shelf[p][g]
          /\ \A q \in Papers \ {p} : shelf'[q] = shelf[q]
      BY <3>1, <1>5, OneIsStored
    <3> QED
      BY <3>2 DEF row
  <2> QED
    BY <1>5, <2>1
<1>7. Has(w, p)
  BY <1>1 DEF Has
<1> QED
  BY <1>3, <1>4, <1>6, <1>7, ReportFinishes

\* A sweep that takes up p as it is.
LEMMA SourceIsRead ==
  ASSUME ReportInv, NEW w \in Renderers, NEW p \in Papers, ReadSource(w, p)
  PROVE  ReportInv'
<1> DEFINE source == [of |-> p, says |-> paper[p].says, whole |-> p \in paidFor]
           row == [renderer[w] EXCEPT !.at = "rendering", !.source = source]
<1>1. renderer[w] \in DeskRow /\ paper[p].says \in Nat
  BY DEF ReportInv, ReportTyped, PaperRow
<1>2. source \in Reading /\ source.of = p /\ source.says = paper[p].says
  BY <1>1 DEF Reading
<1>3. source.whole <=> p \in paidFor
  BY Zenon
<1>4. Moves(w, row) /\ UNCHANGED <<paper, paidFor, shelf, slipped>>
  BY DEF ReadSource, Moves
<1> HIDE DEF source
<1>5. row \in DeskRow /\ row.source = source /\ row.at = "rendering"
  BY <1>1, <1>2 DEF DeskRow
<1> HIDE DEF row
<1>6. /\ renderer' \in [Renderers -> DeskRow] /\ renderer'[w] = row
      /\ \A v \in Renderers \ {w} : renderer'[v] = renderer[v]
  BY <1>4, <1>5, RendererMoves
<1>7. ReportTyped'
  BY <1>4, <1>6 DEF ReportInv, ReportTyped
<1>8. HandsFacts'
  BY <1>2, <1>5, <1>6, ReportAssumption DEF ReportInv, HandsFacts
<1>9. \A q \in Papers : ~Has(w, q)
  BY ReportAssumption DEF ReadSource, ReportInv, HandsFacts, Has
<1>10. ASSUME NEW q \in Papers \ slipped'
       PROVE  ReadAsItIs(q)' /\ SaysAsItIs(q)' /\ PdfFollows(q)'
  <2>1. ReadAsItIs(q) /\ SaysAsItIs(q) /\ PdfFollows(q)
    BY <1>4 DEF ReportInv, ServedFacts
  <2>2. \A v \in Renderers : Has(v, q) => renderer'[v] = renderer[v]
    BY <1>6, <1>9
  <2>3. CASE q # p
    <3>1. \A v \in Renderers : Has(v, q)' => Has(v, q) /\ renderer'[v] = renderer[v]
      BY <1>2, <1>5, <1>6, <2>3 DEF Has
    <3> QED
      BY <1>4, <2>1, <2>2, <3>1, LeftAlone
  <2>4. CASE q = p
    <3>1. /\ renderer'[w].source.says = paper'[p].says
          /\ renderer'[w].source.whole <=> p \in paidFor'
      BY <1>2, <1>3, <1>4, <1>5, <1>6
    <3>2. \A v \in Renderers : v # w => (Has(v, p)' <=> Has(v, p)) /\ renderer'[v] = renderer[v]
      BY <1>6 DEF Has
    <3>3. ReadAsItIs(p)'
      BY <1>4, <2>1, <2>4, <3>1, <3>2 DEF ReadAsItIs
    <3>4. SaysAsItIs(p)'
      BY <1>4, <2>1, <2>4 DEF SaysAsItIs, UpToDate
    <3>5. (UpToDate(p)' <=> UpToDate(p)) /\ (InStore(p, "pdf")' <=> InStore(p, "pdf"))
      BY <1>4 DEF UpToDate, InStore
    <3>6. \A v \in Renderers : Has(v, p) /\ renderer[v].at = "html stored" =>
                              Has(v, p)' /\ renderer'[v].at = "html stored"
      BY <1>9, <3>2
    <3>7. PdfFollows(p)'
      BY <1>4, <2>1, <2>4, <3>5, <3>6 DEF PdfFollows
    <3> QED
      BY <2>4, <3>3, <3>4, <3>7
  <2> QED
    BY <2>3, <2>4
<1> QED
  BY <1>7, <1>8, <1>10 DEF ReportInv, ServedFacts

LEMMA ReportSteps == ReportInv /\ [ReportNext]_reportVars => ReportInv'
<1> SUFFICES ASSUME ReportInv, [ReportNext]_reportVars PROVE ReportInv'
  OBVIOUS
<1>1. CASE UNCHANGED reportVars
  <2>1. ReportTyped' /\ HandsFacts'
    BY <1>1 DEF reportVars, ReportInv, ReportTyped, HandsFacts
  <2>2. ASSUME NEW p \in Papers \ slipped'
        PROVE  ReadAsItIs(p)' /\ SaysAsItIs(p)' /\ PdfFollows(p)'
    <3>1. ReadAsItIs(p) /\ SaysAsItIs(p) /\ PdfFollows(p)
      BY <1>1 DEF reportVars, ReportInv, ServedFacts
    <3>2. \A v \in Renderers : (Has(v, p)' <=> Has(v, p)) /\ renderer'[v] = renderer[v]
      BY <1>1 DEF reportVars, Has
    <3> QED
      BY <1>1, <3>1, <3>2, LeftAlone DEF reportVars
  <2> QED
    BY <2>1, <2>2 DEF ReportInv, ServedFacts
<1>2. ASSUME NEW w \in Renderers, ReadUnrendered(w) PROVE ReportInv'
  <2>1. PICK page \in SUBSET Papers :
          renderer' = [renderer EXCEPT ![w].at = "sweeping", ![w].page = page]
    BY <1>2 DEF ReadUnrendered
  <2> DEFINE row == [renderer[w] EXCEPT !.at = "sweeping", !.page = page]
  <2>2. renderer[w] \in DeskRow /\ renderer[w].at = "idle" /\ renderer[w].source.of = Nobody
    BY <1>2 DEF ReadUnrendered, ReportInv, ReportTyped, HandsFacts
  <2>3. row \in DeskRow /\ row.at = "sweeping" /\ row.source = renderer[w].source
    BY <2>2 DEF DeskRow
  <2>4. Moves(w, row)
    BY <2>1 DEF Moves
  <2> HIDE DEF row
  <2> QED
    BY <1>2, <2>2, <2>3, <2>4, HandsEmpty DEF ReadUnrendered
<1>3. ASSUME NEW w \in Renderers, NEW p \in Papers, SkipStuck(w, p) \/ NotAssembled(w, p)
      PROVE  ReportInv'
  <2>1. renderer[w] \in DeskRow /\ renderer[w].at = "sweeping"
    BY <1>3 DEF SkipStuck, NotAssembled, ReportInv, ReportTyped
  <2>2. renderer[w].failures[p] \in Nat /\ renderer[w].failures[p] + 1 \in Nat
    <3>1. renderer[w].failures \in [Papers -> Nat]
      BY <2>1 DEF DeskRow
    <3> QED
      BY <3>1
  <2>3. \E n \in Nat : Turns(w, p, n)
    BY <1>3, <2>2 DEF SkipStuck, NotAssembled
  <2>4. PICK row \in DeskRow : /\ Moves(w, row) /\ row.source.of = Nobody
                               /\ row.at \in {"idle", "sweeping"}
    BY <2>3, SweepTurns
  <2>5. UNCHANGED <<paper, paidFor, shelf, slipped>>
    BY <1>3 DEF SkipStuck, NotAssembled
  <2> QED
    BY <2>1, <2>4, <2>5, HandsEmpty
<1>4. ASSUME NEW w \in Renderers, NotRendered(w) PROVE ReportInv'
  <2> DEFINE p == renderer[w].source.of
  <2>1. p \in Papers /\ renderer[w] \in DeskRow
    BY <1>4, StoredFits DEF NotRendered
  <2>2. renderer[w].failures[p] + 1 \in Nat
    <3>1. renderer[w].failures \in [Papers -> Nat]
      BY <2>1 DEF DeskRow
    <3> QED
      BY <2>1, <3>1
  <2>3. /\ Turns(w, p, renderer[w].failures[p] + 1) /\ UNCHANGED <<paper, paidFor, shelf>>
        /\ slipped' = IF renderer[w].at = "html stored" THEN slipped \cup {p} ELSE slipped
    BY <1>4 DEF NotRendered
  <2>4. PICK row \in DeskRow : /\ Moves(w, row) /\ row.source.of = Nobody
                               /\ row.at \in {"idle", "sweeping"}
    BY <2>1, <2>2, <2>3, SweepTurns
  <2> QED
    BY <2>3, <2>4, HandsEmpty
<1>5. ASSUME NEW w \in Renderers, RendererRestarts(w) PROVE ReportInv'
  <2>1. AtItsDesk \in DeskRow /\ AtItsDesk.source.of = Nobody /\ AtItsDesk.at = "idle"
    BY DEF AtItsDesk, EmptyHanded, DeskRow, Reading
  <2> QED
    BY <1>5, <2>1, HandsEmpty DEF RendererRestarts, Moves
<1> QED
  BY <1>1, <1>2, <1>3, <1>4, <1>5, ReviewerSteps, PlanSteps, HtmlIsStored, PdfIsStored, SourceIsRead
     DEF ReportNext, RenderStep

\* What a customer downloads says what the console shows, and no report is promised
\* that nobody will make, unless something came between: for any assessments,
\* processes, faults and edits (sweepPendingReports, the PDF route).
THEOREM ServedReportsAreCurrent == ReportSpec => []WhatIsServedIsCurrent
<1>1. ASSUME ReportInv, NEW p \in Papers, Published(p), p \notin slipped
      PROVE  /\ Document(shelf[p]["html"].says) = OnScreen(p)
             /\ PdfAnswer(p) \in {OnScreen(p), <<"part of the paid report">>}
  <2>1. Released(p) /\ UpToDate(p) /\ ReadBy(p) = {}
    BY <1>1 DEF Published, Unrendered, UpToDate
  <2>2. shelf[p]["html"].says = paper[p].says /\ (p \in paidFor => InStore(p, "pdf"))
    <3>1. \A w \in Renderers : ~Has(w, p)
      BY <2>1 DEF ReadBy, Has
    <3> QED
      BY <1>1, <2>1, <3>1 DEF ReportInv, ServedFacts, SaysAsItIs, PdfFollows
  <2>3. OnScreen(p) = Document(paper[p].says)
    BY <2>1 DEF OnScreen
  <2>4. CASE p \in paidFor
    <3>1. PdfAnswer(p) = Document(paper[p].says)
      BY <2>1, <2>2, <2>4 DEF PdfAnswer, InStore
    <3> QED
      BY <2>2, <2>3, <3>1
  <2>5. CASE p \notin paidFor
    <3>1. PdfAnswer(p) = <<"part of the paid report">>
      BY <2>1, <2>5 DEF PdfAnswer
    <3> QED
      BY <2>2, <2>3, <3>1
  <2> QED
    BY <2>4, <2>5
<1>2. ReportInv => WhatIsServedIsCurrent
  BY <1>1 DEF WhatIsServedIsCurrent
<1> QED
  BY ReportStarts, ReportSteps, <1>2, PTL DEF ReportSpec

----------------------------------------------------------------------------
(* Numbers with a bound have a greatest                                     *)

LEMMA GreatestExists ==
  ASSUME NEW k \in Nat, NEW T \in SUBSET (0..k), T # {}
  PROVE  \E n \in T : \A m \in T : m <= n
<1> DEFINE Back == {k - n : n \in T}
<1>1. Back \in SUBSET Nat /\ Back # {}
  <2>1. \A n \in T : k - n \in Nat
    OBVIOUS
  <2>2. PICK n \in T : TRUE
    OBVIOUS
  <2>3. k - n \in Back
    OBVIOUS
  <2> QED
    BY <2>1, <2>3
<1>2. PICK b \in Back : \A a \in Back : <<a, b>> \notin OpToRel(<, Nat)
  BY <1>1, NatLessThanWellFounded, WFMin
<1>3. PICK n \in T : b = k - n
  OBVIOUS
<1>4. ASSUME NEW m \in T PROVE m <= n
  <2>1. k - m \in Back /\ k - m \in Nat /\ b \in Nat
    BY <1>1
  <2>2. ~(k - m < b)
    BY <1>2, <2>1 DEF OpToRel
  <2>3. m \in Nat /\ n \in Nat
    OBVIOUS
  <2> QED
    BY <1>3, <2>2, <2>3
<1> QED
  BY <1>4

----------------------------------------------------------------------------
(* What two looks differ in                                                 *)

PublishedOf(a, key) == {f \in a.look.findings : f.published /\ f.key = key}

\* The severity of a key is that of its worst published finding.
LEMMA WorstCounts ==
  ASSUME NEW a \in Assessed, NEW key
  PROVE  /\ PublishedByKey(a, key) \in 0..5
         /\ \A f \in PublishedOf(a, key) :
              f.severity \in Severity /\ f.severity + 1 <= PublishedByKey(a, key)
         /\ PublishedByKey(a, key) > 0 =>
              \E f \in PublishedOf(a, key) : PublishedByKey(a, key) = f.severity + 1
<1> DEFINE S == SeveritiesOf(a, key)
<1>1. a.look.findings \in SUBSET Finding
  BY ReassessmentAssumption DEF Assessed
<1>2. S = {f.severity + 1 : f \in PublishedOf(a, key)}
  BY DEF SeveritiesOf, PublishedOf
<1>3. \A f \in PublishedOf(a, key) : f.severity \in Severity /\ f.severity + 1 \in 1..5
  BY <1>1 DEF PublishedOf, Finding, Severity
<1>4. S \in SUBSET (0..5) /\ \A n \in S : n \in 1..5
  BY <1>2, <1>3
<1> HIDE DEF S
<1>5. CASE S = {}
  <2>1. PublishedByKey(a, key) = 0
    BY <1>5 DEF PublishedByKey, S
  <2>2. PublishedOf(a, key) = {}
    BY <1>2, <1>5
  <2> QED
    BY <2>1, <2>2
<1>6. CASE S # {}
  <2>1. \E s \in S : \A other \in S : other <= s
    BY <1>4, <1>6, GreatestExists
  <2>2. PublishedByKey(a, key) \in S /\ \A other \in S : other <= PublishedByKey(a, key)
    BY <1>6, <2>1 DEF PublishedByKey, S
  <2> QED
    BY <1>2, <1>3, <1>4, <2>2
<1> QED
  BY <1>5, <1>6

\* A serious published finding under the key.
HasSerious(a, key) == \E f \in PublishedOf(a, key) : f.severity \in Serious

LEMMA SeriousIsSeen ==
  ASSUME NEW a \in Assessed, NEW key
  PROVE  IsSerious(PublishedByKey(a, key)) <=> HasSerious(a, key)
<1> DEFINE p == PublishedByKey(a, key)
<1>1. /\ p \in 0..5
      /\ \A f \in PublishedOf(a, key) : f.severity \in Severity /\ f.severity + 1 <= p
      /\ p > 0 => \E f \in PublishedOf(a, key) : p = f.severity + 1
  BY WorstCounts
<1> HIDE DEF p
<1>2. ASSUME IsSerious(p) PROVE HasSerious(a, key)
  <2>1. PICK f \in PublishedOf(a, key) : p = f.severity + 1
    BY <1>1, <1>2 DEF IsSerious
  <2>2. f.severity \in Serious
    BY <1>1, <1>2, <2>1 DEF IsSerious, Serious, Severity
  <2> QED
    BY <2>2 DEF HasSerious
<1>3. ASSUME HasSerious(a, key) PROVE IsSerious(p)
  <2>1. PICK f \in PublishedOf(a, key) : f.severity \in Serious
    BY <1>3 DEF HasSerious
  <2>2. f.severity \in Nat /\ f.severity + 1 <= p /\ (f.severity = 3 \/ f.severity = 4)
    BY <1>1, <2>1 DEF Severity, Serious
  <2> QED
    BY <1>1, <2>2 DEF IsSerious, Serious
<1> QED
  BY <1>2, <1>3 DEF p

LEMMA SlippedIs ==
  ASSUME NEW was, NEW is
  PROVE  Slipped(was, is) <=>
           \/ was.eligible /\ ~is.eligible
           \/ was.score >= Threshold /\ is.score < Threshold
           \/ was.look.dimension >= Floor /\ is.look.dimension < Floor
           \/ \E k \in Sensitive : HasSerious(is, k) /\ ~HasSerious(was, k)
<1>1. ASSUME NEW k \in Sensitive, HasSerious(is, k), ~HasSerious(was, k) PROVE Slipped(was, is)
  <2>1. PICK f \in PublishedOf(is, k) : f.severity \in Serious
    BY <1>1 DEF HasSerious
  <2>2. f \in is.look.findings /\ f.published /\ f.key \in Sensitive
    BY <2>1 DEF PublishedOf
  <2>3. \A g \in was.look.findings : g.published /\ g.key = f.key => g.severity \notin Serious
    BY <1>1, <2>1 DEF HasSerious, PublishedOf
  <2> QED
    BY <2>1, <2>2, <2>3 DEF Slipped
<1>2. ASSUME NEW f \in is.look.findings, f.published, f.key \in Sensitive, f.severity \in Serious,
             \A g \in was.look.findings : g.published /\ g.key = f.key => g.severity \notin Serious
      PROVE  HasSerious(is, f.key) /\ ~HasSerious(was, f.key)
  BY <1>2 DEF HasSerious, PublishedOf
<1> QED
  BY <1>1, <1>2 DEF Slipped

\* What none of the rules calls material has lost nothing.
LEMMA QuietChangeLosesNothing ==
  ASSUME NEW was \in Assessed, NEW is \in Assessed, Slipped(was, is)
  PROVE  Reasons(was, is) # {}
<1>1. CASE was.eligible /\ ~is.eligible
  <2>1. "certification_lost" \in Rule /\ Fires("certification_lost", was, is)
    BY <1>1 DEF Fires, Rule
  <2> QED
    BY <2>1 DEF Reasons
<1>2. CASE was.score >= Threshold /\ is.score < Threshold
  <2>1. "score_below_certification_threshold" \in Rule
        /\ Fires("score_below_certification_threshold", was, is)
    BY <1>2 DEF Fires, Rule
  <2> QED
    BY <2>1 DEF Reasons
<1>3. CASE was.look.dimension >= Floor /\ is.look.dimension < Floor
  <2>1. "dimension_below_floor" \in Rule /\ Fires("dimension_below_floor", was, is)
    BY <1>3 DEF Fires, Rule
  <2> QED
    BY <2>1 DEF Reasons
<1>4. ASSUME NEW k \in Sensitive, HasSerious(is, k), ~HasSerious(was, k)
      PROVE  Reasons(was, is) # {}
  <2> DEFINE p == PublishedByKey(was, k)
             q == PublishedByKey(is, k)
  <2>1. p \in 0..5 /\ q \in 0..5 /\ IsSerious(q) /\ ~IsSerious(p)
    BY <1>4, WorstCounts, SeriousIsSeen
  <2>2. p < q
    BY <2>1 DEF IsSerious, Serious
  <2>3. CASE p = 0
    <3>1. NewFinding(was, is, k)
      BY <2>1, <2>2, <2>3 DEF NewFinding
    <3>2. "serious_new_security_finding" \in Rule /\ Fires("serious_new_security_finding", was, is)
      BY <2>1, <3>1 DEF Fires, Rule
    <3> QED
      BY <3>2 DEF Reasons
  <2>4. CASE p > 0
    <3>1. Escalated(was, is, k) /\ k \in Key
      BY <2>1, <2>2, <2>4 DEF Escalated, Key
    <3>2. "serious_escalation" \in Rule /\ Fires("serious_escalation", was, is)
      BY <2>1, <3>1 DEF Fires, Rule
    <3> QED
      BY <3>2 DEF Reasons
  <2> QED
    BY <2>1, <2>3, <2>4
<1> QED
  BY <1>1, <1>2, <1>3, <1>4, SlippedIs

\* Nothing lost twice is nothing lost.
LEMMA SlippingNeedsAStep ==
  ASSUME NEW was, NEW between \in Assessed, NEW is,
         Slipped(was, is)
  PROVE  Slipped(was, between) \/ Slipped(between, is)
<1>1. between.score \in Nat /\ between.look.dimension \in Nat /\ between.eligible \in BOOLEAN
  BY ReassessmentAssumption DEF Assessed
<1>2. CASE was.eligible /\ ~is.eligible
  BY <1>1, <1>2, SlippedIs
<1>3. CASE was.score >= Threshold /\ is.score < Threshold
  <2>1. between.score >= Threshold \/ between.score < Threshold
    BY <1>1, ReassessmentAssumption
  <2> QED
    BY <1>3, <2>1, SlippedIs
<1>4. CASE was.look.dimension >= Floor /\ is.look.dimension < Floor
  <2>1. between.look.dimension >= Floor \/ between.look.dimension < Floor
    BY <1>1, ReassessmentAssumption
  <2> QED
    BY <1>4, <2>1, SlippedIs
<1>5. ASSUME NEW k \in Sensitive, HasSerious(is, k), ~HasSerious(was, k)
      PROVE  Slipped(was, between) \/ Slipped(between, is)
  BY <1>5, SlippedIs
<1> QED
  BY <1>2, <1>3, <1>4, <1>5, SlippedIs

\* Something is worse: less of a score, no certificate any more, or a finding worse
\* than every one of its key was.
Worse(was, is) ==
  \/ was.eligible /\ ~is.eligible
  \/ is.score < was.score
  \/ is.look.dimension < was.look.dimension
  \/ \E f \in is.look.findings : f.published /\ \A g \in was.look.findings :
       g.published /\ g.key = f.key => g.severity < f.severity

LEMMA RulesNeedSomethingWorse ==
  ASSUME NEW was \in Assessed, NEW is \in Assessed, Reasons(was, is) # {}
  PROVE  Worse(was, is)
<1>1. PICK rule \in Rule : Fires(rule, was, is)
  BY DEF Reasons
<1>2. /\ was.score \in Nat /\ is.score \in Nat /\ was.look.dimension \in Nat
      /\ is.look.dimension \in Nat /\ Threshold \in Nat /\ Floor \in Nat /\ ScoreDrop \in Nat \ {0}
  BY ReassessmentAssumption DEF Assessed
<1>3. ASSUME NEW k, PublishedByKey(was, k) < PublishedByKey(is, k) PROVE Worse(was, is)
  <2> DEFINE p == PublishedByKey(was, k)
             q == PublishedByKey(is, k)
  <2>1. p \in 0..5 /\ q \in 0..5
    BY WorstCounts
  <2>2. q > 0
    BY <1>3, <2>1
  <2>3. PICK f \in PublishedOf(is, k) : q = f.severity + 1
    BY <2>2, WorstCounts
  <2>4. f \in is.look.findings /\ f.published /\ f.key = k /\ f.severity \in Severity
    BY <2>3, WorstCounts DEF PublishedOf
  <2>5. ASSUME NEW g \in was.look.findings, g.published, g.key = f.key PROVE g.severity < f.severity
    <3>1. g \in PublishedOf(was, k)
      BY <2>4, <2>5 DEF PublishedOf
    <3>2. g.severity \in Severity /\ g.severity + 1 <= p
      BY <3>1, WorstCounts
    <3> QED
      BY <1>3, <2>1, <2>3, <2>4, <3>2 DEF Severity
  <2> QED
    BY <2>4, <2>5 DEF Worse
<1>4. ASSUME NEW k, NewFinding(was, is, k) \/ Escalated(was, is, k) PROVE Worse(was, is)
  <2>1. PublishedByKey(was, k) \in 0..5 /\ PublishedByKey(is, k) \in 0..5
    BY WorstCounts
  <2>2. PublishedByKey(was, k) < PublishedByKey(is, k)
    BY <1>4, <2>1 DEF NewFinding, Escalated
  <2> QED
    BY <1>3, <2>2
<1>5. CASE rule = "certification_lost"
  BY <1>1, <1>5 DEF Fires, Worse
<1>6. CASE rule = "serious_new_security_finding"
  BY <1>1, <1>4, <1>6 DEF Fires
<1>7. CASE rule = "serious_escalation"
  BY <1>1, <1>4, <1>7 DEF Fires
<1>8. CASE rule \in {"score_drop", "score_below_certification_threshold", "dimension_below_floor"}
  <2>1. rule = "score_drop" => is.score < was.score
    BY <1>1, <1>2 DEF Fires
  <2>2. rule = "score_below_certification_threshold" => is.score < was.score
    BY <1>1, <1>2 DEF Fires
  <2>3. rule = "dimension_below_floor" => is.look.dimension < was.look.dimension
    BY <1>1, <1>2 DEF Fires
  <2> QED
    BY <1>8, <2>1, <2>2, <2>3 DEF Worse
<1> QED
  BY <1>5, <1>6, <1>7, <1>8 DEF Rule

----------------------------------------------------------------------------
(* The comparisons                                                          *)

Walk == [at: {"idle", "rows", "read", "compared"}, rows: Seq(Nat),
         was: {<<>>} \cup (Nat \X Assessed), is: Seq(Assessed), failures: [1..MaxLooks -> Nat]]

MonitorTyped ==
  /\ assessed \in Seq(Assessed) /\ monitorDay \in Nat
  /\ \A n \in DOMAIN assessed : assessed[n].at <= monitorDay
  /\ schedule \in [live: {"none", "queued", "claimed"}, monitored: BOOLEAN, stamped: Nat]
  /\ schedule.stamped <= monitorDay
  /\ queuer \in [Queuers -> [at: {"idle", "selected"}, saw: Nat]]
  /\ queuedRows \in Seq([on: Nat, saw: Nat])
  /\ comparer \in [Comparers -> Walk]

\* A sweep walks over assessments, and has read what it compares.
WalkFacts(walk) ==
  /\ walk.at # "idle" => walk.rows # <<>>
  /\ \A i \in DOMAIN walk.rows : walk.rows[i] \in DOMAIN assessed
  /\ walk.at \in {"read", "compared"} => Len(walk.is) = 1
  /\ walk.at = "compared" => walk.was # <<>>
ReportFacts ==
  \A n \in DOMAIN reports :
    /\ reports[n].was \in Assessed /\ reports[n].is \in Assessed
    /\ reports[n].material <=> Material(reports[n].was, reports[n].is)

\* A sweep selects when a cadence has passed since all it has queued before.
StampFacts == \A i \in DOMAIN queuedRows : queuedRows[i].on <= schedule.stamped
SelectedFacts ==
  \A q \in Queuers :
    /\ queuer[q].saw <= Len(queuedRows)
    /\ queuer[q].at = "selected" =>
         \A i \in DOMAIN queuedRows : i <= queuer[q].saw => queuedRows[i].on + Every <= monitorDay

MonitorInv ==
  /\ MonitorTyped /\ (\A c \in Comparers : WalkFacts(comparer[c])) /\ ReportFacts
  /\ StampFacts /\ SelectedFacts /\ ReassessmentsAreSpaced

LEMMA MonitorStarts == ReassessmentInit => MonitorInv
<1> SUFFICES ASSUME ReassessmentInit PROVE MonitorInv
  OBVIOUS
<1>1. assessed = <<>> /\ queuedRows = <<>> /\ reports = <<>> /\ monitorDay = 1
  BY DEF ReassessmentInit
<1> DEFINE resting == [at |-> "idle", rows |-> <<>>, was |-> <<>>, is |-> <<>>,
                       failures |-> [n \in 1..MaxLooks |-> 0]]
<1>2. resting \in Walk /\ resting.at = "idle" /\ resting.rows = <<>>
  BY DEF Walk
<1>3. comparer = [c \in Comparers |-> resting]
  BY DEF ReassessmentInit
<1> HIDE DEF resting
<1>4. comparer \in [Comparers -> Walk] /\ \A c \in Comparers : WalkFacts(comparer[c])
  BY <1>2, <1>3 DEF WalkFacts
<1>5. MonitorTyped
  <2>1. queuer \in [Queuers -> [at: {"idle", "selected"}, saw: Nat]]
    BY DEF ReassessmentInit
  <2>2. schedule \in [live: {"none", "queued", "claimed"}, monitored: BOOLEAN, stamped: Nat]
        /\ schedule.stamped <= 1
    BY DEF ReassessmentInit
  <2> QED
    BY <1>1, <1>4, <2>1, <2>2 DEF MonitorTyped
<1>6. ReportFacts /\ StampFacts /\ ReassessmentsAreSpaced
  BY <1>1 DEF ReportFacts, StampFacts, ReassessmentsAreSpaced
<1>7. SelectedFacts
  BY DEF ReassessmentInit, SelectedFacts
<1> QED
  BY <1>4, <1>5, <1>6, <1>7 DEF MonitorInv

LEMMA MonitorRows ==
  ASSUME MonitorInv
  PROVE  /\ \A n \in DOMAIN assessed :
              assessed[n] \in Assessed /\ assessed[n].at \in Nat /\ assessed[n].at <= monitorDay
         /\ \A i \in DOMAIN queuedRows : queuedRows[i].on \in Nat /\ queuedRows[i].saw \in Nat
<1> DEFINE Row == [on: Nat, saw: Nat]
<1>1. assessed \in Seq(Assessed) /\ queuedRows \in Seq(Row)
  BY DEF MonitorInv, MonitorTyped
<1> HIDE DEF Row
<1>2. \A n \in DOMAIN assessed : assessed[n] \in Assessed
  BY <1>1
<1>3. \A i \in DOMAIN queuedRows : queuedRows[i] \in Row
  BY <1>1
<1>6. \A row \in Row : row.on \in Nat /\ row.saw \in Nat
  BY DEF Row
<1>4. \A a \in Assessed : a.at \in Nat
  BY DEF Assessed
<1>5. \A n \in DOMAIN assessed : assessed[n].at <= monitorDay
  BY DEF MonitorInv, MonitorTyped
<1> QED
  BY <1>2, <1>3, <1>4, <1>5, <1>6

\* A sweep goes on with its walk.
LEMMA WalkGoesOn ==
  ASSUME MonitorInv, NEW c \in Comparers, NEW walk \in Walk,
         comparer' = [comparer EXCEPT ![c] = walk], WalkFacts(walk),
         UNCHANGED <<assessed, schedule, queuer, queuedRows, monitorDay>>, ReportFacts'
  PROVE  MonitorInv'
<1>1. comparer' \in [Comparers -> Walk] /\ \A d \in Comparers : comparer'[d] \in {comparer[d], walk}
  BY DEF MonitorInv, MonitorTyped
<1>2. \A d \in Comparers : WalkFacts(comparer[d])'
  BY <1>1 DEF MonitorInv, WalkFacts
<1> QED
  BY <1>1, <1>2 DEF MonitorInv, MonitorTyped, StampFacts, SelectedFacts, ReassessmentsAreSpaced

LEMMA ReportsRest == ASSUME MonitorInv, UNCHANGED reports PROVE ReportFacts'
BY DEF MonitorInv, ReportFacts

LEMMA NextRowGoesOn ==
  ASSUME MonitorInv, NEW c \in Comparers, NEW failures \in [1..MaxLooks -> Nat],
         NextRow(c, failures), comparer[c].at # "idle",
         UNCHANGED <<assessed, schedule, queuer, queuedRows, monitorDay>>, ReportFacts'
  PROVE  MonitorInv'
<1> DEFINE rows == comparer[c].rows
           walk == [at |-> IF Len(rows) > 1 THEN "rows" ELSE "idle", rows |-> Tail(rows),
                    was |-> <<>>, is |-> <<>>, failures |-> failures]
<1>1. rows \in Seq(Nat) /\ rows # <<>> /\ \A i \in DOMAIN rows : rows[i] \in DOMAIN assessed
  BY DEF MonitorInv, MonitorTyped, WalkFacts, Walk
<1>2. /\ Tail(rows) \in Seq(Nat) /\ Len(Tail(rows)) = Len(rows) - 1
      /\ \A i \in 1..Len(Tail(rows)) : Tail(rows)[i] = rows[i + 1] /\ i + 1 \in DOMAIN rows
  BY <1>1, HeadTailProperties
<1>3. comparer' = [comparer EXCEPT ![c] = walk]
  BY DEF NextRow
<1> HIDE DEF rows
<1>4. walk \in Walk /\ walk.rows = Tail(rows) /\ walk.at \in {"idle", "rows"}
      /\ (walk.at # "idle" => Len(rows) > 1)
  BY <1>2 DEF Walk
<1> HIDE DEF walk
<1>5. WalkFacts(walk)
  <2>1. DOMAIN walk.rows = 1..Len(walk.rows) /\ Len(rows) \in Nat
    BY <1>1, <1>2, <1>4
  <2>2. \A i \in DOMAIN walk.rows : walk.rows[i] \in DOMAIN assessed
    BY <1>1, <1>2, <1>4, <2>1
  <2>3. walk.at # "idle" => walk.rows # <<>>
    <3>1. Len(rows) > 1 => Len(walk.rows) > 0
      BY <1>2, <1>4, <2>1
    <3> QED
      <4>1. walk.rows = <<>> => Len(walk.rows) = 0
        OBVIOUS
      <4>2. walk.at # "idle" => Len(walk.rows) > 0
        BY <1>4, <3>1
      <4> QED
        BY <4>1, <4>2
  <2> QED
    BY <1>4, <2>2, <2>3 DEF WalkFacts
<1> QED
  BY <1>3, <1>4, <1>5, WalkGoesOn

LEMMA HeadIsAssessed ==
  ASSUME MonitorInv, NEW c \in Comparers, comparer[c].at # "idle"
  PROVE  /\ Head(comparer[c].rows) \in DOMAIN assessed
         /\ assessed[Head(comparer[c].rows)] \in Assessed
         /\ comparer[c] \in Walk /\ comparer[c].failures \in [1..MaxLooks -> Nat]
         /\ Head(comparer[c].rows) \in Nat
<1>1. /\ comparer[c].rows \in Seq(Nat) /\ comparer[c].rows # <<>> /\ comparer[c] \in Walk
      /\ \A i \in DOMAIN comparer[c].rows : comparer[c].rows[i] \in DOMAIN assessed
      /\ assessed \in Seq(Assessed)
  BY DEF MonitorInv, MonitorTyped, WalkFacts, Walk
<1>2. Head(comparer[c].rows) = comparer[c].rows[1] /\ 1 \in DOMAIN comparer[c].rows
  BY <1>1
<1>3. DOMAIN assessed = 1..Len(assessed) /\ \A n \in DOMAIN assessed : assessed[n] \in Assessed
  BY <1>1
<1> QED
  BY <1>1, <1>2, <1>3 DEF Walk

LEMMA RowsAreRead == ASSUME MonitorInv, NEW c \in Comparers, ReadUncompared(c) PROVE MonitorInv'
<1>1. PICK length \in 1..WindowRows : \E rows \in [1..length -> Uncompared] :
        comparer' = [comparer EXCEPT ![c].at = "rows", ![c].rows = rows]
  BY DEF ReadUncompared
<1>2. PICK rows \in [1..length -> Uncompared] :
        comparer' = [comparer EXCEPT ![c].at = "rows", ![c].rows = rows]
  BY <1>1
<1> DEFINE walk == [comparer[c] EXCEPT !.at = "rows", !.rows = rows]
<1>3. Uncompared \subseteq DOMAIN assessed /\ DOMAIN assessed \subseteq Nat
  BY DEF Uncompared, MonitorInv, MonitorTyped
<1>4. rows \in Seq(Nat) /\ DOMAIN rows = 1..length /\ rows # <<>>
  <2>1. length \in Nat /\ length >= 1 /\ rows \in [1..length -> Nat]
    BY <1>2, <1>3, ReassessmentAssumption
  <2> QED
    BY <2>1
<1>5. comparer' = [comparer EXCEPT ![c] = walk]
  BY <1>2
<1>6. walk \in Walk /\ walk.at = "rows" /\ walk.rows = rows
  <2>1. PICK before \in Walk : before = comparer[c]
    BY DEF MonitorInv, MonitorTyped
  <2>2. [before EXCEPT !.at = "rows", !.rows = rows] \in Walk
    BY <1>4 DEF Walk
  <2>3. /\ [before EXCEPT !.at = "rows", !.rows = rows].at = "rows"
        /\ [before EXCEPT !.at = "rows", !.rows = rows].rows = rows
    BY DEF Walk
  <2> QED
    BY <2>1, <2>2, <2>3
<1> HIDE DEF walk
<1>7. WalkFacts(walk)
  BY <1>2, <1>3, <1>4, <1>6 DEF WalkFacts
<1> QED
  BY <1>5, <1>6, <1>7, WalkGoesOn, ReportsRest DEF ReadUncompared, DriftRests

LEMMA RowIsPassedOver == ASSUME MonitorInv, NEW c \in Comparers, PassOver(c) PROVE MonitorInv'
BY NextRowGoesOn, ReportsRest, HeadIsAssessed DEF PassOver, DriftRests

LEMMA SnapshotIsRead == ASSUME MonitorInv, NEW c \in Comparers, SnapshotFor(c) PROVE MonitorInv'
<1> DEFINE a == assessed[Head(comparer[c].rows)]
           is == <<a>>
           walk == [comparer[c] EXCEPT !.at = "read", !.is = is]
<1>1. comparer[c].at = "rows" /\ comparer[c] \in Walk /\ a \in Assessed /\ WalkFacts(comparer[c])
  BY HeadIsAssessed DEF SnapshotFor, MonitorInv
<1>2. comparer' = [comparer EXCEPT ![c] = walk]
  BY DEF SnapshotFor
<1>3. is \in Seq(Assessed) /\ Len(is) = 1
  BY <1>1
<1> HIDE DEF is
<1>4. walk \in Walk /\ walk.at = "read" /\ walk.is = is /\ walk.rows = comparer[c].rows
  BY <1>1, <1>3 DEF Walk
<1> HIDE DEF walk
<1>5. WalkFacts(walk)
  BY <1>1, <1>3, <1>4 DEF WalkFacts
<1> QED
  BY <1>2, <1>4, <1>5, WalkGoesOn, ReportsRest DEF SnapshotFor, DriftRests

LEMMA PreviousIsRead ==
  ASSUME MonitorInv, NEW c \in Comparers, PreviousSnapshotFor(c) PROVE MonitorInv'
<1> DEFINE n == Head(comparer[c].rows)
<1>1. /\ comparer[c].at = "read" /\ comparer[c] \in Walk /\ WalkFacts(comparer[c])
      /\ n \in DOMAIN assessed /\ n \in Nat /\ assessed \in Seq(Assessed)
      /\ comparer[c].failures \in [1..MaxLooks -> Nat]
  BY HeadIsAssessed DEF PreviousSnapshotFor, MonitorInv, MonitorTyped
<1>2. CASE Priors(n) = {}
  BY <1>1, <1>2, NextRowGoesOn, ReportsRest DEF PreviousSnapshotFor, DriftRests
<1>3. CASE Priors(n) # {}
  <2>1. Priors(n) \in SUBSET (0..n)
    BY <1>1 DEF Priors
  <2>2. \E m \in Priors(n) : \A other \in Priors(n) : other <= m
    BY <1>1, <1>3, <2>1, GreatestExists
  <2>3. PICK m \in Priors(n) : comparer' = [comparer EXCEPT ![c].at = "compared", ![c].was = <<m, assessed[m]>>]
    BY <1>3, <2>2 DEF PreviousSnapshotFor
  <2>4. m \in Nat /\ assessed[m] \in Assessed
    <3>1. m \in Nat /\ m \in 1..n - 1 /\ DOMAIN assessed = 1..Len(assessed) /\ Len(assessed) \in Nat
      BY <1>1, <2>1 DEF Priors
    <3>2. n <= Len(assessed)
      BY <1>1, <3>1
    <3>3. m \in DOMAIN assessed
      BY <1>1, <3>1, <3>2
    <3> QED
      BY <1>1, <3>1, <3>3
  <2> DEFINE was == <<m, assessed[m]>>
             walk == [comparer[c] EXCEPT !.at = "compared", !.was = was]
  <2>5. was \in Nat \X Assessed /\ was # <<>>
    BY <2>4
  <2>6. comparer' = [comparer EXCEPT ![c] = walk]
    BY <2>3
  <2> HIDE DEF was
  <2>7. walk \in Walk /\ walk.at = "compared" /\ walk.was = was /\ walk.is = comparer[c].is
        /\ walk.rows = comparer[c].rows
    BY <1>1, <2>5 DEF Walk
  <2> HIDE DEF walk
  <2>8. WalkFacts(walk)
    BY <1>1, <2>5, <2>7 DEF WalkFacts
  <2> QED
    BY <2>6, <2>7, <2>8, WalkGoesOn, ReportsRest DEF PreviousSnapshotFor, DriftRests
<1> QED
  BY <1>2, <1>3

LEMMA DriftIsRecorded ==
  ASSUME MonitorInv, NEW c \in Comparers, RecordDriftFor(c) PROVE MonitorInv'
<1> DEFINE n == Head(comparer[c].rows)
           was == comparer[c].was[2]
           is == comparer[c].is[1]
           report == [before |-> comparer[c].was[1], was |-> was, is |-> is,
                      material |-> Material(was, is)]
<1>1. /\ comparer[c].at = "compared" /\ comparer[c] \in Walk /\ WalkFacts(comparer[c])
      /\ comparer[c].failures \in [1..MaxLooks -> Nat]
  BY HeadIsAssessed DEF RecordDriftFor, MonitorInv
<1>2. was \in Assessed /\ is \in Assessed
  <2>1. comparer[c].was \in Nat \X Assessed /\ comparer[c].is \in Seq(Assessed) /\ Len(comparer[c].is) = 1
    BY <1>1 DEF WalkFacts, Walk
  <2> QED
    BY <2>1
<1>3. CASE n \in DOMAIN reports
  BY <1>1, <1>3, NextRowGoesOn, ReportsRest DEF RecordDriftFor, DriftRests
<1>4. CASE n \notin DOMAIN reports
  <2>1. /\ reports' = [m \in DOMAIN reports \cup {n} |-> IF m = n THEN report ELSE reports[m]]
        /\ NextRow(c, [comparer[c].failures EXCEPT ![n] = 0])
    BY <1>4 DEF RecordDriftFor
  <2>2. report.was = was /\ report.is = is /\ (report.material <=> Material(was, is))
    OBVIOUS
  <2> HIDE DEF n, was, is, report
  <2>3. ReportFacts'
    <3>1. ASSUME NEW m \in DOMAIN reports'
          PROVE  /\ reports'[m].was \in Assessed /\ reports'[m].is \in Assessed
                 /\ reports'[m].material <=> Material(reports'[m].was, reports'[m].is)
      <4>1. m = n => reports'[m] = report
        BY <2>1
      <4>2. m # n => m \in DOMAIN reports /\ reports'[m] = reports[m]
        BY <2>1
      <4> QED
        BY <1>2, <2>2, <4>1, <4>2 DEF MonitorInv, ReportFacts
    <3> QED
      BY <3>1 DEF ReportFacts
  <2>4. [comparer[c].failures EXCEPT ![n] = 0] \in [1..MaxLooks -> Nat]
    BY <1>1
  <2> QED
    BY <1>1, <2>1, <2>3, <2>4, NextRowGoesOn DEF RecordDriftFor, DriftRests
<1> QED
  BY <1>3, <1>4

LEMMA FailureIsCounted ==
  ASSUME MonitorInv, NEW c \in Comparers, ComparisonFails(c) PROVE MonitorInv'
<1>0. PICK n : n = Head(comparer[c].rows)
  OBVIOUS
<1> DEFINE before == comparer[c].failures
           failures == [before EXCEPT ![n] = @ + 1]
<1>1. comparer[c].at # "idle" /\ before \in [1..MaxLooks -> Nat]
  BY HeadIsAssessed DEF ComparisonFails
<1>3. NextRow(c, failures)
  BY <1>0 DEF ComparisonFails
<1> HIDE DEF before
<1>2. failures \in [1..MaxLooks -> Nat]
  <2>1. CASE n \in 1..MaxLooks
    <3>1. before[n] + 1 \in Nat
      BY <1>1, <2>1
    <3> QED
      BY <1>1, <3>1
  <2>2. CASE n \notin 1..MaxLooks
    <3>1. failures = before
      BY <1>1, <2>2
    <3> QED
      BY <1>1, <3>1
  <2> QED
    BY <2>1, <2>2
<1> HIDE DEF failures
<1> QED
  BY <1>1, <1>2, <1>3, NextRowGoesOn, ReportsRest DEF ComparisonFails, DriftRests
----------------------------------------------------------------------------
(* The schedule                                                             *)

\* A day of what the sweep has heard of: the latest of them is no earlier.
LEMMA LatestIsLater ==
  ASSUME NEW k \in Nat, NEW T \in SUBSET (0..k), NEW d \in T
  PROVE  Latest(T) \in T /\ d <= Latest(T)
<1>1. \E n \in T : \A m \in T : m <= n
  BY GreatestExists
<1> QED
  BY <1>1 DEF Latest

LEMMA StampIsHeard ==
  ASSUME MonitorInv PROVE LastAssessed \in Nat /\ schedule.stamped <= LastAssessed
<1> DEFINE T == {0, schedule.stamped} \cup ApprovedAt
<1>1. schedule.stamped \in Nat /\ schedule.stamped <= monitorDay /\ monitorDay \in Nat
  BY DEF MonitorInv, MonitorTyped
<1>2. \A n \in DOMAIN assessed : assessed[n].at \in Nat /\ assessed[n].at <= monitorDay
  BY MonitorRows
<1>3. T \in SUBSET (0..monitorDay) /\ schedule.stamped \in T
  BY <1>1, <1>2 DEF ApprovedAt
<1>4. Latest(T) \in T /\ schedule.stamped <= Latest(T)
  BY <1>1, <1>3, LatestIsLater
<1>5. LastAssessed = Latest(T)
  BY DEF LastAssessed
<1> QED
  BY <1>3, <1>4, <1>5

\* What only an assessment or the owner moves leaves the sweep's own books alone.
LEMMA ScheduleMoves ==
  ASSUME MonitorInv, NEW row, schedule' = row,
         row \in [live: {"none", "queued", "claimed"}, monitored: BOOLEAN, stamped: Nat],
         row.stamped = schedule.stamped, UNCHANGED <<comparer, reports, queuer, queuedRows, monitorDay>>,
         assessed' \in Seq(Assessed), DOMAIN assessed \subseteq DOMAIN assessed',
         \A n \in DOMAIN assessed' : assessed'[n].at <= monitorDay
  PROVE  MonitorInv'
<1>1. MonitorTyped' /\ StampFacts' /\ SelectedFacts' /\ ReassessmentsAreSpaced' /\ ReportFacts'
  BY DEF MonitorInv, MonitorTyped, StampFacts, SelectedFacts, ReassessmentsAreSpaced, ReportFacts
<1>2. \A c \in Comparers : WalkFacts(comparer[c])'
  BY DEF MonitorInv, WalkFacts
<1> QED
  BY <1>1, <1>2 DEF MonitorInv

LEMMA RequestsMove ==
  ASSUME MonitorInv, OwnerAsks \/ Withdrawn \/ Claimed \/ RunFails \/ MonitoringMoves
  PROVE  MonitorInv'
<1>1. assessed \in Seq(Assessed) /\ \A n \in DOMAIN assessed : assessed[n].at <= monitorDay
  BY DEF MonitorInv, MonitorTyped
<1>2. schedule \in [live: {"none", "queued", "claimed"}, monitored: BOOLEAN, stamped: Nat]
  BY DEF MonitorInv, MonitorTyped
<1>3. /\ schedule' \in [live: {"none", "queued", "claimed"}, monitored: BOOLEAN, stamped: Nat]
      /\ schedule'.stamped = schedule.stamped
  BY <1>2 DEF OwnerAsks, Withdrawn, Claimed, RunFails, MonitoringMoves
<1> QED
  BY <1>1, <1>3, ScheduleMoves
     DEF OwnerAsks, Withdrawn, Claimed, RunFails, MonitoringMoves, ScheduleRests

LEMMA RunIsCompleted == ASSUME MonitorInv, RunCompletes PROVE MonitorInv'
<1>1. PICK look \in Looks :
        assessed' = Append(assessed, [look |-> look, score |-> look.score, eligible |-> FALSE,
                                      at |-> monitorDay, status |-> "awaiting_review"])
  BY DEF RunCompletes
<1> DEFINE a == [look |-> look, score |-> look.score, eligible |-> FALSE,
                 at |-> monitorDay, status |-> "awaiting_review"]
<1>2. /\ assessed \in Seq(Assessed) /\ \A n \in DOMAIN assessed : assessed[n].at <= monitorDay
      /\ schedule \in [live: {"none", "queued", "claimed"}, monitored: BOOLEAN, stamped: Nat]
      /\ monitorDay \in Nat
  BY DEF MonitorInv, MonitorTyped
<1>3. a \in Assessed /\ a.at = monitorDay /\ assessed' = Append(assessed, a)
  BY <1>1, <1>2, ReassessmentAssumption DEF Assessed
<1> HIDE DEF a
<1>4. /\ assessed' \in Seq(Assessed) /\ DOMAIN assessed' = 1..Len(assessed) + 1
      /\ DOMAIN assessed = 1..Len(assessed) /\ Len(assessed) \in Nat
      /\ assessed'[Len(assessed) + 1] = a
      /\ \A n \in DOMAIN assessed : assessed'[n] = assessed[n]
  BY <1>2, <1>3
<1>5. \A n \in DOMAIN assessed' : assessed'[n].at <= monitorDay
  <2>1. \A n \in DOMAIN assessed' : n \in DOMAIN assessed \/ n = Len(assessed) + 1
    BY <1>4
  <2> QED
    BY <1>2, <1>3, <1>4, <2>1
<1>6. /\ schedule' \in [live: {"none", "queued", "claimed"}, monitored: BOOLEAN, stamped: Nat]
      /\ schedule'.stamped = schedule.stamped
  BY <1>2 DEF RunCompletes
<1>7. DOMAIN assessed \subseteq DOMAIN assessed'
  BY <1>4
<1> QED
  BY <1>4, <1>5, <1>6, <1>7, ScheduleMoves DEF RunCompletes, ScheduleRests

LEMMA AssessmentIsReviewed ==
  ASSUME MonitorInv, \E n \in 1..MaxLooks : Review(n) PROVE MonitorInv'
<1>1. PICK n \in 1..MaxLooks : Review(n)
  OBVIOUS
<1>2. /\ assessed \in Seq(Assessed) /\ \A m \in DOMAIN assessed : assessed[m].at <= monitorDay
      /\ schedule \in [live: {"none", "queued", "claimed"}, monitored: BOOLEAN, stamped: Nat]
  BY DEF MonitorInv, MonitorTyped
<1>3. n \in DOMAIN assessed /\ UNCHANGED <<schedule, reports>>
      /\ UNCHANGED <<comparer, queuer, queuedRows, monitorDay>>
  BY <1>1 DEF Review, DriftRests
<1>4. assessed[n] \in Assessed
  BY <1>3, MonitorRows
<1>5. \E a \in Assessed : assessed' = [assessed EXCEPT ![n] = a] /\ a.at = assessed[n].at
  <2>1. ASSUME NEW eligible \in BOOLEAN,
               assessed' = [assessed EXCEPT ![n].status = "approved", ![n].eligible = eligible]
        PROVE  \E a \in Assessed : assessed' = [assessed EXCEPT ![n] = a] /\ a.at = assessed[n].at
    <3> DEFINE a == [assessed[n] EXCEPT !.status = "approved", !.eligible = eligible]
    <3>1. a \in Assessed /\ a.at = assessed[n].at
      BY <1>4 DEF Assessed
    <3>2. assessed' = [assessed EXCEPT ![n] = a]
      BY <1>3, <2>1
    <3> QED
      BY <3>1, <3>2
  <2>2. ASSUME assessed' = [assessed EXCEPT ![n].status = "rejected"]
        PROVE  \E a \in Assessed : assessed' = [assessed EXCEPT ![n] = a] /\ a.at = assessed[n].at
    <3> DEFINE a == [assessed[n] EXCEPT !.status = "rejected"]
    <3>1. a \in Assessed /\ a.at = assessed[n].at
      BY <1>4 DEF Assessed
    <3>2. assessed' = [assessed EXCEPT ![n] = a]
      BY <1>3, <2>2
    <3> QED
      BY <3>1, <3>2
  <2>3. ASSUME NEW look \in Looks, assessed' = [assessed EXCEPT ![n].score = look.score]
        PROVE  \E a \in Assessed : assessed' = [assessed EXCEPT ![n] = a] /\ a.at = assessed[n].at
    <3> DEFINE score == look.score
               a == [assessed[n] EXCEPT !.score = score]
    <3>1. score \in Nat
      BY ReassessmentAssumption
    <3>2. assessed' = [assessed EXCEPT ![n] = a]
      BY <1>3, <2>3
    <3> HIDE DEF score
    <3>3. a \in Assessed /\ a.at = assessed[n].at
      BY <1>4, <3>1 DEF Assessed
    <3> QED
      BY <3>2, <3>3
  <2> QED
    BY <1>1, <2>1, <2>2, <2>3 DEF Review
<1>6. PICK a \in Assessed : assessed' = [assessed EXCEPT ![n] = a] /\ a.at = assessed[n].at
  BY <1>5
<1>7. assessed' \in Seq(Assessed) /\ DOMAIN assessed' = DOMAIN assessed
  BY <1>2, <1>3, <1>6
<1>8. \A m \in DOMAIN assessed' : assessed'[m].at <= monitorDay
  <2>1. \A m \in DOMAIN assessed : assessed'[m] = IF m = n THEN a ELSE assessed[m]
    BY <1>6
  <2> QED
    BY <1>2, <1>3, <1>6, <1>7, <2>1
<1> QED
  BY <1>2, <1>3, <1>7, <1>8, ScheduleMoves

LEMMA SweepSelects ==
  ASSUME MonitorInv, NEW q \in Queuers, SelectForReassessment(q) PROVE MonitorInv'
<1> DEFINE row == [at |-> "selected", saw |-> Len(queuedRows)]
<1>1. /\ queuer' = [queuer EXCEPT ![q] = row] /\ IsReassessmentDue
      /\ UNCHANGED <<assessed, schedule, comparer, reports, queuedRows, monitorDay>>
  BY DEF SelectForReassessment, ScheduleRests
<1>2. queuedRows \in Seq([on: Nat, saw: Nat]) /\ Len(queuedRows) \in Nat
  BY DEF MonitorInv, MonitorTyped
<1>3. queuer' \in [Queuers -> [at: {"idle", "selected"}, saw: Nat]]
      /\ \A p \in Queuers \ {q} : queuer'[p] = queuer[p]
  BY <1>1, <1>2 DEF MonitorInv, MonitorTyped
<1>4. \A i \in DOMAIN queuedRows : queuedRows[i].on + Every <= monitorDay
  <2>1. LastAssessed \in Nat /\ schedule.stamped <= LastAssessed /\ LastAssessed + Every <= monitorDay
    BY <1>1, StampIsHeard DEF IsReassessmentDue
  <2>2. \A i \in DOMAIN queuedRows : queuedRows[i].on \in Nat /\ queuedRows[i].on <= schedule.stamped
    BY MonitorRows DEF MonitorInv, StampFacts
  <2>3. schedule.stamped \in Nat /\ monitorDay \in Nat /\ Every \in Nat
    BY ReassessmentAssumption DEF MonitorInv, MonitorTyped
  <2> QED
    BY <2>1, <2>2, <2>3
<1>5. SelectedFacts'
  BY <1>1, <1>3, <1>4 DEF MonitorInv, SelectedFacts
<1>6. \A c \in Comparers : WalkFacts(comparer[c])'
  BY <1>1 DEF MonitorInv, WalkFacts
<1>7. MonitorTyped' /\ StampFacts' /\ ReassessmentsAreSpaced' /\ ReportFacts'
  BY <1>1, <1>3 DEF MonitorInv, MonitorTyped, StampFacts, ReassessmentsAreSpaced, ReportFacts
<1> QED
  BY <1>5, <1>6, <1>7 DEF MonitorInv

LEMMA SweepQueues ==
  ASSUME MonitorInv, NEW q \in Queuers, QueueReassessment(q) PROVE MonitorInv'
<1>1. /\ queuer[q].at = "selected" /\ queuer' = [queuer EXCEPT ![q].at = "idle"]
      /\ UNCHANGED <<assessed, comparer, reports, monitorDay>>
  BY DEF QueueReassessment, ScheduleRests
<1>2. /\ queuer \in [Queuers -> [at: {"idle", "selected"}, saw: Nat]]
      /\ queuedRows \in Seq([on: Nat, saw: Nat]) /\ Len(queuedRows) \in Nat
      /\ DOMAIN queuedRows = 1..Len(queuedRows)
      /\ schedule \in [live: {"none", "queued", "claimed"}, monitored: BOOLEAN, stamped: Nat]
      /\ schedule.stamped \in Nat /\ schedule.stamped <= monitorDay /\ monitorDay \in Nat
      /\ Every \in Nat \ {0}
  BY ReassessmentAssumption DEF MonitorInv, MonitorTyped
<1>3. /\ queuer' \in [Queuers -> [at: {"idle", "selected"}, saw: Nat]] /\ queuer'[q].at = "idle"
      /\ queuer[q].saw \in Nat /\ \A p \in Queuers \ {q} : queuer'[p] = queuer[p]
  BY <1>1, <1>2
<1>4. \A c \in Comparers : WalkFacts(comparer[c])'
  BY <1>1 DEF MonitorInv, WalkFacts
<1>5. ReportFacts'
  BY <1>1, ReportsRest
<1>6. CASE UNCHANGED <<schedule, queuedRows>>
  <2>1. MonitorTyped' /\ StampFacts' /\ ReassessmentsAreSpaced'
    BY <1>1, <1>3, <1>6 DEF MonitorInv, MonitorTyped, StampFacts, ReassessmentsAreSpaced
  <2>2. SelectedFacts'
    BY <1>1, <1>3, <1>6 DEF MonitorInv, SelectedFacts
  <2> QED
    BY <1>4, <1>5, <2>1, <2>2 DEF MonitorInv
<1>7. CASE /\ schedule' = [schedule EXCEPT !.live = "queued", !.stamped = monitorDay]
           /\ queuedRows' = Append(queuedRows, [on |-> monitorDay, saw |-> queuer[q].saw])
  <2> DEFINE row == [on |-> monitorDay, saw |-> queuer[q].saw]
  <2>1. row \in [on: Nat, saw: Nat] /\ row.on = monitorDay /\ row.saw = queuer[q].saw
        /\ queuedRows' = Append(queuedRows, row)
    BY <1>2, <1>3, <1>7
  <2> HIDE DEF row
  <2>2. PICK last \in Nat : last = Len(queuedRows) + 1
    BY <1>2
  <2>3. /\ queuedRows' \in Seq([on: Nat, saw: Nat]) /\ DOMAIN queuedRows' = 1..last
        /\ queuedRows'[last] = row /\ \A i \in DOMAIN queuedRows : queuedRows'[i] = queuedRows[i]
    BY <1>2, <2>1, <2>2
  <2>4. /\ \A i \in DOMAIN queuedRows' : i \in DOMAIN queuedRows \/ i = last
        /\ \A i \in DOMAIN queuedRows : i \in Nat /\ i < last
        /\ DOMAIN queuedRows' \subseteq Nat
    <3>1. /\ DOMAIN queuedRows' = 1..last /\ DOMAIN queuedRows = 1..Len(queuedRows)
          /\ last \in Nat /\ Len(queuedRows) \in Nat /\ last = Len(queuedRows) + 1
      BY <1>2, <2>2, <2>3
    <3>2. \A i \in 1..last : i \in 1..Len(queuedRows) \/ i = last
      BY <3>1
    <3>3. (\A i \in 1..Len(queuedRows) : i \in Nat /\ i < last) /\ 1..last \subseteq Nat
      BY <3>1
    <3> QED
      BY <3>1, <3>2, <3>3
  <2>5. schedule' \in [live: {"none", "queued", "claimed"}, monitored: BOOLEAN, stamped: Nat]
        /\ schedule'.stamped = monitorDay
    BY <1>2, <1>7
  <2>6. MonitorTyped'
    BY <1>1, <1>2, <1>3, <2>3, <2>5 DEF MonitorInv, MonitorTyped
  <2>7. \A i \in DOMAIN queuedRows : queuedRows[i].on \in Nat /\ queuedRows[i].on <= schedule.stamped
    BY MonitorRows DEF MonitorInv, StampFacts
  <2>8. StampFacts'
    <3>1. \A i \in DOMAIN queuedRows : queuedRows[i].on <= monitorDay
      BY <1>2, <2>7
    <3> QED
      BY <1>2, <2>1, <2>3, <2>4, <2>5, <3>1 DEF StampFacts
  <2>12. \A p \in Queuers : queuer[p].saw <= Len(queuedRows)
    BY DEF MonitorInv, SelectedFacts
  <2>9. ASSUME NEW p \in Queuers, queuer'[p].at = "selected", NEW i \in DOMAIN queuedRows',
               i <= queuer'[p].saw
        PROVE  queuedRows'[i].on + Every <= monitorDay
    <3>1. p # q /\ queuer'[p] = queuer[p]
      BY <1>3, <2>9
    <3>2. i \in DOMAIN queuedRows
      <4>1. i \in Nat /\ queuer[p].saw \in Nat /\ i # last
        BY <1>2, <2>2, <2>4, <2>9, <2>12, <3>1
      <4> QED
        BY <2>4, <4>1
    <3> QED
      BY <2>3, <2>9, <3>1, <3>2 DEF MonitorInv, SelectedFacts
  <2>13. SelectedFacts'
    <3>1. \A p \in Queuers : queuer'[p].saw = queuer[p].saw
      BY <1>1, <1>2
    <3>2. Len(queuedRows') = last
      BY <1>2, <2>1, <2>2
    <3>3. \A p \in Queuers : queuer'[p].saw <= Len(queuedRows')
      BY <1>2, <2>2, <2>12, <3>1, <3>2
    <3> QED
      BY <1>1, <2>9, <3>3 DEF SelectedFacts
  <2>10. ASSUME NEW i \in DOMAIN queuedRows, monitorDay < queuedRows[i].on + Every
         PROVE  queuer[q].saw < i
    <3>1. ~(i <= queuer[q].saw)
      <4>1. i <= queuer[q].saw => queuedRows[i].on + Every <= monitorDay
        BY <1>1 DEF MonitorInv, SelectedFacts
      <4>2. queuedRows[i].on \in Nat
        BY <2>7
      <4> QED
        <5>1. monitorDay \in Nat /\ Every \in Nat
          BY <1>2, ReassessmentAssumption
        <5> QED
          BY <2>10, <4>1, <4>2, <5>1
    <3>2. i \in Nat /\ queuer[q].saw \in Nat
      BY <1>3, <2>4
    <3> QED
      BY <3>1, <3>2
  <2>11. ReassessmentsAreSpaced'
    <3>1. ASSUME NEW i \in DOMAIN queuedRows', NEW j \in DOMAIN queuedRows', i < j,
                 queuedRows'[j].on < queuedRows'[i].on + Every
          PROVE  queuedRows'[j].saw < i
      <4>1. i \in DOMAIN queuedRows
        <5>1. i \in Nat /\ j \in Nat /\ j <= last /\ i # last
          BY <2>2, <2>3, <2>4, <3>1
        <5> QED
          BY <2>4, <5>1
      <4>2. CASE j \in DOMAIN queuedRows
        BY <2>3, <3>1, <4>1, <4>2 DEF MonitorInv, ReassessmentsAreSpaced
      <4>3. CASE j = last
        BY <2>1, <2>3, <2>10, <3>1, <4>1, <4>3
      <4> QED
        BY <2>4, <4>2, <4>3
    <3> QED
      BY <3>1 DEF ReassessmentsAreSpaced
  <2> QED
    BY <1>1, <1>4, <1>5, <2>6, <2>8, <2>11, <2>13 DEF MonitorInv
<1> QED
  BY <1>6, <1>7 DEF QueueReassessment

LEMMA MonitorDayPasses == ASSUME MonitorInv, DayPasses PROVE MonitorInv'
<1>1. /\ monitorDay \in Nat /\ monitorDay' = monitorDay + 1 /\ Every \in Nat
      /\ UNCHANGED <<assessed, schedule, queuer, queuedRows, comparer, reports>>
  BY ReassessmentAssumption DEF DayPasses, ScheduleRests, MonitorInv, MonitorTyped
<1>2. MonitorTyped'
  <2>1. \A n \in DOMAIN assessed : assessed[n].at \in Nat /\ assessed[n].at <= monitorDay
    BY MonitorRows
  <2>2. schedule.stamped \in Nat /\ schedule.stamped <= monitorDay
    BY DEF MonitorInv, MonitorTyped
  <2>3. (\A n \in DOMAIN assessed : assessed[n].at <= monitorDay + 1) /\ schedule.stamped <= monitorDay + 1
    BY <1>1, <2>1, <2>2
  <2> QED
    BY <1>1, <2>3 DEF MonitorInv, MonitorTyped
<1>3. SelectedFacts'
  <2>1. \A i \in DOMAIN queuedRows : queuedRows[i].on \in Nat
    BY MonitorRows
  <2>2. \A d \in Nat : d + Every <= monitorDay => d + Every <= monitorDay + 1
    BY <1>1
  <2> QED
    BY <1>1, <2>1, <2>2 DEF MonitorInv, SelectedFacts
<1>4. StampFacts' /\ ReassessmentsAreSpaced' /\ ReportFacts'
  BY <1>1 DEF MonitorInv, StampFacts, ReassessmentsAreSpaced, ReportFacts
<1>5. \A c \in Comparers : WalkFacts(comparer[c])'
  BY <1>1 DEF MonitorInv, WalkFacts
<1> QED
  BY <1>2, <1>3, <1>4, <1>5 DEF MonitorInv

LEMMA MonitorSteps == MonitorInv /\ [ReassessmentNext]_reassessmentVars => MonitorInv'
<1> SUFFICES ASSUME MonitorInv, [ReassessmentNext]_reassessmentVars PROVE MonitorInv'
  OBVIOUS
<1>1. CASE UNCHANGED reassessmentVars
  <2>1. \A c \in Comparers : WalkFacts(comparer[c])'
    BY <1>1 DEF reassessmentVars, MonitorInv, WalkFacts
  <2> QED
    BY <1>1, <2>1 DEF reassessmentVars, MonitorInv, MonitorTyped, ReportFacts, StampFacts, SelectedFacts,
                      ReassessmentsAreSpaced
<1> QED
  BY <1>1, RowsAreRead, RowIsPassedOver, SnapshotIsRead, PreviousIsRead, DriftIsRecorded,
     FailureIsCounted, RequestsMove, RunIsCompleted, AssessmentIsReviewed, SweepSelects,
     SweepQueues, MonitorDayPasses DEF ReassessmentNext

\* The sweep queues an application twice inside one cadence only where the second
\* process had selected it before the first wrote (sweepScheduledReassessments), for
\* any number of processes and any cadence.
THEOREM CadenceIsKept == ReassessmentSpec => []ReassessmentsAreSpaced
<1>1. MonitorInv => ReassessmentsAreSpaced
  BY DEF MonitorInv
<1> QED
  BY MonitorStarts, MonitorSteps, <1>1, PTL DEF ReassessmentSpec

\* However gradually it gets worse, what no comparison of equal reach calls material
\* has lost nothing of what the first look stood for, and what is called material is
\* worse in something (assessMateriality, RULES), for any thresholds and any looks.
THEOREM RegressionsAreSeen == ReassessmentSpec => []RegressionsDoNotAddUp
<1>1. ASSUME MonitorInv PROVE RegressionsDoNotAddUp
  <2>1. \A n \in DOMAIN reports :
          /\ reports[n].was \in Assessed /\ reports[n].is \in Assessed
          /\ reports[n].material <=> Material(reports[n].was, reports[n].is)
    BY <1>1 DEF MonitorInv, ReportFacts
  <2>2. \A n \in DOMAIN reports : Quiet(n) => ~Slipped(reports[n].was, reports[n].is)
    BY <2>1, QuietChangeLosesNothing DEF Quiet, Attributable, Material
  <2>3. ASSUME NEW n \in DOMAIN reports, Quiet(n), NEW m \in DOMAIN reports, Follows(n, m), Quiet(m)
        PROVE  ~Slipped(reports[m].was, reports[n].is)
    <3>1. reports[n].was = reports[m].is
      BY <2>3 DEF Follows
    <3>2. reports[m].is \in Assessed
      BY <2>1
    <3>3. ~Slipped(reports[m].was, reports[m].is) /\ ~Slipped(reports[m].is, reports[n].is)
      BY <2>2, <2>3, <3>1
    <3> QED
      BY <3>2, <3>3, SlippingNeedsAStep
  <2>4. ASSUME NEW n \in DOMAIN reports, reports[n].material
        PROVE  Worse(reports[n].was, reports[n].is)
    BY <2>1, <2>4, RulesNeedSomethingWorse DEF Material
  <2> QED
    BY <2>2, <2>3, <2>4 DEF RegressionsDoNotAddUp, Worse
<1> QED
  BY MonitorStarts, MonitorSteps, <1>1, PTL DEF ReassessmentSpec

-----------------------------------------------------------------------------
\* The type of the assessment run.

StageStatus == {"none", "skipped", "unreached", "failed", "succeeded", "aborted"}
AttemptRow == [looked: SUBSET Criterion, notTested: SUBSET Criterion, complete: BOOLEAN]
StageRow == [status: StageStatus, looked: SUBSET Criterion, notTested: SUBSET Criterion]

RunTyped ==
  /\ target \in Targets /\ tries \in 1..MaxTries /\ draft \in AttemptRow
  /\ result \in [StageId -> StageRow]
  /\ stopped \in BOOLEAN /\ exhausted \in BOOLEAN /\ spent \in Nat /\ calls \in Nat

\* Every table of the stages is of criteria that some stage asks.
LEMMA TablesAreOfCriteria ==
  /\ \A s \in StageId : AskedByStage[s] \subseteq Criterion
  /\ RootCriteria \cup ProbedCriteria \cup BrowserPassCriteria \cup TrustSurveyCriteria
       \cup DesignSurveyCriteria \cup GamePassCriteria \subseteq Criterion
  /\ {"SEC-04", "PRD-04", "SEC-10"} \subseteq Criterion
<1>1. \A s \in StageId : AskedByStage[s] \subseteq Criterion
  BY DEF Criterion
<1>2. /\ AskedByStage["deterministic_checks"] =
           RootCriteria \cup ProbedCriteria \cup BrowserPassCriteria
             \cup TrustSurveyCriteria \cup DesignSurveyCriteria \cup GamePassCriteria
      /\ AskedByStage["static_intake"] = {"PRD-04", "SEC-04", "SEC-10"}
  BY StagesInOrder DEF AskedByStage
<1>3. "deterministic_checks" \in StageId /\ "static_intake" \in StageId
  BY StagesInOrder
<1> QED
  BY <1>1, <1>2, <1>3

\* What a pass may do to the attempt and to the stage.
StageGoesOn ==
  \/ \E next \in Pass, looked \in SUBSET Criterion, notTested \in SUBSET Criterion :
       Proceed(next, looked, notTested)
  \/ \E next \in Pass, notTested \in SUBSET Criterion : Miss(next, notTested)
  \/ \E looked \in SUBSET Criterion, notTested \in SUBSET Criterion : Fail(looked, notTested)
  \/ \E status \in StageStatus, looked \in SUBSET Criterion, notTested \in SUBSET Criterion :
       Settle(status, looked, notTested) /\ UNCHANGED stopped
  \/ Abort

LEMMA BlankIsTyped == Blank \in AttemptRow
BY DEF Blank, AttemptRow

LEMMA SettlingIsTyped ==
  ASSUME RunTyped, NEW status \in StageStatus, NEW looked \in SUBSET Criterion,
         NEW notTested \in SUBSET Criterion, Settle(status, looked, notTested),
         stopped' \in BOOLEAN, spent' \in Nat
  PROVE  RunTyped'
<1> DEFINE row == [status |-> status, looked |-> looked, notTested |-> notTested]
<1>1. row \in StageRow
  BY DEF StageRow
<1>2. result' = [result EXCEPT ![Current] = row]
  BY DEF Settle
<1> HIDE DEF row
<1>3. result' \in [StageId -> StageRow]
  BY <1>1, <1>2 DEF RunTyped
<1>4. /\ tries' = 1 /\ draft' = Blank /\ calls' = 0 /\ target' = target /\ exhausted' = exhausted
      /\ 1 \in 1..MaxTries
  BY DEF Settle, MaxTries
<1> QED
  BY <1>3, <1>4, BlankIsTyped DEF RunTyped

LEMMA NotesAreTyped ==
  ASSUME RunTyped, NEW next, NEW looked \in SUBSET Criterion, NEW notTested \in SUBSET Criterion,
         Proceed(next, looked, notTested) \/ Miss(next, notTested), spent' \in Nat
  PROVE  RunTyped'
<1>1. draft \in AttemptRow
  BY DEF RunTyped
<1>2. draft.looked \cup looked \in SUBSET Criterion /\ draft.notTested \cup notTested \in SUBSET Criterion
  BY <1>1 DEF AttemptRow
<1>3. [draft EXCEPT !.looked = @ \cup looked, !.notTested = @ \cup notTested] \in AttemptRow
  BY <1>1, <1>2 DEF AttemptRow
<1>4. [draft EXCEPT !.notTested = @ \cup notTested, !.complete = FALSE] \in AttemptRow
  BY <1>1, <1>2 DEF AttemptRow
<1>5. draft' \in AttemptRow
  BY <1>3, <1>4 DEF Proceed, Miss
<1>6. UNCHANGED <<target, tries, result, stopped, exhausted, calls>>
  BY DEF Proceed, Miss
<1> QED
  BY <1>5, <1>6 DEF RunTyped

LEMMA StageStaysTyped == ASSUME RunTyped, StageGoesOn, spent' \in Nat PROVE RunTyped'
<1>1. CASE \E next \in Pass, looked \in SUBSET Criterion, notTested \in SUBSET Criterion :
             Proceed(next, looked, notTested)
  BY <1>1, NotesAreTyped
<1>2. CASE \E next \in Pass, notTested \in SUBSET Criterion : Miss(next, notTested)
  <2>1. {} \in SUBSET Criterion
    OBVIOUS
  <2> QED
    BY <1>2, <2>1, NotesAreTyped
<1>3. ASSUME NEW status \in StageStatus, NEW looked \in SUBSET Criterion,
             NEW notTested \in SUBSET Criterion, Settle(status, looked, notTested), UNCHANGED stopped
      PROVE  RunTyped'
  <2>1. stopped' \in BOOLEAN
    BY <1>3 DEF RunTyped
  <2> QED
    BY <1>3, <2>1, SettlingIsTyped
<1>4. ASSUME NEW looked \in SUBSET Criterion, NEW notTested \in SUBSET Criterion,
             Fail(looked, notTested)
      PROVE  RunTyped'
  <2>1. CASE tries < MaxTries
    <3>1. /\ tries' = tries + 1 /\ draft' = Blank /\ calls' = 0
          /\ UNCHANGED <<target, result, stopped, exhausted>>
      BY <1>4, <2>1 DEF Fail
    <3>2. tries' \in 1..MaxTries
      BY <2>1, <3>1 DEF RunTyped, MaxTries
    <3> QED
      BY <3>1, <3>2, BlankIsTyped DEF RunTyped
  <2>2. CASE ~(tries < MaxTries)
    BY <1>3, <1>4, <2>2 DEF Fail, StageStatus
  <2> QED
    BY <2>1, <2>2
<1>5. CASE Abort
  <2>1. Settle("aborted", {}, {}) /\ stopped' \in BOOLEAN /\ "aborted" \in StageStatus
    BY <1>5 DEF Abort, StageStatus
  <2> QED
    BY <2>1, SettlingIsTyped
<1> QED
  BY <1>1, <1>2, <1>3, <1>4, <1>5 DEF StageGoesOn

LEMMA SpendingIsCounted ==
  ASSUME RunTyped PROVE \A cost \in CallCosts : Record(cost) => spent' \in Nat
<1>1. spent \in Nat /\ \A cost \in CallCosts : cost \in Nat
  BY RunAssumption DEF RunTyped
<1> QED
  BY <1>1 DEF Record

LEMMA PassesAreNamed ==
  {"settle", "repository", "root", "open", "scan", "probe", "browser", "trust", "design", "phone",
   "game", "compute", "exit", "explore", "extract"} \subseteq Pass
BY DEF Pass

LEMMA StageEntryIsTyped == ASSUME PipelineFacts, RunTyped, EnterStage PROVE RunTyped'
<1>1. spent' \in Nat
  BY DEF EnterStage, RunTyped
<1>2. CASE UNCHANGED <<target, stage, tries, draft, result, stopped, exhausted, calls>>
  BY <1>1, <1>2 DEF RunTyped
<1>3. CASE \E status \in {"skipped", "unreached"} : Settle(status, {}, {}) /\ UNCHANGED stopped
  <2>1. StageGoesOn
    BY <1>3 DEF StageGoesOn, StageStatus
  <2> QED
    BY <1>1, <2>1, StageStaysTyped
<1> QED
  BY <1>2, <1>3 DEF EnterStage

LEMMA AttemptIsTyped == ASSUME PipelineFacts, RunTyped, BeginAttempt PROVE RunTyped'
<1>1. spent' \in Nat /\ Proceed(FirstPass, {}, {})
  BY DEF BeginAttempt, RunTyped
<1> QED
  BY <1>1, NotesAreTyped

LEMMA IntakeIsTyped ==
  ASSUME PipelineFacts, RunTyped, ReadRepository \/ ScanRepository PROVE RunTyped'
<1>1. CASE ReadRepository
  <2>1. spent' \in Nat
    BY <1>1 DEF ReadRepository, RunTyped
  <2>2. Proceed("scan", {}, {}) \/ Fail({}, {"SEC-10"})
    BY <1>1 DEF ReadRepository
  <2>3. StageGoesOn
    BY <2>2, TablesAreOfCriteria, PassesAreNamed DEF StageGoesOn
  <2> QED
    BY <2>1, <2>3, StageStaysTyped
<1>2. CASE ScanRepository
  <2>1. PICK cost \in CallCosts, checked \in SUBSET {"SEC-10"} : Record(cost) /\
          (\/ Abort
           \/ Settle("succeeded", {"SEC-04", "PRD-04"} \cup checked, {"SEC-10"} \ checked)
                /\ UNCHANGED stopped
           \/ Fail(checked, {"SEC-10"} \ checked))
    BY <1>2 DEF ScanRepository
  <2>2. /\ {"SEC-04", "PRD-04"} \cup checked \in SUBSET Criterion
        /\ checked \in SUBSET Criterion /\ {"SEC-10"} \ checked \in SUBSET Criterion
    BY TablesAreOfCriteria
  <2>3. StageGoesOn
    BY <2>1, <2>2 DEF StageGoesOn, StageStatus
  <2> QED
    BY <2>1, <2>3, SpendingIsCounted, StageStaysTyped
<1> QED
  BY <1>1, <1>2

LEMMA RequestsAreTyped ==
  ASSUME PipelineFacts, RunTyped, RequestRoot \/ ProbePaths \/ OpenBrowser \/ SurveyPhone \/ PlayGame
  PROVE  RunTyped'
<1>1. spent' \in Nat
  BY DEF RequestRoot, ProbePaths, OpenBrowser, SurveyPhone, PlayGame, Request, Refused, RunTyped
<1>2. Refused => StageGoesOn
  BY DEF Refused, StageGoesOn
<1>3. AfterBrowser \in Pass
  BY PassesAreNamed DEF AfterBrowser
<1>4. /\ {"UX-03"} \in SUBSET Criterion /\ {"UX-02", "PRD-02"} \in SUBSET Criterion
      /\ {} \in SUBSET Criterion /\ GamePassCriteria \in SUBSET Criterion
      /\ BrowserPassCriteria \cup TrustSurveyCriteria \cup DesignSurveyCriteria \in SUBSET Criterion
  BY TablesAreOfCriteria DEF BrowserPassCriteria
<1>5. BrowserDies => StageGoesOn
  BY <1>3, <1>4 DEF BrowserDies, StageGoesOn
<1>6. CASE RequestRoot
  <2>1. ASSUME NEW noCookie \in SUBSET {"SEC-03"}, Proceed("probe", RootCriteria \ noCookie, noCookie)
        PROVE  StageGoesOn
    <3>1. RootCriteria \ noCookie \in SUBSET Criterion /\ noCookie \in SUBSET Criterion
      BY TablesAreOfCriteria DEF RootCriteria
    <3> QED
      BY <2>1, <3>1, PassesAreNamed DEF StageGoesOn
  <2> DEFINE unasked == BrowserPassCriteria \cup TrustSurveyCriteria \cup DesignSurveyCriteria
                          \cup IF target.isGame THEN GamePassCriteria ELSE {}
  <2>2. Fail({}, unasked) => StageGoesOn
    <3>1. unasked \in SUBSET Criterion
      BY <1>4
    <3> HIDE DEF unasked
    <3> QED
      BY <3>1, <1>4 DEF StageGoesOn
  <2> QED
    BY <1>1, <1>2, <1>6, <2>1, <2>2, StageStaysTyped DEF RequestRoot
<1>7. CASE ProbePaths
  <2>1. ASSUME NEW nothing \in SUBSET ProbedCriteria, Proceed("browser", ProbedCriteria \ nothing, nothing)
        PROVE  StageGoesOn
    <3>1. ProbedCriteria \ nothing \in SUBSET Criterion /\ nothing \in SUBSET Criterion
      BY TablesAreOfCriteria
    <3> QED
      BY <2>1, <3>1, PassesAreNamed DEF StageGoesOn
  <2> QED
    BY <1>1, <1>2, <1>7, <2>1, StageStaysTyped DEF ProbePaths
<1>8. CASE OpenBrowser
  <2>1. Proceed("trust", {"UX-03"}, {}) => StageGoesOn
    BY <1>4, PassesAreNamed DEF StageGoesOn
  <2> QED
    BY <1>1, <1>2, <1>5, <1>8, <2>1, StageStaysTyped DEF OpenBrowser
<1>9. CASE SurveyPhone
  <2>1. Proceed(AfterBrowser, {"UX-02", "PRD-02"}, {}) => StageGoesOn
    BY <1>3, <1>4 DEF StageGoesOn
  <2> QED
    BY <1>1, <1>2, <1>5, <1>9, <2>1, StageStaysTyped DEF SurveyPhone
<1>10. CASE PlayGame
  <2>1. Proceed("compute", GamePassCriteria, {}) \/ Miss("compute", GamePassCriteria) => StageGoesOn
    BY <1>4, PassesAreNamed DEF StageGoesOn
  <2> QED
    BY <1>1, <1>2, <1>10, <2>1, StageStaysTyped DEF PlayGame
<1> QED
  BY <1>6, <1>7, <1>8, <1>9, <1>10

LEMMA SurveysAreTyped ==
  ASSUME PipelineFacts, RunTyped, SurveyTrust \/ SurveyDesign PROVE RunTyped'
<1>1. spent' \in Nat
  BY DEF SurveyTrust, SurveyDesign, Request, Refused, RunTyped
<1>2. {} \in SUBSET Criterion /\ TrustSurveyCriteria \in SUBSET Criterion
      /\ DesignSurveyCriteria \in SUBSET Criterion
  BY TablesAreOfCriteria
<1>3. CASE SurveyTrust
  <2>1. ASSUME NEW survey \in TrustPages,
               LET missed == TrustNotTested(survey, target.hasPayments) IN
               Proceed("design", TrustSurveyCriteria \ missed, missed)
        PROVE  StageGoesOn
    <3>1. PICK missed : missed = TrustNotTested(survey, target.hasPayments)
      OBVIOUS
    <3>2. missed \subseteq TrustSurveyCriteria
      BY <3>1 DEF TrustNotTested
    <3>3. missed \in SUBSET Criterion /\ TrustSurveyCriteria \ missed \in SUBSET Criterion
      BY <1>2, <3>2
    <3>4. Proceed("design", TrustSurveyCriteria \ missed, missed)
      BY <2>1, <3>1
    <3> QED
      BY <3>3, <3>4, PassesAreNamed DEF StageGoesOn
  <2>2. Proceed("design", {}, TrustSurveyCriteria) \/ Refused => StageGoesOn
    BY <1>2, PassesAreNamed DEF StageGoesOn, Refused
  <2> QED
    BY <1>1, <1>3, <2>1, <2>2, StageStaysTyped DEF SurveyTrust
<1>4. CASE SurveyDesign
  <2>1. Proceed("phone", DesignSurveyCriteria, {}) \/ Proceed("phone", {}, DesignSurveyCriteria)
    BY <1>4 DEF SurveyDesign
  <2> QED
    BY <1>1, <1>2, <2>1, NotesAreTyped
<1> QED
  BY <1>3, <1>4

LEMMA DraftIsOfCriteria ==
  ASSUME RunTyped PROVE draft.looked \in SUBSET Criterion /\ draft.notTested \in SUBSET Criterion
<1>1. draft \in AttemptRow
  BY DEF RunTyped
<1> QED
  BY <1>1 DEF AttemptRow

LEMMA ComputeIsTyped ==
  ASSUME PipelineFacts, RunTyped, RecordCompute \/ WalkToTheExit PROVE RunTyped'
<1>1. Succeed => StageGoesOn
  BY DraftIsOfCriteria DEF Succeed, StageGoesOn, StageStatus
<1>2. Fail(draft.looked, draft.notTested) => StageGoesOn
  BY DraftIsOfCriteria DEF StageGoesOn
<1>3. CASE RecordCompute
  <2>1. PICK cost \in CallCosts : Record(cost) /\ (Abort \/ Proceed("exit", {}, {}) \/ Succeed)
    BY <1>3 DEF RecordCompute
  <2>2. StageGoesOn
    BY <1>1, <2>1, PassesAreNamed DEF StageGoesOn
  <2> QED
    BY <2>1, <2>2, SpendingIsCounted, StageStaysTyped
<1>4. CASE WalkToTheExit
  <2>1. spent' \in Nat
    BY <1>4 DEF WalkToTheExit, Request, Refused, RunTyped
  <2>2. StageGoesOn
    BY <1>1, <1>2, <1>4 DEF WalkToTheExit, Refused, StageGoesOn
  <2> QED
    BY <2>1, <2>2, StageStaysTyped
<1> QED
  BY <1>3, <1>4

LEMMA ModelStageIsTyped ==
  ASSUME PipelineFacts, RunTyped, OpenPage \/ Explore \/ Extract PROVE RunTyped'
<1>1. Fail({}, {}) \/ Abort => StageGoesOn
  BY DEF StageGoesOn
<1>2. \A next \in {"explore", "extract"} : Proceed(next, {}, {}) => StageGoesOn
  BY PassesAreNamed DEF StageGoesOn
<1>3. CASE OpenPage
  BY <1>1, <1>2, <1>3, StageStaysTyped DEF OpenPage, Request, Refused, RunTyped
<1>4. CASE UNCHANGED spent /\ StageGoesOn
  BY <1>4, StageStaysTyped DEF RunTyped
<1>5. CASE Explore /\ ~(UNCHANGED spent /\ StageGoesOn)
  <2>1. PICK cost \in CallCosts : Record(cost) /\
          \/ Abort \/ Proceed("extract", {}, {})
          \/ calls' = calls + 1
               /\ UNCHANGED <<target, stage, pass, tries, draft, result, stopped, exhausted>>
    BY <1>1, <1>5 DEF Explore
  <2>2. spent' \in Nat
    BY <2>1, SpendingIsCounted
  <2>3. CASE StageGoesOn
    BY <2>2, <2>3, StageStaysTyped
  <2>4. CASE calls' = calls + 1
               /\ UNCHANGED <<target, stage, pass, tries, draft, result, stopped, exhausted>>
    BY <2>2, <2>4 DEF RunTyped
  <2> QED
    BY <1>1, <1>2, <2>1, <2>3, <2>4
<1>6. CASE Extract /\ ~(UNCHANGED spent /\ StageGoesOn)
  <2>1. PICK cost \in CallCosts : Record(cost) /\
          (Abort \/ Proceed("compute", AskedByStage[Current], {}) \/ Fail({}, {}))
    BY <1>1, <1>6 DEF Extract
  <2>2. AskedByStage[Current] \in SUBSET Criterion
    <3>1. Current \in StageId
      BY <1>6, StagesInOrder DEF PipelineFacts, DraftFacts, Extract
    <3> QED
      BY <3>1, TablesAreOfCriteria
  <2>3. StageGoesOn
    BY <1>1, <2>1, <2>2, PassesAreNamed DEF StageGoesOn
  <2> QED
    BY <2>1, <2>3, SpendingIsCounted, StageStaysTyped
<1>7. Explore \/ Extract \/ OpenPage
  OBVIOUS
<1> QED
  BY <1>3, <1>4, <1>5, <1>6, <1>7

LEMMA AfterStagesIsTyped ==
  ASSUME RunTyped, FinishStages \/ Synthesise \/ CeilingReached \/ UNCHANGED runVars PROVE RunTyped'
<1>1. spent' \in Nat
  BY SpendingIsCounted DEF FinishStages, Synthesise, CeilingReached, runVars, RunTyped
<1>2. UNCHANGED <<target, tries, draft, result, stopped, calls>> /\ exhausted' \in BOOLEAN
  BY DEF FinishStages, Synthesise, CeilingReached, runVars, RunTyped
<1> QED
  BY <1>1, <1>2 DEF RunTyped

\* Stages, passes and criteria are those of the pipeline's tables, a stage is tried
\* twice at the most, and no note is of a criterion nobody asks (runPipeline).
THEOREM RunTypeCorrect == RunSpec => []RunTypeOK
<1> DEFINE IInv == PipelineFacts /\ RunTyped
<1>1. RunInit => IInv
  <2> SUFFICES ASSUME RunInit PROVE RunTyped
    BY RunStarts
  <2>1. Untried \in StageRow
    BY DEF Untried, StageRow, StageStatus
  <2>2. result \in [StageId -> StageRow] /\ tries \in 1..MaxTries
    BY <2>1 DEF RunInit, MaxTries
  <2> QED
    BY <2>2, BlankIsTyped DEF RunInit, RunTyped
<1>2. IInv /\ [RunNext]_runVars => IInv'
  BY PipelineSteps, StageEntryIsTyped, AttemptIsTyped, IntakeIsTyped, RequestsAreTyped,
     SurveysAreTyped, ComputeIsTyped, ModelStageIsTyped, AfterStagesIsTyped DEF RunNext, RunStep
<1>3. IInv => RunTypeOK
  <2>1. IInv => stage \in 0..Len(Stages)
    BY StagesInOrder DEF PipelineFacts
  <2>2. IInv => pass \in Pass
    BY DEF PipelineFacts
  <2> QED
    BY <2>1, <2>2 DEF RunTyped, RunTypeOK, AttemptRow, StageRow, StageStatus
<1> QED
  BY <1>1, <1>2, <1>3, PTL DEF RunSpec

-----------------------------------------------------------------------------
\* The type of the scoped session.

TalkAt == {"enter", "goto", "loading", "asking", "using", "navigating", "exchange",
           "asserting", "fetching", "extracting", "over"}
BrowserRow == [at: {"closed", "open", "loaded"}, ceiling: BOOLEAN, blocked: [BlockReason -> Nat]]
RouteRow == [at: {"unmade", "waiting", "checking", "sent", "blocked"}, inside: BOOLEAN]
TalkRow == [at: TalkAt, turn: 0..MaxTurns, halted: LoopHalt, minted: 0..MaxArtefacts,
            refused: SUBSET {"controls", "credentials"}, hop: 0..MaxRedirects]
ResultRow == [status: {"none", "succeeded", "failed", "aborted"}, stopReason: StopReason,
              notes: SUBSET SessionNote, findings: 0..1, scopeRefusals: Nat]

\* The model is asked only while there is a turn left.
TurnLeft(said) ==
  said.at \in {"enter", "goto", "loading", "asking"} => said.turn < MaxTurns

TalkTyped ==
  /\ browser \in BrowserRow /\ talk \in TalkRow /\ stageResult \in ResultRow /\ TurnLeft(talk)
RoutesTyped == routed \in [Routed -> RouteRow]
DeparturesCounted == departed \in Nat /\ departed <= guard.made

SessionTyped == TalkTyped /\ RoutesTyped /\ DeparturesCounted

LEMMA SessionStarts == SessionInit => SessionTyped
<1> SUFFICES ASSUME SessionInit PROVE SessionTyped
  OBVIOUS
<1>1. browser \in BrowserRow
  BY DEF SessionInit, BrowserRow
<1>2. talk \in TalkRow /\ TurnLeft(talk)
  BY SessionAssumption DEF SessionInit, TalkRow, TalkAt, LoopHalt, TurnLeft
<1>3. stageResult \in ResultRow
  BY DEF SessionInit, NoStageResult, ResultRow, StopReason
<1>4. RoutesTyped
  BY DEF SessionInit, RoutesTyped, RouteRow
<1>5. DeparturesCounted
  BY DEF SessionInit, DeparturesCounted
<1> QED
  BY <1>1, <1>2, <1>3, <1>4, <1>5 DEF SessionTyped, TalkTyped

\* A stage that ends leaves a ended, and a session that is closed.
LEMMA StageEndsTyped ==
  ASSUME TalkTyped, NEW ended \in ResultRow, EndStage(ended) PROVE TalkTyped'
<1>1. [browser EXCEPT !.at = "closed"] \in BrowserRow
  BY DEF TalkTyped, BrowserRow
<1>2. [talk EXCEPT !.at = "over"] \in TalkRow
  BY DEF TalkTyped, TalkRow, TalkAt
<1>3. [talk EXCEPT !.at = "over"].at = "over"
  BY DEF TalkTyped, TalkRow
<1> QED
  BY <1>1, <1>2, <1>3 DEF EndStage, TalkTyped, TurnLeft

LEMMA StageFailsTyped ==
  ASSUME TalkTyped, (\E reason \in StopReason : AbortStage(reason))
                      \/ (\E note \in SessionNote : FailStage(note))
  PROVE  TalkTyped'
<1>0. "none" \in StopReason /\ "stopped" \in SessionNote
  BY DEF StopReason, SessionNote
<1>1. NoStageResult \in ResultRow
  BY <1>0 DEF NoStageResult, ResultRow
<1>2. ASSUME NEW reason \in StopReason, AbortStage(reason) PROVE TalkTyped'
  <2>1. [NoStageResult EXCEPT !.status = "aborted", !.stopReason = reason, !.notes = {"stopped"}]
          \in ResultRow
    BY <1>0, <1>1 DEF ResultRow
  <2> QED
    BY <1>2, <2>1, StageEndsTyped DEF AbortStage
<1>3. ASSUME NEW note \in SessionNote, FailStage(note) PROVE TalkTyped'
  <2>1. [NoStageResult EXCEPT !.status = "failed", !.notes = {note}] \in ResultRow
    BY <1>0, <1>1 DEF ResultRow
  <2> QED
    BY <1>3, <2>1, StageEndsTyped DEF FailStage
<1> QED
  BY <1>2, <1>3

LEMMA StopsAreNamed ==
  /\ {"intensity_ceiling", "scope_violation", "cost_ceiling"} \subseteq StopReason
  /\ {"did not complete", "malformed ceiling", "no findings"} \subseteq SessionNote
BY DEF StopReason, SessionNote

LEMMA TalkGoesOn ==
  ASSUME TalkTyped, UNCHANGED <<browser, stageResult>>, talk' \in TalkRow, TurnLeft(talk')
  PROVE  TalkTyped'
BY DEF TalkTyped, TurnLeft

LEMMA ToolReturnsTyped ==
  ASSUME TalkTyped, NEW said \in TalkRow, said.turn = talk.turn, ToolReturns(said) PROVE TalkTyped'
<1>0. 0 \in 0..MaxRedirects
  BY SessionAssumption
<1>1. CASE talk' = [said EXCEPT !.at = "using", !.hop = 0]
  <2>1. talk' \in TalkRow /\ talk'.at = "using"
    BY <1>0, <1>1 DEF TalkRow, TalkAt
  <2> QED
    BY <2>1, TalkGoesOn DEF ToolReturns, TurnLeft
<1>2. CASE talk.turn < MaxTurns /\ talk' = [said EXCEPT !.at = "asking", !.hop = 0]
  <2>1. talk' \in TalkRow /\ talk'.turn = talk.turn
    BY <1>0, <1>2 DEF TalkRow, TalkAt
  <2> QED
    BY <1>2, <2>1, TalkGoesOn DEF ToolReturns, TurnLeft
<1>3. CASE talk' = [said EXCEPT !.at = "extracting", !.hop = 0, !.halted = "tool_iteration_ceiling"]
  <2>1. talk' \in TalkRow /\ talk'.at = "extracting"
    BY <1>0, <1>3 DEF TalkRow, TalkAt, LoopHalt
  <2> QED
    BY <2>1, TalkGoesOn DEF ToolReturns, TurnLeft
<1> QED
  BY <1>1, <1>2, <1>3 DEF ToolReturns

LEMMA CaptureIsTyped == ASSUME TalkTyped, Capture PROVE TalkTyped'
<1>1. talk.minted \in 0..MaxArtefacts /\ talk.minted < MaxArtefacts
  BY DEF TalkTyped, TalkRow, Capture
<1>2. talk.minted + 1 \in 0..MaxArtefacts
  BY <1>1, SessionAssumption
<1>3. [talk EXCEPT !.minted = @ + 1] \in TalkRow
      /\ [talk EXCEPT !.minted = @ + 1].turn = talk.turn
  BY <1>2 DEF TalkTyped, TalkRow
<1> QED
  BY <1>3, ToolReturnsTyped DEF Capture

LEMMA TalkReturnsTyped == ASSUME TalkTyped, ToolReturns(talk) PROVE TalkTyped'
BY ToolReturnsTyped DEF TalkTyped

\* Where the conversation goes next, where no turn is used.
LEMMA TalkMovesTyped ==
  ASSUME TalkTyped, NEW next \in {"goto", "loading", "navigating", "asserting", "fetching"},
         talk.turn < MaxTurns \/ next \in {"navigating", "asserting", "fetching"},
         talk' = [talk EXCEPT !.at = next], UNCHANGED <<browser, stageResult>>
  PROVE  TalkTyped'
<1>1. talk' \in TalkRow /\ talk'.at = next /\ talk'.turn = talk.turn
  BY DEF TalkTyped, TalkRow, TalkAt
<1> QED
  BY <1>1, TalkGoesOn DEF TurnLeft

LEMMA GotoIsTyped ==
  ASSUME TalkTyped, NEW inside, NEW next \in {"loading", "navigating"}, NEW refused \in BOOLEAN,
         SessionGoto(inside, next, refused), refused => TalkTyped',
         talk.turn < MaxTurns \/ next = "navigating"
  PROVE  TalkTyped'
<1>1. CASE AbortStage("intensity_ceiling")
  BY <1>1, StageFailsTyped, StopsAreNamed
<1>2. CASE talk' = [talk EXCEPT !.at = next] /\ UNCHANGED <<browser, stageResult>>
  BY <1>2, TalkMovesTyped
<1>3. CASE refused
  BY <1>3
<1> QED
  BY <1>1, <1>2, <1>3 DEF SessionGoto

LEMMA SurfStaysTyped ==
  ASSUME SessionTyped, GotoFirst \/ Navigate PROVE TalkTyped'
<1>1. TalkTyped
  BY DEF SessionTyped
<1>2. CASE GotoFirst
  <2>1. talk.turn < MaxTurns
    BY <1>1, <1>2 DEF GotoFirst, TalkTyped, TurnLeft
  <2>2. AbortStage("scope_violation") => TalkTyped'
    BY <1>1, StageFailsTyped, StopsAreNamed
  <2>3. AbortStage("scope_violation") \in BOOLEAN
    BY DEF AbortStage, EndStage
  <2> QED
    BY <1>1, <1>2, <2>1, <2>2, <2>3, GotoIsTyped DEF GotoFirst
<1>3. CASE Navigate
  <2>1. PICK inside \in BOOLEAN : SessionGoto(inside, "navigating", ToolReturns(talk))
    BY <1>3 DEF Navigate
  <2>2. ToolReturns(talk) => TalkTyped'
    BY <1>1, TalkReturnsTyped
  <2>3. ToolReturns(talk) \in BOOLEAN
    BY DEF ToolReturns
  <2> QED
    BY <1>1, <2>1, <2>2, <2>3, GotoIsTyped
<1> QED
  BY <1>2, <1>3

LEMMA OpeningIsTyped ==
  ASSUME TalkTyped, OpenSession \/ RefuseCeiling \/ Loaded PROVE TalkTyped'
<1>1. CASE \E note \in SessionNote : FailStage(note)
  BY <1>1, StageFailsTyped
<1>2. CASE OpenSession /\ ~\E note \in SessionNote : FailStage(note)
  <2>1. /\ talk' = [talk EXCEPT !.at = "goto"] /\ browser' = [browser EXCEPT !.at = "open"]
        /\ stageResult' = stageResult /\ talk.at = "enter"
    BY <1>2, StopsAreNamed DEF OpenSession
  <2>2. browser' \in BrowserRow
    BY <2>1 DEF TalkTyped, BrowserRow
  <2>3. talk' \in TalkRow /\ talk'.turn = talk.turn /\ talk.turn < MaxTurns
    BY <2>1 DEF TalkTyped, TalkRow, TalkAt, TurnLeft
  <2> QED
    BY <2>1, <2>2, <2>3 DEF TalkTyped, TurnLeft
<1>3. CASE Loaded /\ ~\E note \in SessionNote : FailStage(note)
  <2>1. /\ talk' = [talk EXCEPT !.at = "asking"] /\ browser' = [browser EXCEPT !.at = "loaded"]
        /\ stageResult' = stageResult /\ talk.at = "loading"
    BY <1>3, StopsAreNamed DEF Loaded
  <2>2. browser' \in BrowserRow
    BY <2>1 DEF TalkTyped, BrowserRow
  <2>3. talk' \in TalkRow /\ talk'.turn = talk.turn /\ talk.turn < MaxTurns
    BY <2>1 DEF TalkTyped, TalkRow, TalkAt, TurnLeft
  <2> QED
    BY <2>1, <2>2, <2>3 DEF TalkTyped, TurnLeft
<1>4. CASE RefuseCeiling
  BY <1>1, <1>4, StopsAreNamed DEF RefuseCeiling
<1> QED
  BY <1>1, <1>2, <1>3, <1>4

LEMMA AskingIsTyped == ASSUME TalkTyped, AskModel PROVE TalkTyped'
<1>1. CASE AbortStage("cost_ceiling") \/ FailStage("did not complete")
  BY <1>1, StageFailsTyped, StopsAreNamed
<1>2. CASE ~(AbortStage("cost_ceiling") \/ FailStage("did not complete"))
  <2>1. PICK reply \in {"end", "refused", "output_truncated", "pause", "tool_use"} :
          talk' = [talk EXCEPT !.turn = @ + 1,
            !.halted = IF reply \in LoopHalt THEN reply ELSE @,
            !.at = CASE reply = "tool_use" -> "using"
                     [] reply = "pause" /\ talk.turn + 1 < MaxTurns -> "asking"
                     [] OTHER -> "extracting"]
    BY <1>2 DEF AskModel
  <2>2. UNCHANGED <<browser, stageResult>> /\ talk.at = "asking"
    BY <1>2 DEF AskModel
  <2> DEFINE next == CASE reply = "tool_use" -> "using"
                       [] reply = "pause" /\ talk.turn + 1 < MaxTurns -> "asking"
                       [] OTHER -> "extracting"
             halted == IF reply \in LoopHalt THEN reply ELSE talk.halted
  <2>3. next \in {"using", "asking", "extracting"} /\ (next = "asking" => talk.turn + 1 < MaxTurns)
    OBVIOUS
  <2>4. talk \in TalkRow /\ talk.turn \in 0..MaxTurns /\ talk.turn < MaxTurns /\ halted \in LoopHalt
    BY <2>2 DEF TalkTyped, TalkRow, TurnLeft
  <2>5. talk.turn + 1 \in 0..MaxTurns
    BY <2>4, SessionAssumption
  <2>6. talk' = [talk EXCEPT !.turn = talk.turn + 1, !.halted = halted, !.at = next]
    BY <2>1
  <2> HIDE DEF next, halted
  <2>7. talk' \in TalkRow /\ talk'.at = next /\ talk'.turn = talk.turn + 1
    BY <2>3, <2>4, <2>5, <2>6 DEF TalkRow, TalkAt
  <2> QED
    BY <2>2, <2>3, <2>7, TalkGoesOn DEF TurnLeft
<1> QED
  BY <1>1, <1>2

LEMMA ToolsAreTyped ==
  ASSUME TalkTyped, DescribePage \/ Navigated \/ Click \/ Fill \/ Screenshot \/ Attempt
  PROVE  TalkTyped'
<1>1. CASE ToolReturns(talk)
  BY <1>1, TalkReturnsTyped
<1>2. CASE AbortStage("intensity_ceiling")
  BY <1>2, StageFailsTyped, StopsAreNamed
<1>3. ASSUME NEW what \in {"controls", "credentials"},
             ToolReturns([talk EXCEPT !.refused = @ \cup {what}])
      PROVE  TalkTyped'
  <2>1. talk.refused \cup {what} \in SUBSET {"controls", "credentials"}
    BY DEF TalkTyped, TalkRow
  <2>2. [talk EXCEPT !.refused = @ \cup {what}] \in TalkRow
        /\ [talk EXCEPT !.refused = @ \cup {what}].turn = talk.turn
    BY <2>1 DEF TalkTyped, TalkRow
  <2> QED
    BY <1>3, <2>2, ToolReturnsTyped
<1>4. CASE Click
  <2>1. PICK label \in Label :
          ToolReturns(IF label = "destructive" THEN [talk EXCEPT !.refused = @ \cup {"controls"}]
                      ELSE talk)
    BY <1>4 DEF Click
  <2>2. CASE label = "destructive"
    BY <1>3, <2>1, <2>2
  <2>3. CASE label # "destructive"
    BY <1>1, <2>1, <2>3
  <2> QED
    BY <2>2, <2>3
<1>5. CASE Fill
  <2>1. PICK kind \in FieldKind, provisioned \in BOOLEAN :
          ToolReturns(IF kind = "code" \/ (kind = "password" /\ ~provisioned)
                      THEN [talk EXCEPT !.refused = @ \cup {"credentials"}] ELSE talk)
    BY <1>5 DEF Fill
  <2>2. CASE kind = "code" \/ (kind = "password" /\ ~provisioned)
    BY <1>3, <2>1, <2>2
  <2>3. CASE ~(kind = "code" \/ (kind = "password" /\ ~provisioned))
    BY <1>1, <2>1, <2>3
  <2> QED
    BY <2>2, <2>3
<1> QED
  BY <1>1, <1>2, <1>4, <1>5, CaptureIsTyped DEF DescribePage, Navigated, Screenshot, Attempt

LEMMA HttpIsTyped ==
  ASSUME TalkTyped, HttpWaits \/ HttpAsserts \/ HttpAnswers PROVE TalkTyped'
<1>1. CASE HttpWaits
  BY <1>1, TalkMovesTyped DEF HttpWaits
<1>2. CASE HttpAsserts
  BY <1>2, TalkMovesTyped, TalkReturnsTyped, StageFailsTyped, StopsAreNamed DEF HttpAsserts
<1>3. CASE HttpAnswers
  <2>1. CASE ToolReturns(talk) \/ Capture
    BY <2>1, TalkReturnsTyped, CaptureIsTyped
  <2>2. CASE ~(ToolReturns(talk) \/ Capture)
    <3>1. /\ talk.hop < MaxRedirects /\ talk' = [talk EXCEPT !.at = "exchange", !.hop = @ + 1]
          /\ UNCHANGED <<browser, stageResult>>
      BY <1>3, <2>2 DEF HttpAnswers
    <3>2. talk.hop + 1 \in 0..MaxRedirects
      BY <3>1, SessionAssumption DEF TalkTyped, TalkRow
    <3>3. talk' \in TalkRow /\ talk'.at = "exchange"
      BY <3>1, <3>2 DEF TalkTyped, TalkRow, TalkAt
    <3> QED
      BY <3>1, <3>3, TalkGoesOn DEF TurnLeft
  <2> QED
    BY <2>1, <2>2
<1> QED
  BY <1>1, <1>2, <1>3

LEMMA ExtractionIsTyped == ASSUME TalkTyped, ExtractFindings PROVE TalkTyped'
<1>1. CASE AbortStage("cost_ceiling") \/ FailStage("did not complete") \/ FailStage("no findings")
  BY <1>1, StageFailsTyped, StopsAreNamed
<1>2. CASE ~(AbortStage("cost_ceiling") \/ FailStage("did not complete") \/ FailStage("no findings"))
  <2>1. PICK cited \in 0..1, uncited \in BOOLEAN, overclaimed \in BOOLEAN :
          EndStage([status |-> "succeeded", stopReason |-> "none", findings |-> cited,
                    notes |-> SessionNotes(uncited, overclaimed),
                    scopeRefusals |-> ScopeRefusals])
    BY <1>2 DEF ExtractFindings
  <2>2. SessionNotes(uncited, overclaimed) \in SUBSET SessionNote
    BY DEF SessionNotes, SessionNote, TalkTyped, TalkRow
  <2>3. ScopeRefusals \in Nat
    <3>1. browser.blocked \in [BlockReason -> Nat]
      BY DEF TalkTyped, BrowserRow
    <3>2. browser.blocked["scope"] \in Nat /\ browser.blocked["ceiling"] \in Nat
      BY <3>1 DEF BlockReason
    <3> QED
      BY <3>2 DEF ScopeRefusals
  <2>4. PICK notes \in SUBSET SessionNote, refusals \in Nat :
          EndStage([status |-> "succeeded", stopReason |-> "none", findings |-> cited,
                    notes |-> notes, scopeRefusals |-> refusals])
    BY <2>1, <2>2, <2>3
  <2>5. [status |-> "succeeded", stopReason |-> "none", findings |-> cited,
         notes |-> notes, scopeRefusals |-> refusals] \in ResultRow
    BY DEF ResultRow, StopReason
  <2> QED
    BY <2>4, <2>5, StageEndsTyped
<1> QED
  BY <1>1, <1>2

\* A request the route turns down is counted, and the ceiling it met is kept.
LEMMA BlockingIsTyped == ASSUME TalkTyped, NEW r \in Routed, RouteDecides(r) PROVE TalkTyped'
<1>1. UNCHANGED <<talk, stageResult>>
  BY DEF RouteDecides
<1>2. PICK verdict : verdict = ScopeVerdict(routed[r].inside)
  OBVIOUS
<1>3. CASE UNCHANGED browser
  BY <1>1, <1>3 DEF TalkTyped, TurnLeft
<1>4. CASE ~Passes(verdict) /\ browser' = [browser EXCEPT !.blocked[verdict] = @ + 1,
                                       !.ceiling = @ \/ verdict = "ceiling"]
  <2>1. verdict \in BlockReason
    BY <1>2, <1>4 DEF ScopeVerdict, Passes, BlockReason
  <2>2. browser \in BrowserRow
    BY DEF TalkTyped
  <2> DEFINE ceiled == browser.ceiling \/ verdict = "ceiling"
               blocked == [browser.blocked EXCEPT ![verdict] = @ + 1]
  <2>3. ceiled \in BOOLEAN
    OBVIOUS
  <2>4. blocked \in [BlockReason -> Nat]
    <3>1. browser.blocked \in [BlockReason -> Nat]
      BY <2>2 DEF BrowserRow
    <3> QED
      BY <2>1, <3>1
  <2>5. browser' = [browser EXCEPT !.blocked = blocked, !.ceiling = ceiled]
    BY <1>4, <2>2 DEF BrowserRow
  <2> HIDE DEF ceiled, blocked
  <2>6. browser' \in BrowserRow
    BY <2>2, <2>3, <2>4, <2>5 DEF BrowserRow
  <2> QED
    BY <1>1, <2>6 DEF TalkTyped, TurnLeft
<1> QED
  BY <1>2, <1>3, <1>4 DEF RouteDecides

LEMMA TalkStaysTyped == ASSUME SessionTyped, [SessionNext]_sessionVars PROVE TalkTyped'
<1>1. TalkTyped
  BY DEF SessionTyped
<1>2. CASE UNCHANGED <<browser, talk, stageResult>>
  BY <1>1, <1>2 DEF TalkTyped, TurnLeft
<1>3. ASSUME NEW r \in Routed, PageAsks(r) \/ WaitEnds(r) PROVE TalkTyped'
  BY <1>2, <1>3 DEF PageAsks, WaitEnds
<1>4. CASE Refill \/ UNCHANGED sessionVars
  BY <1>2, <1>4 DEF Refill, sessionVars
<1> QED
  BY <1>1, <1>3, <1>4, SurfStaysTyped, OpeningIsTyped, AskingIsTyped, ToolsAreTyped, HttpIsTyped,
     ExtractionIsTyped, BlockingIsTyped DEF SessionNext, UseTool

LEMMA RoutesStayTyped == ASSUME SessionTyped, [SessionNext]_sessionVars PROVE RoutesTyped'
<1>1. routed \in [Routed -> RouteRow]
  BY DEF SessionTyped, RoutesTyped
<1>2. ASSUME NEW r \in Routed, PageAsks(r) PROVE RoutesTyped'
  BY <1>1, <1>2 DEF PageAsks, RoutesTyped, RouteRow
<1>3. ASSUME NEW r \in Routed, WaitEnds(r) PROVE RoutesTyped'
  BY <1>1, <1>3 DEF WaitEnds, RoutesTyped, RouteRow
<1>4. ASSUME NEW r \in Routed, RouteDecides(r) PROVE RoutesTyped'
  <2>1. routed' = [routed EXCEPT ![r].at = "sent"] \/ routed' = [routed EXCEPT ![r].at = "blocked"]
    BY <1>4 DEF RouteDecides
  <2> QED
    BY <1>1, <2>1 DEF RoutesTyped, RouteRow
<1>5. ASSUME UNCHANGED routed PROVE RoutesTyped'
  BY <1>1, <1>5 DEF RoutesTyped
<1>6. CASE routed' = [routed EXCEPT ![LoadedDocument] = [at |-> "waiting", inside |-> TRUE]]
  BY <1>1, <1>6 DEF RoutesTyped, RouteRow
<1>7. ASSUME NEW inside, NEW next, NEW refused, SessionGoto(inside, next, refused)
      PROVE  RoutesTyped'
  BY <1>5, <1>6, <1>7 DEF SessionGoto
<1>8. CASE GotoFirst \/ Navigate
  BY <1>7, <1>8 DEF GotoFirst, Navigate
<1>9. CASE OpenSession \/ RefuseCeiling \/ Loaded \/ AskModel \/ ExtractFindings \/ Refill
  BY <1>5, <1>9 DEF OpenSession, RefuseCeiling, Loaded, AskModel, ExtractFindings, Refill
<1>10. CASE DescribePage \/ Navigated \/ Click \/ Fill \/ Screenshot \/ Attempt \/ HttpWaits
              \/ HttpAsserts \/ HttpAnswers
  BY <1>5, <1>10 DEF DescribePage, Navigated, Click, Fill, Screenshot, Attempt, HttpWaits,
     HttpAsserts, HttpAnswers
<1>11. CASE UNCHANGED sessionVars
  BY <1>5, <1>11 DEF sessionVars
<1> QED
  BY <1>2, <1>3, <1>4, <1>8, <1>9, <1>10, <1>11 DEF SessionNext, UseTool

\* Who leaves has been admitted.
LEMMA AdmittedIsCounted ==
  ASSUME PaceFacts, NEW verdict, Admit(verdict)
  PROVE  /\ guard.made \in Nat /\ guard'.made \in Nat /\ guard.made <= guard'.made
         /\ Passes(verdict) => guard'.made = guard.made + 1
<1>1. guard \in [made: Nat, tokens: Nat, age: Nat]
  BY DEF PaceFacts
<1> QED
  BY <1>1 DEF Admit

LEMMA DeparturesStayCounted ==
  ASSUME PaceFacts, SessionTyped, [SessionNext]_sessionVars PROVE DeparturesCounted'
<1>1. departed \in Nat /\ departed <= guard.made /\ guard \in [made: Nat, tokens: Nat, age: Nat]
  BY DEF SessionTyped, DeparturesCounted, PaceFacts
<1>2. ASSUME departed' = departed, guard' = guard PROVE DeparturesCounted'
  BY <1>1, <1>2 DEF DeparturesCounted
<1>3. ASSUME NEW verdict, Admit(verdict), (Passes(verdict) /\ departed' = departed + 1) \/ departed' = departed
      PROVE  DeparturesCounted'
  BY <1>1, <1>3, AdmittedIsCounted DEF DeparturesCounted
<1>4. ASSUME NEW r \in Routed, RouteDecides(r) PROVE DeparturesCounted'
  BY <1>3, <1>4 DEF RouteDecides
<1>5. CASE HttpAsserts
  BY <1>3, <1>5 DEF HttpAsserts
<1>6. ASSUME NEW inside, NEW next, NEW refused, SessionGoto(inside, next, refused)
      PROVE  DeparturesCounted'
  BY <1>2, <1>3, <1>6 DEF SessionGoto
<1>7. CASE GotoFirst \/ Navigate
  BY <1>6, <1>7 DEF GotoFirst, Navigate
<1>8. CASE Refill
  <2>1. departed' = departed /\ guard'.made = guard.made
    BY <1>1, <1>8 DEF Refill
  <2> QED
    BY <1>1, <2>1 DEF DeparturesCounted
<1>9. CASE OpenSession \/ RefuseCeiling \/ Loaded \/ AskModel \/ ExtractFindings
  BY <1>2, <1>9 DEF OpenSession, RefuseCeiling, Loaded, AskModel, ExtractFindings
<1>10. CASE DescribePage \/ Navigated \/ Click \/ Fill \/ Screenshot \/ Attempt \/ HttpWaits
              \/ HttpAnswers
  BY <1>2, <1>10 DEF DescribePage, Navigated, Click, Fill, Screenshot, Attempt, HttpWaits, HttpAnswers
<1>11. ASSUME NEW r \in Routed, PageAsks(r) \/ WaitEnds(r) PROVE DeparturesCounted'
  BY <1>2, <1>11 DEF PageAsks, WaitEnds
<1>12. CASE UNCHANGED sessionVars
  BY <1>2, <1>12 DEF sessionVars
<1> QED
  BY <1>4, <1>5, <1>7, <1>8, <1>9, <1>10, <1>11, <1>12 DEF SessionNext, UseTool

\* The guard, the conversation and its result are what the session's code says, no
\* turn, redirect or artefact is beyond its bound, and nothing leaves uncounted.
THEOREM SessionTypeCorrect == SessionSpec => []SessionTypeOK
<1> DEFINE IInv == PaceFacts /\ SessionTyped
<1>1. SessionInit => IInv
  BY PaceStarts, SessionStarts
<1>2. IInv /\ [SessionNext]_sessionVars => IInv'
  BY PaceSteps, TalkStaysTyped, RoutesStayTyped, DeparturesStayCounted DEF SessionTyped
<1>3. IInv => SessionTypeOK
  <2>1. IInv => departed \in 0..guard.made
    BY DEF PaceFacts, SessionTyped, DeparturesCounted
  <2> QED
    BY <2>1 DEF PaceFacts, SessionTyped, TalkTyped, RoutesTyped, SessionTypeOK, BrowserRow, RouteRow,
       TalkRow, TalkAt, ResultRow
<1> QED
  BY <1>1, <1>2, <1>3, PTL DEF SessionSpec

-----------------------------------------------------------------------------
\* The type of the reports.

\* No wording is newer than the edits that led to it, and none is stored or in hand
\* that was never the assessment's.
PaperBounds == \A p \in Papers : paper[p].says <= paper[p].edits /\ paper[p].edits <= MaxEdits
ShelfBounds == \A p \in Papers, f \in Format : shelf[p][f].says <= MaxEdits

\* What a process has in hand it has not given up.
DeskBounds(w) ==
  /\ renderer[w].source.says <= MaxEdits
  /\ \A p \in Papers : renderer[w].failures[p] <= RenderAttempts
  /\ \A p \in Papers : Has(w, p) => renderer[w].failures[p] < RenderAttempts

LedgerBounds ==
  /\ paidFor \subseteq Papers /\ gaveUp \subseteq Papers /\ cameBack \subseteq gaveUp
  /\ slipped \subseteq Papers
  /\ planChanges \in 0..MaxPlanChanges /\ reportFaults \in 0..MaxReportFaults

ReportBounds ==
  PaperBounds /\ ShelfBounds /\ (\A w \in Renderers : DeskBounds(w)) /\ LedgerBounds

LEMMA BoundsStart == ReportInit => ReportBounds
<1> SUFFICES ASSUME ReportInit PROVE ReportBounds
  OBVIOUS
<1>1. PaperBounds /\ ShelfBounds
  BY ReportAssumption DEF ReportInit, PaperBounds, ShelfBounds, NotStored
<1>2. \A w \in Renderers : DeskBounds(w)
  BY ReportAssumption DEF ReportInit, DeskBounds, AtItsDesk, EmptyHanded, Has
<1>3. LedgerBounds
  BY ReportAssumption DEF ReportInit, LedgerBounds
<1> QED
  BY <1>1, <1>2, <1>3 DEF ReportBounds

LEMMA PaperStaysBounded ==
  ASSUME ReportInv, PaperBounds, [ReportNext]_reportVars PROVE PaperBounds'
<1>1. ASSUME NEW p \in Papers PROVE paper[p] \in PaperRow
  BY DEF ReportInv, ReportTyped
<1>2. ASSUME NEW p \in Papers, ApprovePaper(p) PROVE PaperBounds'
  <2>1. CASE paper' = [paper EXCEPT ![p].status = "approved"]
    <3>1. ASSUME NEW q \in Papers
          PROVE  paper'[q].says = paper[q].says /\ paper'[q].edits = paper[q].edits
      BY <1>1, <2>1, <3>1 DEF ReportInv, ReportTyped, PaperRow
    <3> QED
      BY <3>1 DEF PaperBounds
  <2>2. CASE paper[p].edits < MaxEdits /\ paper' = [paper EXCEPT ![p].edits = @ + 1]
    <3>1. ASSUME NEW q \in Papers, q # p PROVE paper'[q] = paper[q]
      BY <2>2, <3>1 DEF ReportInv, ReportTyped
    <3>2. paper'[p].says = paper[p].says /\ paper'[p].edits = paper[p].edits + 1
      BY <1>1, <2>2 DEF ReportInv, ReportTyped, PaperRow
    <3>3. paper[p].says \in Nat /\ paper[p].edits \in Nat /\ MaxEdits \in Nat
      BY <1>1, ReportAssumption DEF PaperRow
    <3>4. paper'[p].says <= paper'[p].edits /\ paper'[p].edits <= MaxEdits
      BY <2>2, <3>2, <3>3 DEF PaperBounds
    <3> QED
      BY <3>1, <3>4 DEF PaperBounds
  <2> QED
    BY <1>2, <2>1, <2>2 DEF ApprovePaper
<1>3. ASSUME NEW p \in Papers, RejectPaper(p) PROVE PaperBounds'
  BY <1>1, <1>3, ReportAssumption DEF ReportInv, ReportTyped, PaperBounds, RejectPaper, PaperRow
<1>4. ASSUME NEW p \in Papers, AdjustPaper(p) PROVE PaperBounds'
  BY <1>1, <1>4, ReportAssumption DEF ReportInv, ReportTyped, PaperBounds, AdjustPaper, PaperRow
<1>5. ASSUME UNCHANGED paper PROVE PaperBounds'
  BY <1>5 DEF PaperBounds
<1>6. CASE ReviewerActs
  BY <1>2, <1>3, <1>4, <1>6 DEF ReviewerActs
<1>7. CASE ~ReviewerActs
  <2>1. UNCHANGED paper
    BY <1>7 DEF ReportNext, RenderStep, PlanTurns, ReadUnrendered, StoreHtml, StorePdf, SkipStuck,
       ReadSource, NotAssembled, NotRendered, RendererRestarts, reportVars
  <2> QED
    BY <1>5, <2>1
<1> QED
  BY <1>6, <1>7

LEMMA ShelfStaysBounded ==
  ASSUME ReportInv, ShelfBounds, \A w \in Renderers : DeskBounds(w), [ReportNext]_reportVars
  PROVE  ShelfBounds'
<1>1. ASSUME NEW p, shelf' = Outdated(p) PROVE ShelfBounds'
  BY <1>1 DEF ReportInv, ReportTyped, ShelfBounds, Outdated, ShelfRow
<1>2. ASSUME NEW w \in Renderers, NEW p, NEW f, 
             shelf' = [shelf EXCEPT ![p][f] = StoredNow(renderer[w].source)]
      PROVE  ShelfBounds'
  BY <1>2 DEF ReportInv, ReportTyped, ShelfBounds, StoredNow, DeskBounds
<1>3. ASSUME UNCHANGED shelf PROVE ShelfBounds'
  BY <1>3 DEF ShelfBounds
<1>4. CASE ReviewerActs
  BY <1>1, <1>4 DEF ReviewerActs, ApprovePaper, RejectPaper, AdjustPaper
<1>5. ASSUME NEW w \in Renderers, StoreHtml(w) \/ StorePdf(w) PROVE ShelfBounds'
  BY <1>2, <1>5 DEF StoreHtml, StorePdf
<1>6. CASE ~ReviewerActs /\ ~\E w \in Renderers : StoreHtml(w) \/ StorePdf(w)
  <2>1. UNCHANGED shelf
    BY <1>6 DEF ReportNext, RenderStep, PlanTurns, ReadUnrendered, SkipStuck,
       ReadSource, NotAssembled, NotRendered, RendererRestarts, reportVars
  <2> QED
    BY <1>3, <2>1
<1> QED
  BY <1>4, <1>5, <1>6

LEMMA FailuresAreCounted ==
  ASSUME ReportInv, NEW w \in Renderers, NEW p \in Papers
  PROVE  /\ renderer[w].failures \in [Papers -> Nat] /\ renderer[w].failures[p] \in Nat
         /\ RenderAttempts \in Nat \ {0}
<1>1. renderer[w] \in DeskRow
  BY DEF ReportInv, ReportTyped
<1>2. renderer[w].failures \in [Papers -> Nat]
  BY <1>1 DEF DeskRow
<1> QED
  BY <1>2, ReportAssumption

\* A sweep that turns from p may have failed at it once more.
LEMMA TurnsStaysBounded ==
  ASSUME ReportInv, \A w \in Renderers : DeskBounds(w), NEW w \in Renderers, NEW p \in Papers,
         NEW n \in 0..RenderAttempts, Turns(w, p, n)
  PROVE  \A v \in Renderers : DeskBounds(v)'
<1>1. renderer[w] \in DeskRow
  BY DEF ReportInv, ReportTyped
<1>2. /\ renderer'[w].source = EmptyHanded
      /\ renderer'[w].failures = [renderer[w].failures EXCEPT ![p] = n]
      /\ \A v \in Renderers \ {w} : renderer'[v] = renderer[v]
  BY DEF ReportInv, ReportTyped, Turns
<1>3. DeskBounds(w)'
  <2>1. EmptyHanded.says = 0 /\ EmptyHanded.of = Nobody
    BY DEF EmptyHanded
  <2>2. \A q \in Papers : renderer'[w].failures[q] <= RenderAttempts
    <3>1. renderer[w].failures \in [Papers -> Nat] /\ RenderAttempts \in Nat
      BY FailuresAreCounted
    <3>2. \A q \in Papers : renderer[w].failures[q] <= RenderAttempts
      BY DEF DeskBounds
    <3> QED
      BY <1>2, <3>1, <3>2
  <2> QED
    BY <1>2, <2>1, <2>2, ReportAssumption DEF DeskBounds, Has
<1>4. ASSUME NEW v \in Renderers \ {w} PROVE DeskBounds(v)'
  BY <1>2, <1>4 DEF DeskBounds, Has
<1> QED
  BY <1>3, <1>4

LEMMA DeskStaysBounded ==
  ASSUME ReportInv, PaperBounds, \A w \in Renderers : DeskBounds(w), [ReportNext]_reportVars
  PROVE  \A v \in Renderers : DeskBounds(v)'
<1>1. ASSUME NEW w \in Renderers PROVE renderer[w] \in DeskRow
  BY DEF ReportInv, ReportTyped
<1>2. ASSUME UNCHANGED renderer PROVE \A v \in Renderers : DeskBounds(v)'
  BY <1>2 DEF DeskBounds, Has
<1>3. ASSUME NEW w \in Renderers, NEW p \in Papers, SkipStuck(w, p) \/ NotAssembled(w, p)
      PROVE  \A v \in Renderers : DeskBounds(v)'
  <2>1. renderer[w].failures[p] \in 0..RenderAttempts
    BY FailuresAreCounted DEF DeskBounds
  <2>2. CASE SkipStuck(w, p)
    BY <2>1, <2>2, TurnsStaysBounded DEF SkipStuck
  <2>3. CASE NotAssembled(w, p)
    <3>1. renderer[w].failures[p] + 1 \in 0..RenderAttempts
      BY <2>1, <2>3, ReportAssumption DEF NotAssembled, Stuck
    <3> QED
      BY <2>3, <3>1, TurnsStaysBounded DEF NotAssembled
  <2> QED
    BY <1>3, <2>2, <2>3
<1>4. ASSUME NEW w \in Renderers, renderer[w].at \in {"rendering", "html stored"}
      PROVE  /\ renderer[w].source.of \in Papers
             /\ renderer[w].failures[renderer[w].source.of] + 1 \in 0..RenderAttempts
  <2>1. renderer[w].source.of \in Papers
    BY <1>1, <1>4 DEF ReportInv, HandsFacts, DeskRow, Reading
  <2> QED
    BY <2>1, FailuresAreCounted DEF DeskBounds, Has
<1>5. ASSUME NEW w \in Renderers, NotRendered(w) PROVE \A v \in Renderers : DeskBounds(v)'
  BY <1>4, <1>5, TurnsStaysBounded DEF NotRendered
<1>6. ASSUME NEW w \in Renderers, StoreHtml(w) \/ StorePdf(w)
      PROVE  \A v \in Renderers : DeskBounds(v)'
  <2>1. renderer[w].source.of \in Papers
    BY <1>4, <1>6 DEF StoreHtml, StorePdf
  <2>0. 0 \in 0..RenderAttempts
    BY ReportAssumption
  <2>2. CASE Finished(w, renderer[w].source.of)
    BY <2>0, <2>1, <2>2, TurnsStaysBounded DEF Finished
  <2>3. CASE renderer' = [renderer EXCEPT ![w].at = "html stored"]
    <3>1. \A v \in Renderers : /\ renderer'[v].source = renderer[v].source
                               /\ renderer'[v].failures = renderer[v].failures
      BY <1>1, <2>3 DEF ReportInv, ReportTyped, DeskRow
    <3> QED
      BY <3>1 DEF DeskBounds, Has
  <2> QED
    BY <1>6, <2>2, <2>3 DEF StoreHtml, StorePdf
<1>7. ASSUME NEW w \in Renderers, ReadUnrendered(w) PROVE \A v \in Renderers : DeskBounds(v)'
  <2>1. PICK page \in SUBSET Papers :
          renderer' = [renderer EXCEPT ![w].at = "sweeping", ![w].page = page]
    BY <1>7 DEF ReadUnrendered
  <2>2. \A v \in Renderers : /\ renderer'[v].source = renderer[v].source
                             /\ renderer'[v].failures = renderer[v].failures
    BY <1>1, <2>1 DEF ReportInv, ReportTyped, DeskRow
  <2> QED
    BY <2>2 DEF DeskBounds, Has
<1>8. ASSUME NEW w \in Renderers, NEW p \in Papers, ReadSource(w, p)
      PROVE  \A v \in Renderers : DeskBounds(v)'
  <2>1. /\ renderer'[w].source = [of |-> p, says |-> paper[p].says, whole |-> p \in paidFor]
        /\ renderer'[w].failures = renderer[w].failures
        /\ \A v \in Renderers \ {w} : renderer'[v] = renderer[v]
    BY <1>1, <1>8 DEF ReportInv, ReportTyped, DeskRow, ReadSource
  <2>2. paper[p].says <= MaxEdits
    BY ReportAssumption DEF ReportInv, ReportTyped, PaperRow, PaperBounds
  <2>3. renderer[w].failures[p] < RenderAttempts
    BY <1>8, FailuresAreCounted DEF ReadSource, Stuck
  <2>4. DeskBounds(w)'
    BY <2>1, <2>2, <2>3 DEF DeskBounds, Has
  <2>5. ASSUME NEW v \in Renderers \ {w} PROVE DeskBounds(v)'
    BY <2>1, <2>5 DEF DeskBounds, Has
  <2> QED
    BY <2>4, <2>5
<1>9. ASSUME NEW w \in Renderers, RendererRestarts(w) PROVE \A v \in Renderers : DeskBounds(v)'
  <2>1. renderer'[w] = AtItsDesk /\ \A v \in Renderers \ {w} : renderer'[v] = renderer[v]
    BY <1>9 DEF ReportInv, ReportTyped, RendererRestarts
  <2>2. DeskBounds(w)'
    BY <2>1, ReportAssumption DEF DeskBounds, Has, AtItsDesk, EmptyHanded
  <2>3. ASSUME NEW v \in Renderers \ {w} PROVE DeskBounds(v)'
    BY <2>1, <2>3 DEF DeskBounds, Has
  <2> QED
    BY <2>2, <2>3
<1>10. CASE ReviewerActs \/ (\E p \in Papers : PlanTurns(p)) \/ UNCHANGED reportVars
  BY <1>2, <1>10 DEF ReviewerActs, ApprovePaper, RejectPaper, AdjustPaper, ReviewFrame, PlanTurns,
     reportVars
<1>11. CASE \E w \in Renderers : RenderStep(w) \/ NotRendered(w) \/ RendererRestarts(w)
  BY <1>3, <1>5, <1>6, <1>7, <1>8, <1>9, <1>11 DEF RenderStep
<1> QED
  BY <1>10, <1>11 DEF ReportNext

LEMMA LedgerStaysBounded ==
  ASSUME ReportInv, LedgerBounds, [ReportNext]_reportVars PROVE LedgerBounds'
<1>1. ASSUME NEW w \in Renderers, renderer[w].at \in {"rendering", "html stored"}
      PROVE  renderer[w].source.of \in Papers
  BY <1>1 DEF ReportInv, ReportTyped, HandsFacts, DeskRow, Reading
<1>2. ReportFault => reportFaults' \in 0..MaxReportFaults
  BY ReportAssumption DEF ReportFault, LedgerBounds
<1>3. CASE ReviewerActs
  BY <1>3 DEF ReviewerActs, ApprovePaper, RejectPaper, AdjustPaper, ReviewFrame, Overtakes, LedgerBounds
<1>4. ASSUME NEW p \in Papers, PlanTurns(p) PROVE LedgerBounds'
  BY <1>4, ReportAssumption DEF PlanTurns, LedgerBounds
<1>5. ASSUME NEW w \in Renderers, NotRendered(w) PROVE LedgerBounds'
  BY <1>1, <1>2, <1>5 DEF NotRendered, LedgerBounds
<1>6. ASSUME NEW w \in Renderers, RendererRestarts(w) PROVE LedgerBounds'
  BY <1>1, <1>2, <1>6 DEF RendererRestarts, LedgerBounds
<1>7. ASSUME NEW w \in Renderers, NEW p \in Papers, Finished(w, p), UNCHANGED <<paidFor, gaveUp, planChanges>>
      PROVE  LedgerBounds'
  BY <1>2, <1>7 DEF Finished, LedgerBounds
<1>8. ASSUME NEW w \in Renderers, StoreHtml(w) \/ StorePdf(w) PROVE LedgerBounds'
  <2>1. renderer[w].source.of \in Papers
    BY <1>1, <1>8 DEF StoreHtml, StorePdf
  <2>2. CASE Finished(w, renderer[w].source.of)
    BY <1>7, <1>8, <2>1, <2>2 DEF StoreHtml, StorePdf
  <2>3. CASE UNCHANGED <<cameBack, slipped, reportFaults>>
    BY <1>8, <2>3 DEF StoreHtml, StorePdf, LedgerBounds
  <2> QED
    BY <1>8, <2>2, <2>3 DEF StoreHtml, StorePdf
<1>9. ASSUME NEW w \in Renderers, NEW p \in Papers, NotAssembled(w, p) PROVE LedgerBounds'
  BY <1>2, <1>9 DEF NotAssembled, GivenOrLost, Given, LedgerBounds
<1>10. ASSUME NEW w \in Renderers, NEW p \in Papers,
              ReadUnrendered(w) \/ SkipStuck(w, p) \/ ReadSource(w, p)
       PROVE  LedgerBounds'
  BY <1>10 DEF ReadUnrendered, SkipStuck, ReadSource, LedgerBounds
<1>11. ASSUME NEW w \in Renderers, ReadUnrendered(w) PROVE LedgerBounds'
  BY <1>11 DEF ReadUnrendered, LedgerBounds
<1>12. CASE UNCHANGED reportVars
  BY <1>12 DEF reportVars, LedgerBounds
<1> QED
  BY <1>3, <1>4, <1>5, <1>6, <1>8, <1>9, <1>10, <1>11, <1>12 DEF ReportNext, RenderStep

\* Reports and sweeps are what their tables and code say, within every bound: a
\* process never counts more failures than give a report up, and nothing is recovered
\* that was not given up (sweepPendingReports).
THEOREM ReportTypeCorrect == ReportSpec => []ReportTypeOK
<1> DEFINE IInv == ReportInv /\ ReportBounds
<1>1. ReportInit => IInv
  BY ReportStarts, BoundsStart
<1>2. IInv /\ [ReportNext]_reportVars => IInv'
  BY ReportSteps, PaperStaysBounded, ShelfStaysBounded, DeskStaysBounded, LedgerStaysBounded
     DEF ReportBounds
<1>3. IInv => ReportTypeOK
  <2> SUFFICES ASSUME ReportInv, ReportBounds PROVE ReportTypeOK
    OBVIOUS
  <2>1. paper \in [Papers -> [status: {"awaiting_review", "approved", "rejected"},
                              says: Wording, edits: 0..MaxEdits]]
    <3>1. \A p \in Papers : /\ paper[p] \in PaperRow
                            /\ paper[p].says \in Wording /\ paper[p].edits \in 0..MaxEdits
      BY ReportAssumption DEF ReportInv, ReportTyped, ReportBounds, PaperBounds, PaperRow, Wording
    <3> QED
      BY <3>1 DEF ReportInv, ReportTyped, PaperRow
  <2>2. shelf \in [Papers -> [Format -> [says: Wording, whole: BOOLEAN, current: BOOLEAN,
                                         held: BOOLEAN]]]
    <3>1. \A p \in Papers : shelf[p] \in [Format -> ShelfRow]
      BY DEF ReportInv, ReportTyped
    <3>2. \A p \in Papers, f \in Format : shelf[p][f].says \in Wording /\ shelf[p][f] \in ShelfRow
      BY <3>1, ReportAssumption DEF ReportBounds, ShelfBounds, ShelfRow, Wording
    <3>3. \A p \in Papers, f \in Format :
            shelf[p][f] \in [says: Wording, whole: BOOLEAN, current: BOOLEAN, held: BOOLEAN]
      BY <3>2 DEF ShelfRow
    <3> QED
      BY <3>1, <3>3 DEF ReportInv, ReportTyped
  <2>3. renderer \in [Renderers ->
          [at: {"idle", "sweeping", "rendering", "html stored"}, page: SUBSET Papers,
           source: [of: Papers \cup {Nobody}, says: Wording, whole: BOOLEAN],
           failures: [Papers -> 0..RenderAttempts]]]
    <3>1. ASSUME NEW w \in Renderers
          PROVE  /\ renderer[w] \in DeskRow
                 /\ renderer[w].source \in [of: Papers \cup {Nobody}, says: Wording, whole: BOOLEAN]
                 /\ renderer[w].failures \in [Papers -> 0..RenderAttempts]
      <4>1. renderer[w] \in DeskRow
        BY DEF ReportInv, ReportTyped
      <4>2. renderer[w].source \in Reading /\ renderer[w].failures \in [Papers -> Nat]
        BY <4>1 DEF DeskRow
      <4>3. renderer[w].source.says \in Wording
        BY <4>2, ReportAssumption DEF Reading, ReportBounds, DeskBounds, Wording
      <4>4. \A p \in Papers : renderer[w].failures[p] \in 0..RenderAttempts
        BY <4>2, ReportAssumption DEF ReportBounds, DeskBounds
      <4>5. renderer[w].failures \in [Papers -> 0..RenderAttempts]
        BY <4>2, <4>4
      <4>6. renderer[w].source \in [of: Papers \cup {Nobody}, says: Wording, whole: BOOLEAN]
        BY <4>2, <4>3 DEF Reading
      <4> QED
        BY <4>1, <4>5, <4>6
    <3> QED
      BY <3>1 DEF ReportInv, ReportTyped, DeskRow
  <2> QED
    BY <2>1, <2>2, <2>3 DEF ReportBounds, LedgerBounds, ReportTypeOK
<1> QED
  BY <1>1, <1>2, <1>3, PTL DEF ReportSpec

-----------------------------------------------------------------------------
\* The type of the re-assessments.

LEMMA RowsOf == ASSUME NEW S, NEW n \in Nat, NEW f \in [1..n -> S] PROVE f \in Seq(S)
BY SeqDef

\* A sweep at work on a row has not failed at it too often, and what it compares the
\* row with is earlier.
WalkBounds(walk) ==
  /\ \A n \in 1..MaxLooks : walk.failures[n] <= Attempts
  /\ walk.at \in {"read", "compared"} => walk.failures[Head(walk.rows)] < Attempts
  /\ walk.at = "compared" => walk.was[1] \in 1..(Head(walk.rows) - 1)

CountBounds ==
  /\ Len(assessed) <= MaxLooks /\ monitorDay \in 1..MaxDays
  /\ reviewed \in 0..MaxReviews /\ driftFaults \in 0..MaxDriftFaults

\* A report is of an assessment there is, and of an earlier one.
ComparedBounds(n) ==
  /\ n \in 1..Len(assessed) /\ reports[n].before \in 1..(n - 1)
  /\ reports[n].material \in BOOLEAN
DriftBounds == (\A n \in DOMAIN reports : ComparedBounds(n)) /\ abandoned \subseteq 1..MaxLooks

MonitorBounds == (\A c \in Comparers : WalkBounds(comparer[c])) /\ CountBounds /\ DriftBounds

LEMMA MonitorBoundsStart == ReassessmentInit => MonitorBounds
<1> SUFFICES ASSUME ReassessmentInit PROVE MonitorBounds
  OBVIOUS
<1>1. \A c \in Comparers : WalkBounds(comparer[c])
  BY ReassessmentAssumption DEF ReassessmentInit, WalkBounds
<1>2. CountBounds
  BY ReassessmentAssumption DEF ReassessmentInit, CountBounds
<1>3. DriftBounds
  BY DEF ReassessmentInit, DriftBounds
<1> QED
  BY <1>1, <1>2, <1>3 DEF MonitorBounds

LEMMA AssessedAreCounted ==
  ASSUME MonitorInv, CountBounds
  PROVE  /\ Len(assessed) \in Nat /\ DOMAIN assessed = 1..Len(assessed)
         /\ MaxLooks \in Nat /\ DOMAIN assessed \subseteq 1..MaxLooks
<1>1. assessed \in Seq(Assessed)
  BY DEF MonitorInv, MonitorTyped
<1>2. Len(assessed) \in Nat /\ DOMAIN assessed = 1..Len(assessed) /\ MaxLooks \in Nat
  BY <1>1, ReassessmentAssumption
<1> QED
  BY <1>2 DEF CountBounds

\* The number of assessments only grows.
LEMMA CountsStayBounded ==
  ASSUME MonitorInv, CountBounds, [ReassessmentNext]_reassessmentVars
  PROVE  CountBounds' /\ Len(assessed) <= Len(assessed)'
<1>1. Len(assessed) \in Nat /\ assessed \in Seq(Assessed)
  BY AssessedAreCounted DEF MonitorInv, MonitorTyped
<1>2. CASE RunCompletes
  <2>1. PICK row : assessed' = Append(assessed, row)
    BY <1>2 DEF RunCompletes
  <2>2. Len(assessed') = Len(assessed) + 1
    BY <1>1, <2>1
  <2> QED
    <3>1. Len(assessed) < MaxLooks /\ UNCHANGED <<reviewed, driftFaults, monitorDay>>
      BY <1>2 DEF RunCompletes, ScheduleRests
    <3>2. Len(assessed') <= MaxLooks /\ Len(assessed) <= Len(assessed')
      BY <1>1, <2>2, <3>1, ReassessmentAssumption
    <3> QED
      BY <3>1, <3>2 DEF CountBounds
<1>3. ASSUME NEW n \in 1..MaxLooks, Review(n) PROVE CountBounds' /\ Len(assessed) <= Len(assessed)'
  <2>1. DOMAIN assessed' = DOMAIN assessed
    BY <1>3 DEF Review
  <2>2. Len(assessed') = Len(assessed)
    <3>1. assessed' \in Seq(Assessed)
      BY MonitorSteps DEF MonitorInv, MonitorTyped
    <3> QED
      BY <1>1, <2>1, <3>1
  <2>3. /\ reviewed < MaxReviews /\ reviewed' = reviewed + 1
        /\ monitorDay' = monitorDay /\ driftFaults' = driftFaults
    BY <1>3 DEF Review, DriftRests
  <2> QED
    BY <1>1, <2>2, <2>3, ReassessmentAssumption DEF CountBounds
<1>4. CASE DayPasses
  BY <1>1, <1>4, ReassessmentAssumption DEF DayPasses, ScheduleRests, CountBounds
<1>5. ASSUME NEW c \in Comparers, ComparisonFails(c)
      PROVE CountBounds' /\ Len(assessed) <= Len(assessed)'
  BY <1>1, <1>5, ReassessmentAssumption DEF ComparisonFails, DriftRests, CountBounds
<1>6. ASSUME UNCHANGED <<assessed, monitorDay, reviewed, driftFaults>>
      PROVE CountBounds' /\ Len(assessed) <= Len(assessed)'
  BY <1>1, <1>6 DEF CountBounds
<1>7. ASSUME NEW c \in Comparers, ReadUncompared(c) \/ PassOver(c) \/ SnapshotFor(c)
                          \/ PreviousSnapshotFor(c) \/ RecordDriftFor(c)
      PROVE UNCHANGED <<assessed, monitorDay, reviewed, driftFaults>>
  BY <1>7 DEF ReadUncompared, PassOver, SnapshotFor, PreviousSnapshotFor, RecordDriftFor, DriftRests
<1>8. ASSUME NEW q \in Queuers, SelectForReassessment(q) \/ QueueReassessment(q)
      PROVE UNCHANGED <<assessed, monitorDay, reviewed, driftFaults>>
  BY <1>8 DEF SelectForReassessment, QueueReassessment, ScheduleRests
<1>9. CASE OwnerAsks \/ Withdrawn \/ Claimed \/ RunFails \/ MonitoringMoves \/ UNCHANGED reassessmentVars
  <2>1. UNCHANGED <<assessed, monitorDay, reviewed, driftFaults>>
    BY <1>9 DEF OwnerAsks, Withdrawn, Claimed, RunFails, MonitoringMoves, ScheduleRests,
       reassessmentVars
  <2> QED
    BY <1>6, <2>1
<1> QED
  BY <1>2, <1>3, <1>4, <1>5, <1>6, <1>7, <1>8, <1>9 DEF ReassessmentNext

LEMMA OneWalkMoves ==
  ASSUME MonitorInv, \A c \in Comparers : WalkBounds(comparer[c]), NEW c \in Comparers,
         NEW walk, comparer' = [comparer EXCEPT ![c] = walk], WalkBounds(walk)
  PROVE  \A d \in Comparers : WalkBounds(comparer'[d])
<1>1. \A d \in Comparers : comparer'[d] \in {comparer[d], walk}
  BY DEF MonitorInv, MonitorTyped
<1> QED
  BY <1>1

LEMMA NextRowIsBounded ==
  ASSUME MonitorInv, \A c \in Comparers : WalkBounds(comparer[c]), NEW c \in Comparers,
         NEW failures, NextRow(c, failures), \A n \in 1..MaxLooks : failures[n] <= Attempts
  PROVE  \A d \in Comparers : WalkBounds(comparer'[d])
<1> DEFINE walk == [at |-> IF Len(comparer[c].rows) > 1 THEN "rows" ELSE "idle",
                    rows |-> Tail(comparer[c].rows), was |-> <<>>, is |-> <<>>,
                    failures |-> failures]
<1>1. comparer' = [comparer EXCEPT ![c] = walk]
  BY DEF NextRow
<1>2. walk.at \in {"idle", "rows"} /\ walk.failures = failures
  OBVIOUS
<1> HIDE DEF walk
<1>3. WalkBounds(walk)
  BY <1>2 DEF WalkBounds
<1> QED
  BY <1>1, <1>3, OneWalkMoves

LEMMA WalksStayBounded ==
  ASSUME MonitorInv, CountBounds, \A c \in Comparers : WalkBounds(comparer[c]),
         [ReassessmentNext]_reassessmentVars
  PROVE  \A d \in Comparers : WalkBounds(comparer'[d])
<1>1. ASSUME NEW c \in Comparers PROVE comparer[c] \in Walk
  BY DEF MonitorInv, MonitorTyped
<1>2. ASSUME NEW c \in Comparers, ReadUncompared(c)
      PROVE  \A d \in Comparers : WalkBounds(comparer'[d])
  <2>1. PICK rows : comparer' = [comparer EXCEPT ![c].at = "rows", ![c].rows = rows]
    BY <1>2 DEF ReadUncompared
  <2> DEFINE walk == [comparer[c] EXCEPT !.at = "rows", !.rows = rows]
  <2>2. comparer' = [comparer EXCEPT ![c] = walk]
    BY <2>1
  <2>3. walk.at = "rows" /\ walk.failures = comparer[c].failures
    BY <1>1 DEF Walk
  <2> HIDE DEF walk
  <2>4. WalkBounds(walk)
    BY <2>3 DEF WalkBounds
  <2> QED
    BY <2>2, <2>4, OneWalkMoves
<1>3. ASSUME NEW c \in Comparers, PassOver(c) PROVE \A d \in Comparers : WalkBounds(comparer'[d])
  BY <1>3, NextRowIsBounded DEF PassOver, WalkBounds
<1>4. ASSUME NEW c \in Comparers, SnapshotFor(c) PROVE \A d \in Comparers : WalkBounds(comparer'[d])
  <2> DEFINE is == <<assessed[Head(comparer[c].rows)]>>
             walk == [comparer[c] EXCEPT !.at = "read", !.is = is]
  <2>1. comparer' = [comparer EXCEPT ![c] = walk]
    BY <1>4 DEF SnapshotFor
  <2> HIDE DEF is
  <2>2. /\ walk.at = "read" /\ walk.failures = comparer[c].failures
        /\ walk.rows = comparer[c].rows
    BY <1>1 DEF Walk
  <2> HIDE DEF walk
  <2>3. WalkBounds(walk)
    BY <1>4, <2>2 DEF WalkBounds, SnapshotFor
  <2> QED
    BY <2>1, <2>3, OneWalkMoves
<1>5. ASSUME NEW c \in Comparers, PreviousSnapshotFor(c)
      PROVE \A d \in Comparers : WalkBounds(comparer'[d])
  <2> DEFINE n == Head(comparer[c].rows)
  <2>1. /\ comparer[c].at = "read" /\ n \in Nat
    BY <1>5, HeadIsAssessed DEF PreviousSnapshotFor
  <2>2. CASE Priors(n) = {}
    <3>1. NextRow(c, comparer[c].failures)
      BY <1>5, <2>2 DEF PreviousSnapshotFor
    <3> QED
      BY <3>1, NextRowIsBounded DEF WalkBounds
  <2>3. CASE Priors(n) # {}
    <3>1. Priors(n) \in SUBSET (0..n)
      BY <2>1 DEF Priors
    <3>2. \E m \in Priors(n) : \A other \in Priors(n) : other <= m
      BY <2>1, <2>3, <3>1, GreatestExists
    <3>3. PICK m \in Priors(n) :
            comparer' = [comparer EXCEPT ![c].at = "compared", ![c].was = <<m, assessed[m]>>]
      BY <1>5, <2>3, <3>2 DEF PreviousSnapshotFor
    <3> DEFINE was == <<m, assessed[m]>>
               walk == [comparer[c] EXCEPT !.at = "compared", !.was = was]
    <3>4. comparer' = [comparer EXCEPT ![c] = walk]
      BY <3>3
    <3>5. was[1] \in 1..(n - 1)
      BY DEF Priors
    <3> HIDE DEF was
    <3>6. /\ walk.at = "compared" /\ walk.failures = comparer[c].failures
          /\ walk.rows = comparer[c].rows /\ walk.was = was
      BY <1>1 DEF Walk
    <3> HIDE DEF walk
    <3>7. WalkBounds(walk)
      BY <2>1, <3>5, <3>6 DEF WalkBounds
    <3> QED
      BY <3>4, <3>7, OneWalkMoves
  <2> QED
    BY <2>2, <2>3
<1>6. ASSUME NEW c \in Comparers, RecordDriftFor(c)
      PROVE \A d \in Comparers : WalkBounds(comparer'[d])
  <2> DEFINE n == Head(comparer[c].rows)
  <2>1. comparer[c].failures \in [1..MaxLooks -> Nat] /\ comparer[c].at # "idle"
    BY <1>6, HeadIsAssessed DEF RecordDriftFor
  <2>2. CASE NextRow(c, comparer[c].failures)
    BY <2>2, NextRowIsBounded DEF WalkBounds
  <2>3. CASE NextRow(c, [comparer[c].failures EXCEPT ![n] = 0])
    <3>1. \A m \in 1..MaxLooks : [comparer[c].failures EXCEPT ![n] = 0][m] <= Attempts
      BY <2>1, ReassessmentAssumption DEF WalkBounds
    <3> QED
      BY <2>3, <3>1, NextRowIsBounded
  <2> QED
    BY <1>6, <2>2, <2>3 DEF RecordDriftFor
<1>7. ASSUME NEW c \in Comparers, ComparisonFails(c)
      PROVE \A d \in Comparers : WalkBounds(comparer'[d])
  <2>0. PICK n : n = Head(comparer[c].rows)
    OBVIOUS
  <2>1. /\ comparer[c].failures \in [1..MaxLooks -> Nat] /\ comparer[c].at \in {"read", "compared"}
        /\ n \in DOMAIN assessed
    BY <1>7, <2>0, HeadIsAssessed DEF ComparisonFails
  <2>2. NextRow(c, [comparer[c].failures EXCEPT ![n] = @ + 1])
    BY <1>7, <2>0 DEF ComparisonFails
  <2>3. n \in 1..MaxLooks /\ comparer[c].failures[n] < Attempts
    BY <2>0, <2>1, AssessedAreCounted DEF WalkBounds
  <2>4. \A m \in 1..MaxLooks : [comparer[c].failures EXCEPT ![n] = @ + 1][m] <= Attempts
    BY <2>1, <2>3, ReassessmentAssumption DEF WalkBounds
  <2> QED
    BY <2>2, <2>4, NextRowIsBounded
<1>8. ASSUME UNCHANGED comparer PROVE \A d \in Comparers : WalkBounds(comparer'[d])
  BY <1>8
<1>9. ASSUME NEW q \in Queuers, SelectForReassessment(q) \/ QueueReassessment(q)
      PROVE UNCHANGED comparer
  BY <1>9 DEF SelectForReassessment, QueueReassessment, ScheduleRests
<1>10. CASE OwnerAsks \/ Withdrawn \/ Claimed \/ RunFails \/ RunCompletes \/ MonitoringMoves
  BY <1>8, <1>10 DEF OwnerAsks, Withdrawn, Claimed, RunFails, RunCompletes, MonitoringMoves,
     ScheduleRests
<1>11. CASE (\E n \in 1..MaxLooks : Review(n)) \/ DayPasses \/ UNCHANGED reassessmentVars
  BY <1>8, <1>11 DEF Review, DayPasses, ScheduleRests, reassessmentVars
<1> QED
  BY <1>2, <1>3, <1>4, <1>5, <1>6, <1>7, <1>8, <1>9, <1>10, <1>11 DEF ReassessmentNext

LEMMA DriftLedgerStaysBounded ==
  ASSUME MonitorInv, MonitorBounds, [ReassessmentNext]_reassessmentVars PROVE DriftBounds'
<1>1. /\ Len(assessed) \in Nat /\ Len(assessed)' \in Nat /\ Len(assessed) <= Len(assessed)'
      /\ DOMAIN assessed = 1..Len(assessed)
  <2>1. MonitorInv' /\ CountBounds' /\ Len(assessed) <= Len(assessed)'
    BY MonitorSteps, CountsStayBounded DEF MonitorBounds
  <2>2. assessed' \in Seq(Assessed)
    BY <2>1 DEF MonitorInv, MonitorTyped
  <2> QED
    BY <2>1, <2>2, AssessedAreCounted DEF MonitorBounds
<1>2. ASSUME UNCHANGED <<reports, abandoned>> PROVE DriftBounds'
  BY <1>1, <1>2 DEF MonitorBounds, DriftBounds, ComparedBounds
<1>3. ASSUME NEW c \in Comparers, ComparisonFails(c) PROVE DriftBounds'
  <2>1. Head(comparer[c].rows) \in 1..MaxLooks
    BY <1>3, HeadIsAssessed, AssessedAreCounted DEF ComparisonFails, MonitorBounds
  <2>2. abandoned' \subseteq 1..MaxLooks /\ reports' = reports
    BY <1>3, <2>1 DEF ComparisonFails, MonitorBounds, DriftBounds
  <2> QED
    BY <1>1, <2>2 DEF MonitorBounds, DriftBounds, ComparedBounds
<1>4. ASSUME NEW c \in Comparers, RecordDriftFor(c) PROVE DriftBounds'
  <2> DEFINE n == Head(comparer[c].rows)
             was == comparer[c].was[2]
             is == comparer[c].is[1]
             report == [before |-> comparer[c].was[1], was |-> was, is |-> is,
                        material |-> Material(was, is)]
  <2>1. n \in DOMAIN assessed /\ n \in Nat /\ comparer[c].was[1] \in 1..(n - 1)
    BY <1>4, HeadIsAssessed DEF RecordDriftFor, MonitorBounds, WalkBounds
  <2>2. CASE n \in DOMAIN reports
    BY <1>2, <1>4, <2>2 DEF RecordDriftFor
  <2>3. CASE n \notin DOMAIN reports
    <3>1. /\ reports' = [m \in DOMAIN reports \cup {n} |-> IF m = n THEN report ELSE reports[m]]
          /\ abandoned' = abandoned \ {n}
      BY <1>4, <2>3 DEF RecordDriftFor
    <3>2. report.before \in 1..(n - 1) /\ report.material \in BOOLEAN
      <4>1. Material(was, is) \in BOOLEAN
        BY DEF Material
      <4>2. report.material = Material(was, is) /\ report.before = comparer[c].was[1]
        OBVIOUS
      <4> HIDE DEF report, was, is
      <4> QED
        BY <2>1, <4>1, <4>2
    <3> HIDE DEF n, report
    <3>3. ASSUME NEW m \in DOMAIN reports' PROVE ComparedBounds(m)'
      <4>1. CASE m = n
        BY <1>1, <2>1, <3>1, <3>2, <4>1 DEF ComparedBounds
      <4>2. CASE m # n
        <5>1. m \in DOMAIN reports /\ reports'[m] = reports[m]
          BY <3>1, <4>2
        <5> QED
          BY <1>1, <5>1 DEF MonitorBounds, DriftBounds, ComparedBounds
      <4> QED
        BY <4>1, <4>2
    <3> QED
      BY <3>1, <3>3 DEF MonitorBounds, DriftBounds
  <2> QED
    BY <2>2, <2>3
<1>5. ASSUME NEW c \in Comparers,
             ReadUncompared(c) \/ PassOver(c) \/ SnapshotFor(c) \/ PreviousSnapshotFor(c)
      PROVE  UNCHANGED <<reports, abandoned>>
  BY <1>5 DEF ReadUncompared, PassOver, SnapshotFor, PreviousSnapshotFor
<1>6. ASSUME NEW q \in Queuers, SelectForReassessment(q) \/ QueueReassessment(q)
      PROVE  UNCHANGED <<reports, abandoned>>
  BY <1>6 DEF SelectForReassessment, QueueReassessment, ScheduleRests
<1>7. CASE OwnerAsks \/ Withdrawn \/ Claimed \/ RunFails \/ RunCompletes \/ MonitoringMoves
  BY <1>2, <1>7 DEF OwnerAsks, Withdrawn, Claimed, RunFails, RunCompletes, MonitoringMoves,
     ScheduleRests
<1>8. CASE (\E n \in 1..MaxLooks : Review(n)) \/ DayPasses \/ UNCHANGED reassessmentVars
  BY <1>2, <1>8 DEF Review, DayPasses, ScheduleRests, reassessmentVars
<1> QED
  BY <1>2, <1>3, <1>4, <1>5, <1>6, <1>7, <1>8 DEF ReassessmentNext

\* Assessments, sweeps and reports are what their tables and code say, within every
\* bound: a report always compares an assessment with an earlier one, and no
\* comparison fails more often than it is tried (sweepDriftDetection).
THEOREM ReassessmentTypeCorrect == ReassessmentSpec => []ReassessmentTypeOK
<1> DEFINE IInv == MonitorInv /\ MonitorBounds
<1>1. ReassessmentInit => IInv
  BY MonitorStarts, MonitorBoundsStart
<1>2. IInv /\ [ReassessmentNext]_reassessmentVars => IInv'
  <2> SUFFICES ASSUME IInv, [ReassessmentNext]_reassessmentVars PROVE IInv'
    OBVIOUS
  <2>1. MonitorInv' /\ CountBounds' /\ DriftBounds'
    BY MonitorSteps, CountsStayBounded, DriftLedgerStaysBounded DEF MonitorBounds
  <2>2. \A d \in Comparers : WalkBounds(comparer'[d])
    BY WalksStayBounded DEF MonitorBounds
  <2>3. (\A d \in Comparers : WalkBounds(comparer[d]))'
    BY <2>2 DEF WalkBounds
  <2> QED
    BY <2>1, <2>3 DEF MonitorBounds
<1>3. IInv => ReassessmentTypeOK
  <2> SUFFICES ASSUME MonitorInv, MonitorBounds PROVE ReassessmentTypeOK
    OBVIOUS
  <2>1. DOMAIN assessed = 1..Len(assessed) /\ DOMAIN assessed \subseteq 1..MaxLooks
    BY AssessedAreCounted DEF MonitorBounds
  <2>2. ASSUME NEW c \in Comparers
        PROVE  /\ comparer[c].at \in {"idle", "rows", "read", "compared"}
               /\ comparer[c].rows \in Seq(1..MaxLooks)
               /\ comparer[c].failures \in [1..MaxLooks -> 0..Attempts]
    <3>1. comparer[c] \in Walk /\ WalkFacts(comparer[c]) /\ WalkBounds(comparer[c])
      BY DEF MonitorInv, MonitorTyped, MonitorBounds
    <3>2. /\ comparer[c].rows \in Seq(Nat) /\ comparer[c].failures \in [1..MaxLooks -> Nat]
          /\ comparer[c].at \in {"idle", "rows", "read", "compared"}
      BY <3>1 DEF Walk
    <3>3. \A i \in DOMAIN comparer[c].rows : comparer[c].rows[i] \in 1..MaxLooks
      BY <2>1, <3>1 DEF WalkFacts
    <3>4. comparer[c].rows \in Seq(1..MaxLooks)
      <4>1. Len(comparer[c].rows) \in Nat /\ DOMAIN comparer[c].rows = 1..Len(comparer[c].rows)
        BY <3>2
      <4>2. comparer[c].rows = [i \in 1..Len(comparer[c].rows) |-> comparer[c].rows[i]]
        BY <3>2
      <4>3. comparer[c].rows \in [1..Len(comparer[c].rows) -> 1..MaxLooks]
        BY <3>3, <4>1, <4>2
      <4> QED
        BY <4>1, <4>3, RowsOf
    <3>5. \A n \in 1..MaxLooks : comparer[c].failures[n] \in 0..Attempts
      BY <3>1, <3>2, ReassessmentAssumption DEF WalkBounds
    <3> QED
      BY <3>2, <3>4, <3>5
  <2>3. ASSUME NEW n \in DOMAIN reports
        PROVE  n \in DOMAIN assessed /\ reports[n].before \in 1..(n - 1)
    BY <2>1 DEF MonitorBounds, DriftBounds, ComparedBounds
  <2>4. ASSUME NEW n \in DOMAIN reports PROVE reports[n].material \in BOOLEAN
    BY DEF MonitorBounds, DriftBounds, ComparedBounds
  <2> QED
    BY <2>2, <2>3, <2>4 DEF MonitorInv, MonitorTyped, MonitorBounds, CountBounds, DriftBounds,
       ReassessmentTypeOK
<1> QED
  BY <1>1, <1>2, <1>3, PTL DEF ReassessmentSpec

=============================================================================
