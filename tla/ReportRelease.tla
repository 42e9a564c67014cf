--------------------------- MODULE ReportRelease ---------------------------
(***************************************************************************)
(* From an approved assessment to the report its customer downloads: the   *)
(* reviewer's actions, sweepPendingReports with the count of failures each *)
(* process keeps in memory, the rows of public.reports, the two audit      *)
(* actions that say a report was given up and came back after all, and     *)
(* what the console and the PDF route answer.                              *)
(*                                                                         *)
(* The sweep opens no transaction: one action is one statement, or the     *)
(* rendering between two statements, which takes a browser and seconds.    *)
(* The sweep belongs to every worker process.                              *)
(*                                                                         *)
(* Abstracted: the wording of a report (it says what the assessment said   *)
(* when it was read: `says`), the two paid plans (paid or free), and the   *)
(* order by reviewed_at within the window, which is any order.             *)
(***************************************************************************)
EXTENDS Naturals, FiniteSets

CONSTANTS
  Papers,           \* assessments awaiting review, one of each application
  Unrenderable,     \* those of them assembleReportSource or a renderer refuses for good
  Renderers,        \* worker processes
  WindowSize,       \* rows a sweep reads
  RenderAttempts,   \* REPORT_RENDER_ATTEMPTS
  MaxEdits,         \* bound: adjustments and second approvals of one assessment
  MaxPlanChanges,   \* bound: purchases, refunds and lapses
  MaxReportFaults   \* bound: browsers, statements and processes that fail

\* No assessment in hand.
Nobody == "nobody"

ASSUME ReportAssumption ==
  /\ Unrenderable \subseteq Papers /\ Nobody \notin Papers
  /\ WindowSize \in Nat \ {0} /\ RenderAttempts \in Nat \ {0}
  /\ MaxEdits \in Nat /\ MaxPlanChanges \in Nat /\ MaxReportFaults \in Nat

VARIABLES
  paper,         \* public.assessments
  paidFor,       \* applications whose plan is a paid one
  shelf,         \* public.reports, by format
  gaveUp,        \* assessments with an audit row RENDER_ABANDONED
  cameBack,      \* assessments with an audit row RENDER_RECOVERED
  renderer,      \* where each process's sweep is, and its stuckWindow
  slipped,       \* history: what came between reading an assessment and storing it
  planChanges,
  reportFaults

reportVars == <<paper, paidFor, shelf, gaveUp, cameBack, renderer, slipped, planChanges,
                reportFaults>>

----------------------------------------------------------------------------

Format == {"html", "pdf"}
Wording == 0..MaxEdits

\* held: the row exists; whole: every finding, with evidence and remediation;
\* current: generated_at is no earlier than the assessment's reviewed_at.
NotStored == [says |-> 0, whole |-> FALSE, current |-> FALSE, held |-> FALSE]
StoredNow(source) ==
  [says |-> source.says, whole |-> source.whole, current |-> TRUE, held |-> TRUE]

\* What a sweep has in hand: the assessment it read, for which plan.
EmptyHanded == [of |-> Nobody, says |-> 0, whole |-> FALSE]
AtItsDesk == [at |-> "idle", page |-> {}, source |-> EmptyHanded,
           failures |-> [p \in Papers |-> 0]]

ReportTypeOK ==
  /\ paper \in [Papers -> [status: {"awaiting_review", "approved", "rejected"},
                           says: Wording, edits: 0..MaxEdits]]
  /\ paidFor \subseteq Papers /\ gaveUp \subseteq Papers /\ cameBack \subseteq gaveUp
  /\ shelf \in [Papers -> [Format -> [says: Wording, whole: BOOLEAN, current: BOOLEAN,
                                      held: BOOLEAN]]]
  /\ renderer \in [Renderers ->
       [at: {"idle", "sweeping", "rendering", "html stored"}, page: SUBSET Papers,
        source: [of: Papers \cup {Nobody}, says: Wording, whole: BOOLEAN],
        failures: [Papers -> 0..RenderAttempts]]]
  /\ slipped \subseteq Papers
  /\ planChanges \in 0..MaxPlanChanges /\ reportFaults \in 0..MaxReportFaults

ReportInit ==
  /\ paper = [p \in Papers |-> [status |-> "awaiting_review", says |-> 0, edits |-> 0]]
  /\ paidFor \in SUBSET Papers
  /\ shelf = [p \in Papers |-> [f \in Format |-> NotStored]]
  /\ gaveUp = {} /\ cameBack = {} /\ slipped = {}
  /\ renderer = [w \in Renderers |-> AtItsDesk]
  /\ planChanges = 0 /\ reportFaults = 0

ReadBy(p) == {w \in Renderers : renderer[w].source.of = p}

ReviewFrame == UNCHANGED <<paidFor, gaveUp, cameBack, renderer, planChanges, reportFaults>>

\* Every review writes reviewed_at, so what is stored is older than it from now on.
Outdated(p) == [shelf EXCEPT ![p] = [f \in Format |-> [@[f] EXCEPT !.current = FALSE]]]
Overtakes(p) == slipped' = IF ReadBy(p) = {} THEN slipped ELSE slipped \cup {p}

----------------------------------------------------------------------------
(* The reviewer.  assert_human_review lets an assessment become approved or *)
(* rejected from awaiting_review only; an approval may be given again, and  *)
(* an adjustment asks nothing of the status.                                *)

ApprovePaper(p) ==
  /\ \/ /\ paper[p].status = "awaiting_review"
        /\ paper' = [paper EXCEPT ![p].status = "approved"]
     \/ /\ paper[p].status = "approved" /\ paper[p].edits < MaxEdits
        /\ paper' = [paper EXCEPT ![p].edits = @ + 1]
  /\ shelf' = Outdated(p) /\ Overtakes(p) /\ ReviewFrame

RejectPaper(p) ==
  /\ paper[p].status = "awaiting_review"
  /\ paper' = [paper EXCEPT ![p].status = "rejected"]
  /\ shelf' = Outdated(p) /\ Overtakes(p) /\ ReviewFrame

AdjustPaper(p) ==
  /\ paper[p].edits < MaxEdits
  /\ paper' = [paper EXCEPT ![p].says = @ + 1, ![p].edits = @ + 1]
  /\ shelf' = Outdated(p) /\ Overtakes(p) /\ ReviewFrame

----------------------------------------------------------------------------
(* sweepPendingReports                                                      *)

Released(p) == paper[p].status = "approved"

\* Mistake: only a report that is missing is rendered.
UnrenderedIfMissing(p) == Released(p) /\ ~shelf[p]["html"].held

\* No HTML report, or one older than the review.
Unrendered(p) ==
  Released(p) /\ ~(shelf[p]["html"].held /\ shelf[p]["html"].current)

GivenUp(p) == p \in gaveUp \ cameBack

\* Mistake: the window is filled without regard to what was given up.
WindowInReviewOrder(page) ==
  LET pending == {p \in Papers : Unrendered(p)} IN
  page \subseteq pending /\ (Cardinality(page) = WindowSize \/ page = pending)

\* The rows a sweep may read: those given up only when there is room for them.
Window(page) ==
  LET pending == {p \in Papers : Unrendered(p)} IN
  /\ page \subseteq pending /\ Cardinality(page) <= WindowSize
  /\ Cardinality(page) = WindowSize \/ page = pending
  /\ (\E p \in page : GivenUp(p)) => \A p \in pending \ page : GivenUp(p)

ReadUnrendered(w) ==
  /\ renderer[w].at = "idle"
  /\ \E page \in (SUBSET Papers) \ {{}} :
       /\ Window(page)
       /\ renderer' = [renderer EXCEPT ![w].at = "sweeping", ![w].page = page]
  /\ UNCHANGED <<paper, paidFor, shelf, gaveUp, cameBack, slipped, planChanges, reportFaults>>

Stuck(w, p) == renderer[w].failures[p] >= RenderAttempts

\* The sweep is done with p and goes on to the next row.
Turns(w, p, failures) ==
  LET left == renderer[w].page \ {p} IN
  renderer' = [renderer EXCEPT
    ![w] = [at |-> IF left = {} THEN "idle" ELSE "sweeping", page |-> left,
            source |-> EmptyHanded, failures |-> [@.failures EXCEPT ![p] = failures]]]

SkipStuck(w, p) ==
  /\ renderer[w].at = "sweeping" /\ p \in renderer[w].page /\ Stuck(w, p)
  /\ Turns(w, p, renderer[w].failures[p])
  /\ UNCHANGED <<paper, paidFor, shelf, gaveUp, cameBack, slipped, planChanges, reportFaults>>

\* resolvePlan, then assembleReportSource.
ReadSource(w, p) ==
  /\ renderer[w].at = "sweeping" /\ p \in renderer[w].page /\ ~Stuck(w, p)
  /\ p \notin Unrenderable
  /\ renderer' = [renderer EXCEPT
       ![w].at = "rendering",
       ![w].source = [of |-> p, says |-> paper[p].says, whole |-> p \in paidFor]]
  /\ UNCHANGED <<paper, paidFor, shelf, gaveUp, cameBack, slipped, planChanges, reportFaults>>

ReportFault == reportFaults < MaxReportFaults /\ reportFaults' = reportFaults + 1

\* A second statement writes the audit row, and its own failure is only logged.
Given(p) == gaveUp' = gaveUp \cup {p} /\ UNCHANGED reportFaults
GivenOrLost(w, p) ==
  IF renderer[w].failures[p] + 1 < RenderAttempts
  THEN UNCHANGED <<gaveUp, reportFaults>>
  ELSE \/ Given(p)
       \/ UNCHANGED gaveUp /\ ReportFault

\* assembleReportSource refuses p whenever it is asked.
NotAssembled(w, p) ==
  /\ renderer[w].at = "sweeping" /\ p \in renderer[w].page /\ ~Stuck(w, p)
  /\ p \in Unrenderable
  /\ Turns(w, p, renderer[w].failures[p] + 1)
  /\ GivenOrLost(w, p)
  /\ UNCHANGED <<paper, paidFor, shelf, cameBack, slipped, planChanges>>

\* The browser, the store or a statement fails once.
NotRendered(w) ==
  LET p == renderer[w].source.of IN
  /\ renderer[w].at \in {"rendering", "html stored"} /\ ReportFault
  /\ Turns(w, p, renderer[w].failures[p] + 1)
  /\ gaveUp' = IF renderer[w].failures[p] + 1 < RenderAttempts THEN gaveUp
               ELSE gaveUp \cup {p}
  /\ slipped' = IF renderer[w].at = "html stored" THEN slipped \cup {p} ELSE slipped
  /\ UNCHANGED <<paper, paidFor, shelf, cameBack, planChanges>>

\* What this sweep stored of the assessment and plan as they are is what now
\* stands, and no other process has an older reading to replace it with.
StoredInStep(w, p) ==
  LET source == renderer[w].source IN
  /\ source.says = paper[p].says /\ source.whole = (p \in paidFor) /\ ReadBy(p) = {w}
  /\ shelf'[p]["html"] = StoredNow(source)

Finished(w, p) ==
  /\ Turns(w, p, 0)
  /\ \/ /\ cameBack' = IF p \in gaveUp THEN cameBack \cup {p} ELSE cameBack
        /\ UNCHANGED reportFaults
     \/ p \in gaveUp \ cameBack /\ ReportFault /\ UNCHANGED cameBack
  /\ slipped' = IF StoredInStep(w, p) THEN slipped \ {p} ELSE slipped

\* A free report is HTML only; otherwise the PDF follows in a statement of its own.
StoreHtml(w) ==
  LET source == renderer[w].source IN
  /\ renderer[w].at = "rendering"
  /\ shelf' = [shelf EXCEPT ![source.of]["html"] = StoredNow(source)]
  /\ IF source.whole
     THEN /\ renderer' = [renderer EXCEPT ![w].at = "html stored"]
          /\ UNCHANGED <<cameBack, slipped, reportFaults>>
     ELSE Finished(w, source.of)
  /\ UNCHANGED <<paper, paidFor, gaveUp, planChanges>>

StorePdf(w) ==
  LET source == renderer[w].source IN
  /\ renderer[w].at = "html stored"
  /\ shelf' = [shelf EXCEPT ![source.of]["pdf"] = StoredNow(source)]
  /\ Finished(w, source.of)
  /\ UNCHANGED <<paper, paidFor, gaveUp, planChanges>>

\* A process that dies forgets its failures, and what it had in hand.
RendererRestarts(w) ==
  /\ ReportFault
  /\ slipped' = IF renderer[w].at = "html stored"
                THEN slipped \cup {renderer[w].source.of} ELSE slipped
  /\ renderer' = [renderer EXCEPT ![w] = AtItsDesk]
  /\ UNCHANGED <<paper, paidFor, shelf, gaveUp, cameBack, planChanges>>

\* Nothing calls regenerateForPlanChange: what is stored stays as it is.
PlanTurns(p) ==
  /\ planChanges < MaxPlanChanges /\ planChanges' = planChanges + 1
  /\ paidFor' = IF p \in paidFor THEN paidFor \ {p} ELSE paidFor \cup {p}
  /\ slipped' = IF shelf[p]["html"].held \/ ReadBy(p) # {} THEN slipped \cup {p} ELSE slipped
  /\ UNCHANGED <<paper, shelf, gaveUp, cameBack, renderer, reportFaults>>

ReviewerActs == \E p \in Papers : ApprovePaper(p) \/ RejectPaper(p) \/ AdjustPaper(p)
RenderStep(w) ==
  \/ ReadUnrendered(w) \/ StoreHtml(w) \/ StorePdf(w)
  \/ \E p \in Papers : SkipStuck(w, p) \/ ReadSource(w, p) \/ NotAssembled(w, p)

ReportNext ==
  \/ ReviewerActs
  \/ \E p \in Papers : PlanTurns(p)
  \/ \E w \in Renderers : RenderStep(w) \/ NotRendered(w) \/ RendererRestarts(w)

ReportSpec == ReportInit /\ [][ReportNext]_reportVars

----------------------------------------------------------------------------
(* What the customer is told.                                               *)

Document(says) == <<"the report", says>>

\* The console renders from the assessment, whatever is stored.
OnScreen(p) == IF Released(p) THEN Document(paper[p].says) ELSE <<"not ready">>

\* The PDF route serves what is stored.
PdfAnswer(p) ==
  CASE ~Released(p) -> <<"not reviewed">>
    [] Released(p) /\ p \notin paidFor -> <<"part of the paid report">>
    [] Released(p) /\ p \in paidFor /\ shelf[p]["pdf"].held -> Document(shelf[p]["pdf"].says)
    [] OTHER -> IF GivenUp(p) THEN <<"given up">> ELSE <<"still being prepared">>

Published(p) == Released(p) /\ ~Unrendered(p) /\ ReadBy(p) = {}

\* Once the sweep has no more to do for a report, the document a customer downloads
\* says what the console shows, and none is promised that nobody will make: unless a
\* review or a change of plan came while it was being rendered or after, or the
\* process stopped between the two formats.
WhatIsServedIsCurrent ==
  \A p \in Papers : Published(p) /\ p \notin slipped =>
    /\ Document(shelf[p]["html"].says) = OnScreen(p)
    /\ PdfAnswer(p) \in {OnScreen(p), <<"part of the paid report">>}

\* A report waits behind no other: each process renders it in the end, however many
\* can never be rendered, unless it has itself given it up, or one it has given up
\* keeps a place in the window because that was not recorded, or was taken back.
EveryReportIsRendered ==
  \A p \in Papers, w \in Renderers :
    []<>(\/ ~Unrendered(p) \/ Stuck(w, p)
         \/ \E q \in Papers : Stuck(w, q) /\ Unrendered(q) /\ ~GivenUp(q))
============================================================================
