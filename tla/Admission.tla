----------------------------- MODULE Admission -----------------------------
(***************************************************************************)
(* What stands between an application and a run against it: the acceptable *)
(* use check, the authorisation to test, and the plan that pays.  Each is  *)
(* read in one statement and acted on in a later one, by the console, by   *)
(* the worker's intake sweep and by the worker that carries out the run.   *)
(*                                                                         *)
(* One application.  A month is thirty days.  A declaration covers its     *)
(* target when permittedScopeFor leaves it some domain.                    *)
(*                                                                         *)
(* Abstracted: the words of a submission (plain, too short to judge, or    *)
(* of a prohibited use), the challenge and how it is looked up, the        *)
(* roles of the workspace, the audit entries, and the pages of the sweep.  *)
(***************************************************************************)
EXTENDS Naturals, Sequences, FiniteSets

CONSTANTS
  Tabs,        \* requests to the console
  Screeners,   \* processes that run sweepIntakeScreening
  Cooldown,    \* cooldownDays of the free tier, in months
  Validity,    \* the 365 days of an authorisation, in months
  MaxRows,     \* bound: authorisation rows
  MaxRuns,     \* bound: assessments
  MaxMonths    \* bound: the clock

ASSUME AdmissionAssumption ==
  /\ Cooldown \in Nat \ {0} /\ Validity \in Nat \ {0}
  /\ MaxRows \in Nat /\ MaxRuns \in Nat /\ MaxMonths \in Nat

VARIABLES
  words,      \* name and description of the application
  screening,  \* screening_status, and who decided it
  intake,     \* createApp: the verdict it has still to record
  screener,   \* where each intake sweep is
  grants,     \* public.authorisations, in the order of created_at
  tab,        \* where each request to the console is
  subscription,
  purchase,   \* the application's invoice
  ticket,     \* the live row of public.assessment_requests, and its run
  kept,       \* public.assessments, in the order of completed_at
  month

admissionVars == <<words, screening, intake, screener, grants, tab, subscription,
                   purchase, ticket, kept, month>>

----------------------------------------------------------------------------
(* The rows *)

Words == {"plain", "short", "prohibited"}
ScreeningStatus == {"pending", "cleared", "refused"}
Judge == {"nobody", "intake", "sweep", "reviewer"}

Grant == [status: {"pending", "verified", "revoked"}, supersedes: Nat,
          covers: BOOLEAN, until: Nat]

PaidPlan == {"certified", "one_off"}
Verdict == [plan: PaidPlan \cup {"free"}, seen: Nat, decided: Nat]
NoVerdict == [plan |-> "free", seen |-> 0, decided |-> 0]

RestingTab == [at |-> "idle", of |-> 0, verdict |-> NoVerdict]
Ticket == [at: {"none", "queued", "claimed", "gated", "running", "written"},
           of: Nat, retried: BOOLEAN, verdict: Verdict, disturbed: BOOLEAN]
NoTicket == [at |-> "none", of |-> 0, retried |-> FALSE, verdict |-> NoVerdict,
             disturbed |-> FALSE]

AdmissionTypeOK ==
  /\ words \in Words
  /\ screening \in [status: ScreeningStatus, by: Judge]
  /\ intake \in {"done", "refused", "pending"}
  /\ screener \in [Screeners -> [at: {"idle", "judging", "clearing", "selected"}, read: Words]]
  /\ grants \in Seq(Grant)
  /\ tab \in [Tabs -> [at: {"idle", "verifying", "revoking", "asking", "deciding", "threw"},
                       of: Nat, verdict: Verdict]]
  /\ subscription \in {"none", "active", "past_due"}
  /\ purchase \in {"none", "paid", "refunded"}
  /\ ticket \in Ticket
  /\ kept \in Seq([verdict: Verdict, completed: Nat, disturbed: BOOLEAN])
  /\ month \in Nat

----------------------------------------------------------------------------
(* The acceptable use check *)

\* screenIntake: the patterns refuse, a short text is for a person, and
\* without a model nothing else is decided.
Screened(text, hasModel) ==
  IF text = "prohibited" THEN {"refused"}
  ELSE IF text = "short" \/ ~hasModel THEN {"needs_human_review"}
  ELSE {"cleared", "refused", "needs_human_review"}

\* createApp's verdict: the console has no model.
AtIntake(text) == IF Screened(text, FALSE) = {"refused"} THEN "refused" ELSE "pending"

AdmissionInit ==
  /\ words \in Words
  /\ screening = [status |-> "pending", by |-> "nobody"]
  /\ intake = AtIntake(words)
  /\ screener = [s \in Screeners |-> [at |-> "idle", read |-> "plain"]]
  /\ grants = <<>> /\ tab = [t \in Tabs |-> RestingTab]
  /\ subscription = "none" /\ purchase = "none"
  /\ ticket = NoTicket /\ kept = <<>> /\ month = 0

PendingStill == screening.status = "pending"
Decide(status, judge) == screening' = [status |-> status, by |-> judge]

\* record_intake_screening, or the write that failed and was logged.
RecordIntake ==
  /\ intake # "done" /\ intake' = "done"
  /\ \/ PendingStill /\ intake = "refused" /\ Decide("refused", "intake")
     \/ UNCHANGED screening
  /\ UNCHANGED <<words, screener, grants, tab, subscription, purchase, ticket, kept, month>>

\* The customer rewrites the application's name or description.
Rewrite ==
  /\ \E text \in Words \ {words} : words' = text
  /\ UNCHANGED <<screening, intake, screener, grants, tab, subscription, purchase,
                 ticket, kept, month>>

ScreenerIs(s, at) == screener[s].at = at
ScreenerGoes(s, at, read) ==
  /\ screener' = [screener EXCEPT ![s] = [at |-> at, read |-> read]]
  /\ UNCHANGED <<words, intake, grants, tab, subscription, purchase, ticket, kept, month>>

ReadSubmission(s) ==
  /\ ScreenerIs(s, "idle") /\ PendingStill
  /\ ScreenerGoes(s, "judging", words) /\ UNCHANGED screening

\* A verdict other than cleared leaves a note and the row pending.
JudgeSubmission(s) ==
  /\ ScreenerIs(s, "judging")
  /\ \E verdict \in Screened(screener[s].read, TRUE) :
       IF verdict = "cleared" THEN ScreenerGoes(s, "clearing", screener[s].read)
       ELSE ScreenerGoes(s, "idle", "plain")
  /\ UNCHANGED screening

\* record_automated_screening: its select, and then its update.
SelectSubmission(s) ==
  /\ ScreenerIs(s, "clearing")
  /\ IF PendingStill THEN ScreenerGoes(s, "selected", screener[s].read)
     ELSE ScreenerGoes(s, "idle", "plain")
  /\ UNCHANGED screening

\* Mutant: the update trusts the select before it.
ClearSelected(s) ==
  /\ ScreenerIs(s, "selected") /\ Decide("cleared", "sweep")
  /\ ScreenerGoes(s, "idle", "plain")

ClearSubmission(s) ==
  /\ ScreenerIs(s, "selected")
  /\ IF PendingStill THEN Decide("cleared", "sweep") ELSE UNCHANGED screening
  /\ ScreenerGoes(s, "idle", "plain")

\* record_screening_decision puts no condition on what was decided before.
ReviewerDecides ==
  /\ \E status \in {"cleared", "refused"} : Decide(status, "reviewer")
  /\ UNCHANGED <<words, intake, screener, grants, tab, subscription, purchase,
                 ticket, kept, month>>

----------------------------------------------------------------------------
(* The authorisation to test *)

Newest == Len(grants)
\* app_is_authorised_for_testing
Authorised ==
  Newest > 0 /\ grants[Newest].status = "verified" /\ grants[Newest].until > month
\* authorisations_supersedes_once
Superseded(n) == \E m \in DOMAIN grants : grants[m].supersedes = n

\* Any new row replaces the one a run may be relying on.
Insert(grant) ==
  /\ Newest < MaxRows
  /\ grants' = Append(grants, grant)
  /\ ticket' = [ticket EXCEPT !.disturbed = @ \/ ticket.at = "running"]
TabGoes(t, at, of, verdict) ==
  tab' = [tab EXCEPT ![t] = [at |-> at, of |-> of, verdict |-> verdict]]
TabRests(t) == TabGoes(t, "idle", 0, NoVerdict)
ConsoleRests == UNCHANGED <<words, screening, intake, screener, subscription, purchase,
                            kept, month>>

StartAuthorisation ==
  /\ screening.status # "refused"
  /\ \E covers \in BOOLEAN :
       Insert([status |-> "pending", supersedes |-> 0, covers |-> covers, until |-> 0])
  /\ ConsoleRests /\ UNCHANGED tab

\* The newest row, whatever it is: a withdrawn one names no host and proves
\* nothing, and a verified one is answered at once.
ReadChallenge(t) ==
  /\ tab[t].at = "idle" /\ Newest > 0 /\ grants[Newest].status = "pending"
  /\ TabGoes(t, "verifying", Newest, NoVerdict)
  /\ ConsoleRests /\ UNCHANGED <<grants, ticket>>

OwnershipShown(t) ==
  /\ tab[t].at = "verifying" /\ grants[tab[t].of].covers /\ ~Superseded(tab[t].of)
  /\ Insert([status |-> "verified", supersedes |-> tab[t].of, covers |-> TRUE,
              until |-> month + Validity])
  /\ TabRests(t) /\ ConsoleRests

ReadToWithdraw(t) ==
  /\ tab[t].at = "idle" /\ Newest > 0
  /\ TabGoes(t, "revoking", Newest, NoVerdict)
  /\ ConsoleRests /\ UNCHANGED <<grants, ticket>>

Withdraw(t) ==
  /\ tab[t].at = "revoking" /\ ~Superseded(tab[t].of)
  /\ Insert([status |-> "revoked", supersedes |-> tab[t].of, covers |-> FALSE, until |-> 0])
  /\ TabRests(t) /\ ConsoleRests

\* Ownership not shown, no domain covered, or the row superseded meanwhile.
TabFails(t) ==
  /\ tab[t].at \in {"verifying", "revoking"}
  /\ TabRests(t) /\ ConsoleRests /\ UNCHANGED <<grants, ticket>>

----------------------------------------------------------------------------
(* The plan *)

\* planFor
PlanFor ==
  IF subscription = "active" THEN "certified"
  ELSE IF purchase = "paid" THEN "one_off" ELSE "free"

SubscriptionMoves ==
  /\ \E to \in {"active", "past_due"} \ {subscription} : subscription' = to
  /\ UNCHANGED <<words, screening, intake, screener, grants, tab, purchase, ticket, kept, month>>

PurchaseMoves ==
  /\ \/ purchase = "none" /\ purchase' = "paid"
     \/ purchase = "paid" /\ purchase' = "refunded"
  /\ UNCHANGED <<words, screening, intake, screener, grants, tab, subscription, ticket, kept, month>>

\* Mutant: counted from the request and not from the completion.
CooledDownSinceAsked == kept = <<>> \/ kept[Len(kept)].verdict.decided + Cooldown <= month
\* nextAssessmentAvailable of the assessment completed last
CooledDown == kept = <<>> \/ kept[Len(kept)].completed + Cooldown <= month

\* decideAssessmentRequest; crowded: the workspace has more applications than
\* the free tier covers.  planFor names a paid plan only where it is active.
Allowed(plan, crowded) == Authorised /\ (plan = "free" => ~crowded /\ CooledDown)

ReadToAsk(t) ==
  /\ tab[t].at = "idle" /\ screening.status = "cleared"
  /\ TabGoes(t, "asking", 0, [NoVerdict EXCEPT !.plan = PlanFor])
  /\ ConsoleRests /\ UNCHANGED <<grants, ticket>>

\* Counting the re-tests asks public.assessments for a column it does not have.
CountReTests(t) ==
  /\ tab[t].at = "asking" /\ purchase = "paid"
  /\ TabGoes(t, "threw", 0, tab[t].verdict)
  /\ ConsoleRests /\ UNCHANGED <<grants, ticket>>

\* A refusal is a row of its own, and not a live one.
DecideRequest(t) ==
  /\ tab[t].at = "asking" /\ purchase # "paid"
  /\ \E crowded \in BOOLEAN :
       IF Allowed(tab[t].verdict.plan, crowded)
       THEN TabGoes(t, "deciding", 0, [tab[t].verdict EXCEPT !.seen = Len(kept), !.decided = month])
       ELSE TabRests(t)
  /\ ConsoleRests /\ UNCHANGED <<grants, ticket>>

\* assessment_requests_one_live_per_app
QueueRequest(t) ==
  /\ tab[t].at = "deciding"
  /\ ticket' = IF ticket.at # "none" THEN ticket
               ELSE [NoTicket EXCEPT !.at = "queued", !.verdict = tab[t].verdict]
  /\ TabRests(t) /\ ConsoleRests /\ UNCHANGED grants

----------------------------------------------------------------------------
(* The run *)

RunGoes(next) ==
  /\ ticket' = next
  /\ UNCHANGED <<words, screening, intake, screener, grants, tab, subscription, purchase, month>>
TicketGoes(at) == RunGoes([ticket EXCEPT !.at = at]) /\ UNCHANGED kept
TicketEnds == RunGoes(NoTicket) /\ UNCHANGED kept

CancelTicket == ticket.at = "queued" /\ TicketEnds
ClaimTicket == ticket.at = "queued" /\ TicketGoes("claimed")

\* runAssessmentJob reads the application first, and the authorisation next.
GateRun ==
  /\ ticket.at = "claimed"
  /\ IF screening.status = "cleared" /\ Authorised THEN TicketGoes("gated") ELSE TicketEnds
TakeAuthorisation ==
  /\ ticket.at = "gated"
  /\ RunGoes([ticket EXCEPT !.at = "running", !.of = Newest, !.disturbed = FALSE])
  /\ UNCHANGED kept

\* Mutant: the trigger does not compare the rows.
MayBeKeptIfAuthorised == Authorised
\* persistOutcome's own question, then assert_assessment_is_authorised.
MayBeKept == Authorised /\ ticket.of = Newest

WriteAssessment ==
  /\ ticket.at = "running"
  /\ IF MayBeKept THEN TicketGoes("written") ELSE TicketEnds

CommitAssessment ==
  /\ ticket.at = "written" /\ Len(kept) < MaxRuns
  /\ kept' = Append(kept, [verdict |-> ticket.verdict, completed |-> month,
                           disturbed |-> ticket.disturbed])
  /\ \/ RunGoes(NoTicket)
     \/ ~ticket.retried  \* completeRequest failed: the request is tried again
        /\ RunGoes([NoTicket EXCEPT !.at = "queued", !.retried = TRUE, !.verdict = ticket.verdict])

\* A failure worth trying again, or a claim taken back from a dead worker.
RunIsLost ==
  /\ ticket.at \in {"claimed", "gated", "running", "written"}
  /\ \/ TicketEnds
     \/ ~ticket.retried
        /\ RunGoes([NoTicket EXCEPT !.at = "queued", !.retried = TRUE, !.verdict = ticket.verdict])
        /\ UNCHANGED kept

\* No month passes inside one request to the console or one run.
MonthPasses ==
  /\ month < MaxMonths /\ month' = month + 1
  /\ ticket.at \in {"none", "queued"} /\ \A t \in Tabs : tab[t].at \in {"idle", "threw"}
  /\ UNCHANGED <<words, screening, intake, screener, grants, tab, subscription, purchase,
                 ticket, kept>>

ScreenerStep(s) ==
  ReadSubmission(s) \/ JudgeSubmission(s) \/ SelectSubmission(s) \/ ClearSubmission(s)
TabStep(t) ==
  \/ ReadChallenge(t) \/ OwnershipShown(t) \/ ReadToWithdraw(t) \/ Withdraw(t) \/ TabFails(t)
  \/ ReadToAsk(t) \/ CountReTests(t) \/ DecideRequest(t) \/ QueueRequest(t)

AdmissionNext ==
  \/ RecordIntake \/ Rewrite \/ ReviewerDecides \/ (\E s \in Screeners : ScreenerStep(s))
  \/ StartAuthorisation \/ (\E t \in Tabs : TabStep(t))
  \/ SubscriptionMoves \/ PurchaseMoves \/ MonthPasses
  \/ CancelTicket \/ ClaimTicket \/ GateRun \/ TakeAuthorisation \/ WriteAssessment
  \/ CommitAssessment \/ RunIsLost

AdmissionSpec == AdmissionInit /\ [][AdmissionNext]_admissionVars

----------------------------------------------------------------------------
(* What must hold *)

\* A decision on the acceptable use check, once made, is changed by a reviewer
\* and by nobody else: neither the intake verdict recorded late nor a sweep
\* that read the submission before the decision overwrites it
\* (record_automated_screening, record_intake_screening).
DecisionStands ==
  [][screening.status # "pending" /\ screening' # screening => screening'.by = "reviewer"]_admissionVars

\* No assessment is kept of a run whose authorisation was replaced or withdrawn
\* while it ran, also where the application was authorised anew before the run
\* ended: until its row is inserted.  What is withdrawn between that insert and its
\* commit no statement asks about.  (persistOutcome, assert_assessment_is_authorised)
NothingIsKeptFromAWithdrawnRun == \A i \in DOMAIN kept : ~kept[i].disturbed

\* A free assessment decided inside the cooldown of an earlier one was decided
\* before that one was complete: two requests at once, or a request tried
\* again, and never a request that could have seen it
\* (decideAssessmentRequest, requestAssessment).
FreeRunsAreSpaced ==
  \A i, j \in DOMAIN kept :
    /\ i < j /\ kept[j].verdict.plan = "free"
    /\ kept[j].verdict.decided < kept[i].completed + Cooldown
    => kept[j].verdict.seen < i
============================================================================
