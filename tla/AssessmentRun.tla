--------------------------- MODULE AssessmentRun ---------------------------
(***************************************************************************)
(* One run of runPipeline: the stages in their order, each tried twice,    *)
(* what each looked at and what it says it did not, and the three limits   *)
(* that stop a run: our spending ceiling, the intensity the owner          *)
(* authorised, and the scope.  What the run publishes is which criteria it *)
(* looked at: one that is neither looked at nor written down as not tested *)
(* is a tick for something nobody saw.                                     *)
(*                                                                         *)
(* One action is one pass of a stage or one call of the model.  Criteria   *)
(* carry the rubric's ids and stand where the source's tables put them.    *)
(*                                                                         *)
(* Abstracted: findings, their evidence and their wording, the score, the  *)
(* notes, and how a request is counted: the intensity ceiling is reached   *)
(* at some moment, and every counted request after it is refused.          *)
(***************************************************************************)
EXTENDS Naturals, Sequences, FiniteSets, PageSurvey

CONSTANTS
  Targets,      \* the applications assessed: records of the set Target
  TrustPages,   \* what their front pages hold, as the trust survey meets it
  CostCeiling,  \* COST_CEILING_BY_DEPTH
  CallCosts,    \* what one record of the meter may cost
  MaxCalls      \* bound: calls of one exploration (maxIterations)

Target == [url: BOOLEAN, repository: {"none", "unreadable", "fetched"}, isGame: BOOLEAN,
           limited: BOOLEAN, intendedForAppStore: BOOLEAN, noTestAccount: BOOLEAN,
           hasPayments: BOOLEAN]

ASSUME RunAssumption ==
  /\ Targets \subseteq Target /\ TrustPages \subseteq TrustPage
  /\ CostCeiling \in Nat \ {0} /\ CallCosts \subseteq Nat /\ MaxCalls \in Nat \ {0}

VARIABLES
  target,     \* chosen when the run begins
  stage,      \* how many stages are behind it
  pass,       \* the pass the current attempt comes to
  tries,
  draft,      \* what this attempt looked at, said it did not, and whether it did its job
  result,     \* stageResults
  stopped,    \* a stage was aborted
  exhausted,  \* the guard's wall clock or request count is at its ceiling
  spent,      \* CostMeter.totalUsd
  calls       \* turns of the exploration in hand

runVars == <<target, stage, pass, tries, draft, result, stopped, exhausted, spent, calls>>

----------------------------------------------------------------------------
(* The tables *)

Stages == <<"static_intake", "deterministic_checks", "functional_exploration",
            "adversarial_practicality", "game_experience", "store_readiness">>
StageId == {Stages[i] : i \in DOMAIN Stages}
ModelStages == {"functional_exploration", "adversarial_practicality",
                "game_experience", "store_readiness"}

BrowserPassCriteria == {"PRD-02", "UX-02", "UX-03"}
GamePassCriteria == {"FI-01", "FI-07", "FI-08", "PRD-02", "PRD-05", "PRD-06"}
\* transportChecks, headerChecks, cookieChecks, corsChecks and bodyChecks
RootCriteria == {"SEC-01", "SEC-02", "SEC-03", "SEC-04", "SEC-11", "PRD-04", "PRI-01"}
ProbedCriteria == {"SEC-05", "SEC-08"}

AskedByStage ==
  [s \in StageId |->
     CASE s = "static_intake" -> {"PRD-04", "SEC-04", "SEC-10"}
       [] s = "deterministic_checks" ->
            RootCriteria \cup ProbedCriteria \cup BrowserPassCriteria
              \cup TrustSurveyCriteria \cup DesignSurveyCriteria \cup GamePassCriteria
       [] s = "functional_exploration" ->
            {"FI-01", "FI-03", "FI-04", "FI-05", "FI-06", "UX-01", "UX-05"}
       [] s = "adversarial_practicality" -> {"SEC-06", "SEC-07", "SEC-09"}
       [] s = "store_readiness" ->
            {"STR-01", "STR-02", "STR-04", "STR-05", "STR-06", "STR-07"}
       [] OTHER -> {}]

BehindASignIn == {"FI-02", "FI-07", "PRI-03", "STR-03"}
WithoutACheck ==
  {"PRI-02", "PRI-04", "PRI-05", "PRI-06", "PRD-01", "PRD-03", "STR-08"}
    \cup IF target.isGame THEN {} ELSE {"FI-08", "PRD-05", "PRD-06"}
Criterion == (UNION {AskedByStage[s] : s \in StageId}) \cup BehindASignIn \cup
  {"PRI-02", "PRI-04", "PRI-05", "PRI-06", "PRD-01", "PRD-03", "STR-08"}

\* appliesTo
Applies(s) ==
  CASE s = "static_intake" -> target.repository # "none"
    [] s = "adversarial_practicality" -> target.url /\ ~target.limited
    [] s = "game_experience" -> target.url /\ target.isGame /\ ~target.limited
    [] s = "store_readiness" -> target.url /\ target.intendedForAppStore
    [] OTHER -> target.url

----------------------------------------------------------------------------

Pass == {"enter", "repository", "scan", "root", "probe", "browser", "trust", "design",
         "phone", "game", "compute", "exit", "open", "explore", "extract", "settle",
         "synthesis", "done"}
Blank == [looked |-> {}, notTested |-> {}, complete |-> TRUE]
Untried == [status |-> "none", looked |-> {}, notTested |-> {}]
MaxTries == 2

RunTypeOK ==
  /\ target \in Targets
  /\ stage \in 0..Len(Stages) /\ pass \in Pass /\ tries \in 1..MaxTries
  /\ draft \in [looked: SUBSET Criterion, notTested: SUBSET Criterion, complete: BOOLEAN]
  /\ result \in [StageId -> [status: {"none", "skipped", "unreached", "failed", "succeeded", "aborted"},
                             looked: SUBSET Criterion, notTested: SUBSET Criterion]]
  /\ stopped \in BOOLEAN /\ exhausted \in BOOLEAN
  /\ spent \in Nat /\ calls \in Nat

RunInit ==
  /\ target \in Targets
  /\ stage = 0 /\ pass = "enter" /\ tries = 1 /\ draft = Blank
  /\ result = [s \in StageId |-> Untried]
  /\ stopped = FALSE /\ exhausted = FALSE /\ spent = 0 /\ calls = 0

Current == Stages[stage + 1]
Over == spent > CostCeiling

\* The stage's result stands, and the next stage is entered.
Settle(status, looked, notTested) ==
  /\ result' = [result EXCEPT ![Current] =
       [status |-> status, looked |-> looked, notTested |-> notTested]]
  /\ stage' = stage + 1 /\ pass' = "enter" /\ tries' = 1 /\ draft' = Blank /\ calls' = 0
  /\ UNCHANGED <<target, exhausted>>

Succeed == Settle("succeeded", draft.looked, draft.notTested) /\ UNCHANGED stopped

\* runStageWithRetry: another attempt starts from nothing, and the last stands.
Fail(looked, notTested) ==
  IF tries < MaxTries
  THEN /\ tries' = tries + 1 /\ pass' = "settle" /\ draft' = Blank /\ calls' = 0
       /\ UNCHANGED <<target, stage, result, stopped, exhausted>>
  ELSE Settle("failed", looked, notTested) /\ UNCHANGED stopped

\* classifyStop: whatever the attempt had is lost, and no stage runs after it.
Abort == Settle("aborted", {}, {}) /\ stopped' = TRUE

Proceed(next, looked, notTested) ==
  /\ pass' = next
  /\ draft' = [draft EXCEPT !.looked = @ \cup looked, !.notTested = @ \cup notTested]
  /\ UNCHANGED <<target, stage, tries, result, stopped, exhausted, calls>>

\* A pass inside the stage died: its criteria are written down, and the stage
\* has not done its job.
Miss(next, notTested) ==
  /\ pass' = next
  /\ draft' = [draft EXCEPT !.notTested = @ \cup notTested, !.complete = FALSE]
  /\ UNCHANGED <<target, stage, tries, result, stopped, exhausted, calls>>

\* A request or navigation that the guard counts: the ceiling makes it a stop,
\* and so does an address outside the scope.
Request == ~exhausted /\ UNCHANGED spent
Refused == Abort /\ UNCHANGED spent

\* recordModelCall, recordCompute: the record is kept, and then the ceiling asked.
Record(cost) == spent' = spent + cost

Exceeds(cost) == spent + cost > CostCeiling

----------------------------------------------------------------------------
(* The loop over the stages *)

FirstPass ==
  CASE Current = "static_intake" -> "repository"
    [] Current = "deterministic_checks" -> "root"
    [] OTHER -> "open"

EnterStage ==
  /\ pass = "enter" /\ stage < Len(Stages) /\ UNCHANGED spent
  /\ \/ /\ ~stopped /\ Applies(Current)
        /\ pass' = "settle"
        /\ UNCHANGED <<target, stage, tries, draft, result, stopped, exhausted, calls>>
     \/ /\ ~stopped /\ ~Applies(Current)
        /\ Settle("skipped", {}, {}) /\ UNCHANGED stopped
     \/ stopped /\ Settle("unreached", {}, {}) /\ UNCHANGED stopped

BeginAttempt ==
  /\ pass = "settle" /\ UNCHANGED spent
  /\ Proceed(FirstPass, {}, {})

\* The owner's ceiling is reached, between any two steps.
CeilingReached ==
  /\ pass \notin {"synthesis", "done"} /\ ~exhausted /\ exhausted' = TRUE
  /\ UNCHANGED <<target, stage, pass, tries, draft, result, stopped, spent, calls>>

----------------------------------------------------------------------------
(* static_intake *)

\* repositoryUnavailable, or a repository with no readable file in it.
ReadRepository ==
  /\ pass = "repository" /\ UNCHANGED spent
  /\ \/ target.repository = "fetched" /\ Proceed("scan", {}, {})
     \/ Fail({}, {"SEC-10"})

\* The secrets, the manifests (none readable: the check did not run), the
\* licence; every file may turn out to be unopenable.
ScanRepository ==
  /\ pass = "scan"
  /\ \E cost \in CallCosts, checked \in SUBSET {"SEC-10"} : Record(cost) /\
       \/ Exceeds(cost) /\ Abort
       \/ ~Exceeds(cost) /\ Settle("succeeded", {"SEC-04", "PRD-04"} \cup checked, {"SEC-10"} \ checked)
            /\ UNCHANGED stopped
       \/ ~Exceeds(cost) /\ Fail(checked, {"SEC-10"} \ checked)

----------------------------------------------------------------------------
(* deterministic_checks *)

\* The first request, and the checks over what came back; a page that sets no
\* cookie leaves SEC-03 unanswered.
RequestRoot ==
  /\ pass = "root"
  /\ \/ Request /\ \E noCookie \in SUBSET {"SEC-03"} :
                     Proceed("probe", RootCriteria \ noCookie, noCookie)
     \/ Request /\ Fail({}, BrowserPassCriteria \cup TrustSurveyCriteria \cup DesignSurveyCriteria
                              \cup IF target.isGame THEN GamePassCriteria ELSE {})
     \/ Refused

\* EXPOSED_PATHS and ADMIN_PATHS, each of which may establish nothing.
ProbePaths ==
  /\ pass = "probe"
  /\ \/ Request /\ \E nothing \in SUBSET ProbedCriteria :
                     Proceed("browser", ProbedCriteria \ nothing, nothing)
     \/ Refused

AfterBrowser == IF target.isGame THEN "game" ELSE "compute"
BrowserDies ==
  Miss(AfterBrowser, BrowserPassCriteria \cup TrustSurveyCriteria \cup DesignSurveyCriteria)

OpenBrowser ==
  /\ pass = "browser"
  /\ \/ Request /\ (Proceed("trust", {"UX-03"}, {}) \/ BrowserDies)
     \/ Refused

\* A survey says which of its criteria the page left open (PageSurvey), or does not
\* complete; neither fails the browser pass.
SurveyTrust ==
  /\ pass = "trust"
  /\ \/ Request /\ \E survey \in TrustPages :
          LET missed == TrustNotTested(survey, target.hasPayments) IN
          Proceed("design", TrustSurveyCriteria \ missed, missed)
     \/ Request /\ Proceed("design", {}, TrustSurveyCriteria)
     \/ Refused

SurveyDesign ==
  /\ pass = "design" /\ UNCHANGED spent
  /\ \/ Proceed("phone", DesignSurveyCriteria, {})
     \/ Proceed("phone", {}, DesignSurveyCriteria)

\* At phone width, and the console over both.
SurveyPhone ==
  /\ pass = "phone"
  /\ \/ Request /\ (Proceed(AfterBrowser, {"UX-02", "PRD-02"}, {}) \/ BrowserDies)
     \/ Refused

PlayGame ==
  /\ pass = "game"
  /\ \/ Request /\ (Proceed("compute", GamePassCriteria, {}) \/ Miss("compute", GamePassCriteria))
     \/ Refused

\* The compute is recorded before the walk to the exit, and may stop the run.
RecordCompute ==
  /\ pass = "compute"
  /\ \E cost \in CallCosts : Record(cost) /\
       \/ Exceeds(cost) /\ Abort
       \/ ~Exceeds(cost) /\ Current = "deterministic_checks" /\ Proceed("exit", {}, {})
       \/ ~Exceeds(cost) /\ Current \in ModelStages /\ Succeed

\* crawlForTheExit is never a reason to fail, except that it may stop the run.
WalkToTheExit ==
  /\ pass = "exit"
  /\ \/ /\ Request
        /\ IF draft.complete THEN Succeed ELSE Fail(draft.looked, draft.notTested)
     \/ Refused

----------------------------------------------------------------------------
(* The model stages *)

OpenPage ==
  /\ pass = "open"
  /\ \/ Request /\ (Proceed("explore", {}, {}) \/ Fail({}, {}))
     \/ Refused

\* One turn: headroom is asserted, the call sent and recorded.  It leads to
\* another turn, ends the exploration, or throws; a tool that meets a ceiling
\* leaves the loop, while one that is refused by the scope is told so.
Explore ==
  /\ pass = "explore"
  /\ \/ Over /\ Abort /\ UNCHANGED spent
     \/ ~Over /\ \E cost \in CallCosts : Record(cost) /\
          \/ Exceeds(cost) /\ Abort
          \/ /\ ~Exceeds(cost) /\ calls + 1 < MaxCalls
             /\ calls' = calls + 1
             /\ UNCHANGED <<target, stage, pass, tries, draft, result, stopped, exhausted>>
          \/ ~Exceeds(cost) /\ Proceed("extract", {}, {})
          \/ ~Exceeds(cost) /\ exhausted /\ Abort
     \/ ~Over /\ Fail({}, {}) /\ UNCHANGED spent

\* The structured answer: all the stage asks, or no answer that parses.
Extract ==
  /\ pass = "extract"
  /\ \/ Over /\ Abort /\ UNCHANGED spent
     \/ ~Over /\ \E cost \in CallCosts : Record(cost) /\
          \/ Exceeds(cost) /\ Abort
          \/ ~Exceeds(cost) /\ (Proceed("compute", AskedByStage[Current], {}) \/ Fail({}, {}))
     \/ ~Over /\ Fail({}, {}) /\ UNCHANGED spent

----------------------------------------------------------------------------
(* After the stages *)

Executed == {s \in StageId : result[s].status \in {"failed", "succeeded", "aborted"}}
Succeeded == {s \in StageId : result[s].status = "succeeded"}

\* Mistake: the stages a stop left unreached are not among those that failed.
UnaskedOfReached ==
  (UNION {AskedByStage[s] : s \in {t \in StageId : result[t].status \in {"failed", "aborted"}}})
    \ (UNION {AskedByStage[s] : s \in Succeeded})

\* unasked: those that no stage that finished asks as well.
Unasked ==
  (UNION {AskedByStage[s] : s \in {t \in StageId : result[t].status \in {"failed", "aborted", "unreached"}}})
    \ (UNION {AskedByStage[s] : s \in Succeeded})

NotTestedCriteria ==
  (UNION {result[s].notTested : s \in StageId}) \cup WithoutACheck \cup Unasked
    \cup IF target.noTestAccount THEN BehindASignIn ELSE {}

LookedAt == UNION {result[s].looked : s \in StageId}

RunStatus ==
  IF stopped THEN "aborted" ELSE IF Succeeded = {} THEN "failed" ELSE "completed"

FinishStages ==
  /\ pass = "enter" /\ stage = Len(Stages)
  /\ pass' = IF stopped THEN "done" ELSE "synthesis"
  /\ UNCHANGED <<target, stage, tries, draft, result, stopped, exhausted, spent, calls>>

\* The narrative.  Whatever it throws is caught, a ceiling too.
Synthesise ==
  /\ pass = "synthesis" /\ pass' = "done"
  /\ \/ ~Over /\ \E cost \in CallCosts : Record(cost)
     \/ UNCHANGED spent
  /\ UNCHANGED <<target, stage, tries, draft, result, stopped, exhausted, calls>>

RunStep ==
  \/ EnterStage \/ BeginAttempt \/ ReadRepository \/ ScanRepository
  \/ RequestRoot \/ ProbePaths \/ OpenBrowser \/ SurveyTrust \/ SurveyDesign
  \/ SurveyPhone \/ PlayGame \/ RecordCompute \/ WalkToTheExit
  \/ OpenPage \/ Explore \/ Extract \/ FinishStages \/ Synthesise

RunNext == RunStep \/ CeilingReached

RunSpec == RunInit /\ [][RunNext]_runVars

----------------------------------------------------------------------------
(* Properties *)

AccountedFor(c) == c \in LookedAt \cup NotTestedCriteria

\* What a stage asks of this application: two of the criteria the table gives
\* deterministic_checks are looked at by its game pass and by nothing else in it.
OfAGame == {"FI-01", "FI-07"}
Puts(s) == AskedByStage[s] \ (IF s = "deterministic_checks" /\ ~target.isGame THEN OfAGame ELSE {})

\* unasked takes deterministic_checks, which finished, to have asked FI-01 of
\* something that is not a game; only the exploration does, and it did not finish.
TakenAsAsked(c) ==
  /\ c = "FI-01" /\ ~target.isGame
  /\ result["deterministic_checks"].status = "succeeded"
  /\ result["functional_exploration"].status # "succeeded"

\* Whatever fails, is retried, is stopped or dies half way: every criterion that
\* a stage of this run asks was looked at by the attempt whose result stands, or
\* is written down as not tested, except the one taken as asked.  No other reads
\* as a tick for nothing.
EveryQuestionIsAccountedFor ==
  pass = "done" =>
    \A s \in StageId : Applies(s) => \A c \in Puts(s) : AccountedFor(c) \/ TakenAsAsked(c)

----------------------------------------------------------------------------
(* What the documents and the tests say, and the code does not do *)

\* "SEC-10 is recorded as not tested on every path where the dependency check
\* did not run" (docs/DECISIONS.md 720), and its test: "says so when no repository
\* was in scope - the free tier, on every run".  The stage says it; a run in which
\* the stage does not apply never asks the stage.
DependencyCheckIsAccountedFor == pass = "done" => AccountedFor("SEC-10")

\* A stage that did not finish "leaves its criteria marked not tested rather than
\* clean" (tests/the-pass-that-did-not-finish.test.ts 104), unless a pass that did
\* finish asked them too.  Of something that is not a game, none asked FI-01.
UnfinishedPassIsSaid ==
  pass = "done" =>
    \A s \in StageId : result[s].status \in {"failed", "aborted", "unreached"} =>
      \A c \in Puts(s) : AccountedFor(c)
============================================================================
