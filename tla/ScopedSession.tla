--------------------------- MODULE ScopedSession ---------------------------
(***************************************************************************)
(* A model stage at work inside the authorisation: one scope guard, one    *)
(* browser session whose page makes requests of its own, one HTTP client,  *)
(* and the tools the model calls (packages/engine/src/runtime/scope.ts,    *)
(* browser.ts, http.ts, model/client.ts, stages/tools.ts, model-stage.ts). *)
(*                                                                         *)
(* A request awaits a slot of the rate bucket and is checked after the     *)
(* await, so several may have seen the same slot.  An exception thrown in  *)
(* the browser's route handler reaches nobody: the session keeps it, and   *)
(* some of the tools ask for it.                                           *)
(***************************************************************************)
EXTENDS Naturals, FiniteSets

CONSTANTS PageRequests,        \* the requests the page makes by itself
          Ceilings,          \* the intensity ceilings an authorisation may state
          DEFAULT_CEILING,
          MaxTurns,            \* maxIterations
          MaxRedirects,
          MaxArtefacts         \* a bound on what the tools capture

CeilingKey == {"total", "rate", "seconds"}

ASSUME SessionAssumption ==
  /\ MaxTurns \in Nat \ {0} /\ MaxRedirects \in Nat /\ MaxArtefacts \in Nat
  /\ DEFAULT_CEILING \in [CeilingKey -> Nat \ {0}]
  /\ \A raw \in Ceilings : \E K \in SUBSET CeilingKey : raw \in [K -> Nat]

VARIABLES
  stated,      \* the intensity_ceiling of the authorisation
  guard,       \* the ScopeGuard: requests counted, slots free, seconds since it was made
  departed,    \* the requests that left this machine
  browser,     \* the BrowserSession: its page, the ceiling it met, what it blocked
  routed,      \* the page's requests on their way through the route handler
  talk,        \* the conversation: where it is, its turn, why it halted, what it captured
  stageResult  \* the StageResult
sessionVars == <<stated, guard, departed, browser, routed, talk, stageResult>>

-----------------------------------------------------------------------------

\* A number the record leaves out stands at its default; what is no number or no limit, 0 here,
\* stops the run.
Malformed(raw) == \E c \in DOMAIN raw : raw[c] = 0
Policy == [c \in CeilingKey |-> IF c \in DOMAIN stated THEN stated[c] ELSE DEFAULT_CEILING[c]]

LoadedDocument == "document"
Routed == PageRequests \cup {LoadedDocument}
BlockReason == {"scope", "rate_limited", "ceiling"}
LoopHalt == {"none", "refused", "output_truncated", "tool_iteration_ceiling"}
StopReason == {"none", "cost_ceiling", "intensity_ceiling", "scope_violation"}
SessionNote == {"unevidenced", "overclaimed", "halted", "controls", "credentials", "scope",
                "throttled", "stopped", "no findings", "did not complete", "malformed ceiling"}
NoStageResult == [status |-> "none", stopReason |-> "none", notes |-> {}, findings |-> 0,
                  scopeRefusals |-> 0]

SessionTypeOK ==
  /\ stated \in Ceilings
  /\ guard \in [made: Nat, tokens: Nat, age: Nat] /\ departed \in 0..guard.made
  /\ browser \in [at: {"closed", "open", "loaded"}, ceiling: BOOLEAN,
                  blocked: [BlockReason -> Nat]]
  /\ routed \in [Routed -> [at: {"unmade", "waiting", "checking", "sent", "blocked"},
                            inside: BOOLEAN]]
  /\ talk \in [at: {"enter", "goto", "loading", "asking", "using", "navigating", "exchange",
                    "asserting", "fetching", "extracting", "over"},
               turn: 0..MaxTurns, halted: LoopHalt, minted: 0..MaxArtefacts,
               refused: SUBSET {"controls", "credentials"}, hop: 0..MaxRedirects]
  /\ stageResult \in [status: {"none", "succeeded", "failed", "aborted"},
                      stopReason: StopReason, notes: SUBSET SessionNote, findings: 0..1,
                      scopeRefusals: Nat]

SessionInit ==
  /\ stated \in Ceilings
  /\ guard = [made |-> 0, tokens |-> IF Malformed(stated) THEN 0 ELSE Policy["rate"], age |-> 0]
  /\ departed = 0
  /\ browser = [at |-> "closed", ceiling |-> FALSE, blocked |-> [b \in BlockReason |-> 0]]
  /\ routed = [r \in Routed |-> [at |-> "unmade", inside |-> TRUE]]
  /\ talk = [at |-> "enter", turn |-> 0, halted |-> "none", minted |-> 0, refused |-> {},
             hop |-> 0]
  /\ stageResult = NoStageResult

-----------------------------------------------------------------------------
(* The guard. *)

\* What check answers, in its order; the ceilings it throws.
ScopeVerdict(inside) ==
  IF ~inside THEN "scope"
  ELSE IF guard.age > Policy["seconds"] \/ guard.made >= Policy["total"] THEN "ceiling"
  ELSE IF guard.tokens = 0 THEN "rate_limited" ELSE "allowed"

\* A plausible slip: who has awaited a slot takes it to be his own.
PassesAsAwaited(verdict) == verdict \in {"allowed", "rate_limited"}
Passes(verdict) == verdict = "allowed"

Admit(verdict) ==
  guard' = IF Passes(verdict)
           THEN [guard EXCEPT !.made = @ + 1, !.tokens = IF @ = 0 THEN 0 ELSE @ - 1]
           ELSE guard

\* The bucket refills as the clock runs.
Refill ==
  /\ talk.at \notin {"enter", "over"} /\ guard.age <= Policy["seconds"]
  /\ guard' = [guard EXCEPT !.age = @ + 1, !.tokens = IF @ < Policy["rate"] THEN @ + 1 ELSE @]
  /\ UNCHANGED <<stated, departed, browser, routed, talk, stageResult>>

-----------------------------------------------------------------------------
(* The route handler: wait for a slot, or for as long as it may, then ask. *)

PageAsks(r) ==
  /\ browser.at = "loaded" /\ r \in PageRequests /\ routed[r].at = "unmade"
  /\ \E inside \in BOOLEAN : routed' = [routed EXCEPT ![r] = [at |-> "waiting", inside |-> inside]]
  /\ UNCHANGED <<stated, guard, departed, browser, talk, stageResult>>

WaitEnds(r) ==
  /\ browser.at # "closed" /\ routed[r].at = "waiting"
  /\ routed' = [routed EXCEPT ![r].at = "checking"]
  /\ UNCHANGED <<stated, guard, departed, browser, talk, stageResult>>

RouteDecides(r) ==
  LET verdict == ScopeVerdict(routed[r].inside) IN
  /\ browser.at # "closed" /\ routed[r].at = "checking"
  /\ Admit(verdict)
  /\ \/ /\ Passes(verdict)
        /\ routed' = [routed EXCEPT ![r].at = "sent"] /\ departed' = departed + 1 /\ UNCHANGED browser
     \/ /\ ~Passes(verdict)
        /\ routed' = [routed EXCEPT ![r].at = "blocked"] /\ UNCHANGED departed
        /\ browser' = [browser EXCEPT !.blocked[verdict] = @ + 1,
                                      !.ceiling = @ \/ verdict = "ceiling"]
  /\ UNCHANGED <<stated, talk, stageResult>>

-----------------------------------------------------------------------------
(* How a stage ends, its session closed whichever way, and how a tool does. *)

EndStage(result) ==
  /\ stageResult' = result
  /\ talk' = [talk EXCEPT !.at = "over"] /\ browser' = [browser EXCEPT !.at = "closed"]
AbortStage(reason) ==
  EndStage([NoStageResult EXCEPT !.status = "aborted", !.stopReason = reason,
                                 !.notes = {"stopped"}])
FailStage(note) == EndStage([NoStageResult EXCEPT !.status = "failed", !.notes = {note}])

\* The next tool of the same reply, or the next turn while there is one.
ToolReturns(said) ==
  /\ \/ talk' = [said EXCEPT !.at = "using", !.hop = 0]
     \/ /\ talk.turn < MaxTurns /\ talk' = [said EXCEPT !.at = "asking", !.hop = 0]
     \/ /\ talk.turn = MaxTurns
        /\ talk' = [said EXCEPT !.at = "extracting", !.hop = 0,
                                !.halted = "tool_iteration_ceiling"]
  /\ UNCHANGED <<browser, stageResult>>

\* What is captured has an id the findings may cite.
Capture == talk.minted < MaxArtefacts /\ ToolReturns([talk EXCEPT !.minted = @ + 1])

-----------------------------------------------------------------------------
(* The stage. *)

OpenSession ==
  /\ talk.at = "enter" /\ ~Malformed(stated)
  /\ \/ /\ talk' = [talk EXCEPT !.at = "goto"] /\ browser' = [browser EXCEPT !.at = "open"]
        /\ UNCHANGED stageResult
     \/ FailStage("did not complete")
  /\ UNCHANGED <<stated, guard, departed, routed>>

\* A ceiling nobody understands: no step of the run is taken.
RefuseCeiling ==
  /\ talk.at = "enter" /\ Malformed(stated) /\ FailStage("malformed ceiling")
  /\ UNCHANGED <<stated, guard, departed, routed>>

\* goto asks for the kept ceiling and then the guard, and the page's request is asked about again
\* in the route handler.
SessionGoto(inside, next, refused) ==
  LET verdict == ScopeVerdict(inside) IN
  /\ UNCHANGED <<stated, departed>>
  /\ \/ browser.ceiling /\ AbortStage("intensity_ceiling") /\ UNCHANGED <<guard, routed>>
     \/ /\ ~browser.ceiling /\ Admit(verdict)
        /\ \/ /\ verdict = "ceiling" /\ AbortStage("intensity_ceiling") /\ UNCHANGED routed
           \/ verdict # "ceiling" /\ ~Passes(verdict) /\ refused /\ UNCHANGED routed
           \/ /\ Passes(verdict)
              /\ routed' = [routed EXCEPT ![LoadedDocument] = [at |-> "waiting", inside |-> TRUE]]
              /\ talk' = [talk EXCEPT !.at = next] /\ UNCHANGED <<browser, stageResult>>

GotoFirst == talk.at = "goto" /\ SessionGoto(TRUE, "loading", AbortStage("scope_violation"))

\* The page came, did not come, or was blocked in the route.
Loaded ==
  /\ talk.at = "loading" /\ routed[LoadedDocument].at \in {"sent", "blocked"}
  /\ \/ /\ routed[LoadedDocument].at = "sent"
        /\ browser' = [browser EXCEPT !.at = "loaded"]
        /\ talk' = [talk EXCEPT !.at = "asking"] /\ UNCHANGED stageResult
     \/ FailStage("did not complete")
  /\ UNCHANGED <<stated, guard, departed, routed>>

\* One turn.  A pause on the last turn leaves the loop without a word.
AskModel ==
  /\ talk.at = "asking"
  /\ \/ AbortStage("cost_ceiling") \/ FailStage("did not complete")
     \/ /\ UNCHANGED <<browser, stageResult>>
        /\ \E reply \in {"end", "refused", "output_truncated", "pause", "tool_use"} :
             talk' = [talk EXCEPT !.turn = @ + 1,
               !.halted = IF reply \in LoopHalt THEN reply ELSE @,
               !.at = CASE reply = "tool_use" -> "using"
                        [] reply = "pause" /\ talk.turn + 1 < MaxTurns -> "asking"
                        [] OTHER -> "extracting"]
  /\ UNCHANGED <<stated, guard, departed, routed>>

DescribePage ==
  /\ talk.at = "using" /\ ToolReturns(talk) /\ UNCHANGED <<stated, guard, departed, routed>>

Navigate ==
  /\ talk.at = "using"
  /\ \E inside \in BOOLEAN : SessionGoto(inside, "navigating", ToolReturns(talk))

Navigated ==
  /\ talk.at = "navigating" /\ routed[LoadedDocument].at \in {"sent", "blocked"}
  /\ ToolReturns(talk) /\ UNCHANGED <<stated, guard, departed, routed>>

\* A control whose label reads as destructive is not pressed; one without a label is.
Label == {"ordinary", "destructive", "none"}
Click ==
  /\ talk.at = "using"
  /\ \E label \in Label :
       ToolReturns(IF label = "destructive" THEN [talk EXCEPT !.refused = @ \cup {"controls"}]
                   ELSE talk)
  /\ UNCHANGED <<stated, guard, departed, routed>>

\* A code is never filled, and a password only with the one the owner provisioned.
FieldKind == {"ordinary", "password", "code"}
Fill ==
  /\ talk.at = "using"
  /\ \E kind \in FieldKind, provisioned \in BOOLEAN :
       ToolReturns(IF kind = "code" \/ (kind = "password" /\ ~provisioned)
                   THEN [talk EXCEPT !.refused = @ \cup {"credentials"}] ELSE talk)
  /\ UNCHANGED <<stated, guard, departed, routed>>

Screenshot ==
  /\ talk.at = "using"
  /\ \/ browser.ceiling /\ AbortStage("intensity_ceiling")
     \/ ~browser.ceiling /\ Capture
  /\ UNCHANGED <<stated, guard, departed, routed>>

\* go_back and reload ask for the kept ceiling afterwards, whatever came of them.
Attempt ==
  /\ talk.at = "using"
  /\ \/ browser.ceiling /\ AbortStage("intensity_ceiling")
     \/ ~browser.ceiling /\ ToolReturns(talk)
  /\ UNCHANGED <<stated, guard, departed, routed>>

\* http_request: for every hop a slot, the guard, and the network.
HttpWaits ==
  /\ talk.at \in {"using", "exchange"} /\ talk' = [talk EXCEPT !.at = "asserting"]
  /\ UNCHANGED <<stated, guard, departed, browser, routed, stageResult>>

HttpAsserts ==
  /\ talk.at = "asserting" /\ UNCHANGED <<stated, routed>>
  /\ \E inside \in BOOLEAN :
       LET verdict == ScopeVerdict(inside) IN
       /\ Admit(verdict)
       /\ \/ verdict = "ceiling" /\ AbortStage("intensity_ceiling") /\ UNCHANGED departed
          \/ verdict # "ceiling" /\ ~Passes(verdict) /\ ToolReturns(talk) /\ UNCHANGED departed
          \/ /\ Passes(verdict) /\ departed' = departed + 1
             /\ talk' = [talk EXCEPT !.at = "fetching"] /\ UNCHANGED <<browser, stageResult>>

HttpAnswers ==
  /\ talk.at = "fetching"
  /\ \/ ToolReturns(talk)
     \/ Capture
     \/ /\ talk.hop < MaxRedirects
        /\ talk' = [talk EXCEPT !.at = "exchange", !.hop = @ + 1]
        /\ UNCHANGED <<browser, stageResult>>
  /\ UNCHANGED <<stated, guard, departed, routed>>

\* Blocked requests that were not rate limited count as refused by the scope, the ones a ceiling
\* stopped among them.
ScopeRefusals == browser.blocked["scope"] + browser.blocked["ceiling"]

SessionNotes(uncited, overclaimed) ==
  talk.refused
  \cup {n \in {"unevidenced", "overclaimed", "halted", "scope", "throttled"} :
     \/ n = "unevidenced" /\ uncited
     \/ n = "overclaimed" /\ overclaimed
     \/ n = "halted" /\ talk.halted # "none"
     \/ n = "scope" /\ ScopeRefusals > 0
     \/ n = "throttled" /\ browser.blocked["rate_limited"] > 0}

\* A finding is kept if something it cites was captured in this stage.
MayCite(cited) == cited = 0 \/ talk.minted > 0

\* What was seen is put into the schema.
ExtractFindings ==
  /\ talk.at = "extracting"
  /\ \/ AbortStage("cost_ceiling") \/ FailStage("did not complete") \/ FailStage("no findings")
     \/ \E cited \in 0..1, uncited \in BOOLEAN, overclaimed \in BOOLEAN :
          /\ MayCite(cited)
          /\ EndStage([status |-> "succeeded", stopReason |-> "none", findings |-> cited,
                       notes |-> SessionNotes(uncited, overclaimed),
                       scopeRefusals |-> ScopeRefusals])
  /\ UNCHANGED <<stated, guard, departed, routed>>

-----------------------------------------------------------------------------

UseTool ==
  \/ DescribePage \/ Navigate \/ Navigated \/ Click \/ Fill \/ Screenshot \/ Attempt
  \/ HttpWaits \/ HttpAsserts \/ HttpAnswers

SessionNext ==
  \/ RefuseCeiling \/ OpenSession \/ GotoFirst \/ Loaded \/ AskModel \/ UseTool
  \/ ExtractFindings \/ Refill
  \/ \E r \in Routed : PageAsks(r) \/ WaitEnds(r) \/ RouteDecides(r)

SessionSpec == SessionInit /\ [][SessionNext]_sessionVars

-----------------------------------------------------------------------------

\* However many requests awaited the same slot, and whichever of the page, the navigations and
\* the HTTP client they come from, no more leave than the authorisation allows in all, and no
\* more than one full bucket and what has flowed into it since.
AuthorisedPaceIsKept ==
  ~Malformed(stated) => departed <= Policy["total"] /\ departed <= Policy["rate"] + guard.age
=============================================================================
