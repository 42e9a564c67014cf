---------------------------- MODULE SpendCeiling ----------------------------
(***************************************************************************)
(* The stop a runaway loop hits: sweepSpendCap pauses the platform when    *)
(* the day's recorded cost has reached the ceiling, every worker asks      *)
(* whether it is paused before it claims, and an administrator lifts it.   *)
(*                                                                         *)
(* The pause is asked for and a request claimed in two statements, and a   *)
(* sweep reads and writes in two: whatever another process or a person     *)
(* does falls between them.                                                *)
(*                                                                         *)
(* Abstracted: amounts (a run costs one), the free tier's window, which    *)
(* only tells, and a figure that cannot be read, which never pauses.       *)
(***************************************************************************)
EXTENDS Naturals

CONSTANTS
  Spenders,     \* worker processes
  Ceiling,      \* CEILINGS.globalDailyUsd, in runs
  MaxSpent,     \* bound: costs recorded in a day
  MaxLifts      \* bound: lifts

ASSUME SpendAssumption == Ceiling \in Nat \ {0} /\ MaxSpent \in Nat /\ MaxLifts \in Nat

VARIABLES
  today,     \* spend_since(dayStart)
  pause,     \* spend_pauses: one live, or none, and the lifts so far
  claimant,  \* each process's loop: idle, told it may claim, or running
  watch,     \* each process's sweep: what it has read
  begun,     \* history: runs each process began under the live pause
  unasked    \* history: processes that began one without having asked before the pause

spendVars == <<today, pause, claimant, watch, begun, unasked>>

----------------------------------------------------------------------------

NotWatching == [at |-> "idle", today |-> 0, paused |-> FALSE]

SpendTypeOK ==
  /\ today \in 0..MaxSpent
  /\ pause \in [live: BOOLEAN, lifts: 0..MaxLifts]
  /\ claimant \in [Spenders -> [at: {"idle", "told", "running"}, overtaken: BOOLEAN]]
  /\ watch \in [Spenders -> [at: {"idle", "read"}, today: 0..MaxSpent, paused: BOOLEAN]]
  /\ begun \in [Spenders -> Nat] /\ unasked \subseteq Spenders

SpendInit ==
  /\ today = 0 /\ pause = [live |-> FALSE, lifts |-> 0]
  /\ claimant = [w \in Spenders |-> [at |-> "idle", overtaken |-> FALSE]]
  /\ watch = [w \in Spenders |-> NotWatching]
  /\ begun = [w \in Spenders |-> 0] /\ unasked = {}

----------------------------------------------------------------------------
(* processNextRequest: spendingIsPaused, then claimNextRequest              *)

AskWhetherPaused(w) ==
  /\ claimant[w].at = "idle" /\ ~pause.live
  /\ claimant' = [claimant EXCEPT ![w] = [at |-> "told", overtaken |-> FALSE]]
  /\ UNCHANGED <<today, pause, watch, begun, unasked>>

Claims(w) ==
  /\ claimant[w].at = "told"
  /\ claimant' = [claimant EXCEPT ![w].at = "running"]
  /\ begun' = [begun EXCEPT ![w] = IF pause.live THEN @ + 1 ELSE @]
  /\ unasked' = IF pause.live /\ ~claimant[w].overtaken THEN unasked \cup {w} ELSE unasked
  /\ UNCHANGED <<today, pause, watch>>

ClaimsNothing(w) ==
  /\ claimant[w].at = "told" /\ claimant' = [claimant EXCEPT ![w].at = "idle"]
  /\ UNCHANGED <<today, pause, watch, begun, unasked>>

\* Mistake: a loop that finds work goes on without asking again.
AfterRunAgain == "told"
AfterRun == "idle"

\* Its cost is recorded, whether the assessment is written or not; a process that
\* ends meanwhile, or a ledger that refuses, records none.
RunIsOver(w) ==
  /\ claimant[w].at = "running" /\ today < MaxSpent
  /\ today' \in {today, today + 1}
  /\ claimant' = [claimant EXCEPT ![w] = [at |-> AfterRun, overtaken |-> FALSE]]
  /\ UNCHANGED <<pause, watch, begun, unasked>>

----------------------------------------------------------------------------
(* sweepSpendCap; one sweep of a process at a time                          *)

ReadSpending(w) ==
  /\ watch[w].at = "idle"
  /\ watch' = [watch EXCEPT ![w] = [at |-> "read", today |-> today, paused |-> pause.live]]
  /\ UNCHANGED <<today, pause, claimant, begun, unasked>>

\* evaluateSpend, without the alerts.
ToPause(seen) == ~seen.paused /\ seen.today >= Ceiling

\* On conflict do nothing: one pause is live at a time.  What has been told before is
\* overtaken by it.
EnterPause(w) ==
  /\ watch[w].at = "read" /\ ToPause(watch[w])
  /\ watch' = [watch EXCEPT ![w] = NotWatching]
  /\ pause' = [pause EXCEPT !.live = TRUE]
  /\ claimant' = IF pause.live THEN claimant
                 ELSE [v \in Spenders |->
                         [claimant[v] EXCEPT !.overtaken = claimant[v].at = "told"]]
  /\ begun' = IF pause.live THEN begun ELSE [v \in Spenders |-> 0]
  /\ UNCHANGED <<today, unasked>>

LeaveUnpaused(w) ==
  /\ watch[w].at = "read" /\ ~ToPause(watch[w])
  /\ watch' = [watch EXCEPT ![w] = NotWatching]
  /\ UNCHANGED <<today, pause, claimant, begun, unasked>>

\* liftLivePause: the live one, whichever it is.
Lift ==
  /\ pause.live /\ pause.lifts < MaxLifts
  /\ pause' = [live |-> FALSE, lifts |-> pause.lifts + 1]
  /\ UNCHANGED <<today, claimant, watch, begun, unasked>>

Midnight ==
  /\ today > 0 /\ today' = 0 /\ UNCHANGED <<pause, claimant, watch, begun, unasked>>

SpendNext ==
  \/ \E w \in Spenders :
       \/ AskWhetherPaused(w) \/ Claims(w) \/ ClaimsNothing(w) \/ RunIsOver(w)
       \/ ReadSpending(w) \/ EnterPause(w) \/ LeaveUnpaused(w)
  \/ Lift \/ Midnight

SpendSpec == SpendInit /\ [][SpendNext]_spendVars

----------------------------------------------------------------------------
(* Properties                                                               *)

\* While the platform is paused a process begins at most one run, and only one it was
\* told it may claim before the pause was entered, however often the pause was lifted
\* and entered again, at whatever hour, and whichever of two sweeps entered it.
PausedWorkersStop ==
  unasked = {} /\ \A w \in Spenders : pause.live => begun[w] <= 1
=============================================================================
