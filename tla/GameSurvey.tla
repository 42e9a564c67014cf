----------------------------- MODULE GameSurvey -----------------------------
(***************************************************************************)
(* What deterministic_checks says of a game: measureGame opens it, waits   *)
(* for it to run, plays it, hides it and loads it again, and gameFindings  *)
(* charges what was measured.                                              *)
(*                                                                         *)
(* Every question is put to a page that may not answer, may reload itself  *)
(* and may close.  What the game is like is true whether or not it was     *)
(* answered for: the question is what a charge, and a silence, rest on.    *)
(*                                                                         *)
(* Abstracted: times and bytes (a start is quick, slow or heavy), wording, *)
(* and the evidence a finding cites.                                       *)
(***************************************************************************)
EXTENDS Naturals

CONSTANTS
  Games,      \* what may be measured: a set of Game
  MaxPolls    \* PLAYABLE_TIMEOUT_MS / POLL_MS

Game == [loop: {"frames", "timer", "nothing"}, touch: BOOLEAN, pauses: BOOLEAN,
         keeps: {"nothing", "tab", "device"}, start: {"quick", "slow", "heavy"},
         throws: BOOLEAN, reloads: BOOLEAN]

ASSUME GameAssumption == Games \subseteq Game /\ MaxPolls \in Nat \ {0}

VARIABLES
  game,     \* the game as it is
  page,     \* whether it is open, runs, and how often it was heard running
  poll,     \* polls made, whether one was answered, fast ones in a row, a sustained timer
  measure,  \* GameMeasurements
  verdict   \* the step of the pass, its findings, notes and criteria not tested

gameVars == <<game, page, poll, measure, verdict>>

----------------------------------------------------------------------------

Unmeasured == [throttled |-> FALSE, signal |-> "none", framed |-> FALSE, weighed |-> FALSE,
               touch |-> "unknown", played |-> FALSE, pauses |-> "unknown", tabOnly |-> FALSE]
NotPolled == [made |-> 0, answered |-> FALSE, fast |-> 0, sustained |-> FALSE]
GAME_PASS_CRITERIA == {"FI-01", "FI-07", "FI-08", "PRD-02", "PRD-05", "PRD-06"}
Limitation == {"closed", "timer", "weight", "listeners", "counters", "hidden", "after",
               "storage", "kept", "throttle"}

GameTypeOK ==
  /\ game \in Games
  /\ page \in [open: BOOLEAN, runs: BOOLEAN, heard: 0..MaxPolls]
  /\ poll \in [made: 0..MaxPolls, answered: BOOLEAN, fast: 0..MaxPolls, sustained: BOOLEAN]
  /\ measure \in [throttled: BOOLEAN, signal: {"none", "unknown", "timer", "frames"},
                  framed: BOOLEAN, weighed: BOOLEAN, touch: {"unknown", "yes", "no"},
                  played: BOOLEAN, pauses: {"unknown", "yes", "no"}, tabOnly: BOOLEAN]
  /\ verdict.charged \subseteq GAME_PASS_CRITERIA /\ verdict.notes \subseteq Limitation
  /\ verdict.notTested \in {{}, GAME_PASS_CRITERIA}

GameInit ==
  /\ game \in Games
  /\ page = [open |-> TRUE, runs |-> FALSE, heard |-> 0]
  /\ poll = NotPolled /\ measure = Unmeasured
  /\ verdict = [at |-> "throttle", charged |-> {}, notes |-> {}, notTested |-> {}]

GoesOn(from, to) == verdict.at = from /\ verdict' = [verdict EXCEPT !.at = to]
Notes(from, to, said) ==
  verdict.at = from /\ verdict' = [verdict EXCEPT !.at = to, !.notes = @ \cup said]

\* A rejected evaluate is an answer of its own; a closed page gives no other.
Answers == IF page.open THEN BOOLEAN ELSE {FALSE}
Said(answered, what) == IF answered THEN {} ELSE {what}

----------------------------------------------------------------------------
(* The page                                                                 *)

Measuring == verdict.at \notin {"throttle", "open", "done"}

PageRuns ==
  /\ Measuring /\ page.open /\ ~page.runs /\ game.loop # "nothing"
  /\ page' = [page EXCEPT !.runs = TRUE] /\ UNCHANGED <<game, poll, measure, verdict>>

PageCloses ==
  /\ Measuring /\ page.open
  /\ page' = [page EXCEPT !.open = FALSE] /\ UNCHANGED <<game, poll, measure, verdict>>

----------------------------------------------------------------------------
(* measureGame                                                              *)

Throttle ==
  /\ GoesOn("throttle", "open")
  /\ \E throttled \in BOOLEAN : measure' = [measure EXCEPT !.throttled = throttled]
  /\ UNCHANGED <<game, page, poll>>

OpenGame ==
  /\ GoesOn("open", "poll") /\ UNCHANGED <<game, page, poll, measure>>

Heard == page.heard + (IF page.runs THEN 1 ELSE 0)

\* Enough frames end the wait; when the first one came is asked, and may not be answered.
PollDraws ==
  /\ page.open /\ page.runs /\ game.loop = "frames" /\ poll.made < MaxPolls
  /\ GoesOn("poll", "weigh")
  /\ page' = [page EXCEPT !.heard = Heard]
  /\ \E framed \in BOOLEAN :
       measure' = [measure EXCEPT !.signal = "frames", !.framed = framed]
  /\ UNCHANGED <<game, poll>>

\* A poll without an answer neither advances nor clears what the last one left.
PollTicks ==
  LET fast == IF poll.answered /\ page.runs /\ game.loop = "timer" THEN poll.fast + 1 ELSE 0 IN
  /\ verdict.at = "poll" /\ page.open /\ poll.made < MaxPolls
  /\ ~(page.runs /\ game.loop = "frames")
  /\ poll' = [made |-> poll.made + 1, answered |-> TRUE, fast |-> fast,
              sustained |-> poll.sustained \/ fast >= 2]
  /\ page' = [page EXCEPT !.heard = Heard]
  /\ UNCHANGED <<game, measure, verdict>>

PollRefused ==
  /\ verdict.at = "poll" /\ page.open /\ poll.made < MaxPolls
  /\ poll' = [poll EXCEPT !.made = @ + 1] /\ UNCHANGED <<game, page, measure, verdict>>

PollClosed ==
  /\ ~page.open /\ poll.made < MaxPolls /\ Notes("poll", "weigh", {"closed"})
  /\ measure' = [measure EXCEPT !.signal = "unknown"] /\ UNCHANGED <<game, page, poll>>

PollsEnd ==
  /\ poll.made = MaxPolls /\ Notes("poll", "weigh", Said(~poll.sustained, "timer"))
  /\ measure' = [measure EXCEPT !.signal = IF poll.sustained THEN "timer" ELSE "none"]
  /\ UNCHANGED <<game, page, poll>>

Started == measure.signal \in {"frames", "timer"}

\* The page's own timing of its resources; unanswered, none can be matched.
Weigh ==
  /\ GoesOn("weigh", "listeners")
  /\ \E weighed \in Answers : measure' = [measure EXCEPT !.weighed = weighed]
  /\ UNCHANGED <<game, page, poll>>

YesNo(it) == IF it THEN "yes" ELSE "no"

\* Mistake: a page that does not answer listens for nothing.
ListenersUnanswered(answered) == YesNo(answered /\ game.touch)

Listeners(answered) == IF answered THEN YesNo(game.touch) ELSE "unknown"

AskListeners ==
  /\ \E answered \in Answers :
       /\ Notes("listeners", "play", Said(answered, "listeners"))
       /\ measure' = [measure EXCEPT !.touch = Listeners(answered)]
  /\ UNCHANGED <<game, page, poll>>

\* Keys and pointer, for a game that runs; then the counters.
Play ==
  /\ Started => page.open
  /\ \E answered \in Answers :
       /\ Notes("play", "hide", Said(answered, "counters"))
       /\ measure' = [measure EXCEPT !.played = answered]
  /\ UNCHANGED <<game, page, poll>>

\* A page that reloads itself meanwhile has counters that start again: few frames.
Hide ==
  /\ \/ /\ ~(Started /\ measure.played)
        /\ GoesOn("hide", "storage") /\ UNCHANGED measure
     \/ /\ Started /\ measure.played
        /\ Notes("hide", "storage", {"hidden"}) /\ UNCHANGED measure
     \/ /\ Started /\ measure.played /\ page.open
        /\ \E answered \in BOOLEAN, again \in {FALSE, game.reloads} :
             /\ Notes("hide", "storage", Said(answered, "after"))
             /\ measure' = [measure EXCEPT
                  !.pauses = IF answered THEN YesNo(game.pauses \/ again) ELSE "unknown"]
  /\ UNCHANGED <<game, page, poll>>

AskStorage ==
  /\ \E answered \in Answers :
       /\ Notes("storage", "reload", Said(answered, "storage"))
       /\ measure' = [measure EXCEPT !.tabOnly = answered /\ game.keeps = "tab"]
  /\ UNCHANGED <<game, page, poll>>

Reload ==
  /\ page.open /\ GoesOn("reload", "kept") /\ UNCHANGED <<game, page, poll, measure>>

\* What was kept over the reload is measured and charged nowhere.
AskKept ==
  /\ \E answered \in Answers : Notes("kept", "judge", Said(answered, "kept"))
  /\ UNCHANGED <<game, page, poll, measure>>

----------------------------------------------------------------------------
(* gameFindings                                                             *)

\* Without the first frame's time every transfer counts as one before it; without the
\* page's timing none of them does.
Heavy ==
  IF ~measure.framed THEN BOOLEAN
  ELSE IF ~measure.weighed THEN {FALSE} ELSE {game.start = "heavy"}

Charges(heavy) ==
  IF measure.signal = "none" THEN {"FI-01"}
  ELSE IF measure.signal = "unknown" THEN {}
  ELSE {c \in GAME_PASS_CRITERIA :
          \/ c = "PRD-06" /\ measure.throttled /\ measure.signal = "frames"
                          /\ (game.start = "slow" \/ heavy)
          \/ c = "FI-08" /\ measure.touch = "no"
          \/ c = "PRD-05" /\ measure.pauses = "no"
          \/ c = "FI-07" /\ measure.tabOnly
          \/ c = "PRD-02" /\ game.throws}

\* After the screenshot, which a closed page does not give.
JudgeGame ==
  /\ verdict.at = "judge" /\ page.open
  /\ \E heavy \in Heavy :
       verdict' = [verdict EXCEPT !.at = "done", !.charged = Charges(heavy),
         !.notes = @ \cup Said(measure.throttled, "throttle")
                     \cup Said(measure.weighed \/ ~measure.framed, "weight")]
  /\ UNCHANGED <<game, page, poll, measure>>

\* Opening, playing, loading again and the screenshot may throw: the limitations go
\* with the pass, and none of its criteria was tested.
PassDies ==
  /\ verdict.at \in {"open", "poll", "play", "hide", "reload", "judge"}
  /\ verdict' = [at |-> "done", charged |-> {}, notes |-> {}, notTested |-> GAME_PASS_CRITERIA]
  /\ UNCHANGED <<game, page, poll, measure>>

GameNext ==
  \/ PageRuns \/ PageCloses
  \/ Throttle \/ OpenGame \/ PollDraws \/ PollTicks \/ PollRefused \/ PollClosed \/ PollsEnd
  \/ Weigh \/ AskListeners \/ Play \/ Hide \/ AskStorage \/ Reload \/ AskKept
  \/ JudgeGame \/ PassDies

GameSpec == GameInit /\ [][GameNext]_gameVars

----------------------------------------------------------------------------
(* Properties                                                               *)

\* Of a game that was measured to the end: it is said never to have started only if
\* no poll heard its frames, or too few its timer; every other charge is true of it;
\* and what is true of it and not charged was noted as not established, or the game
\* is said never to have started.  Two answers the code takes for others are left
\* out: a first frame whose time was not read, and a game that reloads itself.
GameVerdictsAreMeasured ==
  LET charged == verdict.charged
      Established(c) == c \in charged \/ "FI-01" \in charged
      Noted(said) == verdict.notes \cap said # {} IN
  verdict.at = "done" /\ verdict.notTested = {} =>
    /\ "FI-01" \in charged =>
         \/ game.loop = "nothing"
         \/ game.loop = "frames" /\ page.heard = 0
         \/ game.loop = "timer" /\ page.heard < 3
    /\ "FI-08" \in charged => ~game.touch
    /\ "PRD-05" \in charged => ~game.pauses
    /\ "FI-07" \in charged => game.keeps = "tab"
    /\ "PRD-06" \in charged => game.start # "quick" \/ ~measure.framed
    /\ ~game.touch => Established("FI-08") \/ Noted({"listeners"})
    /\ ~game.pauses => \/ Established("PRD-05") \/ game.reloads
                       \/ Noted({"counters", "hidden", "after"})
    /\ game.keeps = "tab" => Established("FI-07") \/ Noted({"storage"})
    /\ game.start # "quick" =>
         \/ Established("PRD-06") \/ Noted({"throttle", "timer"})
         \/ game.start = "heavy" /\ (Noted({"weight"}) \/ ~measure.framed)
=============================================================================
