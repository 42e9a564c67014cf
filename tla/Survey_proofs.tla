-------------------------- MODULE Survey_proofs ---------------------------
(*************************************************************************)
(* What the surveys say of an application, for every game, repository,    *)
(* site and page: which charges against a game were measured             *)
(* (GameSurvey), what it means that a repository scan says nothing       *)
(* (RepositoryScan), what a look at a public page and the surveys of one *)
(* conclude (PublicLook, PageSurvey), and how near the published way out *)
(* of a subscription is (ExitSurvey).                                    *)
(*                                                                       *)
(* GameVerdictsAreMeasured is about the end of a pass over a page that   *)
(* may fall silent or close at any moment. Each measurement is tied, as  *)
(* soon as it is taken, to what of the game it can have seen             *)
(* (GameFacts): a poll that heard frames heard a game that draws, an     *)
(* answer about pausing is of this game, and so on, until the verdict is *)
(* drawn from them.                                                      *)
(*                                                                       *)
(* SilenceWasRead is about entries the walk met. Every one of them is    *)
(* kept, noted, or of a kind no note names (WalkedFact); a note of a     *)
(* stopped walk stands for those it did not reach; and each later check  *)
(* has read the files kept that are its own, up to its limit             *)
(* (CredentialFact, DependencyFact). A dependency is matched by numbers  *)
(* made of version parts, which order as the parts do as long as no part *)
(* reaches the radix (VersionsCompare).                                  *)
(*                                                                       *)
(* NoCircleOfMisses is by the least number of values that accuse each    *)
(* other in a circle: of fewer, one looks at least as intended as the    *)
(* others, and one more value does not change that.                      *)
(*                                                                       *)
(* ExitIsTheNearest is that a breadth-first walk measures distance. All  *)
(* of a walk stands between two depths (AtDepth); a page stands at a     *)
(* depth because a page one click before links to it (AllJustified), and *)
(* a link followed leads to a page seen, no deeper (Followed), or to a   *)
(* candidate (Weighed). Following one link keeps all of this, and so     *)
(* does following them all (AllLinksKept). At the end a page read k      *)
(* clicks away is within k clicks (ReadIsWithin), and within the limits  *)
(* the pages within k clicks were read (WithinIsRead).                   *)
(*************************************************************************)
EXTENDS GameSurvey, RepositoryScan, PageSurvey, ExitSurvey, FiniteSetTheorems, WellFoundedInduction, TLAPS

----------------------------------------------------------------------------
(* What is charged to a game (GameSurvey)                                   *)

PastStorage == {"reload", "kept", "judge"}
PastHide == PastStorage \cup {"storage"}
PastPlay == PastHide \cup {"hide"}
PastListeners == PastPlay \cup {"play"}
PastPoll == PastListeners \cup {"weigh", "listeners"}
ToPoll == {"throttle", "open", "poll"}

GamePass == PastPoll \cup ToPoll \cup {"done"}
PageRow == [open: BOOLEAN, runs: BOOLEAN, heard: Nat]
PollRow == [made: Nat, answered: BOOLEAN, fast: Nat, sustained: BOOLEAN]
MeasureRow == [throttled: BOOLEAN, signal: {"none", "unknown", "timer", "frames"},
               framed: BOOLEAN, weighed: BOOLEAN, touch: {"unknown", "yes", "no"},
               played: BOOLEAN, pauses: {"unknown", "yes", "no"}, tabOnly: BOOLEAN]
VerdictRow == [at: GamePass, charged: SUBSET GAME_PASS_CRITERIA,
               notes: SUBSET Limitation, notTested: SUBSET GAME_PASS_CRITERIA]

GameTyped ==
  /\ game \in Game /\ page \in PageRow /\ poll \in PollRow
  /\ measure \in MeasureRow /\ verdict \in VerdictRow

\* While the game is polled: each poll that found a timer running, but the first one
\* to be answered, was a fast one.
PollFacts ==
  /\ page.heard >= 1 => page.runs /\ poll.answered
  /\ game.loop = "timer" /\ page.heard >= 1 => poll.fast >= page.heard - 1
  /\ game.loop = "timer" /\ page.heard >= 3 => poll.sustained
  /\ game.loop # "timer" => page.heard = 0

\* What each question, once it was put, left in the measurements or the notes.
SignalFact ==
  /\ measure.signal = "none" => \/ game.loop # "timer" /\ page.heard = 0
                                \/ game.loop = "timer" /\ page.heard < 3
  /\ measure.signal = "unknown" => ~page.open
  /\ measure.signal = "timer" => "timer" \in verdict.notes
ListenersFact ==
  /\ measure.touch = "no" => ~game.touch
  /\ measure.touch = "yes" => game.touch
  /\ measure.touch = "unknown" => "listeners" \in verdict.notes
PlayFact == ~measure.played => "counters" \in verdict.notes
HideFact ==
  /\ measure.pauses = "no" => ~game.pauses
  /\ measure.pauses = "yes" => game.pauses \/ game.reloads
  /\ measure.pauses = "unknown" =>
       (Started => verdict.notes \cap {"counters", "hidden", "after"} # {})
StorageFact ==
  /\ measure.tabOnly => game.keeps = "tab"
  /\ ~measure.tabOnly /\ game.keeps = "tab" => "storage" \in verdict.notes

GameFacts ==
  /\ verdict.at \in ToPoll => PollFacts
  /\ verdict.at \in PastPoll => SignalFact
  /\ verdict.at \in PastListeners => ListenersFact
  /\ verdict.at \in PastPlay => PlayFact
  /\ verdict.at \in PastHide => HideFact
  /\ verdict.at \in PastStorage => StorageFact
  /\ verdict.at \in (PastPoll \cup ToPoll) \ PastHide => measure.pauses = "unknown"

GameInv == GameTyped /\ GameFacts /\ (page.runs => game.loop # "nothing") /\ GameVerdictsAreMeasured

LEMMA GameStarts == GameInit => GameInv
<1> SUFFICES ASSUME GameInit PROVE GameInv
  OBVIOUS
<1>1. GameTyped
  BY GameAssumption DEF GameInit, GameTyped, PageRow, PollRow, MeasureRow, VerdictRow, GamePass, NotPolled, Unmeasured, PastPoll, PastListeners,
     PastPlay, PastHide, PastStorage, ToPoll
<1>2. GameFacts
  BY DEF GameInit, GameFacts, PollFacts, Unmeasured, PastPoll, PastListeners,
     PastPlay, PastHide, PastStorage, ToPoll
<1> QED
  BY <1>1, <1>2 DEF GameInv, GameInit, GameVerdictsAreMeasured

\* The sets of steps are of what they contain.
LEMMA StepsAre ==
  /\ PastPoll = {"weigh", "listeners", "play", "hide", "storage", "reload", "kept", "judge"}
  /\ PastListeners = {"play", "hide", "storage", "reload", "kept", "judge"}
  /\ PastPlay = {"hide", "storage", "reload", "kept", "judge"}
  /\ PastHide = {"storage", "reload", "kept", "judge"}
  BY DEF PastPoll, PastListeners, PastPlay, PastHide, PastStorage

\* What neither answers a question nor moves on leaves what was answered as it is.
LEMMA PageMoves ==
  ASSUME GameInv, PageRuns \/ PageCloses
  PROVE  GameInv'
<1>1. /\ UNCHANGED <<game, poll, measure, verdict>> /\ verdict.at # "done"
      /\ page'.heard = page.heard /\ (page.runs => page'.runs) /\ (~page.open => ~page'.open)
      /\ page' \in PageRow
      /\ page'.runs => game.loop # "nothing"
  BY DEF GameInv, GameTyped, PageRow, PageRuns, PageCloses, Measuring
<1>2. GameTyped'
  BY <1>1 DEF GameInv, GameTyped
<1>3. GameFacts'
  BY <1>1 DEF GameInv, GameFacts, PollFacts, SignalFact, ListenersFact, PlayFact, HideFact,
     StorageFact, Started
<1> QED
  BY <1>1, <1>2, <1>3 DEF GameInv, GameVerdictsAreMeasured

----------------------------------------------------------------------------
(* One question after the other                                             *)

\* The pass is at its next step, and has said what it had to say.
ComesTo(to, said) ==
  /\ verdict' \in VerdictRow /\ verdict'.at = to /\ verdict'.notes = verdict.notes \cup said

LEMMA PassGoesOn ==
  ASSUME GameTyped, NEW from, NEW to \in GamePass, NEW said \in SUBSET Limitation,
         Notes(from, to, said) \/ (GoesOn(from, to) /\ said = {})
  PROVE  ComesTo(to, said) /\ verdict.at = from
<1>1. verdict.notes \cup said \in SUBSET Limitation
  BY DEF GameTyped, VerdictRow
<1>2. CASE Notes(from, to, said)
  BY <1>1, <1>2 DEF ComesTo, Notes, GameTyped, VerdictRow
<1>3. CASE GoesOn(from, to) /\ said = {}
  BY <1>1, <1>3 DEF ComesTo, GoesOn, GameTyped, VerdictRow
<1> QED
  BY <1>2, <1>3

\* A question answered, or not, before the verdict.
LEMMA QuestionIsPut ==
  ASSUME GameInv, NEW to \in GamePass \ {"done"}, NEW said, ComesTo(to, said),
         UNCHANGED game, page' \in PageRow, page'.runs = page.runs, poll' \in PollRow,
         measure' \in MeasureRow, GameFacts'
  PROVE  GameInv'
  BY DEF GameInv, GameTyped, GameVerdictsAreMeasured, ComesTo

LEMMA StepsArePasses ==
  /\ {"throttle", "open", "poll", "weigh", "listeners", "play", "hide", "storage", "reload",
      "kept", "judge"} = GamePass \ {"done"}
  /\ ToPoll = {"throttle", "open", "poll"} /\ PastStorage = {"reload", "kept", "judge"}
  BY StepsAre DEF GamePass, ToPoll, PastStorage

LEMMA GameIsThrottled == ASSUME GameInv, Throttle PROVE GameInv'
<1> USE StepsAre, StepsArePasses
<1>1. PICK throttled \in BOOLEAN :
        GoesOn("throttle", "open") /\ measure' = [measure EXCEPT !.throttled = throttled]
  BY DEF Throttle
<1>2. {} \in SUBSET Limitation
  BY DEF Said, Limitation
<1>3. ComesTo("open", {}) /\ verdict.at = "throttle"
  BY <1>1, <1>2, PassGoesOn DEF Throttle, GameInv
<1>4. measure' \in MeasureRow
  BY <1>1 DEF Throttle, GameInv, GameTyped, MeasureRow
<1>5. UNCHANGED game /\ page' \in PageRow /\ page'.runs = page.runs /\ poll' \in PollRow
  BY <1>1 DEF Throttle, GameInv, GameTyped, PageRow, PollRow
<1>6. GameFacts'
  BY <1>1, <1>3, <1>4, <1>5 DEF GameInv, GameTyped, MeasureRow, PageRow, Throttle, Said, Answers, ComesTo,
     GameFacts, PollFacts, SignalFact, ListenersFact, PlayFact, HideFact, StorageFact, Started
<1> QED
  BY <1>3, <1>4, <1>5, <1>6, QuestionIsPut

LEMMA GameIsOpened == ASSUME GameInv, OpenGame PROVE GameInv'
<1> USE StepsAre, StepsArePasses
<1>2. {} \in SUBSET Limitation
  BY DEF Said, Limitation
<1>3. ComesTo("poll", {}) /\ verdict.at = "open"
  BY <1>2, PassGoesOn DEF OpenGame, GameInv
<1>4. measure' \in MeasureRow
  BY DEF OpenGame, GameInv, GameTyped, MeasureRow
<1>5. UNCHANGED game /\ page' \in PageRow /\ page'.runs = page.runs /\ poll' \in PollRow
  BY DEF OpenGame, GameInv, GameTyped, PageRow, PollRow
<1>6. GameFacts'
  BY <1>3, <1>4, <1>5 DEF GameInv, GameTyped, MeasureRow, PageRow, OpenGame, Said, Answers, ComesTo,
     GameFacts, PollFacts, SignalFact, ListenersFact, PlayFact, HideFact, StorageFact, Started
<1> QED
  BY <1>3, <1>4, <1>5, <1>6, QuestionIsPut

LEMMA GameDraws == ASSUME GameInv, PollDraws PROVE GameInv'
<1> USE StepsAre, StepsArePasses
<1>1. PICK framed \in BOOLEAN :
        measure' = [measure EXCEPT !.signal = "frames", !.framed = framed]
  BY DEF PollDraws
<1>2. {} \in SUBSET Limitation
  BY DEF Said, Limitation
<1>3. ComesTo("weigh", {}) /\ verdict.at = "poll"
  BY <1>1, <1>2, PassGoesOn DEF PollDraws, GameInv
<1>4. measure' \in MeasureRow
  BY <1>1 DEF PollDraws, GameInv, GameTyped, MeasureRow, Heard
<1>5. UNCHANGED game /\ page' \in PageRow /\ page'.runs = page.runs /\ poll' \in PollRow
  <2>1. page' = [page EXCEPT !.heard = Heard] /\ Heard \in Nat
    BY DEF PollDraws, Heard, GameInv, GameTyped, PageRow
  <2>2. page' \in PageRow /\ page'.runs = page.runs
    BY <2>1 DEF GameInv, GameTyped, PageRow
  <2> QED
    BY <2>2 DEF PollDraws, GameInv, GameTyped
<1>6. GameFacts'
  BY <1>1, <1>3, <1>4, <1>5 DEF GameInv, GameTyped, MeasureRow, PageRow, PollDraws, Said, Answers, ComesTo,
     GameFacts, PollFacts, SignalFact, ListenersFact, PlayFact, HideFact, StorageFact, Started, Heard
<1> QED
  BY <1>3, <1>4, <1>5, <1>6, QuestionIsPut

LEMMA PageIsGone == ASSUME GameInv, PollClosed PROVE GameInv'
<1> USE StepsAre, StepsArePasses
<1>2. {"closed"} \in SUBSET Limitation
  BY DEF Said, Limitation
<1>3. ComesTo("weigh", {"closed"}) /\ verdict.at = "poll"
  BY <1>2, PassGoesOn DEF PollClosed, GameInv
<1>4. measure' \in MeasureRow
  BY DEF PollClosed, GameInv, GameTyped, MeasureRow
<1>5. UNCHANGED game /\ page' \in PageRow /\ page'.runs = page.runs /\ poll' \in PollRow
  BY DEF PollClosed, GameInv, GameTyped, PageRow, PollRow
<1>6. GameFacts'
  BY <1>3, <1>4, <1>5 DEF GameInv, GameTyped, MeasureRow, PageRow, PollClosed, Said, Answers, ComesTo,
     GameFacts, PollFacts, SignalFact, ListenersFact, PlayFact, HideFact, StorageFact, Started
<1> QED
  BY <1>3, <1>4, <1>5, <1>6, QuestionIsPut

LEMMA PollsAreOver == ASSUME GameInv, PollsEnd PROVE GameInv'
<1> USE StepsAre, StepsArePasses
<1>2. Said(~poll.sustained, "timer") \in SUBSET Limitation
  BY DEF Said, Limitation
<1>3. ComesTo("weigh", Said(~poll.sustained, "timer")) /\ verdict.at = "poll"
  BY <1>2, PassGoesOn DEF PollsEnd, GameInv
<1>4. measure' \in MeasureRow
  BY DEF PollsEnd, GameInv, GameTyped, MeasureRow
<1>5. UNCHANGED game /\ page' \in PageRow /\ page'.runs = page.runs /\ poll' \in PollRow
  BY DEF PollsEnd, GameInv, GameTyped, PageRow, PollRow
<1>6. GameFacts'
  BY <1>3, <1>4, <1>5 DEF GameInv, GameTyped, MeasureRow, PageRow, PollsEnd, Said, Answers, ComesTo,
     GameFacts, PollFacts, SignalFact, ListenersFact, PlayFact, HideFact, StorageFact, Started
<1> QED
  BY <1>3, <1>4, <1>5, <1>6, QuestionIsPut

LEMMA GameIsWeighed == ASSUME GameInv, Weigh PROVE GameInv'
<1> USE StepsAre, StepsArePasses
<1>1. PICK weighed \in Answers :
        measure' = [measure EXCEPT !.weighed = weighed]
  BY DEF Weigh
<1>2. {} \in SUBSET Limitation
  BY DEF Said, Limitation
<1>3. ComesTo("listeners", {}) /\ verdict.at = "weigh"
  BY <1>1, <1>2, PassGoesOn DEF Weigh, GameInv
<1>4. measure' \in MeasureRow
  <2>1. weighed \in BOOLEAN
    BY DEF Answers
  <2> QED
    BY <1>1, <2>1 DEF Weigh, GameInv, GameTyped, MeasureRow
<1>5. UNCHANGED game /\ page' \in PageRow /\ page'.runs = page.runs /\ poll' \in PollRow
  BY <1>1 DEF Weigh, GameInv, GameTyped, PageRow, PollRow
<1>6. GameFacts'
  BY <1>1, <1>3, <1>4, <1>5 DEF GameInv, GameTyped, MeasureRow, PageRow, Weigh, Said, Answers, ComesTo,
     GameFacts, PollFacts, SignalFact, ListenersFact, PlayFact, HideFact, StorageFact, Started
<1> QED
  BY <1>3, <1>4, <1>5, <1>6, QuestionIsPut

LEMMA ListenersAreAsked == ASSUME GameInv, AskListeners PROVE GameInv'
<1> USE StepsAre, StepsArePasses
<1>1. PICK heard \in Answers :
        /\ Notes("listeners", "play", Said(heard, "listeners"))
        /\ measure' = [measure EXCEPT !.touch = Listeners(heard)]
  BY DEF AskListeners
<1>2. Said(heard, "listeners") \in SUBSET Limitation
  BY DEF Said, Limitation
<1>3. ComesTo("play", Said(heard, "listeners")) /\ verdict.at = "listeners"
  BY <1>1, <1>2, PassGoesOn DEF AskListeners, GameInv
<1>4. measure' \in MeasureRow
  BY <1>1 DEF AskListeners, GameInv, GameTyped, MeasureRow, Listeners, YesNo
<1>5. UNCHANGED game /\ page' \in PageRow /\ page'.runs = page.runs /\ poll' \in PollRow
  BY <1>1 DEF AskListeners, GameInv, GameTyped, PageRow, PollRow, Listeners, YesNo
<1>6. GameFacts'
  BY <1>1, <1>3, <1>4, <1>5 DEF GameInv, GameTyped, MeasureRow, PageRow, AskListeners, Said, Answers, ComesTo,
     GameFacts, PollFacts, SignalFact, ListenersFact, PlayFact, HideFact, StorageFact, Started, Listeners, YesNo
<1> QED
  BY <1>3, <1>4, <1>5, <1>6, QuestionIsPut

LEMMA GameIsPlayed == ASSUME GameInv, Play PROVE GameInv'
<1> USE StepsAre, StepsArePasses
<1>1. PICK heard \in Answers :
        /\ Notes("play", "hide", Said(heard, "counters"))
        /\ measure' = [measure EXCEPT !.played = heard]
  BY DEF Play
<1>2. Said(heard, "counters") \in SUBSET Limitation
  BY DEF Said, Limitation
<1>3. ComesTo("hide", Said(heard, "counters")) /\ verdict.at = "play"
  BY <1>1, <1>2, PassGoesOn DEF Play, GameInv
<1>4. measure' \in MeasureRow
  <2>1. heard \in BOOLEAN
    BY DEF Answers
  <2> QED
    BY <1>1, <2>1 DEF Play, GameInv, GameTyped, MeasureRow
<1>5. UNCHANGED game /\ page' \in PageRow /\ page'.runs = page.runs /\ poll' \in PollRow
  BY <1>1 DEF Play, GameInv, GameTyped, PageRow, PollRow
<1>6. GameFacts'
  BY <1>1, <1>3, <1>4, <1>5 DEF GameInv, GameTyped, MeasureRow, PageRow, Play, Said, Answers, ComesTo,
     GameFacts, PollFacts, SignalFact, ListenersFact, PlayFact, HideFact, StorageFact, Started
<1> QED
  BY <1>3, <1>4, <1>5, <1>6, QuestionIsPut

LEMMA StorageIsAsked == ASSUME GameInv, AskStorage PROVE GameInv'
<1> USE StepsAre, StepsArePasses
<1>1. PICK heard \in Answers :
        /\ Notes("storage", "reload", Said(heard, "storage"))
        /\ measure' = [measure EXCEPT !.tabOnly = heard /\ game.keeps = "tab"]
  BY DEF AskStorage
<1>2. Said(heard, "storage") \in SUBSET Limitation
  BY DEF Said, Limitation
<1>3. ComesTo("reload", Said(heard, "storage")) /\ verdict.at = "storage"
  BY <1>1, <1>2, PassGoesOn DEF AskStorage, GameInv
<1>4. measure' \in MeasureRow
  BY <1>1 DEF AskStorage, GameInv, GameTyped, MeasureRow
<1>5. UNCHANGED game /\ page' \in PageRow /\ page'.runs = page.runs /\ poll' \in PollRow
  BY <1>1 DEF AskStorage, GameInv, GameTyped, PageRow, PollRow
<1>6. GameFacts'
  BY <1>1, <1>3, <1>4, <1>5 DEF GameInv, GameTyped, MeasureRow, PageRow, AskStorage, Said, Answers, ComesTo,
     GameFacts, PollFacts, SignalFact, ListenersFact, PlayFact, HideFact, StorageFact, Started
<1> QED
  BY <1>3, <1>4, <1>5, <1>6, QuestionIsPut

LEMMA GameIsReloaded == ASSUME GameInv, Reload PROVE GameInv'
<1> USE StepsAre, StepsArePasses
<1>2. {} \in SUBSET Limitation
  BY DEF Said, Limitation
<1>3. ComesTo("kept", {}) /\ verdict.at = "reload"
  BY <1>2, PassGoesOn DEF Reload, GameInv
<1>4. measure' \in MeasureRow
  BY DEF Reload, GameInv, GameTyped, MeasureRow
<1>5. UNCHANGED game /\ page' \in PageRow /\ page'.runs = page.runs /\ poll' \in PollRow
  BY DEF Reload, GameInv, GameTyped, PageRow, PollRow
<1>6. GameFacts'
  BY <1>3, <1>4, <1>5 DEF GameInv, GameTyped, MeasureRow, PageRow, Reload, Said, Answers, ComesTo,
     GameFacts, PollFacts, SignalFact, ListenersFact, PlayFact, HideFact, StorageFact, Started
<1> QED
  BY <1>3, <1>4, <1>5, <1>6, QuestionIsPut

LEMMA KeptIsAsked == ASSUME GameInv, AskKept PROVE GameInv'
<1> USE StepsAre, StepsArePasses
<1>1. PICK heard \in Answers :
        Notes("kept", "judge", Said(heard, "kept"))
  BY DEF AskKept
<1>2. Said(heard, "kept") \in SUBSET Limitation
  BY DEF Said, Limitation
<1>3. ComesTo("judge", Said(heard, "kept")) /\ verdict.at = "kept"
  BY <1>1, <1>2, PassGoesOn DEF AskKept, GameInv
<1>4. measure' \in MeasureRow
  BY <1>1 DEF AskKept, GameInv, GameTyped, MeasureRow
<1>5. UNCHANGED game /\ page' \in PageRow /\ page'.runs = page.runs /\ poll' \in PollRow
  BY <1>1 DEF AskKept, GameInv, GameTyped, PageRow, PollRow
<1>6. GameFacts'
  BY <1>1, <1>3, <1>4, <1>5 DEF GameInv, GameTyped, MeasureRow, PageRow, AskKept, Said, Answers, ComesTo,
     GameFacts, PollFacts, SignalFact, ListenersFact, PlayFact, HideFact, StorageFact, Started
<1> QED
  BY <1>3, <1>4, <1>5, <1>6, QuestionIsPut

LEMMA GameIsHidden == ASSUME GameInv, Hide PROVE GameInv'
<1> USE StepsAre, StepsArePasses
<1>1. PICK said \in {{}, {"hidden"}, {"after"}} :
        /\ ComesTo("storage", said) /\ verdict.at = "hide"
        /\ \/ ~(Started /\ measure.played) /\ UNCHANGED measure
           \/ said = {"hidden"} /\ UNCHANGED measure
           \/ \E heard, again \in BOOLEAN :
                /\ again => game.reloads
                /\ said = Said(heard, "after")
                /\ measure' = [measure EXCEPT
                     !.pauses = IF heard THEN YesNo(game.pauses \/ again) ELSE "unknown"]
  <2>1. \A said \in {{}, {"hidden"}, {"after"}} : said \in SUBSET Limitation
    BY DEF Limitation
  <2>2. CASE ~(Started /\ measure.played) /\ GoesOn("hide", "storage") /\ UNCHANGED measure
    BY <2>1, <2>2, PassGoesOn DEF GameInv
  <2>3. CASE Notes("hide", "storage", {"hidden"}) /\ UNCHANGED measure
    BY <2>1, <2>3, PassGoesOn DEF GameInv
  <2>4. ASSUME NEW heard \in BOOLEAN, NEW again \in {FALSE, game.reloads},
               Notes("hide", "storage", Said(heard, "after")),
               measure' = [measure EXCEPT
                 !.pauses = IF heard THEN YesNo(game.pauses \/ again) ELSE "unknown"]
        PROVE  \E said \in {{}, {"after"}} : 
                 /\ ComesTo("storage", said) /\ verdict.at = "hide"
                 /\ again \in BOOLEAN /\ (again => game.reloads)
                 /\ said = Said(heard, "after")
    <3>1. Said(heard, "after") \in {{}, {"after"}}
      BY DEF Said
    <3>2. ComesTo("storage", Said(heard, "after")) /\ verdict.at = "hide"
      BY <2>1, <2>4, <3>1, PassGoesOn DEF GameInv
    <3>3. again \in BOOLEAN /\ (again => game.reloads)
      BY DEF GameInv, GameTyped, Game
    <3> QED
      BY <3>1, <3>2, <3>3
  <2>5. CASE \E heard \in BOOLEAN, again \in {FALSE, game.reloads} :
                /\ Notes("hide", "storage", Said(heard, "after"))
                /\ measure' = [measure EXCEPT
                     !.pauses = IF heard THEN YesNo(game.pauses \/ again) ELSE "unknown"]
    BY <2>4, <2>5
  <2> QED
    BY <2>2, <2>3, <2>5 DEF Hide
<1>2. measure' \in MeasureRow
  BY <1>1 DEF GameInv, GameTyped, MeasureRow, YesNo
<1>3. UNCHANGED <<game, page, poll>>
  BY DEF Hide
<1>4. measure'.signal = measure.signal /\ measure'.touch = measure.touch
      /\ measure'.played = measure.played
  BY <1>1 DEF GameInv, GameTyped, MeasureRow
<1>5. HideFact'
  BY <1>1, <1>3 DEF GameInv, GameTyped, GameFacts, HideFact, PlayFact, Started, ComesTo, Said, YesNo, MeasureRow
<1>6. GameFacts'
  BY <1>1, <1>2, <1>3, <1>4, <1>5 DEF GameInv, GameFacts, SignalFact, ListenersFact, PlayFact, ComesTo
<1> QED
  BY <1>1, <1>2, <1>3, <1>6, QuestionIsPut DEF GameInv, GameTyped

LEMMA GameTicks == ASSUME GameInv, PollTicks PROVE GameInv'
<1> DEFINE fast == IF poll.answered /\ page.runs /\ game.loop = "timer" THEN poll.fast + 1 ELSE 0
<1>1. /\ verdict.at = "poll" /\ UNCHANGED <<game, measure, verdict>>
      /\ ~(page.runs /\ game.loop = "frames")
      /\ poll' = [made |-> poll.made + 1, answered |-> TRUE, fast |-> fast,
                  sustained |-> poll.sustained \/ fast >= 2]
      /\ page' = [page EXCEPT !.heard = Heard]
  BY DEF PollTicks
<1>2. Heard \in Nat /\ Heard = IF page.runs THEN page.heard + 1 ELSE page.heard
  BY DEF Heard, GameInv, GameTyped, PageRow
<1>3. page' \in PageRow /\ page'.heard = Heard /\ page'.runs = page.runs
  BY <1>1, <1>2 DEF GameInv, GameTyped, PageRow
<1>4. fast \in Nat /\ (poll.sustained \/ fast >= 2) \in BOOLEAN /\ poll.made + 1 \in Nat
  BY DEF GameInv, GameTyped, PollRow
<1>5. poll' \in PollRow
  BY <1>1, <1>4 DEF PollRow
<1>6. PollFacts
  BY <1>1, StepsArePasses DEF GameInv, GameFacts
<1>7. /\ poll'.answered /\ poll'.fast = fast /\ (poll'.sustained <=> poll.sustained \/ fast >= 2)
  BY <1>1
<1>8. PollFacts'
  BY <1>1, <1>2, <1>3, <1>6, <1>7 DEF PollFacts, GameInv, GameTyped, PageRow, PollRow, Game
<1>9. GameFacts'
  BY <1>1, <1>8, StepsAre, StepsArePasses DEF GameFacts, GameInv
<1> QED
  BY <1>1, <1>3, <1>5, <1>9, StepsAre, StepsArePasses DEF GameInv, GameTyped, GameVerdictsAreMeasured

LEMMA PollGetsNoAnswer == ASSUME GameInv, PollRefused PROVE GameInv'
<1>1. verdict.at = "poll" /\ UNCHANGED <<game, page, measure, verdict>>
      /\ poll' = [poll EXCEPT !.made = @ + 1]
  BY DEF PollRefused
<1>2. poll' \in PollRow /\ poll'.answered = poll.answered /\ poll'.fast = poll.fast
      /\ poll'.sustained = poll.sustained
  BY <1>1 DEF GameInv, GameTyped, PollRow
<1>3. GameFacts'
  BY <1>1, <1>2, StepsAre, StepsArePasses DEF GameFacts, PollFacts, GameInv
<1> QED
  BY <1>1, <1>2, <1>3 DEF GameInv, GameTyped, GameVerdictsAreMeasured

----------------------------------------------------------------------------
(* The verdict                                                              *)

\* What is charged is what was measured, and what was not is in the notes.
LEMMA GameIsJudged == ASSUME GameInv, JudgeGame PROVE GameInv'
<1> USE StepsAre, StepsArePasses
<1> DEFINE said == Said(measure.throttled, "throttle") \cup Said(measure.weighed \/ ~measure.framed, "weight")
<1>1. PICK heavy \in Heavy :
        verdict' = [verdict EXCEPT !.at = "done", !.charged = Charges(heavy), !.notes = @ \cup said]
  BY DEF JudgeGame
<1>2. verdict.at = "judge" /\ page.open /\ UNCHANGED <<game, page, poll, measure>>
  BY DEF JudgeGame
<1>3. heavy \in BOOLEAN /\ (measure.framed => (heavy <=> measure.weighed /\ game.start = "heavy"))
  BY DEF Heavy, GameInv, GameTyped, MeasureRow
<1>4. Charges(heavy) \in SUBSET GAME_PASS_CRITERIA /\ verdict.notes \cup said \in SUBSET Limitation
  BY DEF Charges, GAME_PASS_CRITERIA, Limitation, Said, GameInv, GameTyped, VerdictRow
<1> DEFINE charged == Charges(heavy)
<1>5. /\ verdict' \in VerdictRow /\ verdict'.at = "done" /\ verdict'.charged = charged
      /\ verdict'.notes = verdict.notes \cup said
  <2>1. /\ verdict' = [verdict EXCEPT !.at = "done", !.charged = charged, !.notes = verdict.notes \cup said]
        /\ charged \in SUBSET GAME_PASS_CRITERIA /\ verdict.notes \cup said \in SUBSET Limitation
        /\ "done" \in GamePass /\ verdict \in VerdictRow
    BY <1>1, <1>4 DEF GameInv, GameTyped, GamePass
  <2> HIDE DEF charged, said
  <2> QED
    BY <2>1 DEF VerdictRow
<1>6. SignalFact /\ ListenersFact /\ PlayFact /\ HideFact /\ StorageFact
  BY <1>2 DEF GameInv, GameFacts
<1>7. measure.signal \in {"none", "timer", "frames"}
  BY <1>2, <1>6 DEF SignalFact, GameInv, GameTyped, MeasureRow
<1>8. GameVerdictsAreMeasured'
  <2>1. CASE measure.signal = "none"
    <3>1. charged = {"FI-01"}
      BY <2>1 DEF Charges
    <3>2. \/ game.loop = "nothing"
          \/ game.loop = "frames" /\ page.heard = 0
          \/ game.loop = "timer" /\ page.heard < 3
      BY <1>6, <2>1 DEF SignalFact, GameInv, GameTyped, Game
    <3> HIDE DEF charged, said
    <3> QED
      BY <1>2, <1>5, <3>1, <3>2 DEF GameVerdictsAreMeasured
  <2>2. CASE measure.signal # "none"
    <3> DEFINE tooHeavy == measure.throttled /\ measure.signal = "frames" /\ (game.start = "slow" \/ heavy)
    <3>1. /\ "FI-01" \notin charged
          /\ "PRD-06" \in charged <=> tooHeavy
          /\ "FI-08" \in charged <=> measure.touch = "no"
          /\ "PRD-05" \in charged <=> measure.pauses = "no"
          /\ "FI-07" \in charged <=> measure.tabOnly
      BY <1>7, <2>2 DEF Charges, GAME_PASS_CRITERIA
    <3>2. /\ ~measure.throttled => "throttle" \in verdict'.notes
          /\ ~measure.weighed /\ measure.framed => "weight" \in verdict'.notes
          /\ \A n \in verdict.notes : n \in verdict'.notes
      BY <1>5 DEF Said
    <3> HIDE DEF charged, said
    <3>3. "PRD-06" \in charged => game.start # "quick" \/ ~measure.framed
      BY <1>3, <3>1
    <3>4. game.start # "quick" =>
            \/ "PRD-06" \in charged \/ "throttle" \in verdict'.notes \/ "timer" \in verdict'.notes
            \/ game.start = "heavy" /\ ("weight" \in verdict'.notes \/ ~measure.framed)
      BY <1>3, <1>6, <1>7, <2>2, <3>1, <3>2 DEF SignalFact, GameInv, GameTyped, Game
    <3>5. /\ "FI-08" \in charged => ~game.touch
          /\ ~game.touch => "FI-08" \in charged \/ "listeners" \in verdict'.notes
      BY <1>6, <3>1, <3>2 DEF ListenersFact, GameInv, GameTyped, MeasureRow
    <3>6. /\ "PRD-05" \in charged => ~game.pauses
          /\ ~game.pauses => \/ "PRD-05" \in charged \/ game.reloads
                             \/ verdict'.notes \cap {"counters", "hidden", "after"} # {}
      BY <1>6, <1>7, <2>2, <3>1, <3>2 DEF HideFact, Started, GameInv, GameTyped, MeasureRow
    <3>7. /\ "FI-07" \in charged => game.keeps = "tab"
          /\ game.keeps = "tab" => "FI-07" \in charged \/ "storage" \in verdict'.notes
      BY <1>6, <3>1, <3>2 DEF StorageFact
    <3> QED
      BY <1>2, <1>5, <3>1, <3>3, <3>4, <3>5, <3>6, <3>7 DEF GameVerdictsAreMeasured
  <2> QED
    BY <2>1, <2>2
<1>9. GameTyped' /\ GameFacts'
  <2> HIDE DEF charged, said
  <2> QED
    BY <1>2, <1>5 DEF GameInv, GameTyped, GameFacts
<1> QED
  BY <1>2, <1>8, <1>9 DEF GameInv

LEMMA GamePassDies == ASSUME GameInv, PassDies PROVE GameInv'
<1>1. /\ UNCHANGED <<game, page, poll, measure>>
      /\ verdict' = [at |-> "done", charged |-> {}, notes |-> {}, notTested |-> GAME_PASS_CRITERIA]
  BY DEF PassDies
<1>2. verdict' \in VerdictRow /\ verdict'.at = "done"
  BY <1>1 DEF VerdictRow, GamePass
<1>3. verdict'.notTested # {}
  BY <1>1 DEF GAME_PASS_CRITERIA
<1> QED
  BY <1>1, <1>2, <1>3, StepsAre, StepsArePasses DEF GameInv, GameTyped, GameFacts, GameVerdictsAreMeasured

LEMMA GameSteps == GameInv /\ [GameNext]_gameVars => GameInv'
<1> SUFFICES ASSUME GameInv, [GameNext]_gameVars PROVE GameInv'
  OBVIOUS
<1>1. CASE UNCHANGED gameVars
  BY <1>1 DEF gameVars, GameInv, GameTyped, GameFacts, PollFacts, SignalFact, ListenersFact,
     PlayFact, HideFact, StorageFact, Started, GameVerdictsAreMeasured
<1>2. CASE GameNext
  BY <1>2, PageMoves, GameIsThrottled, GameIsOpened, GameDraws, GameTicks, PollGetsNoAnswer,
     PageIsGone, PollsAreOver, GameIsWeighed, ListenersAreAsked, GameIsPlayed, GameIsHidden,
     StorageIsAsked, GameIsReloaded, KeptIsAsked, GameIsJudged, GamePassDies DEF GameNext
<1> QED
  BY <1>1, <1>2

\* Whatever the page answers or leaves unanswered, reloads or closes: a game is said
\* never to have started only if no poll heard it run, every other charge is true of
\* it, and what is true of it and not charged is noted as not established, for any
\* games and any number of polls (measureGame, gameFindings).
THEOREM ChargesWereMeasured == GameSpec => []GameVerdictsAreMeasured
<1>1. GameInv => GameVerdictsAreMeasured
  BY DEF GameInv
<1> QED
  BY GameStarts, GameSteps, <1>1, PTL DEF GameSpec

----------------------------------------------------------------------------
(* What a repository scan leaves unread (RepositoryScan)                    *)

\* Below the radix, versions compare as numbers as they do part by part.
LEMMA VersionsCompare ==
  ASSUME NEW v \in Version, NEW bound \in Version, v[2] < Radix, bound[2] < Radix
  PROVE  Below(v, bound) <=> Precedes(v, bound)
<1> DEFINE a == v[1]
           b == v[2]
           c == bound[1]
           d == bound[2]
<1>1. a \in Nat /\ b \in Nat /\ c \in Nat /\ d \in Nat /\ b < Radix /\ d < Radix /\ Radix \in Nat
  BY ScanAssumption DEF Version
<1> HIDE DEF a, b, c, d
<1>2. ASSUME a < c PROVE a * Radix + b < c * Radix + d
  <2>1. a + 1 <= c
    BY <1>1, <1>2
  <2>2. (a + 1) * Radix <= c * Radix
    BY <1>1, <2>1
  <2>3. (a + 1) * Radix = a * Radix + Radix /\ a * Radix \in Nat /\ c * Radix \in Nat
    BY <1>1
  <2> QED
    BY <1>1, <2>2, <2>3
<1>3. ASSUME c < a PROVE ~(a * Radix + b < c * Radix + d)
  <2>1. c + 1 <= a
    BY <1>1, <1>3
  <2>2. (c + 1) * Radix <= a * Radix
    BY <1>1, <2>1
  <2>3. (c + 1) * Radix = c * Radix + Radix /\ a * Radix \in Nat /\ c * Radix \in Nat
    BY <1>1
  <2> QED
    BY <1>1, <2>2, <2>3
<1>4. ASSUME a = c PROVE a * Radix + b < c * Radix + d <=> b < d
  <2>1. a * Radix \in Nat
    BY <1>1
  <2> QED
    BY <1>1, <1>4, <2>1
<1>5. a * Radix + b < c * Radix + d <=> a < c \/ (a = c /\ b < d)
  BY <1>1, <1>2, <1>3, <1>4
<1> QED
  BY <1>5 DEF Below, Precedes, a, b, c, d

LEMMA KeptBeforeIsFinite ==
  ASSUME NEW n \in Nat PROVE IsFiniteSet(KeptBefore(n)) /\ Cardinality(KeptBefore(n)) \in Nat
<1>1. KeptBefore(n) \in SUBSET (1..(n - 1)) /\ n - 1 \in Int
  BY DEF KeptBefore
<1>2. IsFiniteSet(1..(n - 1))
  BY <1>1, FS_Interval
<1>3. IsFiniteSet(KeptBefore(n))
  BY <1>1, <1>2, FS_Subset
<1> QED
  BY <1>3, FS_CardinalityType

LEMMA KeptBeforeGrows ==
  ASSUME NEW n \in Nat, NEW m \in Nat, n <= m
  PROVE  KeptBefore(n) \subseteq KeptBefore(m) /\ Cardinality(KeptBefore(n)) <= Cardinality(KeptBefore(m))
<1>1. KeptBefore(n) \in SUBSET KeptBefore(m)
  BY DEF KeptBefore
<1>2. IsFiniteSet(KeptBefore(m))
  BY KeptBeforeIsFinite
<1> QED
  BY <1>1, <1>2, FS_Subset

LEMMA OneMoreKept ==
  ASSUME NEW n \in Nat \ {0}
  PROVE  Cardinality(KeptBefore(n + 1)) <= Cardinality(KeptBefore(n)) + 1
<1> DEFINE one == KeptBefore(n) \cup {n}
<1>1. KeptBefore(n + 1) \in SUBSET one
  <2>1. \A i \in KeptBefore(n + 1) : i \in KeptBefore(n) \/ i = n
    <3> SUFFICES ASSUME NEW i \in 1..((n + 1) - 1), Kept(tree[i]) PROVE i \in KeptBefore(n) \/ i = n
      BY DEF KeptBefore
    <3>1. i \in 1..(n - 1) \/ i = n
      OBVIOUS
    <3> QED
      BY <3>1 DEF KeptBefore
  <2> QED
    BY <2>1
<1>2. IsFiniteSet(KeptBefore(n)) /\ Cardinality(KeptBefore(n)) \in Nat
  BY KeptBeforeIsFinite
<1>3. IsFiniteSet(one) /\ Cardinality(one) = IF n \in KeptBefore(n) THEN Cardinality(KeptBefore(n)) ELSE Cardinality(KeptBefore(n)) + 1
  BY <1>2, FS_AddElement
<1>4. Cardinality(KeptBefore(n + 1)) <= Cardinality(one)
  BY <1>1, <1>3, FS_Subset
<1>5. n + 1 \in Nat
  OBVIOUS
<1>6. Cardinality(KeptBefore(n + 1)) \in Nat
  BY <1>5, KeptBeforeIsFinite
<1> HIDE DEF one
<1> QED
  BY <1>2, <1>3, <1>4, <1>6

\* A walk that does not reach an entry has stopped at the file that filled it, so it
\* kept as many as it may.
LEMMA UnreachedIsStopped ==
  ASSUME tree \in Seq(Entries), NEW i \in DOMAIN tree, ~Reached(i)
  PROVE  Truncated
<1> DEFINE Full == {n \in Nat : ~Reached(n)}
<1>1. i \in Nat /\ Len(tree) \in Nat /\ DOMAIN tree = 1..Len(tree)
  OBVIOUS
<1>2. PICK n \in Full : \A m \in Full : <<m, n>> \notin OpToRel(<, Nat)
  BY <1>1, NatLessThanWellFounded, WFMin
<1>3. \A m \in Nat : m < n => Reached(m)
  BY <1>2 DEF OpToRel
<1>4. MaxFiles \in Nat \ {0} /\ n \in Nat /\ i \in Full
  BY <1>1, ScanAssumption
<1>5. n <= i
  BY <1>1, <1>3, <1>4
<1>6. n > 1
  <2>1. ASSUME NEW j \in {0, 1} PROVE Reached(j)
    <3>1. KeptBefore(j) = {}
      BY DEF KeptBefore
    <3>2. Cardinality({}) = 0
      BY FS_EmptySet
    <3> QED
      BY <1>4, <3>1, <3>2 DEF Reached
  <2>2. n # 0 /\ n # 1
    BY <1>2, <2>1
  <2> QED
    BY <1>4, <2>2
<1>7. Cardinality(KeptBefore(n)) = MaxFiles
  <2>1. PICK k \in Nat \ {0} : n = k + 1
    <3>1. n - 1 \in Nat \ {0} /\ n = (n - 1) + 1
      BY <1>4, <1>6
    <3> QED
      BY <3>1
  <2>2. Cardinality(KeptBefore(k)) < MaxFiles
    BY <1>3, <2>1 DEF Reached
  <2>3. ~(Cardinality(KeptBefore(n)) < MaxFiles)
    BY <1>2 DEF Reached
  <2>4. Cardinality(KeptBefore(n)) <= Cardinality(KeptBefore(k)) + 1
    BY <2>1, OneMoreKept
  <2>5. Cardinality(KeptBefore(k)) \in Nat /\ Cardinality(KeptBefore(n)) \in Nat
    BY <1>4, KeptBeforeIsFinite
  <2> QED
    BY <1>4, <2>2, <2>3, <2>4, <2>5
<1>8. Files = KeptBefore(n)
  <2>1. ASSUME NEW j \in KeptBefore(n) PROVE j \in Files
    <3>1. j \in 1..(n - 1) /\ Kept(tree[j])
      BY DEF KeptBefore
    <3>2. j \in DOMAIN tree /\ j \in Nat /\ j < n
      BY <1>1, <1>4, <1>5, <3>1
    <3> QED
      BY <1>3, <3>1, <3>2 DEF Files
  <2>2. ASSUME NEW j \in Files PROVE j \in KeptBefore(n)
    <3>1. j \in DOMAIN tree /\ Reached(j) /\ Kept(tree[j]) /\ j \in Nat /\ j >= 1
      BY <1>1 DEF Files
    <3>2. CASE n <= j
      <4>1. Cardinality(KeptBefore(n)) <= Cardinality(KeptBefore(j))
        BY <1>4, <3>1, <3>2, KeptBeforeGrows
      <4>2. Cardinality(KeptBefore(j)) \in Nat
        BY <3>1, KeptBeforeIsFinite
      <4> QED
        BY <1>4, <1>7, <3>1, <4>1, <4>2 DEF Reached
    <3>3. CASE j < n
      BY <1>4, <3>1, <3>3 DEF KeptBefore
    <3> QED
      BY <1>4, <3>1, <3>2, <3>3
  <2> QED
    BY <2>1, <2>2
<1> QED
  BY <1>7, <1>8 DEF Truncated

----------------------------------------------------------------------------
(* What each check leaves behind                                            *)

Past(steps) == scan \in steps \/ (scan = "done" /\ answer.status = "succeeded")

\* What was passed over is in the notes, and what was opened was looked at.
WalkedFact == CoverageGap \subseteq answer.notes
CredentialFact ==
  /\ {i \in Files \ Unreadable : tree[i].secret} \subseteq answer.charged \cup answer.examples
  /\ Unreadable # {} => "unreadable" \in answer.notes
DependencyFact ==
  /\ \A i \in Manifests : tree[i].opens /\ tree[i].declares.parses /\ Matches(i) =>
       \/ <<i, Certain(i)>> \in answer.matched \/ "SEC-10" \in answer.notTested
       \/ answer.notes \cap {"unparsed", "manifests left"} # {}
  /\ \A i \in Manifests : ~tree[i].declares.parses =>
       "SEC-10" \in answer.notTested \/ answer.notes \cap {"unparsed", "manifests left"} # {}
MatchedFact == \A m \in answer.matched : Matches(m[1]) /\ m[2] = Certain(m[1])

AnswerRow == [charged: SUBSET Index, examples: SUBSET Index, environment: SUBSET Index,
              matched: SUBSET (Index \X BOOLEAN), notes: SUBSET Note,
              notTested: SUBSET {"SEC-10"},
              status: {"none", "skipped", "failed", "succeeded"}]

CloneRow == [at: {"asked", "cloning", "cloned", "refused"}, over: BOOLEAN, disk: BOOLEAN]

ScanInv ==
  /\ clone \in CloneRow
  /\ tree \in Seq(Entries) /\ Len(tree) <= MaxEntries /\ lockfile \in Lockfiles
  /\ scan \in {"clone", "walk", "credentials", "dependencies", "licence", "done"}
  /\ answer \in AnswerRow
  /\ clone.at \in {"asked", "cloning"} => scan = "clone"
  /\ scan # "done" => answer.status = "none"
  /\ Past({"credentials", "dependencies", "licence"}) => WalkedFact
  /\ Past({"dependencies", "licence"}) => CredentialFact
  /\ Past({"licence"}) => DependencyFact /\ MatchedFact
  /\ scan \in {"clone", "walk", "credentials", "dependencies"} => answer.matched = {}

ScanFrame == UNCHANGED <<tree, lockfile>>

\* What has been found stands for as long as the tree does.
LEMMA ScanStarts == ScanInit => ScanInv
<1>1. NothingSaid \in AnswerRow
  BY DEF NothingSaid, AnswerRow, Note
<1>2. NothingSaid.status = "none" /\ NothingSaid.matched = {}
  BY DEF NothingSaid
<1>3. tree = <<>> => tree \in Seq(Entries) /\ Len(tree) <= MaxEntries
  BY ScanAssumption
<1> QED
  BY <1>1, <1>2, <1>3 DEF ScanInit, ScanInv, Past, CloneRow

LEMMA CloneKeeps ==
  ASSUME ScanInv, NotFetched \/ BeginClone \/ CloneGrows \/ CloneFails \/ CloneEnds
  PROVE  ScanInv'
<1> DEFINE none == [Unavailable EXCEPT !.notes = {}, !.status = "skipped"]
<1>1. UNCHANGED <<tree, lockfile>> /\ scan = "clone" /\ clone' \in CloneRow
  BY DEF ScanInv, NotFetched, BeginClone, CloneGrows, CloneFails, CloneEnds, CloneFrame, CloneRow
<1>2. \/ UNCHANGED <<answer, scan>>
      \/ UNCHANGED answer /\ scan' = "walk" /\ clone'.at = "cloned"
      \/ scan' = "done" /\ answer' \in {Unavailable, none} /\ clone'.at = "refused"
  <2>1. CASE NotFetched
    BY <2>1 DEF NotFetched, ScanInv, CloneRow
  <2>2. CASE BeginClone \/ CloneGrows
    BY <2>2 DEF BeginClone, CloneGrows
  <2>3. CASE CloneFails
    BY <2>3 DEF CloneFails, ScanInv, CloneRow
  <2>4. CASE CloneEnds
    BY <2>4 DEF CloneEnds, ScanInv, CloneRow
  <2> QED
    BY <2>1, <2>2, <2>3, <2>4
<1>3. \A a \in {Unavailable, none} : a \in AnswerRow /\ a.status \in {"failed", "skipped"}
  BY DEF Unavailable, NothingSaid, AnswerRow, Note
<1> HIDE DEF none
<1> QED
  BY <1>1, <1>2, <1>3 DEF ScanInv, Past

LEMMA EntryIsVisited == ASSUME ScanInv, NEW e \in Entries, Visit(e) PROVE ScanInv'
<1>1. tree' \in Seq(Entries) /\ Len(tree') <= MaxEntries
  BY ScanAssumption DEF Visit, ScanInv
<1> QED
  BY <1>1 DEF Visit, ScanInv, Past

\* A step of the checks: the tree is as it was walked.
LEMMA CheckKeeps ==
  ASSUME ScanInv, Stays, scan \in {"walk", "credentials", "dependencies", "licence"},
         scan' \in {"credentials", "dependencies", "licence", "done"},
         answer' \in AnswerRow, scan' # "done" => answer'.status = "none",
         Past({"credentials", "dependencies", "licence"})' => WalkedFact',
         Past({"dependencies", "licence"})' => CredentialFact',
         Past({"licence"})' => DependencyFact' /\ MatchedFact',
         scan' \in {"credentials", "dependencies"} => answer'.matched = {}
  PROVE  ScanInv'
<1>1. UNCHANGED <<clone, tree, lockfile>>
  BY DEF Stays
<1> QED
  BY <1>1 DEF ScanInv

\* What the facts speak of depends on the tree and the lockfile only.
LEMMA TreeStays ==
  ASSUME Stays
  PROVE  /\ Files' = Files /\ Unreadable' = Unreadable /\ Manifests' = Manifests
         /\ CoverageGap' = CoverageGap /\ tree' = tree
         /\ \A i \in Manifests : (Matches(i)' <=> Matches(i)) /\ Certain(i)' = Certain(i)
         /\ \A i : Matches(i)' <=> Matches(i)
         /\ \A i : Certain(i)' = Certain(i)
  BY DEF Stays, Files, Unreadable, Manifests, CoverageGap, Matches, Consulted, Certain, Reached,
     KeptBefore, Truncated, Met

LEMMA FilesAreIndexed == ASSUME ScanInv PROVE Files \subseteq Index /\ Manifests \subseteq Files
  BY ScanAssumption DEF ScanInv, Files, Manifests, Index

LEMMA WalkEnds == ASSUME ScanInv, EndWalk PROVE ScanInv'
<1> DEFINE gap == CoverageGap
<1>1. gap \cup {"nothing found"} \in SUBSET Note /\ gap \in SUBSET Note /\ answer \in AnswerRow
  BY DEF CoverageGap, Note, ScanInv
<1>2. scan = "walk" /\ answer.status = "none" /\ answer.matched = {}
  BY DEF EndWalk, ScanInv
<1>3. CASE Files = {}
  <2>1. scan' = "done" /\ Stays /\
        answer' = [answer EXCEPT !.notes = gap \cup {"nothing found"}, !.notTested = {"SEC-10"}, !.status = "failed"]
    BY <1>3 DEF EndWalk
  <2> HIDE DEF gap
  <2>2. answer' \in AnswerRow /\ answer'.status = "failed"
    BY <1>1, <2>1 DEF AnswerRow
  <2> QED
    BY <1>2, <2>1, <2>2, CheckKeeps DEF Past
<1>4. CASE Files # {}
  <2>1. scan' = "credentials" /\ Stays /\ answer' = [answer EXCEPT !.notes = gap]
    BY <1>4 DEF EndWalk
  <2>2. gap' = gap
    BY <2>1, TreeStays
  <2> HIDE DEF gap
  <2>3. answer' \in AnswerRow /\ answer'.status = "none" /\ answer'.notes = gap /\ answer'.matched = {}
    BY <1>1, <1>2, <2>1 DEF AnswerRow
  <2>4. WalkedFact'
    BY <2>2, <2>3 DEF WalkedFact, gap
  <2> QED
    BY <1>2, <2>1, <2>3, <2>4, CheckKeeps DEF Past
<1> QED
  BY <1>3, <1>4

LEMMA CredentialsAreScanned == ASSUME ScanInv, ScanForCredentials PROVE ScanInv'
<1> DEFINE hits == {i \in Files \ Unreadable : tree[i].secret}
           examples == {i \in hits : tree[i].name = "example"}
           charged == hits \ examples
           notes == answer.notes \cup (IF Unreadable = {} THEN {} ELSE {"unreadable"})
<1>1. /\ scan = "credentials" /\ scan' = "dependencies" /\ Stays
      /\ answer' = [answer EXCEPT !.charged = charged, !.examples = examples, !.notes = notes]
  BY DEF ScanForCredentials
<1>2. charged \in SUBSET Index /\ examples \in SUBSET Index /\ notes \in SUBSET Note
  BY FilesAreIndexed DEF ScanInv, AnswerRow, Note
<1>3. hits = charged \cup examples /\ answer.notes \subseteq notes /\ (Unreadable # {} => "unreadable" \in notes)
  OBVIOUS
<1>4. answer \in AnswerRow /\ answer.status = "none" /\ answer.matched = {} /\ WalkedFact
  BY <1>1 DEF ScanInv, Past
<1>5. hits' = hits
  BY <1>1, TreeStays
<1> HIDE DEF charged, examples, notes
<1>6. /\ answer' \in AnswerRow /\ answer'.charged = charged /\ answer'.examples = examples
      /\ answer'.notes = notes /\ answer'.status = "none" /\ answer'.matched = {}
  BY <1>1, <1>2, <1>4 DEF AnswerRow
<1>7. WalkedFact' /\ CredentialFact'
  BY <1>1, <1>3, <1>4, <1>5, <1>6, TreeStays DEF WalkedFact, CredentialFact
<1> QED
  BY <1>1, <1>6, <1>7, CheckKeeps DEF Past

\* A manifest is matched, or the notes say why it may not have been.
LEMMA DependenciesAreChecked == ASSUME ScanInv, CheckDependencies PROVE ScanInv'
<1>1. PICK read \in SUBSET Manifests :
       LET parsed == {i \in read : tree[i].opens /\ tree[i].declares.parses} IN
       /\ Read(read)
       /\ IF parsed = {}
          THEN answer' = [answer EXCEPT !.notes = @ \cup {"no manifest"}, !.notTested = {"SEC-10"}]
          ELSE answer' = [answer EXCEPT
                 !.matched = {<<i, Certain(i)>> : i \in {j \in parsed : Matches(j)}},
                 !.notes = @ \cup (IF parsed = read THEN {} ELSE {"unparsed"})
                             \cup (IF read = Manifests THEN {} ELSE {"manifests left"})]
  BY DEF CheckDependencies
<1> DEFINE parsed == {i \in read : tree[i].opens /\ tree[i].declares.parses}
           matched == {<<i, Certain(i)>> : i \in {j \in parsed : Matches(j)}}
           more == (IF parsed = read THEN {} ELSE {"unparsed"})
                     \cup (IF read = Manifests THEN {} ELSE {"manifests left"})
<1>2. scan = "dependencies" /\ scan' = "licence" /\ Stays
  BY DEF CheckDependencies
<1>3. answer \in AnswerRow /\ answer.status = "none" /\ answer.matched = {} /\ WalkedFact /\ CredentialFact
  BY <1>2 DEF ScanInv, Past
<1>4. matched \in SUBSET (Index \X BOOLEAN)
  <2>1. \A i \in parsed : i \in Index
    BY FilesAreIndexed
  <2>2. \A i \in parsed : tree[i].declares.pinned \in BOOLEAN
    <3>1. \A i \in parsed : tree[i] \in Entries
      BY DEF Manifests, Files, ScanInv
    <3> QED
      BY <3>1, ScanAssumption DEF Entry, Declaration
  <2>3. \A i \in parsed : Certain(i) \in BOOLEAN
    BY <2>2 DEF Certain
  <2> QED
    BY <2>1, <2>3
<1>5. more \in SUBSET Note /\ {"no manifest"} \in SUBSET Note /\ answer.notes \in SUBSET Note
  BY <1>3 DEF AnswerRow, Note
<1>6. CASE parsed = {}
  <2>1. answer' = [answer EXCEPT !.notes = answer.notes \cup {"no manifest"}, !.notTested = {"SEC-10"}]
    BY <1>1, <1>6
  <2>2. /\ answer' \in AnswerRow /\ answer'.notTested = {"SEC-10"} /\ answer'.matched = {}
        /\ answer.notes \subseteq answer'.notes /\ answer'.status = "none"
        /\ answer'.charged = answer.charged /\ answer'.examples = answer.examples
    BY <1>3, <1>5, <2>1 DEF AnswerRow
  <2>3. WalkedFact' /\ CredentialFact'
    BY <1>2, <1>3, <2>2, TreeStays DEF WalkedFact, CredentialFact
  <2>4. DependencyFact' /\ MatchedFact'
    BY <2>2 DEF DependencyFact, MatchedFact
  <2> QED
    BY <1>2, <2>2, <2>3, <2>4, CheckKeeps DEF Past
<1>7. CASE parsed # {}
  <2>1. answer' = [answer EXCEPT !.matched = matched, !.notes = (answer.notes \cup more)]
    BY <1>1, <1>7
  <2>2. PICK all \in SUBSET Note, pairs \in SUBSET (Index \X BOOLEAN) :
          all = answer.notes \cup more /\ pairs = matched
    BY <1>4, <1>5
  <2>3. answer' = [answer EXCEPT !.matched = pairs, !.notes = all]
    BY <2>1, <2>2
  <2>4. /\ answer' \in AnswerRow /\ answer'.matched = pairs /\ answer'.notes = all
        /\ answer'.status = "none"
        /\ answer'.charged = answer.charged /\ answer'.examples = answer.examples
    BY ONLY <1>3, <2>3 DEF AnswerRow
  <2>5. WalkedFact' /\ CredentialFact'
    <3>1. answer.notes \subseteq answer'.notes
      BY <2>2, <2>4
    <3> HIDE DEF more, matched, parsed
    <3> QED
      BY <1>2, <1>3, <2>4, <3>1, TreeStays DEF WalkedFact, CredentialFact
  <2>6. ASSUME NEW m \in pairs PROVE Matches(m[1]) /\ m[2] = Certain(m[1])
    <3>1. PICK i \in {j \in parsed : Matches(j)} : m = <<i, Certain(i)>>
      BY <2>2
    <3> QED
      BY <3>1
  <2>7. MatchedFact'
    BY <1>2, <2>4, <2>6, TreeStays DEF MatchedFact
  <2>8. ASSUME NEW i \in Manifests, i \notin parsed
        PROVE  all \cap {"unparsed", "manifests left"} # {}
    <3>1. parsed # read \/ read # Manifests
      BY <2>8
    <3>2. "unparsed" \in more \/ "manifests left" \in more
      BY <3>1
    <3> HIDE DEF more
    <3> QED
      BY <2>2, <3>2
  <2>9. ASSUME NEW i \in Manifests, i \in parsed, Matches(i) PROVE <<i, Certain(i)>> \in pairs
    BY <2>2, <2>9
  <2>10. ASSUME NEW i \in Manifests'
         PROVE  /\ (tree[i].opens /\ tree[i].declares.parses /\ Matches(i))' =>
                     \/ <<i, Certain(i)'>> \in answer'.matched \/ "SEC-10" \in answer'.notTested
                     \/ answer'.notes \cap {"unparsed", "manifests left"} # {}
                /\ ~tree'[i].declares.parses =>
                     "SEC-10" \in answer'.notTested
                       \/ answer'.notes \cap {"unparsed", "manifests left"} # {}
    <3>1. i \in Manifests /\ tree' = tree /\ (Matches(i)' <=> Matches(i)) /\ Certain(i)' = Certain(i)
      BY <1>2, TreeStays
    <3>2. i \in parsed => tree[i].declares.parses
      OBVIOUS
    <3> HIDE DEF parsed
    <3> QED
      BY <2>4, <2>8, <2>9, <3>1, <3>2
  <2>11. DependencyFact'
    BY <2>10 DEF DependencyFact
  <2> QED
    BY <1>2, <2>4, <2>5, <2>7, <2>11, CheckKeeps DEF Past
<1> QED
  BY <1>6, <1>7

LEMMA LicenceIsChecked == ASSUME ScanInv, CheckLicence PROVE ScanInv'
<1> DEFINE more == (IF LicenceUnknown THEN {"licence unknown"} ELSE {})
                     \cup (IF Unreadable = Files THEN {"nothing opened"} ELSE {})
           found == CommittedEnvironment
           ended == IF Unreadable = Files THEN "failed" ELSE "succeeded"
<1>1. /\ scan = "licence" /\ scan' = "done" /\ Stays
      /\ answer' = [answer EXCEPT !.environment = found, !.notes = answer.notes \cup more, !.status = ended]
  BY DEF CheckLicence
<1>2. found \in SUBSET Index /\ more \in SUBSET Note /\ ended \in {"failed", "succeeded"}
  BY FilesAreIndexed DEF CommittedEnvironment, Note
<1>3. answer \in AnswerRow /\ WalkedFact /\ CredentialFact /\ DependencyFact /\ MatchedFact
  BY <1>1 DEF ScanInv, Past
<1> HIDE DEF found, more, ended
<1>4. answer.notes \cup more \in SUBSET Note
  BY <1>2, <1>3 DEF AnswerRow
<1>5. /\ answer' \in AnswerRow /\ answer'.matched = answer.matched /\ answer'.notTested = answer.notTested
      /\ answer'.charged = answer.charged /\ answer'.examples = answer.examples
      /\ answer.notes \subseteq answer'.notes
  BY <1>1, <1>2, <1>3, <1>4 DEF AnswerRow
<1>6. WalkedFact' /\ CredentialFact'
  BY <1>1, <1>3, <1>5, TreeStays DEF WalkedFact, CredentialFact
<1>7. MatchedFact'
  BY <1>1, <1>3, <1>5, TreeStays DEF MatchedFact
<1>8. DependencyFact'
  BY <1>1, <1>3, <1>5, TreeStays DEF DependencyFact
<1> QED
  BY <1>1, <1>5, <1>6, <1>7, <1>8, CheckKeeps

LEMMA ScanStands ==
  ASSUME ScanInv, UNCHANGED <<tree, lockfile, scan, answer>>, clone' \in CloneRow, clone'.at = clone.at
  PROVE  ScanInv'
<1> USE DEF Files, Unreadable, Reached, KeptBefore, Truncated, Met
<1>1. WalkedFact => WalkedFact'
  BY DEF WalkedFact, CoverageGap
<1>2. CredentialFact => CredentialFact'
  BY DEF CredentialFact
<1>3. DependencyFact => DependencyFact'
  BY DEF DependencyFact, Manifests, CoverageGap, Matches, Consulted, Certain
<1>4. MatchedFact => MatchedFact'
  BY DEF MatchedFact, Manifests, Matches, Consulted, Certain
<1> QED
  BY <1>1, <1>2, <1>3, <1>4 DEF ScanInv, Past

LEMMA CloneIsDisposedOf == ASSUME ScanInv, Dispose PROVE ScanInv'
<1>1. UNCHANGED <<tree, lockfile, scan, answer>> /\ clone' \in CloneRow /\ clone'.at = clone.at
  BY DEF Dispose, ScanInv, CloneRow
<1> QED
  BY <1>1, ScanStands

LEMMA ScanSteps == ScanInv /\ [ScanNext]_scanVars => ScanInv'
<1> SUFFICES ASSUME ScanInv, [ScanNext]_scanVars PROVE ScanInv'
  OBVIOUS
<1>1. CASE UNCHANGED scanVars
  <2>1. UNCHANGED <<tree, lockfile, scan, answer>> /\ clone' \in CloneRow /\ clone'.at = clone.at
    BY <1>1 DEF scanVars, ScanInv
  <2> QED
    BY <2>1, ScanStands
<1>2. CASE ScanNext
  BY <1>2, CloneKeeps, EntryIsVisited, WalkEnds, CredentialsAreScanned, DependenciesAreChecked,
     LicenceIsChecked, CloneIsDisposedOf DEF ScanNext
<1> QED
  BY <1>1, <1>2

----------------------------------------------------------------------------
(* What silence stands for                                                  *)

\* What the walk met, and did not keep, is in the notes.
LEMMA UnkeptIsSaid ==
  ASSUME ScanInv, WalkedFact, NEW i \in DOMAIN tree, ~PassedOver(i), i \notin Files
  PROVE  SaidUnread(i)
<1>1. CASE ~Reached(i)
  <2>1. Truncated
    BY <1>1, UnreachedIsStopped DEF ScanInv
  <2> QED
    BY <1>1, <2>1 DEF SaidUnread, WalkedFact, CoverageGap
<1>2. CASE Reached(i)
  <2>1. tree[i].kind \in {"typed", "large", "link", "closed directory"}
    <3>1. tree[i] \in Entry
      BY ScanAssumption DEF ScanInv
    <3> QED
      BY <1>2, <3>1 DEF Files, Kept, PassedOver, Entry, EntryKind
  <2>2. Met(tree[i].kind)
    BY <1>2 DEF Met
  <2>3. /\ Met("large") => "too large" \in answer.notes
        /\ Met("link") => "links" \in answer.notes
        /\ Met("closed directory") => "directories" \in answer.notes
        /\ Met("typed") => "types" \in answer.notes
    BY DEF WalkedFact, CoverageGap
  <2>4. CASE tree[i].kind = "closed directory"
    BY <2>2, <2>3, <2>4 DEF SaidUnread
  <2>5. CASE tree[i].kind \in {"typed", "large", "link"}
    <3> DEFINE kind == tree[i].kind
    <3>1. DOMAIN NoteOf = {"typed", "large", "link"} /\ kind \in DOMAIN NoteOf
      BY <2>5 DEF NoteOf
    <3>2. /\ NoteOf["typed"] = "types" /\ NoteOf["large"] = "too large" /\ NoteOf["link"] = "links"
      BY DEF NoteOf
    <3>3. NoteOf[kind] \in answer.notes
      BY <2>2, <2>3, <2>5, <3>2
    <3> QED
      BY <3>1, <3>3 DEF SaidUnread
  <2> QED
    BY <2>1, <2>4, <2>5
<1> QED
  BY <1>1, <1>2

LEMMA NoVersionIsIllegible == Illegible \notin Version
  BY DEF Illegible, Version

\* What a match says of the versions, where the check can compare them.
LEMMA VersionsTyped ==
  ASSUME ScanInv, NEW i \in DOMAIN tree
  PROVE  /\ tree[i].declares.version \in Version /\ lockfile \in Seq(Legibly)
         /\ Affected \in Version /\ Affected[2] < Radix
<1>1. tree[i] \in Entry
  BY ScanAssumption DEF ScanInv
<1> QED
  BY <1>1, ScanAssumption DEF ScanInv, Entry, Declaration

LEMMA MatchOfTheLock ==
  ASSUME ScanInv, NEW i \in DOMAIN tree, Comparable, lockfile # <<>>
  PROVE  /\ 1 \in DOMAIN lockfile /\ Head(lockfile) = lockfile[1]
         /\ Matches(i) <=> (lockfile[1] # Illegible /\ Precedes(lockfile[1], Affected))
<1>1. 1 \in DOMAIN lockfile /\ Head(lockfile) = lockfile[1] /\ lockfile[1] \in Legibly
  BY VersionsTyped
<1>2. ASSUME lockfile[1] # Illegible PROVE Below(lockfile[1], Affected) <=> Precedes(lockfile[1], Affected)
  <2>1. lockfile[1] \in Version /\ lockfile[1][2] < Radix
    BY <1>1, <1>2 DEF Legibly, Comparable
  <2> QED
    BY <2>1, VersionsTyped, VersionsCompare
<1>3. Consulted(i) = lockfile[1]
  BY <1>1 DEF Consulted
<1> QED
  BY <1>1, <1>2, <1>3 DEF Matches

LEMMA MatchOfTheRange ==
  ASSUME ScanInv, NEW i \in DOMAIN tree, Comparable, lockfile = <<>>,
         tree[i].declares.named = tree[i].declares.version
  PROVE  Matches(i) <=> Precedes(tree[i].declares.version, Affected)
<1>1. tree[i].declares.version # Illegible /\ tree[i].declares.version[2] < Radix
  BY VersionsTyped, NoVersionIsIllegible DEF Comparable
<1>2. Consulted(i) = tree[i].declares.version
  BY DEF Consulted
<1>3. Below(tree[i].declares.version, Affected) <=> Precedes(tree[i].declares.version, Affected)
  BY <1>1, VersionsTyped, VersionsCompare
<1> QED
  BY <1>1, <1>2, <1>3 DEF Matches

LEMMA ScanIsHonest == ScanInv => SilenceWasRead
<1> SUFFICES ASSUME ScanInv, scan = "done", answer.status = "succeeded",
                    NEW i \in DOMAIN tree, ~PassedOver(i)
             PROVE  /\ tree[i].secret => i \in answer.charged \cup answer.examples \/ SaidUnread(i)
                    /\ Vulnerable(i) /\ Legible(i) /\ Comparable =>
                         \/ \E certain \in BOOLEAN : <<i, certain>> \in answer.matched
                         \/ SaidUnread(i) \/ "SEC-10" \in answer.notTested
                         \/ answer.notes \cap {"unparsed", "manifests left"} # {}
                    /\ <<i, TRUE>> \in answer.matched /\ Comparable =>
                         \/ Precedes(tree[i].declares.version, Affected)
                         \/ \E n \in DOMAIN lockfile :
                              lockfile[n] # Illegible /\ Precedes(lockfile[n], Affected)
  BY DEF SilenceWasRead
<1>1. WalkedFact /\ CredentialFact /\ DependencyFact /\ MatchedFact
  BY DEF ScanInv, Past
<1>2. /\ tree[i].declares.pinned \in BOOLEAN
      /\ tree[i].declares.pinned => tree[i].declares.named = tree[i].declares.version
  <2>1. tree[i] \in Entry
    BY ScanAssumption DEF ScanInv
  <2> QED
    BY <2>1 DEF Entry, Declaration
<1>3. i \in Files /\ ~tree[i].opens => SaidUnread(i)
  BY <1>1 DEF SaidUnread, CredentialFact, Unreadable
<1>4. i \notin Files => SaidUnread(i)
  BY <1>1, UnkeptIsSaid
<1>5. tree[i].secret => i \in answer.charged \cup answer.examples \/ SaidUnread(i)
  BY <1>1, <1>3, <1>4 DEF CredentialFact, Unreadable
<1>6. ASSUME Vulnerable(i), Legible(i), Comparable
      PROVE  \/ \E certain \in BOOLEAN : <<i, certain>> \in answer.matched
             \/ SaidUnread(i) \/ "SEC-10" \in answer.notTested
             \/ answer.notes \cap {"unparsed", "manifests left"} # {}
  <2>1. Matches(i)
    <3>1. CASE lockfile # <<>>
      BY <1>6, <3>1, MatchOfTheLock DEF Vulnerable, Legible
    <3>2. CASE lockfile = <<>>
      BY <1>6, <3>2, MatchOfTheRange DEF Vulnerable, Legible
    <3> QED
      BY <3>1, <3>2
  <2>2. i \in Files => i \in Manifests
    BY <1>6 DEF Manifests, Vulnerable
  <2>3. Certain(i) \in BOOLEAN
    BY <1>2 DEF Certain
  <2> QED
    BY <1>1, <1>3, <1>4, <2>1, <2>2, <2>3 DEF DependencyFact
<1>7. ASSUME <<i, TRUE>> \in answer.matched, Comparable
      PROVE  \/ Precedes(tree[i].declares.version, Affected)
             \/ \E n \in DOMAIN lockfile : lockfile[n] # Illegible /\ Precedes(lockfile[n], Affected)
  <2>1. Matches(i) /\ Certain(i)
    BY <1>1, <1>7 DEF MatchedFact
  <2>2. CASE lockfile # <<>>
    BY <1>7, <2>1, <2>2, MatchOfTheLock
  <2>3. CASE lockfile = <<>>
    <3>1. tree[i].declares.named = tree[i].declares.version
      BY <1>2, <2>1, <2>3 DEF Certain
    <3> QED
      BY <1>7, <2>1, <2>3, <3>1, MatchOfTheRange
  <2> QED
    BY <2>2, <2>3
<1> QED
  BY <1>5, <1>6, <1>7

\* A credential in the tree is charged, shown as an example, or in a file the stage
\* says it did not read; an affected dependency whose version the check has before it
\* is charged, or the stage says that manifests went unread; and a charge is for what
\* is there: for any tree, lockfile and ceilings (walk, scanForCredentials,
\* checkDependencies, below, permitsVulnerable).
THEOREM SilenceIsOfWhatWasRead == ScanSpec => []SilenceWasRead
  BY ScanStarts, ScanSteps, ScanIsHonest, PTL DEF ScanSpec

----------------------------------------------------------------------------
(* A look at a page (PublicLook), and the surveys of one (PageSurvey)       *)

LEMMA LeastOf ==
  ASSUME NEW T \in SUBSET Nat, T # {} PROVE \E n \in T : \A m \in T : n <= m
<1>1. PICK n \in T : \A m \in T : <<m, n>> \notin OpToRel(<, Nat)
  BY NatLessThanWellFounded, WFMin
<1>2. \A m \in T : ~(m < n)
  BY <1>1 DEF OpToRel
<1> QED
  BY <1>2

\* The last hop is one of the hops, every hop before it was followed, and it is not.
LEMMA LastHopStops ==
  ASSUME NEW chain \in Chain
  PROVE  LastHop(chain) \in 0..MAX_REDIRECTS /\ ~IsFollowed(chain, LastHop(chain))
<1> DEFINE Ends == {hop \in 0..MAX_REDIRECTS : ~IsFollowed(chain, hop)}
<1>1. MAX_REDIRECTS \in Ends /\ Ends \in SUBSET Nat
  BY LookAssumption DEF IsFollowed
<1>2. PICK n \in Ends : \A m \in Ends : n <= m
  BY <1>1, LeastOf
<1>3. \A h \in 0..(n - 1) : IsFollowed(chain, h)
  BY <1>1, <1>2, LookAssumption
<1>4. \E hop \in 0..MAX_REDIRECTS :
        ~IsFollowed(chain, hop) /\ \A h \in 0..(hop - 1) : IsFollowed(chain, h)
  BY <1>2, <1>3
<1> QED
  BY <1>4 DEF LastHop

\* What the fetch comes to says what the last answer was.
LEMMA FetchedIs ==
  ASSUME NEW chain \in Chain
  PROVE  /\ chain[LastHop(chain)] \in Reply /\ PageRead(chain) \in PublicPage
         /\ Fetched(chain) \in {"theirs", "ours", "refused", "read", "error status"}
         /\ Fetched(chain) = "read" => chain[LastHop(chain)].is # "fails" /\ PageRead(chain).ok
         /\ Fetched(chain) = "error status" => ~PageRead(chain).ok
<1> DEFINE reply == chain[LastHop(chain)]
<1>1. reply \in Reply
  BY LastHopStops DEF Chain
<1>2. /\ reply.is \in {"page", "redirect", "fails"} /\ reply.page \in PublicPage
      /\ reply.fault \in {"theirs", "ours"} /\ reply.to \in {"public", "private", "not web", "garbled"}
  BY <1>1 DEF Reply
<1>3. PageRead(chain) = reply.page
  BY DEF PageRead
<1> QED
  BY <1>1, <1>2, <1>3 DEF Fetched

LEMMA CheckAnswers ==
  ASSUME NEW shown, NEW check PROVE RunCheck(shown, check) \in {"found", "unclear", "not_found"}
BY DEF RunCheck, HalfAnswer

\* Whatever a site answers, hop by hop: nobody is warned of it because of a failure of
\* ours, no question is answered of a page that was not read, and the trust check and
\* the pre-flight say the same of it (runTrustCheck, runPreflight).
THEOREM EveryLookIsFair == \A chain \in Chain : LooksAreFair(chain)
<1> SUFFICES ASSUME NEW chain \in Chain PROVE LooksAreFair(chain)
  OBVIOUS
<1> DEFINE told == Observations(chain)
           items == PreflightItems(chain)
           shown == PageRead(chain)
<1>1. DOMAIN told = CASE Fetched(chain) = "read" -> {"reachable"} \cup CheckId
                      [] Fetched(chain) = "refused" -> {} [] OTHER -> {"reachable"}
  BY DEF Observations
<1>2. DOMAIN items = CASE Fetched(chain) = "read" -> PreflightId
                       [] Fetched(chain) = "error status" -> {"answers"} [] OTHER -> {}
  BY DEF PreflightItems
<1>3. /\ \A id \in DOMAIN told : told[id] = IF id = "reachable" THEN Opens(chain) ELSE RunCheck(shown, id)
      /\ \A id \in DOMAIN items : items[id] = PreflightItem(shown, id)
  BY DEF Observations, PreflightItems
<1>4. Fetched(chain) \in {"ours", "refused"} => HighWeightMissing(chain) = {} /\ DOMAIN items = {}
  <2> SUFFICES ASSUME Fetched(chain) \in {"ours", "refused"}
               PROVE  HighWeightMissing(chain) = {} /\ DOMAIN items = {}
    OBVIOUS
  <2>1. DOMAIN items = {} /\ DOMAIN told \subseteq {"reachable"}
    BY <1>1, <1>2
  <2>2. "reachable" \in DOMAIN told => told["reachable"] = "unclear"
    BY <1>1, <1>3 DEF Opens
  <2> QED
    BY <2>1, <2>2 DEF HighWeightMissing
<1>5. DOMAIN told \cap CheckId # {} => chain[LastHop(chain)].is # "fails" /\ shown.ok
  <2>1. "reachable" \notin CheckId
    BY DEF CheckId
  <2> QED
    BY <1>1, <2>1, FetchedIs
<1>6. "answers" \in DOMAIN items =>
        "reachable" \in DOMAIN told /\ (items["answers"] = "ok" <=> told["reachable"] = "found")
  <2> SUFFICES ASSUME "answers" \in DOMAIN items
               PROVE  "reachable" \in DOMAIN told /\ (items["answers"] = "ok" <=> told["reachable"] = "found")
    OBVIOUS
  <2>1. Fetched(chain) \in {"read", "error status"}
    BY <1>2
  <2>2. "reachable" \in DOMAIN told /\ told["reachable"] = Opens(chain)
        /\ items["answers"] = PreflightItem(shown, "answers")
    BY <1>1, <1>3, <2>1
  <2>3. PreflightItem(shown, "answers") = "ok" <=> shown.ok
    BY DEF PreflightItem, OkIf
  <2>4. Opens(chain) = "found" <=> Fetched(chain) = "read"
    BY <2>1 DEF Opens
  <2> QED
    BY <2>1, <2>2, <2>3, <2>4, FetchedIs
<1>7. ASSUME NEW id \in DOMAIN items \cap DOMAIN BORROWED
      PROVE  /\ BORROWED[id] \in DOMAIN told
             /\ items[id] = "missing" <=> told[BORROWED[id]] = "not_found"
             /\ items[id] = "ok" <=> told[BORROWED[id]] = "found"
  <2>1. id \in {"contact", "privacy", "cancellation"} /\ BORROWED[id] \in CheckId
        /\ BORROWED[id] # "reachable"
    BY <1>7 DEF BORROWED, CheckId
  <2>2. Fetched(chain) = "read"
    BY <1>2, <1>7, <2>1
  <2>3. BORROWED[id] \in DOMAIN told /\ told[BORROWED[id]] = RunCheck(shown, BORROWED[id])
    BY <1>1, <1>3, <2>1, <2>2
  <2>4. items[id] = OUTCOME_FROM[RunCheck(shown, BORROWED[id])]
    BY <1>3, <1>7, <2>1 DEF PreflightItem
  <2>5. RunCheck(shown, BORROWED[id]) \in {"found", "unclear", "not_found"}
    BY CheckAnswers
  <2>6. /\ OUTCOME_FROM["found"] = "ok" /\ OUTCOME_FROM["not_found"] = "missing"
        /\ OUTCOME_FROM["unclear"] = "unclear"
    BY DEF OUTCOME_FROM
  <2> QED
    BY <2>3, <2>4, <2>5, <2>6
<1> QED
  BY <1>4, <1>5, <1>6, <1>7 DEF LooksAreFair

\* Among finitely many values one looks at least as intended as every other.
LEMMA OneIsMeant ==
  ASSUME NEW D \in SUBSET Int, NEW counts \in [D -> Nat],
         NEW values \in SUBSET D, IsFiniteSet(values), values # {}
  PROVE  \E v \in values : \A w \in values \ {v} : ~LooksIntended(counts, w, v)
<1> DEFINE Meant(S) == \E v \in S : \A w \in S \ {v} : ~LooksIntended(counts, w, v)
           Bad == {n \in Nat : \E S \in SUBSET D :
                     IsFiniteSet(S) /\ S # {} /\ Cardinality(S) = n /\ ~Meant(S)}
<1>1. SUFFICES ASSUME Bad # {} PROVE FALSE
  <2>1. Cardinality(values) \in Nat
    BY FS_CardinalityType
  <2> QED
    BY <1>1, <2>1
<1>2. PICK n \in Bad : \A m \in Bad : n <= m
  BY <1>1, LeastOf
<1>3. PICK S \in SUBSET D : IsFiniteSet(S) /\ S # {} /\ Cardinality(S) = n /\ ~Meant(S)
  BY <1>2
<1>4. PICK x \in S : TRUE
  BY <1>3
<1> DEFINE rest == S \ {x}
<1>5. IsFiniteSet(rest) /\ Cardinality(rest) = n - 1 /\ rest \in SUBSET D /\ n - 1 \in Nat
  <2>1. IsFiniteSet(rest) /\ Cardinality(rest) = Cardinality(S) - 1
    BY <1>3, <1>4, FS_RemoveElement
  <2>2. Cardinality(rest) \in Nat
    BY <2>1, FS_CardinalityType
  <2> QED
    BY <1>3, <2>1, <2>2
<1>6. CASE rest = {}
  BY <1>3, <1>4, <1>6
<1>7. CASE rest # {}
  <2>1. Meant(rest)
    <3>1. n - 1 \notin Bad
      BY <1>2, <1>5
    <3> QED
      BY <1>5, <1>7, <3>1
  <2>2. PICK v \in rest : \A w \in rest \ {v} : ~LooksIntended(counts, w, v)
    BY <2>1
  <2>3. x \in Int /\ v \in Int /\ counts[x] \in Nat /\ counts[v] \in Nat /\ v # x
        /\ \A w \in S : w \in Int /\ counts[w] \in Nat
    BY <1>3, <1>4, <2>2
  <2>4. CASE LooksIntended(counts, x, v)
    <3>1. \A w \in S \ {x} : ~LooksIntended(counts, w, x)
      BY <2>2, <2>3, <2>4 DEF LooksIntended
    <3> QED
      BY <1>3, <1>4, <3>1
  <2>5. CASE ~LooksIntended(counts, x, v)
    <3>1. \A w \in S \ {v} : ~LooksIntended(counts, w, v)
      BY <2>2, <2>5
    <3> QED
      BY <1>3, <2>2, <3>1
  <2> QED
    BY <2>4, <2>5
<1> QED
  BY <1>6, <1>7

\* However the blocks of a page stand, no two of their edges, and no circle of them, are
\* each reported as the other mistyped (readAlignment, readRhythm, nearestIntended).
THEOREM NoCircleOfMisses == \A places \in Seq(Int) : NoneAccuseEachOther(Counts(places))
<1> SUFFICES ASSUME NEW places \in Seq(Int) PROVE NoneAccuseEachOther(Counts(places))
  OBVIOUS
<1> DEFINE D == Range(places)
           counts == Counts(places)
<1>1. D \in SUBSET Int /\ D = {places[n] : n \in 1..Len(places)} /\ DOMAIN places = 1..Len(places)
      /\ Len(places) \in Nat
  BY DEF Range
<1>2. IsFiniteSet(1..Len(places))
  BY <1>1, FS_Interval
<1>3. IsFiniteSet(D)
  <2>1. places \in Surjection(1..Len(places), D)
    BY <1>1 DEF Surjection
  <2> QED
    BY <1>2, <2>1, FS_Surjection
<1>4. counts \in [D -> Nat]
  <2>1. ASSUME NEW v PROVE Cardinality({n \in DOMAIN places : places[n] = v}) \in Nat
    <3> DEFINE At == {n \in DOMAIN places : places[n] = v}
    <3>1. At \in SUBSET (1..Len(places))
      BY <1>1
    <3>2. IsFiniteSet(At)
      BY <1>2, <3>1, FS_Subset
    <3> QED
      BY <3>2, FS_CardinalityType
  <2> QED
    BY <2>1 DEF Counts
<1>5. ASSUME NEW values \in (SUBSET D) \ {{}}
      PROVE  \E value \in values : IntendedFor(counts, value) \cap values = {}
  <2>1. IsFiniteSet(values)
    BY <1>3, FS_Subset
  <2>2. PICK v \in values : \A w \in values \ {v} : ~LooksIntended(counts, w, v)
    BY <1>1, <1>4, <2>1, OneIsMeant
  <2>3. IntendedFor(counts, v) \cap values = {}
    BY <2>2 DEF IntendedFor
  <2> QED
    BY <2>3
<1>6. DOMAIN counts = D
  BY <1>4
<1> QED
  BY <1>5, <1>6 DEF NoneAccuseEachOther

\* A criterion of the trust survey that reads as a tick was earned by what the page holds
\* (trustFindings), whatever the page holds and whatever its owner declared.
THEOREM EveryTickIsEarned ==
  \A survey \in TrustPage, hasPayments \in BOOLEAN : TicksAreEarned(survey, hasPayments)
<1> SUFFICES ASSUME NEW survey \in TrustPage, NEW hasPayments \in BOOLEAN
             PROVE  TicksAreEarned(survey, hasPayments)
  OBVIOUS
<1>1. \A c \in TrustSurveyCriteria : c \in {"SEC-12", "SEC-13", "PRI-07"}
  BY DEF TrustSurveyCriteria
<1>2. ContactOutcome(survey.page) \notin {"unclear", "not_found"} =>
        \E signal \in ContactSignals : RunCheck(survey.page, signal) = "found"
  BY DEF ContactOutcome
<1> QED
  BY <1>1, <1>2 DEF TicksAreEarned, TrustCharged, TrustNotTested

----------------------------------------------------------------------------
(* How hard it is to leave (ExitSurvey)                                     *)

Waiting == [url: Pages, depth: 0..MAX_DEPTH]
Candidate == [url: Pages, plain: BOOLEAN, depth: 1..(MAX_DEPTH + 1)]
DepthMap == UNION {[read -> 0..MAX_DEPTH] : read \in SUBSET Pages}
Walk == [queue: Seq(Waiting), seen: SUBSET Pages, depthOf: DepthMap, candidates: Seq(Candidate)]
Signals == [found: BOOLEAN, selfService: BOOLEAN, plain: BOOLEAN, cancel: Depths, subscribe: Depths]

ExitTyped ==
  /\ site \in Site /\ walk \in Walk
  /\ lost \in [{"walk", "confirm"} -> SUBSET Pages] /\ answered \in SUBSET Pages
  /\ exit \in [at: {"walk", "confirm", "measured", "unreadable", "stopped"}, signals: Signals]

Link(p, n) == site.links[p][n]

\* The links of the pages read.
LinksRead(w) == {l \in Pages \X Nat : l[1] \in DOMAIN w.depthOf /\ l[2] \in DOMAIN site.links[l[1]]}

\* All of the walk stands between two depths: what was read, then the queue, and the
\* candidates one click further.
AtDepth(w, d) ==
  /\ \A p \in DOMAIN w.depthOf : w.depthOf[p] <= d
  /\ \A i \in DOMAIN w.queue : d <= w.queue[i].depth /\ w.queue[i].depth <= d + 1
  /\ \A i, j \in DOMAIN w.queue : i <= j => w.queue[i].depth <= w.queue[j].depth
  /\ \A i \in DOMAIN w.candidates : w.candidates[i].depth <= d + 1
  /\ \A i, j \in DOMAIN w.candidates : i <= j => w.candidates[i].depth <= w.candidates[j].depth

\* A page stands at a depth because a page read one click before links to it.
Justified(w, url, depth) ==
  \/ url = FrontDoor /\ depth = 0
  \/ url # FrontDoor /\ \E p \in DOMAIN w.depthOf : w.depthOf[p] + 1 = depth /\ LinksTo(p, url)

AllJustified(w) ==
  /\ \A p \in DOMAIN w.depthOf : Justified(w, p, w.depthOf[p])
  /\ \A i \in DOMAIN w.queue : Justified(w, w.queue[i].url, w.queue[i].depth)

Awaits(w, url) == \E i \in DOMAIN w.queue : w.queue[i].url = url

\* A page seen was read, waits, or did not answer; each of them once.
SeenOnce(w) ==
  /\ FrontDoor \in w.seen /\ DOMAIN w.depthOf \subseteq w.seen /\ lost["walk"] \subseteq w.seen
  /\ DOMAIN w.depthOf \cap (site.refused \cup lost["walk"]) = {}
  /\ \A i \in DOMAIN w.queue : w.queue[i].url \in w.seen \ (DOMAIN w.depthOf \cup lost["walk"])
  /\ \A i, j \in DOMAIN w.queue : i # j => w.queue[i].url # w.queue[j].url
  /\ \A p \in w.seen : p \in DOMAIN w.depthOf \cup site.refused \cup lost["walk"] \/ Awaits(w, p)

\* Where a link followed leads was seen, unless a limit bit, and at no greater depth.
LinkIsFollowed(w, p, n) ==
  LET to == Link(p, n).to IN
  /\ w.depthOf[p] < MAX_DEPTH /\ Cardinality(w.seen) < MAX_PAGES * 2 => to \in w.seen
  /\ to \in DOMAIN w.depthOf => w.depthOf[to] <= w.depthOf[p] + 1
  /\ \A i \in DOMAIN w.queue : w.queue[i].url = to => w.queue[i].depth <= w.depthOf[p] + 1

\* A link that sounds like a way out is a candidate, no deeper than it stands, until
\* the page it leads to was found to offer nothing or got no answer.
LinkIsWeighed(w, p, n) ==
  LET link == Link(p, n) IN
  \/ link.name = "other" \/ site.offers[link.to] = "nothing" \/ link.to \in lost["confirm"]
  \/ \E i \in DOMAIN w.candidates :
       w.candidates[i].url = link.to /\ w.candidates[i].depth <= w.depthOf[p] + 1

Followed(w, links) == \A l \in links : LinkIsFollowed(w, l[1], l[2])
Weighed(w, links) == \A l \in links : LinkIsWeighed(w, l[1], l[2])

CandidateStands(w, c) ==
  \E p \in DOMAIN w.depthOf, n \in Nat :
    /\ w.depthOf[p] + 1 = c.depth /\ n \in DOMAIN site.links[p]
    /\ Link(p, n).to = c.url /\ Link(p, n).name # "other"

CandidatesStand(w) ==
  /\ \A i \in DOMAIN w.candidates : CandidateStands(w, w.candidates[i])
  /\ \A i \in DOMAIN w.candidates : w.candidates[i].url \notin lost["confirm"]
  /\ \A i, j \in DOMAIN w.candidates : i # j => w.candidates[i].url # w.candidates[j].url

\* A walk at a depth that has followed some links.
WalkFacts(w, d, links) ==
  /\ AtDepth(w, d) /\ AllJustified(w) /\ SeenOnce(w) /\ Followed(w, links) /\ CandidatesStand(w)

\* What the measurement says, of the pages that were read.
Measured ==
  LET s == exit.signals
      read == DOMAIN walk.depthOf IN
  /\ s.found => \E p \in read : LeadsOut(p) /\ s.cancel = walk.depthOf[p] + 1
  /\ \A p \in read : LeadsOut(p) => s.found /\ s.cancel <= walk.depthOf[p] + 1
  /\ \A p \in read \cap site.joins : s.subscribe <= walk.depthOf[p]
  /\ s.subscribe # NotFound => \E p \in read \cap site.joins : s.subscribe = walk.depthOf[p]

ExitInv ==
  /\ ExitTyped
  /\ exit.at \in {"walk", "confirm", "measured"} =>
       \E d \in 0..MAX_DEPTH : WalkFacts(walk, d, LinksRead(walk))
  /\ exit.at \in {"walk", "confirm"} => Weighed(walk, LinksRead(walk))
  /\ exit.at = "walk" => lost["confirm"] = {}
  /\ exit.at = "measured" => Measured

\* One click more.
Grown(pages) == pages \cup {to \in Pages : \E p \in pages \cap Readable : LinksTo(p, to)}

LEMMA GrownExists ==
  ASSUME NEW n \in Nat
  PROVE  \E g : g = [k \in 0..n |-> IF k = 0 THEN {FrontDoor} ELSE Grown(g[k - 1])]
<1> DEFINE Is(g, m) == g = [k \in 0..m |-> IF k = 0 THEN {FrontDoor} ELSE Grown(g[k - 1])]
           None == {m \in Nat : ~\E g : Is(g, m)}
<1>1. SUFFICES ASSUME None # {} PROVE FALSE
  BY <1>1
<1>2. PICK m \in None : \A other \in None : m <= other
  BY <1>1, LeastOf
<1>3. CASE m = 0
  <2> DEFINE g == [k \in 0..0 |-> {FrontDoor}]
  <2>1. Is(g, 0)
    OBVIOUS
  <2> QED
    BY <1>2, <1>3, <2>1
<1>4. CASE m # 0
  <2>1. m - 1 \in Nat /\ m - 1 \notin None
    <3>1. m \in Nat /\ m - 1 \in Nat /\ ~(m <= m - 1)
      BY <1>4
    <3> HIDE DEF None
    <3> QED
      BY <1>2, <3>1
  <2>2. PICK g : Is(g, m - 1)
    BY <2>1
  <2> DEFINE h == [k \in 0..m |-> IF k = m THEN Grown(g[m - 1]) ELSE g[k]]
  <2>3. ASSUME NEW k \in 0..m PROVE h[k] = IF k = 0 THEN {FrontDoor} ELSE Grown(h[k - 1])
    <3>1. CASE k = m
      <4>1. h[k] = Grown(g[m - 1]) /\ h[m - 1] = g[m - 1]
        BY <1>4, <2>1, <3>1
      <4> QED
        BY <1>4, <3>1, <4>1
    <3>2. CASE k # m
      <4>1. k \in 0..(m - 1) /\ h[k] = g[k]
        BY <3>2
      <4>2. k # 0 => k - 1 \in 0..(m - 1) /\ h[k - 1] = g[k - 1]
        BY <4>1
      <4>3. g[k] = IF k = 0 THEN {FrontDoor} ELSE Grown(g[k - 1])
        BY <2>2, <4>1
      <4> QED
        BY <4>1, <4>2, <4>3
    <3> QED
      BY <3>1, <3>2
  <2>4. h = [k \in 0..m |-> h[k]]
    OBVIOUS
  <2>5. Is(h, m)
    <3> HIDE DEF h
    <3> QED
      BY <2>3, <2>4
  <2> QED
    BY <1>2, <2>5
<1> QED
  BY <1>3, <1>4

\* The recursive definition of Within has a solution.
LEMMA WithinIs ==
  /\ Within[0] = {FrontDoor}
  /\ \A k \in 1..MAX_DEPTH : Within[k] = Grown(Within[k - 1])
<1> DEFINE Is(g) == g = [k \in 0..MAX_DEPTH |-> IF k = 0 THEN {FrontDoor} ELSE Grown(g[k - 1])]
<1>1. \E g : Is(g)
  BY ExitAssumption, GrownExists
<1>2. Is(CHOOSE g : Is(g))
  BY <1>1
<1>3. Within = CHOOSE g : Is(g)
  BY DEF Within, Grown
<1>4. Is(Within)
  BY <1>2, <1>3
<1>5. \A k \in 0..MAX_DEPTH : Within[k] = IF k = 0 THEN {FrontDoor} ELSE Grown(Within[k - 1])
  <2> HIDE DEF Grown
  <2> QED
    BY <1>4
<1> QED
  BY <1>5, ExitAssumption

\* And so has the one that follows the links of a page.
IsChain(g, left, links, depth, n) ==
  g = [k \in 0..n |-> IF k = 0 THEN left ELSE Follow(g[k - 1], links[k], depth)]

LEMMA AfterExists ==
  ASSUME NEW left, NEW links, NEW depth, NEW n \in Nat
  PROVE  \E g : IsChain(g, left, links, depth, n)
<1> DEFINE Is(g, m) == g = [k \in 0..m |-> IF k = 0 THEN left ELSE Follow(g[k - 1], links[k], depth)]
           None == {m \in Nat : ~\E g : Is(g, m)}
<1>1. SUFFICES ASSUME None # {} PROVE FALSE
  BY <1>1 DEF IsChain
<1>2. PICK m \in None : \A other \in None : m <= other
  BY <1>1, LeastOf
<1>3. CASE m = 0
  <2> DEFINE g == [k \in 0..0 |-> left]
  <2>1. Is(g, 0)
    OBVIOUS
  <2> QED
    BY <1>2, <1>3, <2>1
<1>4. CASE m # 0
  <2>1. m - 1 \in Nat /\ m - 1 \notin None
    <3>1. m \in Nat /\ m - 1 \in Nat /\ ~(m <= m - 1)
      BY <1>4
    <3> HIDE DEF None
    <3> QED
      BY <1>2, <3>1
  <2>2. PICK g : Is(g, m - 1)
    BY <2>1
  <2> DEFINE h == [k \in 0..m |-> IF k = m THEN Follow(g[m - 1], links[m], depth) ELSE g[k]]
  <2>3. ASSUME NEW k \in 0..m PROVE h[k] = IF k = 0 THEN left ELSE Follow(h[k - 1], links[k], depth)
    <3>1. CASE k = m
      <4>1. h[k] = Follow(g[m - 1], links[m], depth) /\ h[m - 1] = g[m - 1]
        BY <1>4, <2>1, <3>1
      <4> QED
        BY <1>4, <3>1, <4>1
    <3>2. CASE k # m
      <4>1. k \in 0..(m - 1) /\ h[k] = g[k]
        BY <3>2
      <4>2. k # 0 => k - 1 \in 0..(m - 1) /\ h[k - 1] = g[k - 1]
        BY <4>1
      <4>3. g[k] = IF k = 0 THEN left ELSE Follow(g[k - 1], links[k], depth)
        BY <2>2, <4>1
      <4> QED
        BY <4>1, <4>2, <4>3
    <3> QED
      BY <3>1, <3>2
  <2>4. h = [k \in 0..m |-> h[k]]
    OBVIOUS
  <2>5. Is(h, m)
    <3> HIDE DEF h
    <3> QED
      BY <2>3, <2>4
  <2> QED
    BY <1>2, <2>5
<1> QED
  BY <1>3, <1>4

LEMMA WalkTyped ==
  ASSUME NEW w \in Walk
  PROVE  /\ DOMAIN w.depthOf \in SUBSET Pages /\ w.seen \in SUBSET Pages
         /\ \A p \in DOMAIN w.depthOf : w.depthOf[p] \in 0..MAX_DEPTH /\ w.depthOf[p] \in Nat
         /\ w.queue \in Seq(Waiting) /\ w.candidates \in Seq(Candidate)
         /\ \A i \in DOMAIN w.queue :
              i \in Nat /\ w.queue[i].url \in Pages /\ w.queue[i].depth \in 0..MAX_DEPTH
              /\ w.queue[i].depth \in Nat
         /\ \A i \in DOMAIN w.candidates :
              i \in Nat /\ w.candidates[i].url \in Pages /\ w.candidates[i].depth \in 1..(MAX_DEPTH + 1)
              /\ w.candidates[i].depth \in Nat
<1>1. w.depthOf \in DepthMap /\ w.seen \in SUBSET Pages /\ w.queue \in Seq(Waiting)
      /\ w.candidates \in Seq(Candidate)
  BY DEF Walk
<1>2. DOMAIN w.depthOf \in SUBSET Pages
      /\ \A p \in DOMAIN w.depthOf : w.depthOf[p] \in 0..MAX_DEPTH /\ w.depthOf[p] \in Nat
  BY <1>1, ExitAssumption DEF DepthMap
<1>3. ASSUME NEW i \in DOMAIN w.queue
      PROVE  i \in Nat /\ w.queue[i].url \in Pages /\ w.queue[i].depth \in 0..MAX_DEPTH
             /\ w.queue[i].depth \in Nat
  <2>1. i \in Nat /\ w.queue[i] \in Waiting
    BY <1>1
  <2> QED
    BY <2>1, ExitAssumption DEF Waiting
<1>4. ASSUME NEW i \in DOMAIN w.candidates
      PROVE  i \in Nat /\ w.candidates[i].url \in Pages /\ w.candidates[i].depth \in 1..(MAX_DEPTH + 1)
              /\ w.candidates[i].depth \in Nat
  <2>1. i \in Nat /\ w.candidates[i] \in Candidate
    BY <1>1
  <2> QED
    BY <2>1, ExitAssumption DEF Candidate
<1> QED
  BY <1>1, <1>2, <1>3, <1>4

LEMMA LinkTyped ==
  ASSUME site \in Site, NEW p \in Pages, NEW n \in DOMAIN site.links[p]
  PROVE  /\ Link(p, n) \in [to: Pages, name: {"plain", "euphemism", "other"}]
         /\ Link(p, n).to \in Pages /\ Link(p, n).name \in {"plain", "euphemism", "other"}
         /\ n \in Nat /\ LinksTo(p, Link(p, n).to)
<1>1. site.links[p] \in Seq([to: Pages, name: {"plain", "euphemism", "other"}])
  BY DEF Site
<1>2. n \in Nat /\ site.links[p][n] \in [to: Pages, name: {"plain", "euphemism", "other"}]
  <2> DEFINE links == site.links[p]
             LinkRow == [to: Pages, name: {"plain", "euphemism", "other"}]
  <2>1. links \in Seq(LinkRow) /\ n \in DOMAIN links
    BY <1>1
  <2> HIDE DEF links, LinkRow
  <2>2. n \in Nat /\ links[n] \in LinkRow
    BY <2>1
  <2> QED
    BY <2>2 DEF links, LinkRow
<1> QED
  BY <1>2 DEF LinksTo, Link

\* Whether a link is queued, and whether it becomes a candidate.
IsQueued(w, link, depth) ==
  depth <= MAX_DEPTH /\ link.to \notin w.seen /\ Cardinality(w.seen) < MAX_PAGES * 2
IsNew(w, link) ==
  link.name # "other" /\ ~\E i \in DOMAIN w.candidates : w.candidates[i].url = link.to
EntryOf(link, depth) == [url |-> link.to, depth |-> depth]
FoundBy(link, depth) == [url |-> link.to, plain |-> link.name = "plain", depth |-> depth]

LEMMA FollowIs ==
  ASSUME NEW w \in Walk, NEW link \in [to: Pages, name: {"plain", "euphemism", "other"}],
         NEW d \in 0..MAX_DEPTH
  PROVE  /\ Follow(w, link, d + 1) \in Walk /\ Follow(w, link, d + 1).depthOf = w.depthOf
         /\ IsQueued(w, link, d + 1) =>
              /\ Follow(w, link, d + 1).seen = w.seen \cup {link.to}
              /\ Follow(w, link, d + 1).queue = Append(w.queue, EntryOf(link, d + 1))
         /\ ~IsQueued(w, link, d + 1) =>
              Follow(w, link, d + 1).seen = w.seen /\ Follow(w, link, d + 1).queue = w.queue
         /\ IsNew(w, link) =>
              Follow(w, link, d + 1).candidates =
                Append(w.candidates, FoundBy(link, d + 1))
         /\ ~IsNew(w, link) => Follow(w, link, d + 1).candidates = w.candidates
<1> DEFINE v == Follow(w, link, d + 1)
           entry == EntryOf(link, d + 1)
           found == FoundBy(link, d + 1)
           queue == IF IsQueued(w, link, d + 1) THEN Append(w.queue, entry) ELSE w.queue
           seen == IF IsQueued(w, link, d + 1) THEN w.seen \cup {link.to} ELSE w.seen
           candidates == IF IsNew(w, link) THEN Append(w.candidates, found) ELSE w.candidates
<1>1. w = [queue |-> w.queue, seen |-> w.seen, depthOf |-> w.depthOf, candidates |-> w.candidates]
      /\ w.queue \in Seq(Waiting) /\ w.candidates \in Seq(Candidate) /\ w.seen \in SUBSET Pages
      /\ w.depthOf \in DepthMap
  BY DEF Walk
<1>2. v = [w EXCEPT !.seen = seen, !.queue = queue, !.candidates = candidates]
  BY <1>1 DEF Follow, IsQueued, IsNew, EntryOf, FoundBy
<1>3. queue \in Seq(Waiting)
  <2>1. IsQueued(w, link, d + 1) => entry \in Waiting
    BY ExitAssumption DEF Waiting, IsQueued, EntryOf
  <2> QED
    BY <1>1, <2>1
<1>4. candidates \in Seq(Candidate)
  <2>1. found \in Candidate
    BY ExitAssumption DEF Candidate, FoundBy
  <2> QED
    BY <1>1, <2>1
<1>5. seen \in SUBSET Pages
  BY <1>1
<1>6. /\ v \in Walk /\ v.depthOf = w.depthOf /\ v.seen = seen /\ v.queue = queue
      /\ v.candidates = candidates
  <2> HIDE DEF v, queue, seen, candidates
  <2>1. v = [queue |-> queue, seen |-> seen, depthOf |-> w.depthOf, candidates |-> candidates]
    BY <1>1, <1>2
  <2> QED
    BY <1>1, <1>3, <1>4, <1>5, <2>1 DEF Walk
<1> QED
  BY <1>6

\* What one link followed does to the walk, part by part.
FollowStep(w, v, u, d, n) ==
  /\ w \in Walk /\ v \in Walk /\ d \in 0..MAX_DEPTH /\ site \in Site
  /\ u \in DOMAIN w.depthOf /\ w.depthOf[u] = d /\ n \in DOMAIN site.links[u]
  /\ v = Follow(w, Link(u, n), d + 1) /\ v.depthOf = w.depthOf
  /\ IsQueued(w, Link(u, n), d + 1) =>
       /\ v.seen = w.seen \cup {Link(u, n).to}
       /\ v.queue = Append(w.queue, EntryOf(Link(u, n), d + 1))
  /\ ~IsQueued(w, Link(u, n), d + 1) => v.seen = w.seen /\ v.queue = w.queue
  /\ IsNew(w, Link(u, n)) =>
       v.candidates = Append(w.candidates, FoundBy(Link(u, n), d + 1))
  /\ ~IsNew(w, Link(u, n)) => v.candidates = w.candidates
  /\ u \in Pages /\ n \in Nat /\ Link(u, n).to \in Pages /\ LinksTo(u, Link(u, n).to)

\* What stands in the queue and among the candidates then: what stood there, or the link.
LEMMA FollowAdds ==
  ASSUME NEW w, NEW v, NEW u, NEW d, NEW n, FollowStep(w, v, u, d, n)
  PROVE  /\ \A i \in DOMAIN w.queue : i \in DOMAIN v.queue /\ v.queue[i] = w.queue[i]
         /\ \A i \in DOMAIN v.queue \ DOMAIN w.queue :
              /\ IsQueued(w, Link(u, n), d + 1)
              /\ v.queue[i].url = Link(u, n).to /\ v.queue[i].depth = d + 1
              /\ \A j \in DOMAIN v.queue : j <= i /\ (j # i => j \in DOMAIN w.queue)
         /\ \A i \in DOMAIN w.candidates : i \in DOMAIN v.candidates /\ v.candidates[i] = w.candidates[i]
         /\ \A i \in DOMAIN v.candidates \ DOMAIN w.candidates :
              /\ IsNew(w, Link(u, n))
              /\ v.candidates[i].url = Link(u, n).to /\ v.candidates[i].depth = d + 1
              /\ \A j \in DOMAIN v.candidates : j <= i /\ (j # i => j \in DOMAIN w.candidates)
         /\ IsQueued(w, Link(u, n), d + 1) =>
              \E i \in DOMAIN v.queue : v.queue[i].url = Link(u, n).to
         /\ IsNew(w, Link(u, n)) =>
              \E i \in DOMAIN v.candidates :
                v.candidates[i].url = Link(u, n).to /\ v.candidates[i].depth = d + 1
<1>1. w.queue \in Seq(Waiting) /\ w.candidates \in Seq(Candidate)
  BY WalkTyped DEF FollowStep
<1> DEFINE entry == EntryOf(Link(u, n), d + 1)
           found == FoundBy(Link(u, n), d + 1)
<1>2. /\ entry.url = Link(u, n).to /\ entry.depth = d + 1
      /\ found.url = Link(u, n).to /\ found.depth = d + 1
  BY DEF EntryOf, FoundBy
<1>3. /\ v.queue = IF IsQueued(w, Link(u, n), d + 1) THEN Append(w.queue, entry) ELSE w.queue
      /\ v.candidates = IF IsNew(w, Link(u, n)) THEN Append(w.candidates, found) ELSE w.candidates
  BY DEF FollowStep
<1>4. \A s \in Seq(Waiting) :
        /\ DOMAIN s = 1..Len(s) /\ Len(s) \in Nat /\ DOMAIN Append(s, entry) = 1..(Len(s) + 1)
        /\ \A i \in 1..Len(s) : Append(s, entry)[i] = s[i]
        /\ Append(s, entry)[Len(s) + 1] = entry
  <2> HIDE DEF entry
  <2> QED
    OBVIOUS
<1>5. \A s \in Seq(Candidate) :
        /\ DOMAIN s = 1..Len(s) /\ Len(s) \in Nat /\ DOMAIN Append(s, found) = 1..(Len(s) + 1)
        /\ \A i \in 1..Len(s) : Append(s, found)[i] = s[i]
        /\ Append(s, found)[Len(s) + 1] = found
  <2> HIDE DEF found
  <2> QED
    OBVIOUS
<1> HIDE DEF entry, found
<1>6. IsQueued(w, Link(u, n), d + 1) =>
        /\ DOMAIN w.queue = 1..Len(w.queue) /\ Len(w.queue) \in Nat
        /\ DOMAIN v.queue = 1..(Len(w.queue) + 1)
        /\ \A i \in 1..Len(w.queue) : v.queue[i] = w.queue[i]
        /\ v.queue[Len(w.queue) + 1] = entry
  BY <1>1, <1>3, <1>4
<1>7. IsNew(w, Link(u, n)) =>
        /\ DOMAIN w.candidates = 1..Len(w.candidates) /\ Len(w.candidates) \in Nat
        /\ DOMAIN v.candidates = 1..(Len(w.candidates) + 1)
        /\ \A i \in 1..Len(w.candidates) : v.candidates[i] = w.candidates[i]
        /\ v.candidates[Len(w.candidates) + 1] = found
  BY <1>1, <1>3, <1>5
<1>8. ~IsQueued(w, Link(u, n), d + 1) => v.queue = w.queue
  BY <1>3
<1>9. ~IsNew(w, Link(u, n)) => v.candidates = w.candidates
  BY <1>3
<1>10. /\ \A i \in DOMAIN w.queue : i \in DOMAIN v.queue /\ v.queue[i] = w.queue[i]
       /\ \A i \in DOMAIN v.queue \ DOMAIN w.queue :
            /\ IsQueued(w, Link(u, n), d + 1)
            /\ v.queue[i].url = Link(u, n).to /\ v.queue[i].depth = d + 1
            /\ \A j \in DOMAIN v.queue : j <= i /\ (j # i => j \in DOMAIN w.queue)
       /\ IsQueued(w, Link(u, n), d + 1) =>
            \E i \in DOMAIN v.queue : v.queue[i].url = Link(u, n).to
  <2>1. CASE IsQueued(w, Link(u, n), d + 1)
    <3>1. PICK last \in Nat : last = Len(w.queue) + 1
      BY <1>6, <2>1
    <3>2. DOMAIN v.queue = 1..last /\ \A i \in 1..last : i \in DOMAIN w.queue \/ i = last
      BY <1>6, <2>1, <3>1
    <3>3. last \in DOMAIN v.queue /\ v.queue[last] = entry /\ \A i \in 1..last : i <= last
      BY <1>6, <2>1, <3>1
    <3>4. \A i \in DOMAIN w.queue : i \in DOMAIN v.queue /\ v.queue[i] = w.queue[i]
      BY <1>6, <2>1
    <3> QED
      BY <1>2, <2>1, <3>2, <3>3, <3>4
  <2> QED
    BY <1>8, <2>1
<1>11. /\ \A i \in DOMAIN w.candidates : i \in DOMAIN v.candidates /\ v.candidates[i] = w.candidates[i]
       /\ \A i \in DOMAIN v.candidates \ DOMAIN w.candidates :
            /\ IsNew(w, Link(u, n))
            /\ v.candidates[i].url = Link(u, n).to /\ v.candidates[i].depth = d + 1
            /\ \A j \in DOMAIN v.candidates : j <= i /\ (j # i => j \in DOMAIN w.candidates)
       /\ IsNew(w, Link(u, n)) =>
            \E i \in DOMAIN v.candidates :
              v.candidates[i].url = Link(u, n).to /\ v.candidates[i].depth = d + 1
  BY <1>2, <1>7, <1>9
<1> QED
  BY <1>10, <1>11

\* Following a link keeps what holds of the walk, and adds the link to those followed.
LEMMA FollowKeepsDepth ==
  ASSUME NEW w, NEW v, NEW u, NEW d, NEW n, FollowStep(w, v, u, d, n),
         AtDepth(w, d), AllJustified(w), SeenOnce(w)
  PROVE  AtDepth(v, d) /\ AllJustified(v)
<1>1. d \in Nat /\ v.depthOf = w.depthOf /\ v \in Walk /\ w \in Walk /\ u \in DOMAIN w.depthOf
      /\ w.depthOf[u] = d /\ LinksTo(u, Link(u, n).to)
  BY ExitAssumption DEF FollowStep
<1>2. \A i \in DOMAIN v.queue :
        \/ i \in DOMAIN w.queue /\ v.queue[i] = w.queue[i]
        \/ /\ v.queue[i].url = Link(u, n).to /\ v.queue[i].depth = d + 1
           /\ IsQueued(w, Link(u, n), d + 1)
           /\ \A j \in DOMAIN v.queue : j <= i /\ (j # i => j \in DOMAIN w.queue)
  BY FollowAdds
<1>3. \A i \in DOMAIN v.candidates :
        \/ i \in DOMAIN w.candidates /\ v.candidates[i] = w.candidates[i]
        \/ /\ v.candidates[i].url = Link(u, n).to /\ v.candidates[i].depth = d + 1
           /\ \A j \in DOMAIN v.candidates : j <= i /\ (j # i => j \in DOMAIN w.candidates)
  BY FollowAdds
<1>4. /\ \A i \in DOMAIN v.queue : i \in Nat /\ v.queue[i].depth \in Nat
      /\ \A i \in DOMAIN v.candidates : i \in Nat /\ v.candidates[i].depth \in Nat
  BY <1>1, WalkTyped
<1>5. \A i \in DOMAIN v.queue : d <= v.queue[i].depth /\ v.queue[i].depth <= d + 1
  BY <1>1, <1>2 DEF AtDepth
<1>6. \A i \in DOMAIN v.candidates : v.candidates[i].depth <= d + 1
  BY <1>1, <1>3 DEF AtDepth
<1>7. ASSUME NEW i \in DOMAIN v.queue, NEW j \in DOMAIN v.queue, i <= j
      PROVE  v.queue[i].depth <= v.queue[j].depth
  <2>1. CASE j \in DOMAIN w.queue /\ v.queue[j] = w.queue[j]
    <3>1. i \in DOMAIN w.queue /\ v.queue[i] = w.queue[i]
      BY <1>2, <1>4, <1>7, <2>1
    <3> QED
      BY <1>7, <2>1, <3>1 DEF AtDepth
  <2>2. CASE v.queue[j].depth = d + 1
    BY <1>5, <2>2
  <2> QED
    BY <1>2, <2>1, <2>2
<1>8. ASSUME NEW i \in DOMAIN v.candidates, NEW j \in DOMAIN v.candidates, i <= j
      PROVE  v.candidates[i].depth <= v.candidates[j].depth
  <2>1. CASE j \in DOMAIN w.candidates /\ v.candidates[j] = w.candidates[j]
    <3>1. i \in DOMAIN w.candidates /\ v.candidates[i] = w.candidates[i]
      BY <1>3, <1>4, <1>8, <2>1
    <3> QED
      BY <1>8, <2>1, <3>1 DEF AtDepth
  <2>2. CASE v.candidates[j].depth = d + 1
    BY <1>6, <2>2
  <2> QED
    BY <1>3, <2>1, <2>2
<1>9. AtDepth(v, d)
  <2>1. \A p \in DOMAIN v.depthOf : v.depthOf[p] <= d
    BY <1>1 DEF AtDepth
  <2> QED
    BY <1>5, <1>6, <1>7, <1>8, <2>1 DEF AtDepth
<1>10. AllJustified(v)
  <2>1. IsQueued(w, Link(u, n), d + 1) => Justified(w, Link(u, n).to, d + 1)
    BY <1>1 DEF Justified, SeenOnce, IsQueued
  <2>2. \A p \in DOMAIN v.depthOf : Justified(w, p, v.depthOf[p])
    BY <1>1 DEF AllJustified
  <2>3. \A i \in DOMAIN v.queue : Justified(w, v.queue[i].url, v.queue[i].depth)
    BY <1>2, <2>1 DEF AllJustified
  <2>4. \A url, depth : Justified(w, url, depth) => Justified(v, url, depth)
    BY <1>1 DEF Justified
  <2> QED
    BY <2>2, <2>3, <2>4 DEF AllJustified
<1> QED
  BY <1>9, <1>10

LEMMA FollowKeepsSeen ==
  ASSUME NEW w, NEW v, NEW u, NEW d, NEW n, FollowStep(w, v, u, d, n), SeenOnce(w)
  PROVE  SeenOnce(v)
<1> DEFINE to == Link(u, n).to
<1>1. v.depthOf = w.depthOf /\ v \in Walk /\ w \in Walk /\ w.seen \subseteq v.seen
  BY DEF FollowStep
<1>2. \A i \in DOMAIN v.queue :
        \/ i \in DOMAIN w.queue /\ v.queue[i] = w.queue[i]
        \/ /\ IsQueued(w, Link(u, n), d + 1) /\ v.queue[i].url = to
           /\ \A j \in DOMAIN v.queue : j # i => j \in DOMAIN w.queue /\ v.queue[j] = w.queue[j]
  BY FollowAdds
<1>3. IsQueued(w, Link(u, n), d + 1) => to \notin w.seen /\ to \in v.seen /\ v.seen = w.seen \cup {to}
  BY DEF FollowStep, IsQueued
<1>4. ~IsQueued(w, Link(u, n), d + 1) => v.seen = w.seen
  BY DEF FollowStep
<1> HIDE DEF to
<1>5. \A i \in DOMAIN v.queue : v.queue[i].url \in v.seen \ (DOMAIN v.depthOf \cup lost["walk"])
  BY <1>1, <1>2, <1>3 DEF SeenOnce
<1>6. ASSUME NEW i \in DOMAIN v.queue, NEW j \in DOMAIN v.queue, i # j
      PROVE  v.queue[i].url # v.queue[j].url
  <2>1. CASE i \in DOMAIN w.queue /\ v.queue[i] = w.queue[i] /\ j \in DOMAIN w.queue /\ v.queue[j] = w.queue[j]
    BY <1>6, <2>1 DEF SeenOnce
  <2>2. CASE v.queue[i].url = to /\ to \notin w.seen /\ j \in DOMAIN w.queue /\ v.queue[j] = w.queue[j]
    BY <2>2 DEF SeenOnce
  <2>3. CASE v.queue[j].url = to /\ to \notin w.seen /\ i \in DOMAIN w.queue /\ v.queue[i] = w.queue[i]
    BY <2>3 DEF SeenOnce
  <2> QED
    BY <1>2, <1>3, <1>6, <2>1, <2>2, <2>3
<1>7. \A p : Awaits(w, p) => Awaits(v, p)
  BY FollowAdds DEF Awaits
<1>8. IsQueued(w, Link(u, n), d + 1) => Awaits(v, to)
  BY FollowAdds DEF Awaits, to
<1>9. \A p \in v.seen : p \in DOMAIN v.depthOf \cup site.refused \cup lost["walk"] \/ Awaits(v, p)
  BY <1>1, <1>3, <1>4, <1>7, <1>8 DEF SeenOnce
<1> QED
  BY <1>1, <1>5, <1>6, <1>9 DEF SeenOnce

LEMMA SeenGrows ==
  ASSUME NEW S \in SUBSET Pages, NEW T \in SUBSET S
  PROVE  Cardinality(T) <= Cardinality(S) /\ Cardinality(S) \in Nat /\ Cardinality(T) \in Nat
<1>1. IsFiniteSet(S)
  BY ExitAssumption, FS_Subset
<1>2. IsFiniteSet(T) /\ Cardinality(T) <= Cardinality(S)
  BY <1>1, FS_Subset
<1> QED
  BY <1>1, <1>2, FS_CardinalityType

LEMMA FollowKeepsLinks ==
  ASSUME NEW w, NEW v, NEW u, NEW d, NEW n, FollowStep(w, v, u, d, n),
         AtDepth(w, d), AtDepth(v, d), NEW links \in SUBSET LinksRead(w), Followed(w, links)
  PROVE  Followed(v, links \cup {<<u, n>>})
<1>1. v.depthOf = w.depthOf /\ v \in Walk /\ w \in Walk /\ d \in Nat /\ d \in 0..MAX_DEPTH
      /\ w.seen \subseteq v.seen /\ u \in DOMAIN w.depthOf /\ w.depthOf[u] = d
  BY ExitAssumption DEF FollowStep
<1>2. Cardinality(w.seen) <= Cardinality(v.seen) /\ Cardinality(v.seen) \in Nat
      /\ Cardinality(w.seen) \in Nat /\ MAX_PAGES * 2 \in Nat /\ MAX_DEPTH \in Nat
  <2>1. v.seen \in SUBSET Pages /\ w.seen \in SUBSET v.seen
    BY <1>1, WalkTyped
  <2> QED
    BY <2>1, SeenGrows, ExitAssumption
<1>3. \A i \in DOMAIN v.queue :
        \/ i \in DOMAIN w.queue /\ v.queue[i] = w.queue[i]
        \/ IsQueued(w, Link(u, n), d + 1) /\ v.queue[i].url = Link(u, n).to
  BY FollowAdds
<1>4. IsQueued(w, Link(u, n), d + 1) =>
        /\ d + 1 <= MAX_DEPTH /\ Link(u, n).to \notin w.seen /\ Link(u, n).to \in v.seen
        /\ Cardinality(w.seen) < MAX_PAGES * 2
  BY DEF FollowStep, IsQueued
<1>5. ASSUME NEW l \in links PROVE LinkIsFollowed(v, l[1], l[2])
  <2> DEFINE p == l[1]
             to == Link(l[1], l[2]).to
  <2>1. /\ p \in DOMAIN w.depthOf
        /\ w.depthOf[p] < MAX_DEPTH /\ Cardinality(w.seen) < MAX_PAGES * 2 => to \in w.seen
        /\ to \in DOMAIN w.depthOf => w.depthOf[to] <= w.depthOf[p] + 1
        /\ \A i \in DOMAIN w.queue : w.queue[i].url = to => w.queue[i].depth <= w.depthOf[p] + 1
    BY <1>5 DEF Followed, LinkIsFollowed, LinksRead
  <2>2. w.depthOf[p] \in Nat /\ w.depthOf[p] <= d
    BY <1>1, <2>1, WalkTyped DEF AtDepth
  <2> HIDE DEF p, to
  <2>3. v.depthOf[p] < MAX_DEPTH /\ Cardinality(v.seen) < MAX_PAGES * 2 => to \in v.seen
    BY <1>1, <1>2, <2>1, <2>2
  <2>4. ASSUME NEW i \in DOMAIN v.queue, v.queue[i].url = to
        PROVE  v.queue[i].depth <= v.depthOf[p] + 1
    <3>1. CASE i \in DOMAIN w.queue /\ v.queue[i] = w.queue[i]
      BY <1>1, <2>1, <2>4, <3>1
    <3>2. CASE IsQueued(w, Link(u, n), d + 1) /\ v.queue[i].url = Link(u, n).to
      <4>1. to \notin w.seen /\ w.depthOf[p] < MAX_DEPTH /\ Cardinality(w.seen) < MAX_PAGES * 2
        BY <1>1, <1>2, <1>4, <2>2, <2>4, <3>2
      <4> QED
        BY <2>1, <4>1
    <3> QED
      BY <1>3, <3>1, <3>2
  <2>5. to \in DOMAIN v.depthOf => v.depthOf[to] <= v.depthOf[p] + 1
    BY <1>1, <2>1
  <2> QED
    BY <2>3, <2>4, <2>5 DEF LinkIsFollowed, p, to
<1>6. LinkIsFollowed(v, u, n)
  <2> DEFINE to == Link(u, n).to
  <2>1. v.depthOf[u] < MAX_DEPTH /\ Cardinality(v.seen) < MAX_PAGES * 2 => to \in v.seen
    <3>1. CASE IsQueued(w, Link(u, n), d + 1)
      BY <1>4, <3>1
    <3>2. CASE ~IsQueued(w, Link(u, n), d + 1)
      <4>1. v.seen = w.seen
        BY <3>2 DEF FollowStep
      <4> QED
        BY <1>1, <1>2, <3>2, <4>1 DEF IsQueued
    <3> QED
      BY <3>1, <3>2
  <2>2. \A q \in DOMAIN v.depthOf : v.depthOf[q] \in Nat /\ v.depthOf[q] <= d
    BY <1>1, WalkTyped DEF AtDepth
  <2>3. \A i \in DOMAIN v.queue : v.queue[i].depth <= d + 1
    BY DEF AtDepth
  <2> QED
    BY <1>1, <2>1, <2>2, <2>3 DEF LinkIsFollowed
<1> QED
  BY <1>5, <1>6 DEF Followed

LEMMA FollowKeepsCandidates ==
  ASSUME NEW w, NEW v, NEW u, NEW d, NEW n, FollowStep(w, v, u, d, n), lost["confirm"] = {},
         AtDepth(w, d), NEW links \in SUBSET LinksRead(w), Weighed(w, links), CandidatesStand(w)
  PROVE  Weighed(v, links \cup {<<u, n>>}) /\ CandidatesStand(v)
<1> DEFINE link == Link(u, n)
<1>1. v.depthOf = w.depthOf /\ v \in Walk /\ w \in Walk /\ d \in Nat
      /\ u \in DOMAIN w.depthOf /\ w.depthOf[u] = d /\ n \in Nat /\ n \in DOMAIN site.links[u]
  BY ExitAssumption DEF FollowStep
<1>2. /\ \A i \in DOMAIN w.candidates : i \in DOMAIN v.candidates /\ v.candidates[i] = w.candidates[i]
      /\ \A i \in DOMAIN v.candidates :
           \/ i \in DOMAIN w.candidates /\ v.candidates[i] = w.candidates[i]
           \/ /\ IsNew(w, link) /\ v.candidates[i].url = link.to /\ v.candidates[i].depth = d + 1
              /\ \A j \in DOMAIN v.candidates : j # i => j \in DOMAIN w.candidates
      /\ IsNew(w, link) =>
           \E i \in DOMAIN v.candidates : v.candidates[i].url = link.to /\ v.candidates[i].depth = d + 1
  BY FollowAdds
<1>3. ASSUME NEW l \in links PROVE LinkIsWeighed(v, l[1], l[2])
  <2>1. LinkIsWeighed(w, l[1], l[2])
    BY <1>3 DEF Weighed
  <2> QED
    BY <1>1, <1>2, <2>1 DEF LinkIsWeighed
<1>4. LinkIsWeighed(v, u, n)
  <2>1. CASE link.name = "other"
    BY <2>1 DEF LinkIsWeighed
  <2>2. CASE IsNew(w, link)
    <3>1. \E i \in DOMAIN v.candidates : v.candidates[i].url = link.to /\ v.candidates[i].depth <= d + 1
      BY <1>1, <1>2, <2>2
    <3> QED
      BY <1>1, <3>1 DEF LinkIsWeighed
  <2>3. CASE link.name # "other" /\ ~IsNew(w, link)
    <3>1. PICK i \in DOMAIN w.candidates : w.candidates[i].url = link.to
      BY <2>3 DEF IsNew
    <3>2. i \in DOMAIN v.candidates /\ v.candidates[i].url = link.to /\ v.candidates[i].depth <= d + 1
      BY <1>2, <3>1 DEF AtDepth
    <3> QED
      BY <1>1, <3>2 DEF LinkIsWeighed
  <2> QED
    BY <2>1, <2>2, <2>3
<1>5. \A c : CandidateStands(w, c) => CandidateStands(v, c)
  BY <1>1 DEF CandidateStands
<1>6. IsNew(w, link) => link.name # "other" /\ \A i \in DOMAIN w.candidates : w.candidates[i].url # link.to
  BY DEF IsNew
<1>7. ASSUME NEW i \in DOMAIN v.candidates PROVE CandidateStands(v, v.candidates[i])
  <2>1. CASE i \in DOMAIN w.candidates /\ v.candidates[i] = w.candidates[i]
    BY <1>5, <2>1 DEF CandidatesStand
  <2>2. CASE IsNew(w, link) /\ v.candidates[i].url = link.to /\ v.candidates[i].depth = d + 1
    BY <1>1, <1>6, <2>2 DEF CandidateStands
  <2> QED
    BY <1>2, <2>1, <2>2
<1>8. ASSUME NEW i \in DOMAIN v.candidates, NEW j \in DOMAIN v.candidates, i # j
      PROVE  v.candidates[i].url # v.candidates[j].url
  <2>1. CASE /\ i \in DOMAIN w.candidates /\ v.candidates[i] = w.candidates[i]
             /\ j \in DOMAIN w.candidates /\ v.candidates[j] = w.candidates[j]
    BY <1>8, <2>1 DEF CandidatesStand
  <2>2. CASE IsNew(w, link) /\ v.candidates[i].url = link.to /\ j \in DOMAIN w.candidates
    BY <1>2, <1>6, <2>2
  <2>3. CASE IsNew(w, link) /\ v.candidates[j].url = link.to /\ i \in DOMAIN w.candidates
    BY <1>2, <1>6, <2>3
  <2> QED
    BY <1>2, <1>8, <2>1, <2>2, <2>3
<1>9. Weighed(v, links \cup {<<u, n>>})
  BY <1>3, <1>4 DEF Weighed
<1> QED
  BY <1>7, <1>8, <1>9 DEF CandidatesStand

LEMMA StepIsFollow ==
  ASSUME site \in Site, NEW w \in Walk, NEW d \in 0..MAX_DEPTH, NEW u \in DOMAIN w.depthOf,
         w.depthOf[u] = d, NEW n \in DOMAIN site.links[u]
  PROVE  FollowStep(w, Follow(w, Link(u, n), d + 1), u, d, n)
<1>1. u \in Pages
  BY WalkTyped
<1>2. /\ Link(u, n) \in [to: Pages, name: {"plain", "euphemism", "other"}]
      /\ Link(u, n).to \in Pages /\ n \in Nat /\ LinksTo(u, Link(u, n).to)
  BY <1>1, LinkTyped
<1> DEFINE v == Follow(w, Link(u, n), d + 1)
<1>3. /\ v \in Walk /\ v.depthOf = w.depthOf
      /\ IsQueued(w, Link(u, n), d + 1) =>
           /\ v.seen = w.seen \cup {Link(u, n).to}
           /\ v.queue = Append(w.queue, EntryOf(Link(u, n), d + 1))
      /\ ~IsQueued(w, Link(u, n), d + 1) => v.seen = w.seen /\ v.queue = w.queue
      /\ IsNew(w, Link(u, n)) =>
           v.candidates = Append(w.candidates, FoundBy(Link(u, n), d + 1))
      /\ ~IsNew(w, Link(u, n)) => v.candidates = w.candidates
  BY <1>2, FollowIs
<1> HIDE DEF v
<1>4. FollowStep(w, v, u, d, n)
  BY <1>1, <1>2, <1>3 DEF FollowStep, v
<1> QED
  BY <1>4 DEF v

LEMMA AllLinksKept ==
  ASSUME site \in Site, lost["confirm"] = {}, NEW left \in Walk, NEW d \in 0..MAX_DEPTH,
         NEW u \in DOMAIN left.depthOf, left.depthOf[u] = d, NEW before \in SUBSET LinksRead(left),
         LinksRead(left) \subseteq before \cup {<<u, n>> : n \in DOMAIN site.links[u]},
         WalkFacts(left, d, before), Weighed(left, before)
  PROVE  LET w == FollowAll(left, site.links[u], d + 1) IN
         /\ w \in Walk /\ WalkFacts(w, d, LinksRead(w)) /\ Weighed(w, LinksRead(w))
<1> DEFINE links == site.links[u]
           Through(k) == before \cup {<<u, n>> : n \in 1..k}
           Keeps(w, k) == /\ w \in Walk /\ w.depthOf = left.depthOf
                          /\ WalkFacts(w, d, Through(k)) /\ Weighed(w, Through(k))
<1>1. u \in Pages
  BY WalkTyped
<1>2. Len(links) \in Nat /\ DOMAIN links = 1..Len(links)
  <2>1. links \in Seq([to: Pages, name: {"plain", "euphemism", "other"}])
    BY <1>1 DEF Site
  <2> QED
    BY <2>1
<1> DEFINE after == CHOOSE g : IsChain(g, left, links, d + 1, Len(links))
<1>3. /\ after[0] = left /\ after[Len(links)] = FollowAll(left, links, d + 1)
      /\ \A n \in 1..Len(links) : after[n] = Follow(after[n - 1], links[n], d + 1)
  <2>1. \E g : IsChain(g, left, links, d + 1, Len(links))
    BY <1>2, AfterExists
  <2>2. IsChain(after, left, links, d + 1, Len(links))
    BY <2>1
  <2>3. FollowAll(left, links, d + 1) = after[Len(links)]
    BY DEF FollowAll, IsChain
  <2> HIDE DEF after, links
  <2>4. \A n \in 0..Len(links) :
          after[n] = IF n = 0 THEN left ELSE Follow(after[n - 1], links[n], d + 1)
    BY <2>2 DEF IsChain
  <2> QED
    BY <1>2, <2>3, <2>4
<1> HIDE DEF after
<1> DEFINE Broken == {k \in Nat : k <= Len(links) /\ ~Keeps(after[k], k)}
<1>4. Keeps(after[0], 0)
  <2>1. Through(0) = before
    OBVIOUS
  <2> QED
    BY <1>3, <2>1
<1>5. ASSUME NEW k \in 1..Len(links), Keeps(after[k - 1], k - 1) PROVE Keeps(after[k], k)
  <2> DEFINE w == after[k - 1]
             v == after[k]
             done == Through(k - 1)
  <2>1. k \in DOMAIN site.links[u] /\ u \in DOMAIN w.depthOf /\ w.depthOf[u] = d /\ w \in Walk
    BY <1>2, <1>5
  <2>2. v = Follow(w, Link(u, k), d + 1)
    BY <1>3 DEF Link
  <2>3. done \in SUBSET LinksRead(w)
    <3>1. LinksRead(w) = LinksRead(left)
      BY <1>5 DEF LinksRead
    <3>2. \A n \in 1..(k - 1) : <<u, n>> \in LinksRead(left)
      BY <1>1, <1>2 DEF LinksRead
    <3> QED
      BY <3>1, <3>2
  <2>4. Through(k) = done \cup {<<u, k>>}
    <3>1. 1..k = (1..(k - 1)) \cup {k}
      OBVIOUS
    <3> QED
      BY <3>1
  <2>5. WalkFacts(w, d, done) /\ Weighed(w, done) /\ w.depthOf = left.depthOf
    BY <1>5
  <2> HIDE DEF w, v, done
  <2>6. FollowStep(w, v, u, d, k)
    BY <2>1, <2>2, StepIsFollow
  <2>7. AtDepth(v, d) /\ AllJustified(v)
    BY <2>5, <2>6, FollowKeepsDepth DEF WalkFacts
  <2>8. SeenOnce(v)
    BY <2>5, <2>6, FollowKeepsSeen DEF WalkFacts
  <2>9. Followed(v, done \cup {<<u, k>>})
    BY <2>3, <2>5, <2>6, <2>7, FollowKeepsLinks DEF WalkFacts
  <2>10. Weighed(v, done \cup {<<u, k>>}) /\ CandidatesStand(v)
    BY <2>3, <2>5, <2>6, FollowKeepsCandidates DEF WalkFacts
  <2>11. v \in Walk /\ v.depthOf = left.depthOf
    BY <2>5, <2>6 DEF FollowStep
  <2>12. Keeps(v, k)
    BY <2>4, <2>7, <2>8, <2>9, <2>10, <2>11 DEF WalkFacts
  <2> QED
    BY <2>12 DEF v
<1>6. Broken = {}
  <2>1. SUFFICES ASSUME Broken # {} PROVE FALSE
    BY <2>1
  <2>2. PICK k \in Broken : \A other \in Broken : k <= other
    BY <2>1, LeastOf
  <2>3. k \in Nat /\ k <= Len(links) /\ ~Keeps(after[k], k)
    BY <2>2
  <2> HIDE DEF Keeps
  <2>4. CASE k = 0
    BY <1>4, <2>3, <2>4
  <2>5. CASE k # 0
    <3>1. k - 1 \in Nat /\ k - 1 <= Len(links) /\ ~(k <= k - 1) /\ k \in 1..Len(links)
      BY <1>2, <2>3, <2>5
    <3>2. Keeps(after[k - 1], k - 1)
      BY <2>2, <3>1
    <3> QED
      BY <1>5, <2>3, <3>1, <3>2
  <2> QED
    BY <2>4, <2>5
<1> DEFINE w == FollowAll(left, links, d + 1)
<1>7. Keeps(w, Len(links))
  <2> HIDE DEF Keeps
  <2> QED
    BY <1>2, <1>3, <1>6
<1>8. LinksRead(w) = Through(Len(links))
  <2>1. LinksRead(w) = LinksRead(left)
    BY <1>7 DEF LinksRead
  <2>2. LinksRead(left) \subseteq Through(Len(links))
    BY <1>2
  <2>3. Through(Len(links)) \subseteq LinksRead(left)
    BY <1>1, <1>2 DEF LinksRead
  <2> QED
    BY <2>1, <2>2, <2>3
<1> QED
  BY <1>7, <1>8

LEMMA TailIs ==
  ASSUME NEW S, NEW q \in Seq(S), q # <<>>
  PROVE  /\ Tail(q) \in Seq(S) /\ Head(q) = q[1] /\ 1 \in DOMAIN q /\ Head(q) \in S
         /\ \A i \in DOMAIN Tail(q) : i \in Nat /\ i # 0 /\ i + 1 \in DOMAIN q /\ Tail(q)[i] = q[i + 1]
         /\ \A i \in DOMAIN q \ {1} : i \in Nat /\ i - 1 \in DOMAIN Tail(q) /\ Tail(q)[i - 1] = q[i]
OBVIOUS

\* The walk with the page at the head of the queue taken out of it.
Dequeued(w) == [w EXCEPT !.queue = Tail(@)]

LEMMA DequeuedIs ==
  ASSUME NEW w \in Walk, w.queue # <<>>
  PROVE  /\ Dequeued(w) \in Walk /\ Dequeued(w).queue = Tail(w.queue)
         /\ Dequeued(w).seen = w.seen /\ Dequeued(w).depthOf = w.depthOf
         /\ Dequeued(w).candidates = w.candidates
<1>1. /\ w = [queue |-> w.queue, seen |-> w.seen, depthOf |-> w.depthOf, candidates |-> w.candidates]
      /\ w.queue \in Seq(Waiting) /\ w.candidates \in Seq(Candidate) /\ w.seen \in SUBSET Pages
      /\ w.depthOf \in DepthMap
  BY DEF Walk
<1>2. Tail(w.queue) \in Seq(Waiting)
  BY <1>1, TailIs
<1> DEFINE rest == Tail(w.queue)
<1>3. Dequeued(w) = [w EXCEPT !.queue = rest]
  BY DEF Dequeued
<1> HIDE DEF rest
<1>4. Dequeued(w) = [queue |-> rest, seen |-> w.seen, depthOf |-> w.depthOf,
                     candidates |-> w.candidates]
  BY <1>1, <1>3
<1>5. rest = Tail(w.queue) /\ rest \in Seq(Waiting)
  BY <1>2 DEF rest
<1> QED
  BY <1>1, <1>4, <1>5 DEF Walk

LEMMA DequeuedStands ==
  ASSUME NEW w \in Walk, w.queue # <<>>, NEW d \in 0..MAX_DEPTH,
         NEW links \in SUBSET LinksRead(w), WalkFacts(w, d, links), Weighed(w, links)
  PROVE  LET v == Dequeued(w) IN
         /\ AtDepth(v, d) /\ AllJustified(v) /\ Followed(v, links) /\ Weighed(v, links)
         /\ CandidatesStand(v)
         /\ \A i \in DOMAIN v.queue : v.queue[i].url # Head(w.queue).url
         /\ \A p \in v.seen : p # Head(w.queue).url =>
              p \in DOMAIN v.depthOf \cup site.refused \cup lost["walk"] \/ Awaits(v, p)
         /\ \A i \in DOMAIN v.queue : v.queue[i].url \in v.seen \ (DOMAIN v.depthOf \cup lost["walk"])
         /\ \A i, j \in DOMAIN v.queue : i # j => v.queue[i].url # v.queue[j].url
         /\ \A i \in DOMAIN v.queue : Head(w.queue).depth <= v.queue[i].depth
<1>1. PICK v : v = Dequeued(w)
  OBVIOUS
<1>2. /\ v \in Walk /\ v.queue = Tail(w.queue) /\ v.seen = w.seen /\ v.depthOf = w.depthOf
      /\ v.candidates = w.candidates
  BY <1>1, DequeuedIs
<1>3. w.queue \in Seq(Waiting)
  BY WalkTyped
<1>4. /\ \A i \in DOMAIN v.queue : i \in Nat /\ i # 0 /\ i + 1 \in DOMAIN w.queue /\ v.queue[i] = w.queue[i + 1]
      /\ \A i \in DOMAIN w.queue \ {1} : i \in Nat /\ i - 1 \in DOMAIN v.queue /\ v.queue[i - 1] = w.queue[i]
      /\ 1 \in DOMAIN w.queue /\ Head(w.queue) = w.queue[1]
  BY <1>2, <1>3, TailIs
<1>5. AtDepth(v, d)
  <2>1. \A i \in DOMAIN v.queue : d <= v.queue[i].depth /\ v.queue[i].depth <= d + 1
    BY <1>4 DEF AtDepth, WalkFacts
  <2>2. \A i, j \in DOMAIN v.queue : i <= j => v.queue[i].depth <= v.queue[j].depth
    BY <1>4 DEF AtDepth, WalkFacts
  <2> QED
    BY <1>2, <2>1, <2>2 DEF AtDepth, WalkFacts
<1>6. AllJustified(v)
  BY <1>2, <1>4 DEF AllJustified, Justified, WalkFacts
<1>7. Followed(v, links)
  BY <1>2, <1>4 DEF Followed, LinkIsFollowed, WalkFacts
<1>8. Weighed(v, links)
  BY <1>2 DEF Weighed, LinkIsWeighed
<1>9. CandidatesStand(v)
  BY <1>2 DEF CandidatesStand, CandidateStands, WalkFacts
<1>10. SeenOnce(w) /\ AtDepth(w, d)
  BY DEF WalkFacts
<1>11. \A i \in DOMAIN v.queue : v.queue[i].url # Head(w.queue).url
  BY <1>4, <1>10 DEF SeenOnce
<1>12. \A p \in v.seen : p # Head(w.queue).url =>
         p \in DOMAIN v.depthOf \cup site.refused \cup lost["walk"] \/ Awaits(v, p)
  <2> SUFFICES ASSUME NEW p \in w.seen, p # Head(w.queue).url, Awaits(w, p) PROVE Awaits(v, p)
    BY <1>2, <1>10 DEF SeenOnce
  <2>1. PICK i \in DOMAIN w.queue : w.queue[i].url = p
    BY DEF Awaits
  <2>2. i # 1
    BY <1>4, <2>1
  <2> QED
    BY <1>4, <2>1, <2>2 DEF Awaits
<1>13. \A i \in DOMAIN v.queue : v.queue[i].url \in v.seen \ (DOMAIN v.depthOf \cup lost["walk"])
  BY <1>2, <1>4, <1>10 DEF SeenOnce
<1>14. \A i, j \in DOMAIN v.queue : i # j => v.queue[i].url # v.queue[j].url
  <2> SUFFICES ASSUME NEW i \in DOMAIN v.queue, NEW j \in DOMAIN v.queue, i # j
               PROVE  v.queue[i].url # v.queue[j].url
    OBVIOUS
  <2>1. i + 1 # j + 1
    BY <1>4
  <2> QED
    BY <1>4, <1>10, <2>1 DEF SeenOnce
<1>15. \A i \in DOMAIN v.queue : Head(w.queue).depth <= v.queue[i].depth
  <2> SUFFICES ASSUME NEW i \in DOMAIN v.queue PROVE w.queue[1].depth <= v.queue[i].depth
    BY <1>4
  <2>1. 1 <= i + 1
    BY <1>4
  <2> QED
    BY <1>4, <1>10, <2>1 DEF AtDepth
<1> QED
  BY <1>1, <1>5, <1>6, <1>7, <1>8, <1>9, <1>11, <1>12, <1>13, <1>14, <1>15

\* The walk as the page at the head of the queue is read, before its links are followed.
Opened(w) ==
  LET next == Head(w.queue) IN
  [w EXCEPT !.queue = Tail(@),
            !.depthOf = [url \in DOMAIN w.depthOf \cup {next.url} |->
                           IF url = next.url THEN next.depth ELSE w.depthOf[url]]]

LEMMA OpenedIs ==
  ASSUME NEW w \in Walk, w.queue # <<>>, Head(w.queue).url \notin DOMAIN w.depthOf
  PROVE  LET u == Head(w.queue).url IN
         /\ Opened(w) \in Walk /\ Opened(w).queue = Dequeued(w).queue /\ Opened(w).seen = w.seen
         /\ Opened(w).candidates = w.candidates
         /\ DOMAIN Opened(w).depthOf = DOMAIN w.depthOf \cup {u} /\ Opened(w).depthOf[u] = Head(w.queue).depth
         /\ \A p \in DOMAIN w.depthOf : Opened(w).depthOf[p] = w.depthOf[p]
<1> DEFINE next == Head(w.queue)
           rest == Tail(w.queue)
           read == [url \in DOMAIN w.depthOf \cup {next.url} |->
                      IF url = next.url THEN next.depth ELSE w.depthOf[url]]
<1>1. /\ w = [queue |-> w.queue, seen |-> w.seen, depthOf |-> w.depthOf, candidates |-> w.candidates]
      /\ w.queue \in Seq(Waiting) /\ w.candidates \in Seq(Candidate) /\ w.seen \in SUBSET Pages
  BY DEF Walk
<1>2. rest \in Seq(Waiting) /\ next \in Waiting
  BY <1>1, TailIs
<1>3. next.url \in Pages /\ next.depth \in 0..MAX_DEPTH
  BY <1>2 DEF Waiting
<1>4. DOMAIN w.depthOf \in SUBSET Pages /\ \A p \in DOMAIN w.depthOf : w.depthOf[p] \in 0..MAX_DEPTH
  BY WalkTyped
<1>5. /\ DOMAIN read = DOMAIN w.depthOf \cup {next.url} /\ read[next.url] = next.depth
      /\ \A p \in DOMAIN w.depthOf : read[p] = w.depthOf[p]
  OBVIOUS
<1>6. read \in [DOMAIN w.depthOf \cup {next.url} -> 0..MAX_DEPTH]
  <2> DEFINE known == DOMAIN w.depthOf \cup {next.url}
             at(url) == IF url = next.url THEN next.depth ELSE w.depthOf[url]
  <2>1. \A url \in known : at(url) \in 0..MAX_DEPTH
    BY <1>3, <1>4
  <2> HIDE DEF known, at
  <2>2. [url \in known |-> at(url)] \in [known -> 0..MAX_DEPTH]
    BY <2>1
  <2> QED
    BY <2>2 DEF known, at
<1>7. read \in DepthMap
  <2> HIDE DEF read
  <2>1. DOMAIN w.depthOf \cup {next.url} \in SUBSET Pages
    BY <1>3, <1>4
  <2> QED
    BY <1>6, <2>1 DEF DepthMap
<1>8. Opened(w) = [w EXCEPT !.queue = rest, !.depthOf = read]
  BY DEF Opened
<1>9. Dequeued(w).queue = rest
  BY DequeuedIs
<1> HIDE DEF read, rest
<1>10. Opened(w) = [queue |-> rest, seen |-> w.seen, depthOf |-> read, candidates |-> w.candidates]
  BY <1>1, <1>8
<1>11. Opened(w) \in Walk
  BY <1>1, <1>2, <1>7, <1>10 DEF Walk
<1> QED
  BY <1>5, <1>9, <1>10, <1>11

LEMMA OpenedStands ==
  ASSUME NEW w \in Walk, w.queue # <<>>, NEW d \in 0..MAX_DEPTH, Head(w.queue).url \notin site.refused,
         WalkFacts(w, d, LinksRead(w)), Weighed(w, LinksRead(w))
  PROVE  LET u == Head(w.queue).url IN
         /\ Opened(w) \in Walk /\ u \in DOMAIN Opened(w).depthOf
         /\ Opened(w).depthOf[u] = Head(w.queue).depth /\ Head(w.queue).depth \in 0..MAX_DEPTH
         /\ WalkFacts(Opened(w), Head(w.queue).depth, LinksRead(w)) /\ Weighed(Opened(w), LinksRead(w))
         /\ LinksRead(w) \in SUBSET LinksRead(Opened(w))
         /\ LinksRead(Opened(w)) \subseteq LinksRead(w) \cup {<<u, n>> : n \in DOMAIN site.links[u]}
<1>1. PICK u, e, v, o, links :
        /\ u = Head(w.queue).url /\ e = Head(w.queue).depth /\ v = Dequeued(w) /\ o = Opened(w)
        /\ links = LinksRead(w)
  OBVIOUS
<1>2. AtDepth(w, d) /\ AllJustified(w) /\ SeenOnce(w) /\ Followed(w, links)
  BY <1>1 DEF WalkFacts
<1>3. /\ 1 \in DOMAIN w.queue /\ u = w.queue[1].url /\ e = w.queue[1].depth
      /\ u \in Pages /\ e \in 0..MAX_DEPTH /\ e \in Nat /\ d \in Nat /\ d <= e /\ e <= d + 1
  <2>1. w.queue \in Seq(Waiting)
    BY WalkTyped
  <2>2. 1 \in DOMAIN w.queue /\ Head(w.queue) = w.queue[1]
    BY <2>1, TailIs
  <2> QED
    BY <1>1, <1>2, <2>2, WalkTyped, ExitAssumption DEF AtDepth
<1>4. u \in w.seen \ (DOMAIN w.depthOf \cup lost["walk"])
  BY <1>2, <1>3 DEF SeenOnce
<1>5. /\ o \in Walk /\ o.queue = v.queue /\ o.seen = w.seen /\ o.candidates = w.candidates
      /\ DOMAIN o.depthOf = DOMAIN w.depthOf \cup {u} /\ o.depthOf[u] = e
      /\ \A p \in DOMAIN w.depthOf : o.depthOf[p] = w.depthOf[p]
  BY <1>1, <1>4, OpenedIs
<1>6. /\ v.seen = w.seen /\ v.depthOf = w.depthOf /\ v.candidates = w.candidates /\ v \in Walk
  BY <1>1, DequeuedIs
<1>7. /\ AtDepth(v, d) /\ AllJustified(v) /\ Followed(v, links) /\ Weighed(v, links)
      /\ CandidatesStand(v)
      /\ \A i \in DOMAIN v.queue : v.queue[i].url # u
      /\ \A p \in v.seen : p # u =>
           p \in DOMAIN v.depthOf \cup site.refused \cup lost["walk"] \/ Awaits(v, p)
      /\ \A i \in DOMAIN v.queue : v.queue[i].url \in v.seen \ (DOMAIN v.depthOf \cup lost["walk"])
      /\ \A i, j \in DOMAIN v.queue : i # j => v.queue[i].url # v.queue[j].url
      /\ \A i \in DOMAIN v.queue : e <= v.queue[i].depth
  BY <1>1, DequeuedStands
<1>8. AtDepth(o, e)
  <2>1. \A p \in DOMAIN o.depthOf : o.depthOf[p] <= e
    BY <1>2, <1>3, <1>5, WalkTyped DEF AtDepth
  <2>2. \A i \in DOMAIN o.queue : e <= o.queue[i].depth /\ o.queue[i].depth <= e + 1
    <3>1. ASSUME NEW i \in DOMAIN v.queue
          PROVE  v.queue[i].depth \in Nat /\ e <= v.queue[i].depth /\ v.queue[i].depth <= d + 1
      BY <1>6, <1>7, <3>1, WalkTyped, ExitAssumption DEF AtDepth
    <3>2. ASSUME NEW i \in DOMAIN v.queue PROVE e <= v.queue[i].depth /\ v.queue[i].depth <= e + 1
      BY <1>3, <3>1
    <3> QED
      BY <1>5, <3>2
  <2>3. \A i \in DOMAIN o.candidates : o.candidates[i].depth <= e + 1
    BY <1>2, <1>3, <1>5, WalkTyped DEF AtDepth
  <2> QED
    BY <1>2, <1>5, <1>7, <2>1, <2>2, <2>3 DEF AtDepth
<1>9. AllJustified(o)
  <2>1. \A url, depth : Justified(w, url, depth) => Justified(o, url, depth)
    BY <1>5 DEF Justified
  <2>2. Justified(w, u, e)
    BY <1>2, <1>3 DEF AllJustified
  <2>3. \A i \in DOMAIN o.queue : Justified(w, o.queue[i].url, o.queue[i].depth)
    BY <1>5, <1>6, <1>7 DEF AllJustified, Justified
  <2>4. \A p \in DOMAIN w.depthOf : Justified(w, p, o.depthOf[p])
    BY <1>2, <1>5 DEF AllJustified
  <2> QED
    BY <1>5, <2>1, <2>2, <2>3, <2>4 DEF AllJustified
<1>10. SeenOnce(o)
  <2>1. \A p : Awaits(v, p) => Awaits(o, p)
    BY <1>5 DEF Awaits
  <2>2. \A p \in o.seen : p \in DOMAIN o.depthOf \cup site.refused \cup lost["walk"] \/ Awaits(o, p)
    BY <1>5, <1>6, <1>7, <2>1
  <2>3. \A i \in DOMAIN o.queue : o.queue[i].url \in o.seen \ (DOMAIN o.depthOf \cup lost["walk"])
    BY <1>5, <1>6, <1>7
  <2>4. DOMAIN o.depthOf \cap (site.refused \cup lost["walk"]) = {} /\ DOMAIN o.depthOf \subseteq o.seen
    BY <1>1, <1>2, <1>4, <1>5 DEF SeenOnce
  <2>5. FrontDoor \in o.seen /\ lost["walk"] \subseteq o.seen
    BY <1>2, <1>5 DEF SeenOnce
  <2>6. \A i, j \in DOMAIN o.queue : i # j => o.queue[i].url # o.queue[j].url
    BY <1>5, <1>7
  <2> QED
    BY <2>2, <2>3, <2>4, <2>5, <2>6 DEF SeenOnce
<1>11. ASSUME NEW l \in links PROVE LinkIsFollowed(o, l[1], l[2]) /\ LinkIsWeighed(o, l[1], l[2])
  <2>1. l[1] \in DOMAIN w.depthOf
    BY <1>1, <1>11 DEF LinksRead
  <2>2. /\ LinkIsFollowed(w, l[1], l[2]) /\ LinkIsFollowed(v, l[1], l[2])
        /\ LinkIsWeighed(v, l[1], l[2])
    BY <1>2, <1>7, <1>11 DEF Followed, Weighed
  <2>3. Link(l[1], l[2]).to = u => e <= w.depthOf[l[1]] + 1
    BY <1>3, <2>2 DEF LinkIsFollowed
  <2>4. LinkIsFollowed(o, l[1], l[2])
    BY <1>5, <1>6, <2>1, <2>2, <2>3 DEF LinkIsFollowed
  <2>5. LinkIsWeighed(o, l[1], l[2])
    BY <1>5, <1>6, <2>1, <2>2 DEF LinkIsWeighed
  <2> QED
    BY <2>4, <2>5
<1>12. CandidatesStand(o)
  <2>1. \A c : CandidateStands(v, c) => CandidateStands(o, c)
    BY <1>5, <1>6 DEF CandidateStands
  <2> QED
    BY <1>5, <1>6, <1>7, <2>1 DEF CandidatesStand
<1>13. WalkFacts(o, e, links) /\ Weighed(o, links)
  BY <1>8, <1>9, <1>10, <1>11, <1>12 DEF WalkFacts, Followed, Weighed
<1>14. links \in SUBSET LinksRead(o)
  BY <1>1, <1>5 DEF LinksRead
<1>15. LinksRead(o) \subseteq links \cup {<<u, n>> : n \in DOMAIN site.links[u]}
  BY <1>1, <1>5 DEF LinksRead
<1> QED
  BY <1>1, <1>3, <1>5, <1>13, <1>14, <1>15

\* What is said of a walk stays while the site does and, of what was lost, its part.
LEMMA SiteFrame ==
  ASSUME NEW w, NEW d, NEW links, site' = site,
         AtDepth(w, d), AllJustified(w), Followed(w, links)
  PROVE  AtDepth(w, d)' /\ AllJustified(w)' /\ Followed(w, links)'
<1>1. AtDepth(w, d)'
  BY DEF AtDepth
<1>2. AllJustified(w)'
  BY DEF AllJustified, Justified, LinksTo
<1>3. Followed(w, links)'
  BY DEF Followed, LinkIsFollowed, Link
<1> QED
  BY <1>1, <1>2, <1>3

LEMMA CandidatesFrame ==
  ASSUME NEW w, NEW links, site' = site, lost'["confirm"] = lost["confirm"], CandidatesStand(w)
  PROVE  CandidatesStand(w)' /\ (Weighed(w, links) => Weighed(w, links)')
<1>1. CandidatesStand(w)'
  BY DEF CandidatesStand, CandidateStands, Link
<1>2. Weighed(w, links) => Weighed(w, links)'
  BY DEF Weighed, LinkIsWeighed, Link
<1> QED
  BY <1>1, <1>2

LEMMA SeenFrame ==
  ASSUME NEW w, site' = site, lost'["walk"] = lost["walk"], SeenOnce(w) PROVE SeenOnce(w)'
BY DEF SeenOnce, Awaits

\* A walk is where it was, or has become w.
LEMMA WalkMoves ==
  ASSUME NEW w, walk' = w, site' = site, NEW d, NEW links, links = LinksRead(w),
         AtDepth(w, d)', AllJustified(w)', SeenOnce(w)', Followed(w, links)', CandidatesStand(w)'
  PROVE  WalkFacts(walk, d, LinksRead(walk))' /\ (Weighed(w, links)' => Weighed(walk, LinksRead(walk))')
<1>1. LinksRead(walk)' = links
  BY DEF LinksRead
<1>2. WalkFacts(w, d, links)'
  BY DEF WalkFacts
<1> QED
  BY <1>1, <1>2

LEMMA WalkStays ==
  ASSUME NEW w, walk' = w, site' = site, lost' = lost, NEW d, WalkFacts(w, d, LinksRead(w))
  PROVE  /\ WalkFacts(walk, d, LinksRead(walk))'
         /\ Weighed(w, LinksRead(w)) => Weighed(walk, LinksRead(walk))'
<1>1. PICK links : links = LinksRead(w)
  OBVIOUS
<1>2. AtDepth(w, d) /\ AllJustified(w) /\ SeenOnce(w) /\ Followed(w, links) /\ CandidatesStand(w)
  BY <1>1 DEF WalkFacts
<1>3. AtDepth(w, d)' /\ AllJustified(w)' /\ Followed(w, links)'
  BY <1>2, SiteFrame
<1>4. SeenOnce(w)'
  BY <1>2, SeenFrame
<1>5. CandidatesStand(w)' /\ (Weighed(w, links) => Weighed(w, links)')
  BY <1>2, CandidatesFrame
<1> QED
  BY <1>1, <1>3, <1>4, <1>5, WalkMoves

----------------------------------------------------------------------------

LEMMA ExitStarts == ExitInit => ExitInv
<1> SUFFICES ASSUME ExitInit PROVE ExitInv
  OBVIOUS
<1> DEFINE start == [url |-> FrontDoor, depth |-> 0]
<1>1. /\ site \in Sites /\ exit = [at |-> "walk", signals |-> NoExit]
      /\ walk = [queue |-> <<start>>, seen |-> {FrontDoor}, depthOf |-> [p \in {} |-> 0],
                 candidates |-> <<>>]
      /\ lost = [pass \in {"walk", "confirm"} |-> {}] /\ answered = {}
  BY DEF ExitInit
<1>2. start \in Waiting /\ start.url = FrontDoor /\ start.depth = 0
  BY ExitAssumption DEF Waiting
<1>3. [p \in {} |-> 0] \in DepthMap /\ DOMAIN [p \in {} |-> 0] = {}
  <2>1. [p \in {} |-> 0] \in [{} -> 0..MAX_DEPTH]
    OBVIOUS
  <2> QED
    BY <2>1 DEF DepthMap
<1> HIDE DEF start
<1>4. <<start>> \in Seq(Waiting) /\ DOMAIN <<start>> = {1} /\ <<start>>[1] = start
  BY <1>2
<1>5. /\ walk.queue = <<start>> /\ walk.seen = {FrontDoor} /\ DOMAIN walk.depthOf = {}
      /\ walk.candidates = <<>> /\ DOMAIN walk.candidates = {} /\ DOMAIN walk.queue = {1}
      /\ walk.queue[1].url = FrontDoor /\ walk.queue[1].depth = 0
  BY <1>1, <1>2, <1>3, <1>4
<1>6. walk \in Walk
  BY <1>1, <1>3, <1>4, ExitAssumption DEF Walk
<1>7. exit \in [at: {"walk", "confirm", "measured", "unreadable", "stopped"}, signals: Signals]
  <2>1. NoExit \in Signals
    BY ExitAssumption DEF NoExit, ExitMeasured, Signals, Depths, NotFound
  <2> QED
    BY <1>1, <2>1
<1>8. ExitTyped
  <2>1. site \in Site
    BY <1>1, ExitAssumption
  <2>2. lost \in [{"walk", "confirm"} -> SUBSET Pages] /\ answered \in SUBSET Pages
    BY <1>1
  <2> QED
    BY <1>6, <1>7, <2>1, <2>2 DEF ExitTyped
<1>9. LinksRead(walk) = {}
  BY <1>5 DEF LinksRead
<1>10. lost["walk"] = {} /\ lost["confirm"] = {}
  BY <1>1
<1>11. WalkFacts(walk, 0, LinksRead(walk)) /\ Weighed(walk, LinksRead(walk))
  <2>1. AtDepth(walk, 0)
    BY <1>5 DEF AtDepth
  <2>2. AllJustified(walk)
    BY <1>5 DEF AllJustified, Justified
  <2>3. SeenOnce(walk)
    BY <1>5, <1>10 DEF SeenOnce, Awaits
  <2>4. Followed(walk, LinksRead(walk)) /\ Weighed(walk, LinksRead(walk))
    BY <1>9 DEF Followed, Weighed
  <2>5. CandidatesStand(walk)
    BY <1>5 DEF CandidatesStand
  <2> QED
    BY <2>1, <2>2, <2>3, <2>4, <2>5 DEF WalkFacts
<1>12. exit.at = "walk"
  BY <1>1
<1> QED
  BY <1>8, <1>10, <1>11, <1>12, ExitAssumption DEF ExitInv

LEMMA ReadPageKeeps == ExitInv /\ ReadPage => ExitInv'
<1> SUFFICES ASSUME ExitInv, ReadPage PROVE ExitInv'
  OBVIOUS
<1>1. /\ exit.at = "walk" /\ walk.queue # <<>> /\ Head(walk.queue).url \notin site.refused
      /\ site' = site /\ lost' = lost /\ answered' = answered /\ exit' = exit
      /\ walk' = FollowAll(Opened(walk), site.links[Head(walk.queue).url], Head(walk.queue).depth + 1)
  BY DEF ReadPage, Walking, Opened
<1>2. walk \in Walk /\ site \in Site /\ lost["confirm"] = {} /\ Weighed(walk, LinksRead(walk))
  BY <1>1 DEF ExitInv, ExitTyped
<1>3. PICK d \in 0..MAX_DEPTH : WalkFacts(walk, d, LinksRead(walk))
  BY <1>1 DEF ExitInv
<1>4. PICK u, e, o, before : /\ u = Head(walk.queue).url /\ e = Head(walk.queue).depth
                             /\ o = Opened(walk) /\ before = LinksRead(walk)
  OBVIOUS
<1>5. /\ o \in Walk /\ u \in DOMAIN o.depthOf /\ o.depthOf[u] = e /\ e \in 0..MAX_DEPTH
      /\ WalkFacts(o, e, before) /\ Weighed(o, before) /\ before \in SUBSET LinksRead(o)
      /\ LinksRead(o) \subseteq before \cup {<<u, n>> : n \in DOMAIN site.links[u]}
  BY <1>1, <1>2, <1>3, <1>4, OpenedStands
<1>6. PICK w : w = FollowAll(o, site.links[u], e + 1)
  OBVIOUS
<1>7. w \in Walk /\ WalkFacts(w, e, LinksRead(w)) /\ Weighed(w, LinksRead(w))
  BY <1>2, <1>5, <1>6, AllLinksKept
<1>8. walk' = w
  BY <1>1, <1>4, <1>6
<1>9. WalkFacts(walk, e, LinksRead(walk))' /\ Weighed(walk, LinksRead(walk))'
  BY <1>1, <1>7, <1>8, WalkStays
<1>10. ExitTyped'
  BY <1>1, <1>7, <1>8 DEF ExitInv, ExitTyped
<1>11. exit'.at = "walk" /\ lost'["confirm"] = {}
  BY <1>1, <1>2
<1> QED
  BY <1>5, <1>9, <1>10, <1>11 DEF ExitInv

\* A page that does not answer is taken out of the queue: refused every time, or lost now.
LEMMA PageGone ==
  ASSUME ExitInv, NEW u, u = Head(walk.queue).url, exit.at = "walk", walk.queue # <<>>, Skip(u),
         u \in site.refused \/ u \in lost'["walk"],
         lost' \in [{"walk", "confirm"} -> SUBSET Pages],
         lost["walk"] \subseteq lost'["walk"], lost'["walk"] \subseteq lost["walk"] \cup {u},
         lost'["confirm"] = lost["confirm"]
  PROVE  ExitInv'
<1>1. /\ walk' = Dequeued(walk) /\ site' = site /\ answered' = answered
      /\ exit' = IF u = FrontDoor THEN [exit EXCEPT !.at = "unreadable"] ELSE exit
  BY DEF Skip, Dequeued
<1>2. /\ walk \in Walk /\ site \in Site /\ lost["confirm"] = {} /\ Weighed(walk, LinksRead(walk))
      /\ exit \in [at: {"walk", "confirm", "measured", "unreadable", "stopped"}, signals: Signals]
  BY DEF ExitInv, ExitTyped
<1>3. PICK d \in 0..MAX_DEPTH : WalkFacts(walk, d, LinksRead(walk))
  BY DEF ExitInv
<1>4. PICK v, links : v = Dequeued(walk) /\ links = LinksRead(walk)
  OBVIOUS
<1>5. /\ v \in Walk /\ v.seen = walk.seen /\ v.depthOf = walk.depthOf
  BY <1>2, <1>4, DequeuedIs
<1>6. /\ AtDepth(v, d) /\ AllJustified(v) /\ Followed(v, links) /\ Weighed(v, links)
      /\ CandidatesStand(v)
      /\ \A i \in DOMAIN v.queue : v.queue[i].url # u
      /\ \A p \in v.seen : p # u =>
           p \in DOMAIN v.depthOf \cup site.refused \cup lost["walk"] \/ Awaits(v, p)
      /\ \A i \in DOMAIN v.queue : v.queue[i].url \in v.seen \ (DOMAIN v.depthOf \cup lost["walk"])
      /\ \A i, j \in DOMAIN v.queue : i # j => v.queue[i].url # v.queue[j].url
  BY <1>2, <1>3, <1>4, DequeuedStands
<1>7. links = LinksRead(v)
  BY <1>4, <1>5 DEF LinksRead
<1>8. SeenOnce(walk) /\ u \in walk.seen \ DOMAIN walk.depthOf
  <2>1. walk.queue \in Seq(Waiting)
    BY <1>2, WalkTyped
  <2>2. 1 \in DOMAIN walk.queue /\ u = walk.queue[1].url
    BY <2>1, TailIs
  <2> QED
    BY <1>3, <2>2 DEF WalkFacts, SeenOnce
<1>9. SeenOnce(v)'
  <2>1. \A p : Awaits(v, p)' <=> Awaits(v, p)
    BY DEF Awaits
  <2>2. FrontDoor \in v.seen /\ DOMAIN v.depthOf \subseteq v.seen /\ lost'["walk"] \subseteq v.seen
    BY <1>5, <1>8 DEF SeenOnce
  <2>3. DOMAIN v.depthOf \cap (site.refused \cup lost'["walk"]) = {}
    BY <1>5, <1>8 DEF SeenOnce
  <2>4. \A i \in DOMAIN v.queue : v.queue[i].url \in v.seen \ (DOMAIN v.depthOf \cup lost'["walk"])
    BY <1>6
  <2>5. \A p \in v.seen :
          p \in DOMAIN v.depthOf \cup site.refused \cup lost'["walk"] \/ Awaits(v, p)
    BY <1>6
  <2> QED
    BY <1>1, <1>6, <2>1, <2>2, <2>3, <2>4, <2>5 DEF SeenOnce
<1>10. AtDepth(v, d)' /\ AllJustified(v)' /\ Followed(v, links)'
  BY <1>1, <1>6, SiteFrame
<1>11. CandidatesStand(v)' /\ Weighed(v, links)'
  BY <1>1, <1>6, CandidatesFrame
<1>12. WalkFacts(walk, d, LinksRead(walk))' /\ Weighed(walk, LinksRead(walk))'
  BY <1>1, <1>4, <1>7, <1>9, <1>10, <1>11, WalkMoves
<1>13. exit' \in [at: {"walk", "confirm", "measured", "unreadable", "stopped"}, signals: Signals]
       /\ exit'.at \in {"walk", "unreadable"}
  BY <1>1, <1>2
<1>14. ExitTyped'
  BY <1>1, <1>4, <1>5, <1>13 DEF ExitInv, ExitTyped
<1> QED
  BY <1>2, <1>12, <1>13, <1>14 DEF ExitInv

LEMMA PageIsRefusedKeeps == ExitInv /\ PageIsRefused => ExitInv'
<1> SUFFICES ASSUME ExitInv, PageIsRefused PROVE ExitInv'
  OBVIOUS
<1>1. PICK u : u = Head(walk.queue).url
  OBVIOUS
<1>2. /\ exit.at = "walk" /\ walk.queue # <<>> /\ u \in site.refused /\ Skip(u) /\ lost' = lost
  BY <1>1 DEF PageIsRefused, Walking
<1>3. lost \in [{"walk", "confirm"} -> SUBSET Pages]
  BY DEF ExitInv, ExitTyped
<1> QED
  BY <1>1, <1>2, <1>3, PageGone

LEMMA PageIsLostKeeps == ExitInv /\ PageIsLost => ExitInv'
<1> SUFFICES ASSUME ExitInv, PageIsLost PROVE ExitInv'
  OBVIOUS
<1>1. PICK u : u = Head(walk.queue).url
  OBVIOUS
<1>2. /\ exit.at = "walk" /\ walk.queue # <<>> /\ Skip(u)
      /\ lost' = [lost EXCEPT !["walk"] = @ \cup {u}]
  BY <1>1 DEF PageIsLost, Walking
<1>3. lost \in [{"walk", "confirm"} -> SUBSET Pages] /\ walk \in Walk
  BY DEF ExitInv, ExitTyped
<1>4. u \in Pages
  <2>1. walk.queue \in Seq(Waiting)
    BY <1>3, WalkTyped
  <2>2. Head(walk.queue) \in Waiting
    BY <1>2, <2>1, TailIs
  <2> QED
    BY <1>1, <2>2 DEF Waiting
<1>5. /\ lost' \in [{"walk", "confirm"} -> SUBSET Pages]
      /\ lost'["walk"] = lost["walk"] \cup {u} /\ lost'["confirm"] = lost["confirm"]
  BY <1>2, <1>3, <1>4
<1> QED
  BY <1>1, <1>2, <1>5, PageGone

LEMMA EndOfWalkKeeps == ExitInv /\ EndOfWalk => ExitInv'
<1> SUFFICES ASSUME ExitInv, EndOfWalk PROVE ExitInv'
  OBVIOUS
<1>1. /\ exit.at = "walk" /\ exit' = [exit EXCEPT !.at = "confirm"]
      /\ site' = site /\ walk' = walk /\ lost' = lost /\ answered' = answered
  BY DEF EndOfWalk
<1>2. PICK w : w = walk
  OBVIOUS
<1>3. PICK d \in 0..MAX_DEPTH : WalkFacts(w, d, LinksRead(w))
  BY <1>1, <1>2 DEF ExitInv
<1>4. Weighed(w, LinksRead(w)) /\ ExitTyped
  BY <1>1, <1>2 DEF ExitInv
<1>5. WalkFacts(walk, d, LinksRead(walk))' /\ Weighed(walk, LinksRead(walk))'
  BY <1>1, <1>2, <1>3, <1>4, WalkStays
<1>6. ExitTyped' /\ exit'.at = "confirm"
  BY <1>1, <1>4 DEF ExitTyped
<1> QED
  BY <1>5, <1>6 DEF ExitInv

LEMMA StopKeeps == ExitInv /\ Stop => ExitInv'
<1> SUFFICES ASSUME ExitInv, Stop PROVE ExitInv'
  OBVIOUS
<1>1. /\ exit' = [at |-> "stopped", signals |-> NoExit]
      /\ site' = site /\ walk' = walk /\ lost' = lost /\ answered' = answered
  BY DEF Stop
<1>2. NoExit \in Signals
  BY ExitAssumption DEF NoExit, ExitMeasured, Signals, Depths, NotFound
<1>3. ExitTyped' /\ exit'.at = "stopped"
  BY <1>1, <1>2 DEF ExitInv, ExitTyped
<1> QED
  BY <1>3 DEF ExitInv

LEMMA JoinIs ==
  ASSUME ExitTyped
  PROVE  /\ NearestJoin \in Depths
         /\ \A p \in DOMAIN walk.depthOf \cap site.joins : NearestJoin <= walk.depthOf[p]
         /\ NearestJoin # NotFound =>
              \E p \in DOMAIN walk.depthOf \cap site.joins : NearestJoin = walk.depthOf[p]
<1> DEFINE joining == {p \in DOMAIN walk.depthOf : p \in site.joins}
           depths == {walk.depthOf[p] : p \in joining}
<1>1. \A p \in DOMAIN walk.depthOf : walk.depthOf[p] \in 0..MAX_DEPTH /\ walk.depthOf[p] \in Nat
  BY WalkTyped DEF ExitTyped
<1>2. CASE joining = {}
  BY <1>2, ExitAssumption DEF NearestJoin, Depths, NotFound
<1>3. CASE joining # {}
  <2>1. depths \in SUBSET Nat /\ depths # {}
    BY <1>1, <1>3
  <2>2. \E d \in depths : \A p \in joining : d <= walk.depthOf[p]
    <3>1. PICK d \in depths : \A k \in depths : d <= k
      <4> HIDE DEF depths
      <4> QED
        BY <2>1, LeastOf
    <3>2. \A p \in joining : walk.depthOf[p] \in depths
      OBVIOUS
    <3> QED
      BY <3>1, <3>2
  <2>3. NearestJoin = CHOOSE d \in depths : \A p \in joining : d <= walk.depthOf[p]
    BY <1>3 DEF NearestJoin
  <2>4. NearestJoin \in depths /\ \A p \in joining : NearestJoin <= walk.depthOf[p]
    BY <2>2, <2>3
  <2>5. PICK p \in joining : NearestJoin = walk.depthOf[p]
    BY <2>4
  <2> QED
    BY <1>1, <2>4, <2>5, ExitAssumption DEF Depths, NotFound
<1> QED
  BY <1>2, <1>3

\* The walk with its first candidate taken.
Tried(w) == [w EXCEPT !.candidates = Tail(@)]

LEMMA TriedIs ==
  ASSUME NEW w \in Walk, w.candidates # <<>>
  PROVE  /\ Tried(w) \in Walk /\ Tried(w).queue = w.queue /\ Tried(w).seen = w.seen
         /\ Tried(w).depthOf = w.depthOf /\ Tried(w).candidates = Tail(w.candidates)
<1>1. /\ w = [queue |-> w.queue, seen |-> w.seen, depthOf |-> w.depthOf, candidates |-> w.candidates]
      /\ w.queue \in Seq(Waiting) /\ w.candidates \in Seq(Candidate) /\ w.seen \in SUBSET Pages
      /\ w.depthOf \in DepthMap
  BY DEF Walk
<1> DEFINE rest == Tail(w.candidates)
<1>2. rest \in Seq(Candidate)
  BY <1>1, TailIs
<1>3. Tried(w) = [w EXCEPT !.candidates = rest]
  BY DEF Tried
<1> HIDE DEF rest
<1>4. Tried(w) = [queue |-> w.queue, seen |-> w.seen, depthOf |-> w.depthOf, candidates |-> rest]
  BY <1>1, <1>3
<1>5. rest = Tail(w.candidates)
  BY DEF rest
<1> QED
  BY <1>1, <1>2, <1>4, <1>5 DEF Walk

\* What the first candidate is: no deeper than any other, and none of them twice.
LEMMA FirstCandidate ==
  ASSUME NEW w \in Walk, w.candidates # <<>>, NEW d, AtDepth(w, d), CandidatesStand(w)
  PROVE  LET first == Head(w.candidates)
             v == Tried(w) IN
         /\ first \in Candidate /\ CandidateStands(w, first) /\ first.url \notin lost["confirm"]
         /\ \A i \in DOMAIN w.candidates : first.depth <= w.candidates[i].depth
         /\ \A i \in DOMAIN w.candidates :
              w.candidates[i] = first \/ \E j \in DOMAIN v.candidates : v.candidates[j] = w.candidates[i]
         /\ \A i \in DOMAIN v.candidates : v.candidates[i].url # first.url
         /\ AtDepth(v, d) /\ CandidatesStand(v)
<1>1. PICK v, first : v = Tried(w) /\ first = Head(w.candidates)
  OBVIOUS
<1>2. /\ v.queue = w.queue /\ v.depthOf = w.depthOf /\ v.candidates = Tail(w.candidates)
  BY <1>1, TriedIs
<1>3. w.candidates \in Seq(Candidate) /\ \A i \in DOMAIN w.candidates : i \in Nat
  BY WalkTyped
<1>4. /\ 1 \in DOMAIN w.candidates /\ first = w.candidates[1] /\ first \in Candidate
      /\ \A i \in DOMAIN v.candidates :
           i \in Nat /\ i # 0 /\ i + 1 \in DOMAIN w.candidates /\ v.candidates[i] = w.candidates[i + 1]
      /\ \A i \in DOMAIN w.candidates \ {1} :
           i - 1 \in DOMAIN v.candidates /\ v.candidates[i - 1] = w.candidates[i]
  BY <1>1, <1>2, <1>3, TailIs
<1>5. \A i \in DOMAIN w.candidates : 1 <= i
  <2>1. DOMAIN w.candidates = 1..Len(w.candidates)
    BY <1>3
  <2> QED
    BY <1>3, <2>1
<1>6. \A i \in DOMAIN w.candidates : first.depth <= w.candidates[i].depth
  BY <1>4, <1>5 DEF AtDepth
<1>7. CandidateStands(w, first) /\ first.url \notin lost["confirm"]
  BY <1>4 DEF CandidatesStand
<1>8. \A i \in DOMAIN v.candidates : v.candidates[i].url # first.url
  BY <1>4 DEF CandidatesStand
<1>9. AtDepth(v, d)
  BY <1>2, <1>4 DEF AtDepth
<1>10. CandidatesStand(v)
  <2>1. \A c : CandidateStands(w, c) => CandidateStands(v, c)
    BY <1>2 DEF CandidateStands
  <2>2. ASSUME NEW i \in DOMAIN v.candidates, NEW j \in DOMAIN v.candidates, i # j
        PROVE  v.candidates[i].url # v.candidates[j].url
    <3>1. i + 1 # j + 1
      BY <1>4, <2>2
    <3> QED
      BY <1>4, <3>1 DEF CandidatesStand
  <2> QED
    BY <1>4, <2>1, <2>2 DEF CandidatesStand
<1> QED
  BY <1>1, <1>4, <1>6, <1>7, <1>8, <1>9, <1>10

LEMMA TriedStands ==
  ASSUME NEW w \in Walk, w.candidates # <<>>, NEW d, WalkFacts(w, d, LinksRead(w))
  PROVE  WalkFacts(Tried(w), d, LinksRead(Tried(w))) /\ LinksRead(Tried(w)) = LinksRead(w)
<1>1. PICK v, links : v = Tried(w) /\ links = LinksRead(w)
  OBVIOUS
<1>2. AtDepth(w, d) /\ AllJustified(w) /\ SeenOnce(w) /\ Followed(w, links) /\ CandidatesStand(w)
  BY <1>1 DEF WalkFacts
<1>3. v.queue = w.queue /\ v.seen = w.seen /\ v.depthOf = w.depthOf
  BY <1>1, TriedIs
<1>4. AtDepth(v, d) /\ CandidatesStand(v)
  BY <1>1, <1>2, FirstCandidate
<1>5. AllJustified(v)
  BY <1>2, <1>3 DEF AllJustified, Justified
<1>6. Followed(v, links)
  BY <1>2, <1>3 DEF Followed, LinkIsFollowed
<1>7. SeenOnce(v)
  BY <1>2, <1>3 DEF SeenOnce, Awaits
<1>8. LinksRead(v) = links
  BY <1>1, <1>3 DEF LinksRead
<1> QED
  BY <1>1, <1>4, <1>5, <1>6, <1>7, <1>8 DEF WalkFacts

\* A candidate that leads nowhere is taken off the list.
LEMMA CandidateGone ==
  ASSUME ExitInv, exit.at = "confirm", walk.candidates # <<>>, NEW url, url = Head(walk.candidates).url,
         walk' = Tried(walk), site' = site, exit' = exit, answered' \in SUBSET Pages,
         lost' \in [{"walk", "confirm"} -> SUBSET Pages], lost'["walk"] = lost["walk"],
         lost["confirm"] \subseteq lost'["confirm"], lost'["confirm"] \subseteq lost["confirm"] \cup {url},
         site.offers[url] = "nothing" \/ url \in lost'["confirm"]
  PROVE  ExitInv'
<1>1. walk \in Walk /\ site \in Site /\ Weighed(walk, LinksRead(walk))
  BY DEF ExitInv, ExitTyped
<1>2. PICK d \in 0..MAX_DEPTH : WalkFacts(walk, d, LinksRead(walk))
  BY DEF ExitInv
<1>3. PICK v, links, first : v = Tried(walk) /\ links = LinksRead(walk) /\ first = Head(walk.candidates)
  OBVIOUS
<1>4. /\ AtDepth(walk, d) /\ AllJustified(walk) /\ SeenOnce(walk) /\ Followed(walk, links)
      /\ CandidatesStand(walk) /\ Weighed(walk, links)
  BY <1>1, <1>2, <1>3 DEF WalkFacts
<1>5. v \in Walk /\ v.queue = walk.queue /\ v.seen = walk.seen /\ v.depthOf = walk.depthOf
  BY <1>1, <1>3, TriedIs
<1>6. /\ \A i \in DOMAIN walk.candidates :
           walk.candidates[i] = first \/ \E j \in DOMAIN v.candidates : v.candidates[j] = walk.candidates[i]
      /\ \A i \in DOMAIN v.candidates : v.candidates[i].url # url
      /\ AtDepth(v, d) /\ CandidatesStand(v)
  BY <1>1, <1>3, <1>4, FirstCandidate
<1>7. AllJustified(v) /\ Followed(v, links) /\ SeenOnce(v) /\ links = LinksRead(v)
  BY <1>1, <1>2, <1>3, TriedStands DEF WalkFacts
<1>8. AtDepth(v, d)' /\ AllJustified(v)' /\ Followed(v, links)'
  BY <1>6, <1>7, SiteFrame
<1>9. SeenOnce(v)'
  BY <1>7, SeenFrame
<1>10. CandidatesStand(v)'
  <2>1. \A c : CandidateStands(v, c)' <=> CandidateStands(v, c)
    BY DEF CandidateStands, Link
  <2>2. \A i \in DOMAIN v.candidates : v.candidates[i].url \notin lost'["confirm"]
    BY <1>6 DEF CandidatesStand
  <2> QED
    BY <1>6, <2>1, <2>2 DEF CandidatesStand
<1>11. ASSUME NEW l \in links PROVE LinkIsWeighed(v, l[1], l[2])'
  <2> DEFINE to == Link(l[1], l[2])
  <2>1. LinkIsWeighed(walk, l[1], l[2])
    BY <1>4, <1>11 DEF Weighed
  <2>2. Link(l[1], l[2])' = to
    BY DEF Link
  <2>3. CASE to.name = "other" \/ site.offers[to.to] = "nothing" \/ to.to \in lost["confirm"]
    BY <2>2, <2>3 DEF LinkIsWeighed
  <2>4. CASE \E i \in DOMAIN walk.candidates :
               walk.candidates[i].url = to.to /\ walk.candidates[i].depth <= walk.depthOf[l[1]] + 1
    <3>1. PICK i \in DOMAIN walk.candidates :
             walk.candidates[i].url = to.to /\ walk.candidates[i].depth <= walk.depthOf[l[1]] + 1
      BY <2>4
    <3>2. CASE walk.candidates[i] = first
      <4>1. to.to = url
        BY <1>3, <3>1, <3>2
      <4> QED
        BY <2>2, <4>1 DEF LinkIsWeighed
    <3>3. CASE walk.candidates[i] # first
      <4>1. PICK j \in DOMAIN v.candidates : v.candidates[j] = walk.candidates[i]
        BY <1>6, <3>3
      <4>2. v.candidates[j].url = to.to /\ v.candidates[j].depth <= v.depthOf[l[1]] + 1
        BY <1>5, <3>1, <4>1
      <4> QED
        BY <2>2, <4>2 DEF LinkIsWeighed
    <3> QED
      BY <3>2, <3>3
  <2> QED
    BY <2>1, <2>3, <2>4 DEF LinkIsWeighed
<1>12. Weighed(v, links)'
  BY <1>11 DEF Weighed
<1>13. WalkFacts(walk, d, LinksRead(walk))' /\ Weighed(walk, LinksRead(walk))'
  BY <1>3, <1>7, <1>8, <1>9, <1>10, <1>12, WalkMoves
<1>14. ExitTyped'
  BY <1>3, <1>5 DEF ExitInv, ExitTyped
<1> QED
  BY <1>13, <1>14 DEF ExitInv

LEMMA CandidateIsLostKeeps == ExitInv /\ CandidateIsLost => ExitInv'
<1> SUFFICES ASSUME ExitInv, CandidateIsLost PROVE ExitInv'
  OBVIOUS
<1>1. PICK url : url = Head(walk.candidates).url
  OBVIOUS
<1>2. /\ exit.at = "confirm" /\ walk.candidates # <<>> /\ walk' = Tried(walk)
      /\ lost' = [lost EXCEPT !["confirm"] = @ \cup {url}]
      /\ site' = site /\ answered' = answered /\ exit' = exit
  BY <1>1 DEF CandidateIsLost, Tried
<1>3. lost \in [{"walk", "confirm"} -> SUBSET Pages] /\ walk \in Walk /\ answered \in SUBSET Pages
  BY DEF ExitInv, ExitTyped
<1>4. url \in Pages
  <2>1. walk.candidates \in Seq(Candidate)
    BY <1>3, WalkTyped
  <2>2. Head(walk.candidates) \in Candidate
    BY <1>2, <2>1, TailIs
  <2> QED
    BY <1>1, <2>2 DEF Candidate
<1>5. /\ lost' \in [{"walk", "confirm"} -> SUBSET Pages]
      /\ lost'["confirm"] = lost["confirm"] \cup {url} /\ lost'["walk"] = lost["walk"]
  BY <1>2, <1>3, <1>4
<1> QED
  BY <1>1, <1>2, <1>3, <1>5, CandidateGone

\* The measurement is of the pages read and of what leads out of them.
LEMMA MeasuredThen ==
  ASSUME ExitInv, exit.at = "confirm", NEW w, walk' = w, w \in Walk, w.depthOf = walk.depthOf,
         NEW d \in 0..MAX_DEPTH, WalkFacts(w, d, LinksRead(w)),
         site' = site, lost' = lost, answered' \in SUBSET Pages,
         NEW s \in Signals, exit' = [at |-> "measured", signals |-> s], s.subscribe = NearestJoin,
         s.found => \E p \in DOMAIN walk.depthOf : LeadsOut(p) /\ s.cancel = walk.depthOf[p] + 1,
         \A p \in DOMAIN walk.depthOf : LeadsOut(p) => s.found /\ s.cancel <= walk.depthOf[p] + 1
  PROVE  ExitInv'
<1>1. WalkFacts(walk, d, LinksRead(walk))'
  BY WalkStays
<1>2. ExitTyped
  BY DEF ExitInv
<1>3. ExitTyped' /\ exit'.at = "measured" /\ exit'.signals = s
  BY <1>2 DEF ExitTyped
<1>4. \A p : LeadsOut(p)' <=> LeadsOut(p)
  BY DEF LeadsOut
<1>5. /\ \A p \in DOMAIN walk.depthOf \cap site.joins : s.subscribe <= walk.depthOf[p]
      /\ s.subscribe # NotFound =>
           \E p \in DOMAIN walk.depthOf \cap site.joins : s.subscribe = walk.depthOf[p]
  BY <1>2, JoinIs
<1>6. Measured'
  <2>1. walk'.depthOf = walk.depthOf /\ NotFound' = NotFound
    BY DEF NotFound
  <2> QED
    BY <1>3, <1>4, <1>5, <2>1 DEF Measured
<1> QED
  BY <1>1, <1>3, <1>6 DEF ExitInv

LEMMA ConfirmKeeps == ExitInv /\ Confirm => ExitInv'
<1> SUFFICES ASSUME ExitInv, Confirm PROVE ExitInv'
  OBVIOUS
<1>1. PICK first, s : /\ first = Head(walk.candidates)
                      /\ s = ExitMeasured(TRUE, site.offers[first.url] = "oneself",
                                          first.plain, first.depth, NearestJoin)
  OBVIOUS
<1>2. /\ exit.at = "confirm" /\ walk.candidates # <<>> /\ walk' = Tried(walk)
      /\ answered' = answered \cup {first.url} /\ site' = site /\ lost' = lost
      /\ exit' = IF ~Offers(first.url) THEN exit ELSE [at |-> "measured", signals |-> s]
  BY <1>1 DEF Confirm, Tried
<1>3. /\ walk \in Walk /\ site \in Site /\ Weighed(walk, LinksRead(walk)) /\ ExitTyped
      /\ answered \in SUBSET Pages /\ lost \in [{"walk", "confirm"} -> SUBSET Pages]
  BY <1>2 DEF ExitInv, ExitTyped
<1>4. PICK d \in 0..MAX_DEPTH : WalkFacts(walk, d, LinksRead(walk))
  BY <1>2 DEF ExitInv
<1>5. /\ first \in Candidate /\ CandidateStands(walk, first) /\ first.url \notin lost["confirm"]
      /\ \A i \in DOMAIN walk.candidates : first.depth <= walk.candidates[i].depth
  BY <1>1, <1>2, <1>3, <1>4, FirstCandidate DEF WalkFacts
<1>6. first.url \in Pages /\ first.plain \in BOOLEAN /\ first.depth \in 1..(MAX_DEPTH + 1)
  BY <1>5 DEF Candidate
<1>7. CASE ~Offers(first.url)
  <2>1. exit' = exit /\ answered' \in SUBSET Pages
    BY <1>2, <1>3, <1>6, <1>7
  <2>2. site.offers[first.url] = "nothing"
    BY <1>7 DEF Offers
  <2> QED
    BY <1>1, <1>2, <1>3, <2>1, <2>2, CandidateGone
<1>8. CASE Offers(first.url)
  <2>1. s \in Signals /\ s.found /\ s.cancel = first.depth /\ s.subscribe = NearestJoin
    <3>1. /\ NearestJoin \in Depths /\ first.depth \in Depths
          /\ (site.offers[first.url] = "oneself") \in BOOLEAN
      BY <1>3, <1>6, JoinIs, ExitAssumption DEF Depths, NotFound
    <3>2. PICK self \in BOOLEAN : self = (site.offers[first.url] = "oneself")
      BY <3>1
    <3>3. s = [found |-> TRUE, selfService |-> self, plain |-> first.plain,
               cancel |-> first.depth, subscribe |-> NearestJoin]
      BY <1>1, <3>2 DEF ExitMeasured
    <3> QED
      BY <1>6, <3>1, <3>2, <3>3 DEF Signals
  <2>2. PICK p \in DOMAIN walk.depthOf, n \in Nat :
          /\ walk.depthOf[p] + 1 = first.depth /\ n \in DOMAIN site.links[p]
          /\ Link(p, n).to = first.url /\ Link(p, n).name # "other"
    BY <1>5 DEF CandidateStands
  <2>3. LeadsOut(p) /\ s.cancel = walk.depthOf[p] + 1
    BY <1>5, <1>8, <2>1, <2>2 DEF LeadsOut, Offers, Link
  <2>4. ASSUME NEW q \in DOMAIN walk.depthOf, LeadsOut(q) PROVE s.cancel <= walk.depthOf[q] + 1
    <3>1. PICK m \in DOMAIN site.links[q] :
             /\ Link(q, m).name # "other" /\ site.offers[Link(q, m).to] # "nothing"
             /\ Link(q, m).to \notin lost["confirm"]
      BY <2>4 DEF LeadsOut, Link
    <3>2. q \in Pages /\ walk.depthOf[q] \in Nat
      BY <1>3, WalkTyped
    <3>3. m \in Nat
      BY <1>3, <3>1, <3>2, LinkTyped
    <3>4. <<q, m>> \in LinksRead(walk)
      BY <3>1, <3>2, <3>3 DEF LinksRead
    <3>5. LinkIsWeighed(walk, q, m)
      BY <1>3, <3>4 DEF Weighed
    <3>6. PICK i \in DOMAIN walk.candidates : walk.candidates[i].depth <= walk.depthOf[q] + 1
      BY <3>1, <3>5 DEF LinkIsWeighed
    <3>7. walk.candidates[i].depth \in Nat /\ first.depth \in Nat
      BY <1>3, <1>6, WalkTyped, ExitAssumption
    <3> QED
      BY <1>5, <2>1, <3>2, <3>6, <3>7
  <2>5. exit' = [at |-> "measured", signals |-> s] /\ answered' \in SUBSET Pages
    BY <1>2, <1>3, <1>6, <1>8
  <2>6. PICK w : w = Tried(walk)
    OBVIOUS
  <2>7. w \in Walk /\ w.depthOf = walk.depthOf /\ WalkFacts(w, d, LinksRead(w)) /\ walk' = w
    BY <1>2, <1>3, <1>4, <2>6, TriedIs, TriedStands
  <2> QED
    BY <1>2, <2>1, <2>3, <2>4, <2>5, <2>7, MeasuredThen
<1> QED
  BY <1>7, <1>8

LEMMA NoneLeftKeeps == ExitInv /\ NoneLeft => ExitInv'
<1> SUFFICES ASSUME ExitInv, NoneLeft PROVE ExitInv'
  OBVIOUS
<1>1. PICK s, w : s = [NoExit EXCEPT !.subscribe = NearestJoin] /\ w = walk
  OBVIOUS
<1>2. /\ exit.at = "confirm" /\ walk.candidates = <<>> /\ exit' = [at |-> "measured", signals |-> s]
      /\ site' = site /\ walk' = w /\ lost' = lost /\ answered' = answered
  BY <1>1 DEF NoneLeft
<1>3. /\ w \in Walk /\ site \in Site /\ Weighed(w, LinksRead(w)) /\ ExitTyped
      /\ answered \in SUBSET Pages
  BY <1>1, <1>2 DEF ExitInv, ExitTyped
<1>4. PICK d \in 0..MAX_DEPTH : WalkFacts(w, d, LinksRead(w))
  BY <1>1, <1>2 DEF ExitInv
<1>5. s \in Signals /\ ~s.found /\ s.subscribe = NearestJoin
  <2>1. NearestJoin \in Depths /\ NotFound \in Depths
    BY <1>3, JoinIs, ExitAssumption DEF Depths, NotFound
  <2>2. s = [found |-> FALSE, selfService |-> FALSE, plain |-> FALSE,
             cancel |-> NotFound, subscribe |-> NearestJoin]
    BY <1>1 DEF NoExit, ExitMeasured
  <2> QED
    BY <2>1, <2>2 DEF Signals
<1>6. ASSUME NEW q \in DOMAIN w.depthOf, LeadsOut(q) PROVE FALSE
  <2>1. PICK m \in DOMAIN site.links[q] :
           /\ Link(q, m).name # "other" /\ site.offers[Link(q, m).to] # "nothing"
           /\ Link(q, m).to \notin lost["confirm"]
    BY <1>6 DEF LeadsOut, Link
  <2>2. q \in Pages /\ m \in Nat
    BY <1>3, <2>1, WalkTyped, LinkTyped
  <2>3. <<q, m>> \in LinksRead(w)
    BY <1>6, <2>1, <2>2 DEF LinksRead
  <2>4. LinkIsWeighed(w, q, m)
    BY <1>3, <2>3 DEF Weighed
  <2>5. DOMAIN w.candidates = {}
    BY <1>1, <1>2
  <2> QED
    BY <2>1, <2>4, <2>5 DEF LinkIsWeighed
<1> QED
  BY <1>1, <1>2, <1>3, <1>4, <1>5, <1>6, MeasuredThen

LEMMA ExitSteps == ExitInv /\ [ExitNext]_exitVars => ExitInv'
<1>1. ExitInv /\ UNCHANGED exitVars => ExitInv'
  <2> SUFFICES ASSUME ExitInv, UNCHANGED exitVars PROVE ExitInv'
    OBVIOUS
  <2>1. site' = site /\ walk' = walk /\ lost' = lost /\ answered' = answered /\ exit' = exit
    BY DEF exitVars
  <2>2. PICK w : w = walk
    OBVIOUS
  <2>3. ExitTyped' /\ (exit.at = "walk" => lost'["confirm"] = {})
    BY <2>1 DEF ExitInv, ExitTyped
  <2>4. exit.at \in {"walk", "confirm", "measured"} =>
          \E d \in 0..MAX_DEPTH : WalkFacts(walk, d, LinksRead(walk))'
    BY <2>1, <2>2, WalkStays DEF ExitInv
  <2>5. exit.at \in {"walk", "confirm"} => Weighed(walk, LinksRead(walk))'
    BY <2>1, <2>2, WalkStays DEF ExitInv
  <2>6. exit.at = "measured" => Measured'
    BY <2>1 DEF ExitInv, Measured, LeadsOut, NotFound
  <2> QED
    BY <2>1, <2>3, <2>4, <2>5, <2>6 DEF ExitInv
<1> QED
  BY <1>1, ReadPageKeeps, PageIsRefusedKeeps, PageIsLostKeeps, EndOfWalkKeeps, ConfirmKeeps,
     CandidateIsLostKeeps, NoneLeftKeeps, StopKeeps DEF ExitNext

----------------------------------------------------------------------------

\* A page read k clicks from the front door is one of those within k clicks.
LEMMA ReadIsWithin ==
  ASSUME ExitTyped, NEW d, WalkFacts(walk, d, LinksRead(walk))
  PROVE  \A p \in DOMAIN walk.depthOf :
           walk.depthOf[p] \in 0..MAX_DEPTH /\ p \in Within[walk.depthOf[p]] \cap Readable
<1>1. /\ walk \in Walk /\ DOMAIN walk.depthOf \in SUBSET Pages
      /\ \A p \in DOMAIN walk.depthOf : walk.depthOf[p] \in 0..MAX_DEPTH /\ walk.depthOf[p] \in Nat
  BY WalkTyped DEF ExitTyped
<1>2. DOMAIN walk.depthOf \subseteq Readable
  BY <1>1 DEF WalkFacts, SeenOnce, Readable
<1> DEFINE Far == {k \in Nat : \E p \in DOMAIN walk.depthOf : walk.depthOf[p] = k /\ p \notin Within[k]}
<1>3. Far = {}
  <2>1. SUFFICES ASSUME Far # {} PROVE FALSE
    BY <2>1
  <2>2. PICK k \in Far : \A other \in Far : k <= other
    BY <2>1, LeastOf
  <2>3. PICK p \in DOMAIN walk.depthOf : walk.depthOf[p] = k /\ p \notin Within[k]
    BY <2>2
  <2>4. k \in 0..MAX_DEPTH /\ k \in Nat /\ p \in Pages
    BY <1>1, <2>3
  <2>5. Justified(walk, p, k)
    BY <2>3 DEF WalkFacts, AllJustified
  <2>6. k # 0
    BY <2>3, <2>4, <2>5, <1>1, WithinIs DEF Justified
  <2>7. PICK q \in DOMAIN walk.depthOf : walk.depthOf[q] + 1 = k /\ LinksTo(q, p)
    BY <2>5, <2>6 DEF Justified
  <2>8. walk.depthOf[q] = k - 1 /\ k - 1 \in Nat /\ ~(k <= k - 1) /\ k \in 1..MAX_DEPTH
    BY <1>1, <2>4, <2>6, <2>7
  <2>9. k - 1 \notin Far
    BY <2>2, <2>8
  <2>10. q \in Within[k - 1] \cap Readable
    BY <1>2, <2>8, <2>9
  <2>11. Within[k] = Grown(Within[k - 1])
    BY <2>8, WithinIs
  <2>12. p \in Within[k]
    BY <2>4, <2>7, <2>10, <2>11 DEF Grown
  <2> QED
    BY <2>3, <2>12
<1> QED
  BY <1>1, <1>2, <1>3

\* Within the limits, what is k clicks away and answers was read, and no further away.
LEMMA WithinIsRead ==
  ASSUME ExitTyped, NEW d, WalkFacts(walk, d, LinksRead(walk)), Unclipped
  PROVE  \A k \in 0..MAX_DEPTH : \A p \in Within[k] \cap Readable :
           p \in DOMAIN walk.depthOf /\ walk.depthOf[p] <= k
<1>1. /\ walk \in Walk /\ site \in Site /\ DOMAIN walk.depthOf \in SUBSET Pages
      /\ \A p \in DOMAIN walk.depthOf : walk.depthOf[p] \in 0..MAX_DEPTH /\ walk.depthOf[p] \in Nat
  BY WalkTyped DEF ExitTyped
<1>2. walk.queue = <<>> /\ Cardinality(walk.seen) < MAX_PAGES * 2
  BY DEF Unclipped
<1>3. \A p \in walk.seen \cap Readable : p \in DOMAIN walk.depthOf
  <2>1. \A p : ~Awaits(walk, p)
    BY <1>2 DEF Awaits
  <2> QED
    BY <2>1 DEF WalkFacts, SeenOnce, Readable
<1> DEFINE Arrived(k) == \A p \in Within[k] \cap Readable : p \in DOMAIN walk.depthOf /\ walk.depthOf[p] <= k
           Unmet == {k \in Nat : k <= MAX_DEPTH /\ ~Arrived(k)}
<1>4. Unmet = {}
  <2>1. SUFFICES ASSUME Unmet # {} PROVE FALSE
    BY <2>1
  <2>2. PICK k \in Unmet : \A other \in Unmet : k <= other
    BY <2>1, LeastOf
  <2>3. k \in Nat /\ k <= MAX_DEPTH /\ ~Arrived(k) /\ MAX_DEPTH \in Nat
    BY <2>2, ExitAssumption
  <2>4. CASE k = 0
    <3>1. FrontDoor \in walk.seen
      BY DEF WalkFacts, SeenOnce
    <3>2. FrontDoor \in DOMAIN walk.depthOf => walk.depthOf[FrontDoor] <= 0
      BY <1>1 DEF WalkFacts, AllJustified, Justified
    <3> QED
      BY <1>3, <2>3, <2>4, <3>1, <3>2, WithinIs
  <2>5. CASE k # 0
    <3>1. k - 1 \in Nat /\ k - 1 <= MAX_DEPTH /\ ~(k <= k - 1) /\ k \in 1..MAX_DEPTH
      BY <2>3, <2>5
    <3>2. Arrived(k - 1)
      BY <2>2, <3>1
    <3>3. Within[k] = Grown(Within[k - 1])
      BY <3>1, WithinIs
    <3>4. ASSUME NEW p \in Within[k] \cap Readable
          PROVE  p \in DOMAIN walk.depthOf /\ walk.depthOf[p] <= k
      <4>1. CASE p \in Within[k - 1]
        BY <1>1, <2>3, <3>2, <3>4, <4>1
      <4>2. CASE \E q \in Within[k - 1] \cap Readable : LinksTo(q, p)
        <5>1. PICK q \in Within[k - 1] \cap Readable : LinksTo(q, p)
          BY <4>2
        <5>2. q \in DOMAIN walk.depthOf /\ walk.depthOf[q] <= k - 1 /\ q \in Pages
              /\ walk.depthOf[q] \in Nat
          BY <1>1, <3>2, <5>1
        <5>3. PICK n \in DOMAIN site.links[q] : Link(q, n).to = p
          BY <5>1 DEF LinksTo, Link
        <5>4. <<q, n>> \in LinksRead(walk)
          BY <1>1, <5>2, <5>3, LinkTyped DEF LinksRead
        <5>5. LinkIsFollowed(walk, q, n)
          BY <5>4 DEF WalkFacts, Followed
        <5>6. p \in walk.seen
          BY <1>2, <2>3, <5>2, <5>3, <5>5 DEF LinkIsFollowed
        <5>7. p \in DOMAIN walk.depthOf
          BY <1>3, <3>4, <5>6
        <5>8. walk.depthOf[p] <= walk.depthOf[q] + 1
          BY <5>3, <5>5, <5>7 DEF LinkIsFollowed
        <5> QED
          BY <1>1, <2>3, <5>2, <5>7, <5>8
      <4> QED
        BY <3>3, <3>4, <4>1, <4>2 DEF Grown
    <3> QED
      BY <2>3, <3>4
  <2> QED
    BY <2>4, <2>5
<1> QED
  BY <1>4, ExitAssumption

\* How the scores fall into bands.
LEMMA BandsAre ==
  ASSUME NEW s \in Signals
  PROVE  /\ Band(ScoreExit(s)) = "No route found" <=> ~s.found
         /\ Band(ScoreExit(s)) = "Easy" => s.selfService /\ (s.plain \/ s.cancel <= s.subscribe + 1)
<1>1. s.found \in BOOLEAN /\ s.selfService \in BOOLEAN /\ s.plain \in BOOLEAN
      /\ s.cancel \in Nat /\ s.subscribe \in Nat
  BY ExitAssumption DEF Signals, Depths, NotFound
<1>2. /\ SymmetryEarned(s) \in {0, 10, 20}
      /\ SymmetryEarned(s) = 20 => s.cancel <= s.subscribe + 1
  BY <1>1 DEF SymmetryEarned, EXIT_WEIGHTS
<1> DEFINE self(w) == IF s.selfService THEN w.selfService ELSE 0
           plain(w) == IF s.plain THEN w.plainlyNamed ELSE 0
<1>3. ~s.found => ScoreExit(s) = 0
  BY DEF ScoreExit
<1>4. s.found /\ s.subscribe = NotFound =>
        ScoreExit(s) = 50 + (IF s.selfService THEN 31 ELSE 0) + (IF s.plain THEN 19 ELSE 0) + 0
  BY DEF ScoreExit, Shared
<1>5. s.found /\ s.subscribe # NotFound =>
        ScoreExit(s) = 40 + (IF s.selfService THEN 25 ELSE 0) + (IF s.plain THEN 15 ELSE 0)
                       + SymmetryEarned(s)
  BY DEF ScoreExit, EXIT_WEIGHTS
<1>6. /\ ScoreExit(s) \in Nat
      /\ ScoreExit(s) = 0 <=> ~s.found
      /\ ScoreExit(s) >= 85 => s.selfService /\ (s.plain \/ s.cancel <= s.subscribe + 1)
  BY <1>1, <1>2, <1>3, <1>4, <1>5
<1>7. \A score \in Nat : /\ Band(score) = "No route found" <=> score = 0
                         /\ Band(score) = "Easy" <=> score >= 85
  BY DEF Band
<1> QED
  BY <1>6, <1>7

LEMMA ExitIsMeasured == ExitInv => ExitIsTheNearest
<1> SUFFICES ASSUME ExitInv, exit.at = "measured" PROVE ExitIsTheNearest
  BY DEF ExitIsTheNearest
<1> DEFINE s == exit.signals
           read == DOMAIN walk.depthOf
<1>1. ExitTyped /\ Measured /\ s \in Signals
  BY DEF ExitInv, ExitTyped
<1>2. PICK d : WalkFacts(walk, d, LinksRead(walk))
  BY DEF ExitInv
<1>3. /\ s.cancel \in Depths /\ s.subscribe \in Depths
      /\ MAX_DEPTH \in Nat
  BY <1>1, ExitAssumption DEF Signals
<1>4. \A p \in read : walk.depthOf[p] \in 0..MAX_DEPTH /\ p \in Within[walk.depthOf[p]] \cap Readable
  BY <1>1, <1>2, ReadIsWithin
<1>5. Unclipped => \A k \in 0..MAX_DEPTH : \A p \in Within[k] \cap Readable :
                     p \in read /\ walk.depthOf[p] <= k
  BY <1>1, <1>2, WithinIsRead
<1>6. /\ s.found => \E p \in read : LeadsOut(p) /\ s.cancel = walk.depthOf[p] + 1
      /\ \A p \in read : LeadsOut(p) => s.found /\ s.cancel <= walk.depthOf[p] + 1
      /\ \A p \in read \cap site.joins : s.subscribe <= walk.depthOf[p]
      /\ s.subscribe # NotFound => \E p \in read \cap site.joins : s.subscribe = walk.depthOf[p]
  BY <1>1 DEF Measured
<1>7. s.found => s.cancel \in WaysOut
  <2> SUFFICES ASSUME s.found PROVE s.cancel \in WaysOut
    OBVIOUS
  <2>1. PICK p \in read : LeadsOut(p) /\ s.cancel = walk.depthOf[p] + 1
    BY <1>6
  <2>2. s.cancel \in 1..(MAX_DEPTH + 1) /\ s.cancel - 1 = walk.depthOf[p]
    BY <1>3, <1>4, <2>1
  <2>3. p \in Within[s.cancel - 1] \cap Readable
    BY <1>4, <2>2
  <2> QED
    BY <2>1, <2>2, <2>3 DEF WaysOut
<1>8. s.subscribe # NotFound => s.subscribe \in WaysIn
  BY <1>4, <1>6 DEF WaysIn
<1>9. ASSUME Unclipped, NEW k \in WaysOut PROVE s.found /\ s.cancel <= k
  <2>1. k \in 1..(MAX_DEPTH + 1) /\ k - 1 \in 0..MAX_DEPTH
    BY <1>3 DEF WaysOut
  <2>2. PICK p \in Within[k - 1] \cap Readable : LeadsOut(p)
    BY <1>9 DEF WaysOut
  <2>3. p \in read /\ walk.depthOf[p] <= k - 1
    BY <1>5, <1>9, <2>1, <2>2
  <2>4. s.found /\ s.cancel <= walk.depthOf[p] + 1
    BY <1>6, <2>2, <2>3
  <2> QED
    BY <1>3, <1>4, <2>1, <2>3, <2>4 DEF Depths, NotFound
<1>10. ASSUME Unclipped, NEW k \in WaysIn PROVE s.subscribe <= k /\ s.subscribe # NotFound
  <2>1. k \in 0..MAX_DEPTH
    BY DEF WaysIn
  <2>2. PICK p \in Within[k] \cap Readable : p \in site.joins
    BY <1>10 DEF WaysIn
  <2>3. p \in read /\ walk.depthOf[p] <= k
    BY <1>5, <1>10, <2>1, <2>2
  <2>4. s.subscribe <= walk.depthOf[p]
    BY <1>6, <2>2, <2>3
  <2> QED
    BY <1>3, <1>4, <2>1, <2>3, <2>4 DEF Depths, NotFound
<1>11. Unclipped => /\ s.found <=> WaysOut # {}
                    /\ s.found => Nearest(WaysOut, s.cancel)
                    /\ IF WaysIn = {} THEN s.subscribe = NotFound ELSE Nearest(WaysIn, s.subscribe)
  <2> SUFFICES ASSUME Unclipped
               PROVE  /\ s.found <=> WaysOut # {}
                      /\ s.found => Nearest(WaysOut, s.cancel)
                      /\ IF WaysIn = {} THEN s.subscribe = NotFound ELSE Nearest(WaysIn, s.subscribe)
    OBVIOUS
  <2>1. s.found \in BOOLEAN
    BY <1>1 DEF Signals
  <2>2. s.found <=> WaysOut # {}
    BY <1>7, <1>9, <2>1
  <2>3. s.found => Nearest(WaysOut, s.cancel)
    BY <1>7, <1>9 DEF Nearest
  <2>4. WaysIn = {} => s.subscribe = NotFound
    BY <1>8
  <2>5. WaysIn # {} => Nearest(WaysIn, s.subscribe)
    BY <1>8, <1>10 DEF Nearest
  <2> QED
    BY <2>2, <2>3, <2>4, <2>5
<1>12. s.found => \E k \in WaysOut : k <= s.cancel
  BY <1>3, <1>7 DEF Depths, NotFound
<1>13. s.subscribe # NotFound => \E k \in WaysIn : k <= s.subscribe
  BY <1>3, <1>8 DEF Depths, NotFound
<1>14. /\ Band(ScoreExit(s)) = "No route found" <=> ~s.found
       /\ Band(ScoreExit(s)) = "Easy" => s.selfService /\ (s.plain \/ s.cancel <= s.subscribe + 1)
  BY <1>1, BandsAre
<1> HIDE DEF s
<1>15. s = exit.signals
  BY DEF s
<1> QED
  BY <1>11, <1>12, <1>13, <1>14, <1>15 DEF ExitIsTheNearest

\* On any site, with any links, refusals and losses: what is published of the ways out of
\* an application and of the ways in is what the nearest of them is (crawlForTheExit,
\* scoreExit), and where a limit of the walk bit, never nearer than that.
THEOREM ExitSafe == ExitSpec => []ExitIsTheNearest
<1>1. ExitSpec => []ExitInv
  BY ExitStarts, ExitSteps, PTL DEF ExitSpec
<1> QED
  BY <1>1, ExitIsMeasured, PTL

-----------------------------------------------------------------------------
\* The type of the game survey.

\* No more is heard, and no more ticks are fast, than polls were made; and a pass tests all
\* of its criteria or none.
PollsCounted ==
  /\ game \in Games /\ poll.made <= MaxPolls /\ poll.fast <= poll.made /\ page.heard <= MaxPolls
  /\ verdict.at \in ToPoll => page.heard <= poll.made
  /\ verdict.notTested \in {{}, GAME_PASS_CRITERIA}

LEMMA PollsStayCounted ==
  ASSUME GameInv, PollsCounted, [GameNext]_gameVars
  PROVE  PollsCounted'
<1>1. /\ page.heard \in Nat /\ poll.made \in Nat /\ poll.fast \in Nat /\ MaxPolls \in Nat
      /\ DOMAIN page = {"open", "runs", "heard"} /\ verdict \in VerdictRow
      /\ DOMAIN poll = {"made", "answered", "fast", "sustained"}
  BY GameAssumption DEF GameInv, GameTyped, PageRow, PollRow
<1>2. ASSUME page'.heard = page.heard, poll'.made = poll.made, poll'.fast = poll.fast, game' = game,
             verdict'.at \in ToPoll => verdict.at \in ToPoll, verdict'.notTested = verdict.notTested
      PROVE  PollsCounted'
  BY <1>2 DEF PollsCounted
<1>3. CASE PageRuns \/ PageCloses
  <2>1. page'.heard = page.heard
    BY <1>1, <1>3 DEF PageRuns, PageCloses
  <2> QED
    BY <1>2, <1>3, <2>1 DEF PageRuns, PageCloses
<1>4. ASSUME NEW from, NEW to, GoesOn(from, to), to \in ToPoll => from \in ToPoll
      PROVE  /\ verdict'.at \in ToPoll => verdict.at \in ToPoll
             /\ verdict'.notTested = verdict.notTested
  BY <1>1, <1>4 DEF GoesOn, VerdictRow
<1>5. ASSUME NEW from, NEW to, NEW said, Notes(from, to, said), to \in ToPoll => from \in ToPoll
      PROVE  /\ verdict'.at \in ToPoll => verdict.at \in ToPoll
             /\ verdict'.notTested = verdict.notTested
  BY <1>1, <1>5 DEF Notes, VerdictRow
<1>6. CASE Throttle \/ OpenGame \/ PollClosed \/ PollsEnd \/ Weigh \/ AskListeners \/ Play
           \/ AskStorage \/ Reload \/ AskKept
  <2>1. UNCHANGED <<game, page, poll>>
    BY <1>6 DEF Throttle, OpenGame, PollClosed, PollsEnd, Weigh, AskListeners, Play, AskStorage,
                Reload, AskKept
  <2>2. /\ verdict'.at \in ToPoll => verdict.at \in ToPoll
        /\ verdict'.notTested = verdict.notTested
    <3>1. CASE Throttle \/ OpenGame \/ Weigh \/ Reload
      <4>1. \/ GoesOn("throttle", "open") \/ GoesOn("open", "poll")
            \/ GoesOn("weigh", "listeners") \/ GoesOn("reload", "kept")
        BY <3>1 DEF Throttle, OpenGame, Weigh, Reload
      <4> QED
        BY <1>4, <4>1 DEF ToPoll
    <3>2. CASE PollClosed \/ PollsEnd \/ AskListeners \/ Play \/ AskStorage \/ AskKept
      <4>1. \E said : \/ Notes("poll", "weigh", said) \/ Notes("listeners", "play", said)
                      \/ Notes("play", "hide", said) \/ Notes("storage", "reload", said)
                      \/ Notes("kept", "judge", said)
        <5>1. CASE PollClosed
          BY <5>1 DEF PollClosed
        <5>2. CASE PollsEnd
          BY <5>2 DEF PollsEnd
        <5>3. CASE AskListeners
          BY <5>3 DEF AskListeners
        <5>4. CASE Play
          BY <5>4 DEF Play
        <5>5. CASE AskStorage
          BY <5>5 DEF AskStorage
        <5>6. CASE AskKept
          BY <5>6 DEF AskKept
        <5> QED
          BY <3>2, <5>1, <5>2, <5>3, <5>4, <5>5, <5>6
      <4> QED
        BY <1>5, <4>1 DEF ToPoll
    <3> QED
      BY <1>6, <3>1, <3>2
  <2> QED
    BY <1>2, <2>1, <2>2
<1>7. CASE Hide
  <2>1. UNCHANGED <<game, page, poll>>
    BY <1>7 DEF Hide
  <2>2. \E said : GoesOn("hide", "storage") \/ Notes("hide", "storage", said)
    BY <1>7 DEF Hide
  <2>3. "storage" \notin ToPoll
    BY DEF ToPoll
  <2> QED
    BY <1>2, <1>4, <1>5, <2>1, <2>2, <2>3
<1>8. CASE PollRefused
  <2>1. poll'.made = poll.made + 1 /\ poll'.fast = poll.fast /\ poll.made < MaxPolls
    BY <1>1, <1>8 DEF PollRefused
  <2>2. UNCHANGED <<game, page, verdict>>
    BY <1>8 DEF PollRefused
  <2> QED
    BY <1>1, <2>1, <2>2 DEF PollsCounted
<1>9. CASE PollTicks
  <2>1. poll'.made = poll.made + 1 /\ poll'.fast \in {0, poll.fast + 1} /\ poll.made < MaxPolls
    BY <1>9 DEF PollTicks
  <2>2. UNCHANGED <<game, verdict>> /\ verdict.at = "poll"
    BY <1>9 DEF PollTicks
  <2>3. page'.heard = Heard
    BY <1>1, <1>9 DEF PollTicks
  <2>4. page'.heard \in {page.heard, page.heard + 1}
    BY <1>1, <2>3 DEF Heard
  <2>5. "poll" \in ToPoll
    BY DEF ToPoll
  <2>6. page.heard <= poll.made
    BY <2>2, <2>5 DEF PollsCounted
  <2> QED
    BY <1>1, <2>1, <2>2, <2>4, <2>6 DEF PollsCounted
<1>10. CASE PollDraws
  <2>1. UNCHANGED <<game, poll>> /\ poll.made < MaxPolls /\ GoesOn("poll", "weigh")
    BY <1>10 DEF PollDraws
  <2>2. page'.heard = Heard
    BY <1>1, <1>10 DEF PollDraws
  <2>3. page'.heard \in {page.heard, page.heard + 1}
    BY <1>1, <2>2 DEF Heard
  <2>4. "poll" \in ToPoll /\ "weigh" \notin ToPoll
    BY DEF ToPoll
  <2>5. page.heard <= poll.made
    BY <2>1, <2>4 DEF PollsCounted, GoesOn
  <2>6. verdict'.at = "weigh" /\ verdict'.notTested = verdict.notTested
    BY <1>1, <2>1 DEF GoesOn, VerdictRow
  <2> QED
    BY <1>1, <2>1, <2>3, <2>4, <2>5, <2>6 DEF PollsCounted
<1>11. CASE JudgeGame
  <2>1. UNCHANGED <<game, page, poll>> /\ verdict'.at = "done" /\ verdict'.notTested = verdict.notTested
    BY <1>1, <1>11 DEF JudgeGame, VerdictRow
  <2> QED
    BY <1>2, <2>1 DEF ToPoll
<1>12. CASE PassDies
  <2>1. UNCHANGED <<game, page, poll>> /\ verdict'.at = "done" /\ verdict'.notTested = GAME_PASS_CRITERIA
    BY <1>12 DEF PassDies
  <2> QED
    BY <2>1 DEF PollsCounted, ToPoll
<1>13. CASE UNCHANGED gameVars
  BY <1>2, <1>13 DEF gameVars
<1> QED
  BY <1>3, <1>6, <1>7, <1>8, <1>9, <1>10, <1>11, <1>12, <1>13 DEF GameNext

\* Every variable of the game's pass has its type, for any games and any number of polls.
THEOREM GameTypeCorrect == GameSpec => []GameTypeOK
<1>1. GameInit => PollsCounted
  BY GameAssumption DEF GameInit, PollsCounted, NotPolled
<1>2. GameInv /\ PollsCounted => GameTypeOK
  <2> SUFFICES ASSUME GameInv, PollsCounted PROVE GameTypeOK
    OBVIOUS
  <2>1. page \in PageRow /\ poll \in PollRow /\ measure \in MeasureRow /\ verdict \in VerdictRow
    BY DEF GameInv, GameTyped
  <2>2. page.heard \in 0..MaxPolls /\ poll.made \in 0..MaxPolls /\ poll.fast \in 0..MaxPolls
    BY <2>1, GameAssumption DEF PollsCounted, PageRow, PollRow
  <2>3. page \in [open: BOOLEAN, runs: BOOLEAN, heard: 0..MaxPolls]
    BY <2>1, <2>2 DEF PageRow
  <2>4. poll \in [made: 0..MaxPolls, answered: BOOLEAN, fast: 0..MaxPolls, sustained: BOOLEAN]
    BY <2>1, <2>2 DEF PollRow
  <2> QED
    BY <2>1, <2>3, <2>4 DEF GameTypeOK, PollsCounted, MeasureRow, VerdictRow
<1>3. GameInv /\ PollsCounted /\ [GameNext]_gameVars => GameInv' /\ PollsCounted'
  BY GameSteps, PollsStayCounted
<1> QED
  BY <1>1, <1>2, <1>3, GameStarts, PTL DEF GameSpec

-----------------------------------------------------------------------------
\* The types of the scan and of the walk to the exit.

\* The walk and the checks keep to their kinds, for any repository and any ceilings.
THEOREM ScanTypeCorrect == ScanSpec => []ScanTypeOK
<1>1. ScanInv => ScanTypeOK
  BY DEF ScanInv, ScanTypeOK, CloneRow, AnswerRow
<1> QED
  BY ScanStarts, ScanSteps, <1>1, PTL DEF ScanSpec

\* The queue, what was seen and the candidates stay pages with depths, for any site.
THEOREM ExitTypeCorrect == ExitSpec => []ExitTypeOK
<1>1. ExitInv => ExitTypeOK
  <2> SUFFICES ASSUME ExitInv PROVE ExitTypeOK
    OBVIOUS
  <2>1. walk \in Walk /\ exit.at \in {"walk", "confirm", "measured", "unreadable", "stopped"}
        /\ exit.signals \in Signals
    BY DEF ExitInv, ExitTyped
  <2>2. DOMAIN walk.depthOf \subseteq Pages
    <3>1. walk.depthOf \in DepthMap
      BY <2>1 DEF Walk
    <3> QED
      BY <3>1 DEF DepthMap
  <2>3. /\ walk.queue \in Seq(Waiting) /\ walk.seen \subseteq Pages /\ walk.candidates \in Seq(Candidate)
    BY <2>1 DEF Walk
  <2>4. exit.signals.cancel \in Depths /\ exit.signals.subscribe \in Depths
    BY <2>1 DEF Signals
  <2> QED
    BY <2>1, <2>2, <2>3, <2>4 DEF ExitInv, ExitTyped, ExitTypeOK, Waiting, Candidate
<1> QED
  BY ExitStarts, ExitSteps, <1>1, PTL DEF ExitSpec

=============================================================================
