----------------------------- MODULE ExitSurvey -----------------------------
(***************************************************************************)
(* How hard it is to leave: crawlForTheExit walks an application's pages   *)
(* from the front door, breadth first and within two limits, gathers the   *)
(* links that sound like a way out, confirms the shallowest that leads to  *)
(* one, and compares it with the way in; scoreExit rates what was found    *)
(* and the rating is published.                                            *)
(*                                                                         *)
(* A page may be refused (an error status, every time) and a request may   *)
(* be lost (this time).  Links to other origins are left out.              *)
(*                                                                         *)
(* Abstracted: what makes a link, a heading or a button sound like a way   *)
(* out (a link is named plainly, by a euphemism or for something else, and *)
(* a page offers nothing, a person to ask, or to do it oneself).           *)
(***************************************************************************)
EXTENDS Naturals, Integers, Sequences, FiniteSets

CONSTANTS
  Pages,
  FrontDoor,
  Sites,      \* what may be walked: a set of Site
  MAX_DEPTH, MAX_PAGES,
  MaxLost     \* bound: requests that get no answer

Site == [links: [Pages -> Seq([to: Pages, name: {"plain", "euphemism", "other"}])],
         offers: [Pages -> {"nothing", "a person", "oneself"}],
         joins: SUBSET Pages, refused: SUBSET Pages]

ASSUME ExitAssumption ==
  /\ FrontDoor \in Pages /\ IsFiniteSet(Pages) /\ Sites \subseteq Site
  /\ MAX_DEPTH \in Nat /\ MAX_PAGES \in Nat \ {0} /\ MaxLost \in Nat

VARIABLES
  site,
  walk,       \* queue, seen, depthOf, candidates in the order they were met
  lost,       \* pages whose request got no answer, by the pass that asked
  answered,   \* pages asked for after the walk, and answered
  exit        \* the step, and what was measured

exitVars == <<site, walk, lost, answered, exit>>

----------------------------------------------------------------------------

NotFound == MAX_DEPTH + 2     \* null, beyond every depth
Depths == 0..NotFound
ExitMeasured(found, selfService, plain, cancel, subscribe) ==
  [found |-> found, selfService |-> selfService, plain |-> plain,
   cancel |-> cancel, subscribe |-> subscribe]
NoExit == ExitMeasured(FALSE, FALSE, FALSE, NotFound, NotFound)

ExitTypeOK ==
  /\ walk.queue \in Seq([url: Pages, depth: 0..MAX_DEPTH]) /\ walk.seen \subseteq Pages
  /\ walk.candidates \in Seq([url: Pages, plain: BOOLEAN, depth: 1..(MAX_DEPTH + 1)])
  /\ DOMAIN walk.depthOf \subseteq Pages
  /\ lost \in [{"walk", "confirm"} -> SUBSET Pages] /\ answered \subseteq Pages
  /\ exit.at \in {"walk", "confirm", "measured", "unreadable", "stopped"}
  /\ exit.signals.cancel \in Depths /\ exit.signals.subscribe \in Depths

ExitInit ==
  /\ site \in Sites
  /\ walk = [queue |-> <<[url |-> FrontDoor, depth |-> 0]>>, seen |-> {FrontDoor},
             depthOf |-> [p \in {} |-> 0], candidates |-> <<>>]
  /\ lost = [pass \in {"walk", "confirm"} |-> {}] /\ answered = {}
  /\ exit = [at |-> "walk", signals |-> NoExit]

MayBeLost == Cardinality(lost["walk"]) + Cardinality(lost["confirm"]) < MaxLost
Visited == Cardinality(DOMAIN walk.depthOf)
Walking == exit.at = "walk" /\ walk.queue # <<>> /\ Visited < MAX_PAGES

----------------------------------------------------------------------------
(* The walk                                                                 *)

\* A link that sounds like a way out is a candidate wherever it leads; a page is
\* queued once, while there is depth and room.
Follow(state, link, depth) ==
  LET room == Cardinality(state.seen) < MAX_PAGES * 2
      queued == depth <= MAX_DEPTH /\ link.to \notin state.seen /\ room
      met == \E n \in DOMAIN state.candidates : state.candidates[n].url = link.to
      candidate == [url |-> link.to, plain |-> link.name = "plain", depth |-> depth] IN
  [state EXCEPT
     !.seen = IF queued THEN @ \cup {link.to} ELSE @,
     !.queue = IF queued THEN Append(@, [url |-> link.to, depth |-> depth]) ELSE @,
     !.candidates = IF link.name = "other" \/ met THEN @ ELSE Append(@, candidate)]

\* The links of a page, in their order.
FollowAll(left, links, depth) ==
  LET after[n \in 0..Len(links)] ==
        IF n = 0 THEN left ELSE Follow(after[n - 1], links[n], depth)
  IN after[Len(links)]

\* Breadth first, a candidate met again is never shallower: the first is kept.
ReadPage ==
  LET next == Head(walk.queue)
      visited == [url \in DOMAIN walk.depthOf \cup {next.url} |->
                    IF url = next.url THEN next.depth ELSE walk.depthOf[url]]
      left == [walk EXCEPT !.queue = Tail(@), !.depthOf = visited] IN
  /\ Walking /\ next.url \notin site.refused
  /\ walk' = FollowAll(left, site.links[next.url], next.depth + 1)
  /\ UNCHANGED <<site, lost, answered, exit>>

Skip(url) ==
  /\ walk' = [walk EXCEPT !.queue = Tail(@)]
  /\ exit' = IF url = FrontDoor THEN [exit EXCEPT !.at = "unreadable"] ELSE exit
  /\ UNCHANGED <<site, answered>>

PageIsRefused ==
  /\ Walking /\ Head(walk.queue).url \in site.refused
  /\ Skip(Head(walk.queue).url) /\ UNCHANGED lost

PageIsLost ==
  /\ Walking /\ MayBeLost
  /\ Skip(Head(walk.queue).url)
  /\ lost' = [lost EXCEPT !["walk"] = @ \cup {Head(walk.queue).url}]

EndOfWalk ==
  /\ exit.at = "walk" /\ ~Walking
  /\ exit' = [exit EXCEPT !.at = "confirm"]
  /\ UNCHANGED <<site, walk, lost, answered>>

----------------------------------------------------------------------------
(* Confirming                                                               *)

\* The shallowest page read that has a control for joining.
NearestJoin ==
  LET joining == {p \in DOMAIN walk.depthOf : p \in site.joins} IN
  IF joining = {} THEN NotFound
  ELSE CHOOSE d \in {walk.depthOf[p] : p \in joining} :
         \A p \in joining : d <= walk.depthOf[p]

\* Mistake: the first link that sounds like a way out is taken for one.
OffersByName(url) == TRUE

Offers(url) == site.offers[url] # "nothing"

\* A page the walk did not read is asked for; what status it answers with is not looked at.
Confirm ==
  /\ exit.at = "confirm" /\ walk.candidates # <<>>
  /\ LET candidate == Head(walk.candidates) IN
     /\ walk' = [walk EXCEPT !.candidates = Tail(@)]
     /\ answered' = answered \cup {candidate.url}
     /\ exit' = IF ~Offers(candidate.url) THEN exit
                ELSE [at |-> "measured",
                      signals |-> ExitMeasured(TRUE, site.offers[candidate.url] = "oneself",
                                               candidate.plain, candidate.depth, NearestJoin)]
  /\ UNCHANGED <<site, lost>>

CandidateIsLost ==
  /\ exit.at = "confirm" /\ walk.candidates # <<>> /\ MayBeLost
  /\ Head(walk.candidates).url \notin DOMAIN walk.depthOf \cup answered
  /\ walk' = [walk EXCEPT !.candidates = Tail(@)]
  /\ lost' = [lost EXCEPT !["confirm"] = @ \cup {Head(walk.candidates).url}]
  /\ UNCHANGED <<site, answered, exit>>

NoneLeft ==
  /\ exit.at = "confirm" /\ walk.candidates = <<>>
  /\ exit' = [at |-> "measured", signals |-> [NoExit EXCEPT !.subscribe = NearestJoin]]
  /\ UNCHANGED <<site, walk, lost, answered>>

\* A ceiling or a withdrawn scope ends the stage, and the measurement with it.
Stop ==
  /\ exit.at \in {"walk", "confirm"}
  /\ exit' = [at |-> "stopped", signals |-> NoExit]
  /\ UNCHANGED <<site, walk, lost, answered>>

ExitNext ==
  \/ ReadPage \/ PageIsRefused \/ PageIsLost \/ EndOfWalk
  \/ Confirm \/ CandidateIsLost \/ NoneLeft \/ Stop

ExitSpec == ExitInit /\ [][ExitNext]_exitVars

----------------------------------------------------------------------------
(* scoreExit.  Without a way in, the weight of symmetry is shared: 40, 25    *)
(* and 15 of 80 become 50, 31 and 19 of 100.                                *)

EXIT_WEIGHTS == [routeFound |-> 40, selfService |-> 25, symmetry |-> 20, plainlyNamed |-> 15]
Shared == [routeFound |-> 50, selfService |-> 31, symmetry |-> 0, plainlyNamed |-> 19]

SymmetryEarned(s) ==
  LET gap == s.cancel - s.subscribe IN
  CASE gap <= 1 -> EXIT_WEIGHTS.symmetry [] gap = 2 -> EXIT_WEIGHTS.symmetry \div 2
    [] OTHER -> 0

ScoreExit(s) ==
  LET w == IF s.subscribe = NotFound THEN Shared ELSE EXIT_WEIGHTS IN
  IF ~s.found THEN 0
  ELSE w.routeFound + (IF s.selfService THEN w.selfService ELSE 0)
       + (IF s.plain THEN w.plainlyNamed ELSE 0)
       + (IF s.subscribe = NotFound THEN 0 ELSE SymmetryEarned(s))

Band(percentage) ==
  CASE percentage >= 85 -> "Easy" [] percentage \in 60..84 -> "Workable"
    [] percentage \in 1..59 -> "Hard" [] OTHER -> "No route found"

----------------------------------------------------------------------------
(* Properties                                                               *)

Readable == Pages \ (site.refused \cup lost["walk"])

LinksTo(p, to) == \E n \in DOMAIN site.links[p] : site.links[p][n].to = to

\* A link that sounds like a way out, to a page that answered and offers one.
LeadsOut(p) ==
  \E n \in DOMAIN site.links[p] : LET link == site.links[p][n] IN
    link.name # "other" /\ site.offers[link.to] # "nothing" /\ link.to \notin lost["confirm"]

\* The pages some path of at most k clicks through readable pages leads to.
Within[k \in 0..MAX_DEPTH] ==
  IF k = 0 THEN {FrontDoor}
  ELSE Within[k - 1] \cup {to \in Pages : \E p \in Within[k - 1] \cap Readable : LinksTo(p, to)}

WaysOut == {k \in 1..(MAX_DEPTH + 1) : \E p \in Within[k - 1] \cap Readable : LeadsOut(p)}
WaysIn == {k \in 0..MAX_DEPTH : Within[k] \cap Readable \cap site.joins # {}}

Nearest(S, d) == d \in S /\ \A k \in S : d <= k

\* Neither limit bit: nothing was left in the queue, and there was room to the end.
Unclipped == walk.queue = <<>> /\ Cardinality(walk.seen) < MAX_PAGES * 2

\* Of a site whose front door was read: the way out that is published is the nearest
\* one a visitor can reach over pages that answered, and so is the way in; none is
\* said to exist only if there is none; within the walk's limits, and beyond them
\* neither is ever nearer than it really is.  It is rated "No route found" only then,
\* and "Easy" only if it is plainly named and one's own, or no harder than joining.
ExitIsTheNearest ==
  LET s == exit.signals IN
  exit.at = "measured" =>
    /\ Unclipped => /\ s.found <=> WaysOut # {}
                    /\ s.found => Nearest(WaysOut, s.cancel)
                    /\ IF WaysIn = {} THEN s.subscribe = NotFound ELSE Nearest(WaysIn, s.subscribe)
    /\ s.found => \E k \in WaysOut : k <= s.cancel
    /\ s.subscribe # NotFound => \E k \in WaysIn : k <= s.subscribe
    /\ Band(ScoreExit(s)) = "No route found" <=> ~s.found
    /\ Band(ScoreExit(s)) = "Easy" =>
         s.selfService /\ (s.plain \/ s.cancel <= s.subscribe + 1)
=============================================================================
