------------------------------- MODULE MCQueue -------------------------------
(* Two workers and two requests, in one of two instances: both requests are of *)
(* one application (2 and 3, after a first one withdrawn at once), or they are *)
(* of two (1 and 2).                                                           *)
EXTENDS RequestQueue

VARIABLE pair
pairVars == <<pair, vars>>

OneRequest == 1..1
ThreeRequests == 1..3
OfTwoApps == [r \in Requests |-> IF r = 1 THEN "app" ELSE "other"]

PairInit == Init /\ pair \in {"same", "apart"}
PairNext ==
  /\ Next /\ UNCHANGED pair
  /\ pair = "apart" => request'[3].status = "none"
  /\ pair = "same" =>
       /\ request'[1].status \in {"none", "queued", "cancelled"}
       /\ request[1].status = "queued" => request'[1].status = "cancelled"

PairSpec ==
  /\ PairInit /\ [][PairNext]_pairVars /\ Fairness
  /\ \A w \in Workers : WF_vars(worker[w].at = "stopped" /\ Restart(w))

\* One request in itself, for what a single one is enough to refute.
AloneSpec == PairInit /\ pair = "same" /\ [][Next /\ UNCHANGED pair]_pairVars
AloneHungSpec == AloneSpec /\ Fairness
=============================================================================
