-------------------------- MODULE RequestLifecycle --------------------------
(***************************************************************************)
(* What the assessment queue promises about each request, whoever works    *)
(* it: it is submitted only when its application has none live, it is      *)
(* begun at most MaxAttempts times, it can be withdrawn only before it is  *)
(* begun, and once it is answered, and the worker that answered it knows,  *)
(* it never moves again.                                                   *)
(*                                                                         *)
(* "unheard" is answered as anybody else can see, by a worker that has not *)
(* heard that it is: the one answer that may still be taken back, and      *)
(* queued again only where nothing else of its application is live.        *)
(***************************************************************************)
EXTENDS Naturals

CONSTANTS Requests, AppOf, MaxAttempts

VARIABLES status, attempts

Live(r) == status[r] \in {"queued", "claimed"}
OthersLive(r) == \E q \in Requests : q # r /\ AppOf[q] = AppOf[r] /\ Live(q)

Init ==
  /\ status = [r \in Requests |-> "none"]
  /\ attempts = [r \in Requests |-> 0]

Moves(r, from, to) == status[r] = from /\ status'[r] = to
Untried(r) == attempts'[r] = attempts[r]

Submitted(r) == Moves(r, "none", "queued") /\ ~OthersLive(r) /\ Untried(r)
Withdrawn(r) == Moves(r, "queued", "cancelled") /\ Untried(r)
Begun(r)     == Moves(r, "queued", "claimed") /\ attempts[r] < MaxAttempts
                /\ attempts'[r] = attempts[r] + 1
Retried(r)   == Moves(r, "claimed", "queued") /\ attempts[r] < MaxAttempts /\ Untried(r)
Answered(r)  == (Moves(r, "claimed", "completed") \/ Moves(r, "claimed", "failed")) /\ Untried(r)
Doubted(r)   == Moves(r, "claimed", "unheard") /\ Untried(r)
Believed(r)  == Moves(r, "unheard", "completed") /\ Untried(r)
TakenBack(r) == /\ \/ Moves(r, "unheard", "failed")
                   \/ Moves(r, "unheard", "queued") /\ attempts[r] < MaxAttempts /\ ~OthersLive(r)
                /\ Untried(r)
Unmoved(r)   == status'[r] = status[r] /\ Untried(r)

\* One statement may move several requests.
Next == \A r \in Requests :
          \/ Submitted(r) \/ Withdrawn(r) \/ Begun(r) \/ Retried(r) \/ Answered(r)
          \/ Doubted(r) \/ Believed(r) \/ TakenBack(r) \/ Unmoved(r)

Spec == Init /\ [][Next]_<<status, attempts>>
=============================================================================
