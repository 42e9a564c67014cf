---------------------------- MODULE RequestQueue ----------------------------
(***************************************************************************)
(* public.assessment_requests and the worker processes that poll it: the   *)
(* claim, the run and its sixty-minute timeout, the two ways a run is      *)
(* written down, and the sweep that takes back a claim after ninety.       *)
(*                                                                         *)
(* A worker is one process.  Its loop waits for one run at a time; a run   *)
(* it stopped waiting for goes on in the same process, since a promise     *)
(* cannot be cancelled.  One action is one statement or one transaction;   *)
(* failRequest, which reads attempts and then writes, is two.              *)
(*                                                                         *)
(* Abstracted: clocks (a claim is stale or it is not, a run may time out   *)
(* at any moment), the spending pause, the loop's other reason to stop (a  *)
(* sweep stuck for fifteen minutes), and everything a run does before it   *)
(* writes its assessment.                                                  *)
(***************************************************************************)
EXTENDS Naturals

CONSTANTS
  Requests,       \* a set of numbers: the order of created_at
  AppOf,          \* the application each request is for
  Workers,        \* processes
  MaxAttempts,    \* maxAttempts of failRequest and reclaimStaleRequests
  AttemptsCheck,  \* the table's CHECK on attempts
  Timely          \* a worker writes its result within the thirty minutes between
                  \* RUN_TIMEOUT_MINUTES and RECLAIM_AFTER_MINUTES

ASSUME QueueAssumption ==
  /\ Requests \subseteq Nat \ {0}
  /\ MaxAttempts \in Nat \ {0}
  /\ AttemptsCheck \in Nat /\ MaxAttempts <= AttemptsCheck
  /\ Timely \in BOOLEAN

VARIABLES
  request,   \* the rows: status, attempts, and whether claimed_at is too old
  worker,    \* where each process's loop is, and with which request
  orphaned,  \* orphanedRun is set in this process
  orphans,   \* runs in flight that nobody waits for
  assessed   \* assessments written, by the attempt that ran them

vars == <<request, worker, orphaned, orphans, assessed>>

----------------------------------------------------------------------------

RequestStatus == {"none", "queued", "claimed", "completed", "failed", "cancelled"}
Row == [status: RequestStatus, attempts: 0..AttemptsCheck, stale: BOOLEAN]
Run == [req: Requests, attempt: 1..AttemptsCheck]

\* "failing" has an error in hand, "writing" has read attempts and decided.
Place == {"polling", "running", "completing", "failing", "writing", "stopped"}
NoRun == [req |-> 0, attempt |-> 0]
Free(at) == [at |-> at, run |-> NoRun, again |-> FALSE]
Idle == Free("polling")

TypeOK ==
  /\ request \in [Requests -> Row]
  /\ worker \in [Workers -> [at: Place, run: Run \cup {NoRun}, again: BOOLEAN]]
  /\ orphaned \in [Workers -> BOOLEAN]
  /\ orphans \subseteq [worker: Workers, run: Run]
  /\ assessed \subseteq Run

Init ==
  /\ request = [r \in Requests |-> [status |-> "none", attempts |-> 0, stale |-> FALSE]]
  /\ worker = [w \in Workers |-> Idle]
  /\ orphaned = [w \in Workers |-> FALSE]
  /\ orphans = {}
  /\ assessed = {}

----------------------------------------------------------------------------

Live(r) == request[r].status \in {"queued", "claimed"}
OtherLive(r) == \E q \in Requests : q # r /\ AppOf[q] = AppOf[r] /\ Live(q)

\* Leaving "claimed" clears the age of the claim, as far as anything reads it.
Becomes(r, status) == [request EXCEPT ![r].status = status, ![r].stale = FALSE]

Holds(w, r) == worker[w].run.req = r
Goes(w, at, again) == worker' = [worker EXCEPT ![w].at = at, ![w].again = again]

\* processNextRequest has returned: the loop looks for an orphaned run first.
Returns(w) ==
  worker' = [worker EXCEPT ![w] = Free(IF orphaned[w] THEN "stopped" ELSE "polling")]

----------------------------------------------------------------------------
(* The customer and the re-assessment sweep *)

\* requestAssessment, sweepScheduledReassessments; the unique index has the say.
Submit(r) ==
  /\ request[r].status = "none"
  /\ \A q \in Requests : q < r => request[q].status # "none"
  /\ ~OtherLive(r)
  /\ request' = Becomes(r, "queued")
  /\ UNCHANGED <<worker, orphaned, orphans, assessed>>

\* The only update a member's policy lets through.
Cancel(r) ==
  /\ request[r].status = "queued"
  /\ request' = Becomes(r, "cancelled")
  /\ UNCHANGED <<worker, orphaned, orphans, assessed>>

----------------------------------------------------------------------------
(* A worker's loop *)

Oldest(r) ==
  /\ request[r].status = "queued"
  /\ \A q \in Requests : request[q].status = "queued" => r <= q

\* claimNextRequest.  Rows another claim has locked are skipped, which is this
\* order of the two claims.
Claim(w) ==
  /\ worker[w].at = "polling"
  /\ \E r \in Requests :
       LET tries == request[r].attempts + 1 IN
       /\ Oldest(r) /\ tries <= AttemptsCheck
       /\ request' = [request EXCEPT ![r] = [status |-> "claimed", attempts |-> tries,
                                             stale |-> FALSE]]
       /\ worker' = [worker EXCEPT ![w] = [at |-> "running", again |-> FALSE,
                                           run |-> [req |-> r, attempt |-> tries]]]
  /\ UNCHANGED <<orphaned, orphans, assessed>>

\* runAssessmentJob returns: persistOutcome has committed.
RunSucceeds(w) ==
  /\ worker[w].at = "running"
  /\ assessed' = assessed \cup {worker[w].run}
  /\ Goes(w, "completing", FALSE)
  /\ UNCHANGED <<request, orphaned, orphans>>

\* It throws, and isRetryableFailure judges the error.
RunFails(w) ==
  /\ worker[w].at = "running"
  /\ \E retryable \in BOOLEAN : Goes(w, "failing", retryable)
  /\ UNCHANGED <<request, orphaned, orphans, assessed>>

\* It throws because persistOutcome's commit did not answer, and was made.
RunUnheard(w) ==
  /\ worker[w].at = "running"
  /\ assessed' = assessed \cup {worker[w].run}
  /\ Goes(w, "failing", TRUE)
  /\ UNCHANGED <<request, orphaned, orphans>>

\* Mistake: the timer resolves the race instead of rejecting it.
RunTimesOutQuietly(w) ==
  /\ worker[w].at = "running"
  /\ orphans' = orphans \cup {[worker |-> w, run |-> worker[w].run]}
  /\ Goes(w, "completing", FALSE)
  /\ UNCHANGED <<request, orphaned, assessed>>

\* withRunTimeout stops waiting; RunTimedOutError is retryable.
RunTimesOut(w) ==
  /\ worker[w].at = "running"
  /\ orphaned' = [orphaned EXCEPT ![w] = TRUE]
  /\ orphans' = orphans \cup {[worker |-> w, run |-> worker[w].run]}
  /\ Goes(w, "failing", TRUE)
  /\ UNCHANGED <<request, assessed>>

\* completeRequest: WHERE id, whatever the row has become.
Complete(w) ==
  /\ worker[w].at = "completing"
  /\ request' = Becomes(worker[w].run.req, "completed")
  /\ Returns(w)
  /\ UNCHANGED <<orphaned, orphans, assessed>>

\* The connection is lost, with the write or with only its answer: the catch fails
\* the request either way.
CompleteLost(w) ==
  /\ worker[w].at = "completing"
  /\ Goes(w, "failing", TRUE)
  /\ request' \in {request, Becomes(worker[w].run.req, "completed")}
  /\ UNCHANGED <<orphaned, orphans, assessed>>

\* Mistake: one attempt more than there are.
ReadAttemptsOffByOne(w) ==
  /\ worker[w].at = "failing"
  /\ Goes(w, "writing",
          worker[w].again /\ request[worker[w].run.req].attempts <= MaxAttempts)
  /\ UNCHANGED <<request, orphaned, orphans, assessed>>

\* failRequest, first statement
ReadAttempts(w) ==
  /\ worker[w].at = "failing"
  /\ Goes(w, "writing",
          worker[w].again /\ request[worker[w].run.req].attempts < MaxAttempts)
  /\ UNCHANGED <<request, orphaned, orphans, assessed>>

\* failRequest, second statement: WHERE id, and the unique index has its say.
FailureWritten(w) ==
  LET r == worker[w].run.req IN
  /\ worker[w].at = "writing"
  /\ worker[w].again => ~OtherLive(r)
  /\ request' = Becomes(r, IF worker[w].again THEN "queued" ELSE "failed")
  /\ UNCHANGED <<orphaned, orphans, assessed>>

WriteFailure(w) == FailureWritten(w) /\ Returns(w)

GoesOn(w) == worker' = [worker EXCEPT ![w] = Idle]

\* No connection, or the index refuses: the error leaves processNextRequest, and
\* the loop catches it without looking for an orphaned run.
FailureLost(w) ==
  /\ worker[w].at \in {"failing", "writing"}
  /\ GoesOn(w)
  /\ UNCHANGED <<request, orphaned, orphans, assessed>>

\* The same error, of a write that was made and whose answer is lost.
FailureUnheard(w) == FailureWritten(w) /\ GoesOn(w)

----------------------------------------------------------------------------
(* The process around the loop *)

\* The run nobody waits for reaches persistOutcome, which asks about the
\* authorisation and not about the request.
OrphanWrites(o) ==
  /\ assessed' = assessed \cup {o.run}
  /\ orphans' = orphans \ {o}
  /\ UNCHANGED <<request, worker, orphaned>>

OrphanEnds(o) ==
  /\ orphans' = orphans \ {o}
  /\ UNCHANGED <<request, worker, orphaned, assessed>>

\* A process dies and is started again: a crash, a deploy, an eviction.
Restart(w) ==
  /\ worker' = [worker EXCEPT ![w] = Idle]
  /\ orphaned' = [orphaned EXCEPT ![w] = FALSE]
  /\ orphans' = {o \in orphans : o.worker # w}
  /\ UNCHANGED <<request, assessed>>

\* The loop has ended and nothing is in flight: the process has nothing left to
\* keep it alive, exits, and is started again.
Exit(w) ==
  /\ worker[w].at = "stopped"
  /\ \A o \in orphans : o.worker # w
  /\ Restart(w)

----------------------------------------------------------------------------
(* Sweep: reclaim *)

\* Mistake: the margin is turned round, and a claim goes stale in live hands.
ClaimGoesStaleEarly(r) ==
  /\ request[r].status = "claimed" /\ ~request[r].stale
  /\ request' = [request EXCEPT ![r].stale = TRUE]
  /\ UNCHANGED <<worker, orphaned, orphans, assessed>>

\* Ninety minutes pass on a claim.
ClaimGoesStale(r) ==
  /\ request[r].status = "claimed" /\ ~request[r].stale
  /\ Timely => \A w \in Workers : ~Holds(w, r)
  /\ request' = [request EXCEPT ![r].stale = TRUE]
  /\ UNCHANGED <<worker, orphaned, orphans, assessed>>

Reclaimable(more) ==
  {r \in Requests : /\ request[r].status = "claimed" /\ request[r].stale
                    /\ more = (request[r].attempts < MaxAttempts)}

TakeBack(S, status) ==
  /\ S # {}
  /\ request' = [r \in Requests |-> IF r \in S
                   THEN [request[r] EXCEPT !.status = status, !.stale = FALSE]
                   ELSE request[r]]
  /\ UNCHANGED <<worker, orphaned, orphans, assessed>>

ReclaimRequeue == TakeBack(Reclaimable(TRUE), "queued")
\* Mistake: only a request with more attempts than there are is given up.
ReclaimAbandonOver ==
  TakeBack({r \in Reclaimable(FALSE) : request[r].attempts > MaxAttempts}, "failed")

\* Mistake: it is written down under a status the table does not have.
ReclaimAbandonMisspelt == TakeBack(Reclaimable(FALSE), "abandoned")

ReclaimAbandon == TakeBack(Reclaimable(FALSE), "failed")

----------------------------------------------------------------------------

Loop(w) ==
  \/ Claim(w)
  \/ RunSucceeds(w) \/ RunFails(w) \/ RunUnheard(w) \/ RunTimesOut(w)
  \/ Complete(w) \/ CompleteLost(w)
  \/ ReadAttempts(w) \/ WriteFailure(w) \/ FailureLost(w) \/ FailureUnheard(w)

Next ==
  \/ \E r \in Requests : Submit(r) \/ Cancel(r) \/ ClaimGoesStale(r)
  \/ \E w \in Workers : Loop(w) \/ Restart(w) \/ Exit(w)
  \/ \E o \in orphans : OrphanWrites(o) \/ OrphanEnds(o)
  \/ ReclaimRequeue \/ ReclaimAbandon

Spec == Init /\ [][Next]_vars

\* The loop goes on in a live process, a timer bounds what it waits for, time
\* passes and the reclaim sweep runs.  A run that hangs may hang for ever.
Fairness ==
  /\ \A w \in Workers : WF_vars(Loop(w)) /\ WF_vars(Exit(w))
  /\ \A r \in Requests : WF_vars(ClaimGoesStale(r))
  /\ WF_vars(ReclaimRequeue) /\ WF_vars(ReclaimAbandon)

HungSpec == Spec /\ Fairness

\* Somebody replaces a process whose loop has stopped, hung run or not.
FairSpec == HungSpec /\ \A w \in Workers : WF_vars(worker[w].at = "stopped" /\ Restart(w))

----------------------------------------------------------------------------
(* What must hold while writes are timely *)

\* Completed, by a write of whose success its own worker has not heard.
Unheard(r) == request[r].status = "completed" /\ \E w \in Workers : Holds(w, r)

Shown(r) == IF Unheard(r) THEN "unheard" ELSE request[r].status

Lifecycle == INSTANCE RequestLifecycle
  WITH status <- [r \in Requests |-> Shown(r)],
       attempts <- [r \in Requests |-> request[r].attempts]

\* Whatever claims, failures, timeouts, crashes, lost answers and reclaims do to the
\* rows, each request only ever moves as RequestLifecycle says: it is never begun
\* more than MaxAttempts times, and its answer is undone only where the worker that
\* wrote "completed" lost the answer to that very write.
RequestsFollowTheirLifecycle == Lifecycle!Spec

\* No two processes wait for a run of the same request, and the one that does
\* holds the attempt the row counts: the claim is theirs until they write, and until
\* they have heard so.  (claimNextRequest, reclaimStaleRequests)
OneWorkerPerRequest ==
  \A w \in Workers : worker[w].run # NoRun =>
    LET r == worker[w].run.req IN
    /\ \/ request[r].status = "claimed"
       \/ request[r].status = "completed" /\ worker[w].at \in {"failing", "writing"}
    /\ request[r].attempts = worker[w].run.attempt
    /\ \A v \in Workers : v # w => ~Holds(v, r)

\* A request marked completed has an assessment behind it, written by its last
\* attempt.  (processNextRequest)
CompletedWasAssessed ==
  \A r \in Requests : request[r].status = "completed"
                        => [req |-> r, attempt |-> request[r].attempts] \in assessed

\* No request is queued or in progress for ever, through crashes, lost writes and
\* a younger or older neighbour: the row that would stop an application being
\* re-assessed always clears.  (reclaimStaleRequests)
EveryRequestIsAnswered == \A r \in Requests : Live(r) ~> ~Live(r)

----------------------------------------------------------------------------
(* What the program says of itself, and does not do *)

\* main.ts on a loop stopped by a run it gave up on: "Ending the process is the
\* only way to be sure it does not", and its test: "which is what ends the process".
AStoppedLoopEndsTheProcess ==
  \A w \in Workers : worker[w].at = "stopped" ~> worker[w].at # "stopped"

\* RunTimedOutError, the error logged and kept as the request's last_error: "Nothing
\* it may still write will be accepted."
NothingIsAcceptedFromAnOrphan ==
  [][\A o \in orphans : o.run \in assessed' => o.run \in assessed]_vars
=============================================================================
