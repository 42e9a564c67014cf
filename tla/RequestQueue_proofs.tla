------------------------ MODULE RequestQueue_proofs ------------------------
(***************************************************************************)
(* The safety of the queue for any requests, workers and number of         *)
(* attempts, as long as writes are timely: TypeOK, OneWorkerPerRequest,    *)
(* CompletedWasAssessed, and that the queue implements RequestLifecycle.   *)
(*                                                                         *)
(* The invariant adds what the workers rely on without asking: a row in    *)
(* somebody's hands is not stale, which is where Timely is used, it is     *)
(* claimed, or completed by a write its holder has not heard of, and a row *)
(* that may still be begun has an attempt left.                            *)
(***************************************************************************)
EXTENDS RequestQueue, TLAPS

Busy == {"running", "completing", "failing", "writing"}

\* What a row is while a worker that has come to "at" holds it.
Held(row, at) ==
  /\ \/ row.status = "claimed"
     \/ row.status = "completed" /\ at \in {"failing", "writing"}
  /\ ~row.stale

\* What a worker's loop may count on, wherever it is.
WorkerFacts(w) ==
  LET run == worker[w].run IN
  /\ worker[w].at \in Busy <=> run # NoRun
  /\ run # NoRun =>
       /\ Held(request[run.req], worker[w].at)
       /\ request[run.req].attempts = run.attempt
       /\ \A v \in Workers : v # w => ~Holds(v, run.req)
  /\ (worker[w].at = "writing" /\ worker[w].again) => run.attempt < MaxAttempts
  /\ worker[w].at = "completing" => run \in assessed

\* What a row may be counted on for, whoever holds it.
RowFacts(r) ==
  /\ request[r].attempts <= MaxAttempts
  /\ request[r].status \in {"none", "queued"} => request[r].attempts < MaxAttempts
  /\ request[r].status = "completed" => [req |-> r, attempt |-> request[r].attempts] \in assessed

Inv ==
  /\ Timely
  /\ TypeOK
  /\ \A w \in Workers : WorkerFacts(w)
  /\ \A r \in Requests : RowFacts(r)

----------------------------------------------------------------------------
(* Steps that leave a worker alone *)

\* A worker who is not touched, whose row is not, and whose request nobody else
\* takes up, may count on what it counted on.
LEMMA Bystander ==
  ASSUME Inv, NEW v \in Workers, worker'[v] = worker[v], assessed \subseteq assessed',
         worker[v].run # NoRun =>
           /\ request'[worker[v].run.req] = request[worker[v].run.req]
           /\ \A u \in Workers : u # v => worker'[u].run.req # worker[v].run.req
  PROVE  WorkerFacts(v)'
<1>1. WorkerFacts(v)
  BY DEF Inv
<1> QED BY <1>1 DEF WorkerFacts, Holds, Busy, NoRun

\* A row that does not change keeps its facts.
LEMMA RowKept ==
  ASSUME Inv, NEW r \in Requests, request'[r] = request[r], assessed \subseteq assessed'
  PROVE  RowFacts(r)'
<1>1. RowFacts(r)
  BY DEF Inv
<1> QED BY <1>1 DEF RowFacts

\* A busy worker holds a run, of a row that counts its attempt.
LEMMA BusyHolds ==
  ASSUME Inv, NEW w \in Workers, worker[w].at \in Busy
  PROVE  /\ worker[w].run \in Run /\ worker[w].run # NoRun
         /\ worker[w].run.req \in Requests
         /\ Held(request[worker[w].run.req], worker[w].at)
         /\ request[worker[w].run.req].attempts = worker[w].run.attempt
         /\ \A v \in Workers : v # w => worker[v].run.req # worker[w].run.req
<1>1. WorkerFacts(w)
  BY DEF Inv
<1>2. worker[w].run \in Run \cup {NoRun}
  BY DEF Inv, TypeOK
<1> QED BY <1>1, <1>2 DEF WorkerFacts, Run, Holds

\* Only a row nobody holds is stale, or neither claimed nor completed.
LEMMA NotHeld ==
  ASSUME Inv, NEW r \in Requests,
         request[r].status \notin {"claimed", "completed"} \/ request[r].stale
  PROVE  \A w \in Workers : worker[w].run # NoRun => worker[w].run.req # r
<1>1. \A w \in Workers : WorkerFacts(w)
  BY DEF Inv
<1> QED BY <1>1 DEF WorkerFacts, Held

----------------------------------------------------------------------------
(* Three kinds of step *)

\* Goes moves one process, and leaves it the run it had.
LEMMA OneGoes ==
  ASSUME TypeOK, NEW w \in Workers, NEW at \in Busy, NEW again \in BOOLEAN,
         Goes(w, at, again)
  PROVE  /\ worker'[w] = [at |-> at, run |-> worker[w].run, again |-> again]
         /\ \A v \in Workers : v # w => worker'[v] = worker[v]
<1>1. worker' = [worker EXCEPT ![w].at = at, ![w].again = again]
  BY DEF Goes
<1>2. worker \in [Workers -> [at: Place, run: Run \cup {NoRun}, again: BOOLEAN]]
  BY DEF TypeOK
<1>3. \A v \in Workers : v # w => worker'[v] = worker[v]
  BY <1>1, <1>2
<1>4. worker'[w] = [[worker[w] EXCEPT !.at = at] EXCEPT !.again = again]
  BY <1>1, <1>2
<1>5. PICK held : held = worker[w]
  OBVIOUS
<1>6. held \in [at: Place, run: Run \cup {NoRun}, again: BOOLEAN]
  BY <1>2, <1>5
<1>7. [held EXCEPT !.at = at] = [at |-> at, run |-> held.run, again |-> held.again]
  BY <1>6
<1>8. [[at |-> at, run |-> held.run, again |-> held.again] EXCEPT !.again = again]
        = [at |-> at, run |-> held.run, again |-> again]
  OBVIOUS
<1> QED BY <1>3, <1>4, <1>5, <1>7, <1>8

\* The loop goes on with the run it has, having changed no row but its own.
LEMMA HoldsOn ==
  ASSUME Inv, NEW w \in Workers, NEW at \in Busy, NEW again \in BOOLEAN,
         worker[w].at \in Busy, Goes(w, at, again),
         request' \in [Requests -> Row],
         \A r \in Requests : r # worker[w].run.req => request'[r] = request[r],
         \A r \in Requests : r = worker[w].run.req =>
           RowFacts(r)' /\ Held(request'[r], at) /\ request'[r].attempts = request[r].attempts,
         assessed \subseteq assessed', assessed' \subseteq Run,
         orphaned' \in [Workers -> BOOLEAN], orphans' \subseteq [worker: Workers, run: Run],
         at = "completing" => worker[w].run \in assessed',
         (at = "writing" /\ again) => worker[w].run.attempt < MaxAttempts
  PROVE  Inv'
<1>1. worker'[w] = [at |-> at, run |-> worker[w].run, again |-> again]
  BY OneGoes DEF Inv
<1>2. \A v \in Workers : v # w => worker'[v] = worker[v]
  BY OneGoes DEF Inv
<1>3. \A v \in Workers : worker'[v].run = worker[v].run
  BY <1>1, <1>2
<1>4. TypeOK'
  <2>1. worker \in [Workers -> [at: Place, run: Run \cup {NoRun}, again: BOOLEAN]]
    BY DEF Inv, TypeOK
  <2>2. PICK row : row = [at |-> at, run |-> worker[w].run, again |-> again]
    OBVIOUS
  <2>3. row \in [at: Place, run: Run \cup {NoRun}, again: BOOLEAN]
    BY <2>1, <2>2 DEF Busy, Place
  <2>4. worker' = [v \in Workers |-> worker'[v]]
    BY <2>1 DEF Goes
  <2>5. worker' \in [Workers -> [at: Place, run: Run \cup {NoRun}, again: BOOLEAN]]
    BY <1>1, <1>2, <2>1, <2>2, <2>3, <2>4
  <2> QED BY <2>5 DEF Inv, TypeOK
<1>5. ASSUME NEW r \in Requests PROVE RowFacts(r)'
  <2>1. CASE r = worker[w].run.req
    BY <2>1
  <2>2. CASE r # worker[w].run.req
    BY <2>2, RowKept
  <2> QED BY <2>1, <2>2
<1>6. ASSUME NEW v \in Workers PROVE WorkerFacts(v)'
  <2>1. WorkerFacts(v)
    BY DEF Inv
  <2>2. CASE v = w
    <3>1. /\ worker[w].run \in Run /\ worker[w].run # NoRun /\ worker[w].run.req \in Requests
          /\ \A u \in Workers : u # w => worker[u].run.req # worker[w].run.req
          /\ request[worker[w].run.req].attempts = worker[w].run.attempt
      BY BusyHolds
    <3>2. /\ Held(request'[worker[w].run.req], at)
          /\ request'[worker[w].run.req].attempts = worker[w].run.attempt
      BY <3>1
    <3> QED BY <1>1, <1>3, <2>2, <3>1, <3>2 DEF WorkerFacts, Holds
  <2>3. CASE v # w
    <3>1. ASSUME worker[v].run # NoRun
          PROVE  request'[worker[v].run.req] = request[worker[v].run.req]
      <4>1. worker[v].run.req \in Requests
        BY <3>1 DEF Inv, TypeOK, Run
      <4>2. worker[w].run.req # worker[v].run.req
        BY <2>1, <2>3, <3>1 DEF WorkerFacts, Holds
      <4> QED BY <4>1, <4>2
    <3> QED BY <1>2, <1>3, <2>1, <2>3, <3>1 DEF WorkerFacts, Holds
  <2> QED BY <2>2, <2>3
<1> QED BY <1>4, <1>5, <1>6 DEF Inv

\* The same, and not even its own.
LEMMA GoesKeeps ==
  ASSUME Inv, NEW w \in Workers, NEW at \in Busy, NEW again \in BOOLEAN,
         worker[w].at \in Busy, Goes(w, at, again), UNCHANGED request,
         worker[w].at \in {"failing", "writing"} => at \in {"failing", "writing"},
         assessed \subseteq assessed', assessed' \subseteq Run,
         orphaned' \in [Workers -> BOOLEAN], orphans' \subseteq [worker: Workers, run: Run],
         at = "completing" => worker[w].run \in assessed',
         (at = "writing" /\ again) => worker[w].run.attempt < MaxAttempts
  PROVE  Inv'
<1>1. \A r \in Requests : RowFacts(r)'
  BY RowKept
<1>2. Held(request'[worker[w].run.req], at)
  BY BusyHolds DEF Held
<1>3. request' \in [Requests -> Row]
  BY DEF Inv, TypeOK
<1> QED BY <1>1, <1>2, <1>3, HoldsOn

\* A worker lets go, having changed no row but the one it held.
LEMMA LetsGo ==
  ASSUME Inv, NEW w \in Workers, NEW at \in Place \ Busy,
         worker' = [worker EXCEPT ![w] = Free(at)],
         request' \in [Requests -> Row], UNCHANGED assessed,
         orphaned' \in [Workers -> BOOLEAN], orphans' \subseteq [worker: Workers, run: Run],
         \A r \in Requests : r # worker[w].run.req => request'[r] = request[r],
         \A r \in Requests : r = worker[w].run.req => RowFacts(r)'
  PROVE  Inv'
<1>1. worker'[w] = [at |-> at, run |-> NoRun, again |-> FALSE]
  BY DEF Inv, TypeOK, Free
<1>2. \A v \in Workers : v # w => worker'[v] = worker[v]
  BY DEF Inv, TypeOK
<1>3. TypeOK'
  <2>1. worker' \in [Workers -> [at: Place, run: Run \cup {NoRun}, again: BOOLEAN]]
    BY DEF Inv, TypeOK, Free
  <2> QED BY <2>1 DEF Inv, TypeOK
<1>4. ASSUME NEW r \in Requests PROVE RowFacts(r)'
  <2>1. CASE r = worker[w].run.req
    BY <2>1
  <2>2. CASE r # worker[w].run.req
    BY <2>2, RowKept
  <2> QED BY <2>1, <2>2
<1>5. ASSUME NEW v \in Workers PROVE WorkerFacts(v)'
  <2>1. CASE v = w
    BY <1>1, <2>1 DEF WorkerFacts, Busy, Place
  <2>2. CASE v # w
    <3>1. ASSUME worker[v].run # NoRun
          PROVE  /\ request'[worker[v].run.req] = request[worker[v].run.req]
                 /\ \A u \in Workers : u # v => worker'[u].run.req # worker[v].run.req
      <4>1. WorkerFacts(v)
        BY DEF Inv
      <4>2. /\ worker[v].run.req \in Requests /\ worker[v].run.req # 0
            /\ \A u \in Workers : u # v => worker[u].run.req # worker[v].run.req
        BY <3>1, <4>1, QueueAssumption DEF WorkerFacts, Holds, Inv, TypeOK, Run
      <4> QED BY <1>1, <1>2, <2>2, <4>2 DEF NoRun
    <3> QED BY <1>2, <2>2, <3>1, Bystander
  <2> QED BY <2>1, <2>2
<1> QED BY <1>3, <1>4, <1>5 DEF Inv

\* Rows change that nobody holds.
LEMMA RowsMove ==
  ASSUME Inv, UNCHANGED <<worker, orphaned, orphans, assessed>>,
         request' \in [Requests -> Row],
         \A r \in Requests : request'[r] = request[r]
             \/ /\ RowFacts(r)'
                /\ \A w \in Workers : worker[w].run # NoRun => worker[w].run.req # r
  PROVE  Inv'
<1>1. TypeOK'
  BY DEF Inv, TypeOK
<1>2. \A r \in Requests : RowFacts(r)'
  BY RowKept
<1>3. ASSUME NEW v \in Workers PROVE WorkerFacts(v)'
  <2>1. ASSUME worker[v].run # NoRun
        PROVE  /\ request'[worker[v].run.req] = request[worker[v].run.req]
               /\ \A u \in Workers : u # v => worker'[u].run.req # worker[v].run.req
    <3>1. WorkerFacts(v)
      BY DEF Inv
    <3>2. worker[v].run.req \in Requests
      BY <2>1 DEF Inv, TypeOK, Run
    <3> QED BY <2>1, <3>1, <3>2 DEF WorkerFacts, Holds
  <2> QED BY <2>1, Bystander
<1> QED BY <1>1, <1>2, <1>3 DEF Inv

\* What Returns leaves of the worker.
LEMMA ReturnsIdle ==
  ASSUME TypeOK, NEW w \in Workers, Returns(w)
  PROVE  \E at \in Place \ Busy :
           worker' = [worker EXCEPT ![w] = Free(at)]
<1> DEFINE at == IF orphaned[w] THEN "stopped" ELSE "polling"
<1>1. at \in Place \ Busy
  BY DEF Place, Busy
<1> QED BY <1>1 DEF Returns

\* What Becomes makes of the rows.
LEMMA BecomesRow ==
  ASSUME TypeOK, NEW r \in Requests, NEW status \in RequestStatus, request' = Becomes(r, status)
  PROVE  /\ request' \in [Requests -> Row]
         /\ \A q \in Requests : q # r => request'[q] = request[q]
         /\ request'[r].status = status /\ request'[r].attempts = request[r].attempts
         /\ ~request'[r].stale
<1>1. request[r] \in Row
  BY DEF TypeOK
<1>2. \A q \in Requests : q # r => request'[q] = request[q]
  BY DEF TypeOK, Becomes
<1>3. request'[r] = [status |-> status, attempts |-> request[r].attempts, stale |-> FALSE]
  BY <1>1 DEF TypeOK, Becomes, Row
<1>4. request' \in [Requests -> Row]
  BY <1>1, <1>2, <1>3 DEF TypeOK, Becomes, Row
<1> QED BY <1>2, <1>3, <1>4

----------------------------------------------------------------------------
(* The invariant *)

\* At first nothing has been submitted and nobody holds anything.
LEMMA InitInv == Timely /\ Init => Inv
<1> SUFFICES ASSUME Timely, Init PROVE Inv
  OBVIOUS
<1>1. TypeOK
  BY QueueAssumption DEF Init, TypeOK, Row, RequestStatus, Idle, Free, Place
<1>2. \A w \in Workers : WorkerFacts(w)
  BY DEF Init, WorkerFacts, Idle, Free, Busy
<1>3. \A r \in Requests : RowFacts(r)
  <2> TAKE r \in Requests
  <2>1. request[r].status = "none" /\ request[r].attempts = 0
    BY DEF Init
  <2> QED BY <2>1, QueueAssumption DEF RowFacts
<1> QED BY <1>1, <1>2, <1>3 DEF Inv

\* Every step of the loop keeps it.
LEMMA LoopInv ==
  ASSUME Inv, NEW w \in Workers, Loop(w)
  PROVE  Inv'
<1>t. TypeOK /\ WorkerFacts(w)
  BY DEF Inv
<1>1. CASE Claim(w)
  <2>1. PICK r \in Requests :
          LET tries == request[r].attempts + 1 IN
          /\ Oldest(r) /\ tries <= AttemptsCheck
          /\ request' = [request EXCEPT ![r] = [status |-> "claimed", attempts |-> tries,
                                                stale |-> FALSE]]
          /\ worker' = [worker EXCEPT ![w] = [at |-> "running", again |-> FALSE,
                                              run |-> [req |-> r, attempt |-> tries]]]
    BY <1>1 DEF Claim
  <2> DEFINE tries == request[r].attempts + 1
             run == [req |-> r, attempt |-> tries]
  <2>2. /\ request[r] \in Row /\ request[r].status = "queued" /\ RowFacts(r)
        /\ worker[w].at = "polling" /\ assessed' = assessed
    BY <1>1, <2>1 DEF Claim, Oldest, Inv, TypeOK
  <2>3. tries \in 1..AttemptsCheck /\ tries <= MaxAttempts /\ run \in Run
    BY <2>1, <2>2, QueueAssumption DEF Row, RowFacts, Run
  <2>4. /\ request'[r] = [status |-> "claimed", attempts |-> tries, stale |-> FALSE]
        /\ \A q \in Requests : q # r => request'[q] = request[q]
        /\ worker'[w] = [at |-> "running", again |-> FALSE, run |-> run]
        /\ \A v \in Workers : v # w => worker'[v] = worker[v]
    BY <1>t, <2>1 DEF TypeOK
  <2>5. TypeOK'
    <3>1. request' \in [Requests -> Row]
      BY <1>t, <2>1, <2>3, QueueAssumption DEF TypeOK, Row, RequestStatus
    <3>2. worker' \in [Workers -> [at: Place, run: Run \cup {NoRun}, again: BOOLEAN]]
      BY <1>t, <2>1, <2>3 DEF TypeOK, Place
    <3> QED BY <1>1, <1>t, <3>1, <3>2 DEF TypeOK, Claim
  <2>6. ASSUME NEW q \in Requests PROVE RowFacts(q)'
    <3>1. CASE q = r
      BY <2>3, <2>4, <3>1 DEF RowFacts
    <3>2. CASE q # r
      BY <2>2, <2>4, <3>2, RowKept
    <3> QED BY <3>1, <3>2
  <2>7. \A u \in Workers : worker[u].run # NoRun => worker[u].run.req # r
    BY <2>2, NotHeld
  <2>8. \A u \in Workers : worker[u].run.req # r
    BY <2>7, QueueAssumption DEF NoRun
  <2>9. ASSUME NEW v \in Workers PROVE WorkerFacts(v)'
    <3>1. CASE v = w
      <4>1. run # NoRun
        BY QueueAssumption DEF NoRun
      <4>2. \A u \in Workers : u # w => worker'[u].run.req # r
        BY <2>4, <2>8
      <4>3. Held(request'[r], "running")
        BY <2>4 DEF Held
      <4> QED BY <2>4, <3>1, <4>1, <4>2, <4>3 DEF WorkerFacts, Holds, Busy
    <3>2. CASE v # w
      <4>1. ASSUME worker[v].run # NoRun
            PROVE  /\ request'[worker[v].run.req] = request[worker[v].run.req]
                   /\ \A u \in Workers : u # v => worker'[u].run.req # worker[v].run.req
        <5>1. WorkerFacts(v) /\ worker[v].run.req \in Requests
          BY <4>1 DEF Inv, TypeOK, Run
        <5>2. \A u \in Workers : u # v => worker[u].run.req # worker[v].run.req
          BY <4>1, <5>1 DEF WorkerFacts, Holds
        <5> QED BY <2>4, <2>8, <5>1, <5>2
      <4> QED BY <2>2, <2>4, <3>2, <4>1, Bystander
    <3> QED BY <3>1, <3>2
  <2> QED BY <2>5, <2>6, <2>9 DEF Inv
<1>2. CASE RunSucceeds(w)
  <2>1. worker[w].at = "running" /\ worker[w].run \in Run
    BY <1>2, BusyHolds DEF RunSucceeds, Busy
  <2> QED BY <1>2, <1>t, <2>1, GoesKeeps DEF RunSucceeds, Busy, TypeOK
<1>3. CASE RunFails(w)
  BY <1>3, <1>t, GoesKeeps DEF RunFails, Busy, TypeOK
<1>10. CASE RunUnheard(w)
  <2>1. worker[w].at = "running" /\ worker[w].run \in Run
    BY <1>10, BusyHolds DEF RunUnheard, Busy
  <2> QED BY <1>10, <1>t, <2>1, GoesKeeps DEF RunUnheard, Busy, TypeOK
<1>4. CASE RunTimesOut(w)
  <2>1. worker[w].at = "running" /\ worker[w].run \in Run
    BY <1>4, BusyHolds DEF RunTimesOut, Busy
  <2>2. /\ orphaned' \in [Workers -> BOOLEAN]
        /\ orphans' \subseteq [worker: Workers, run: Run]
    BY <1>4, <1>t, <2>1 DEF RunTimesOut, TypeOK
  <2> QED BY <1>4, <1>t, <2>1, <2>2, GoesKeeps DEF RunTimesOut, Busy, TypeOK
<1>5. CASE Complete(w)
  <2>r. PICK r \in Requests : r = worker[w].run.req
    BY <1>5, BusyHolds DEF Complete, Busy
  <2>1. /\ worker[w].run \in Run /\ worker[w].run \in assessed /\ RowFacts(r)
        /\ request[r].attempts = worker[w].run.attempt
    BY <1>5, <1>t, <2>r, BusyHolds DEF Complete, Busy, WorkerFacts, Inv
  <2>2. PICK at \in Place \ Busy :
          worker' = [worker EXCEPT ![w] = Free(at)]
    BY <1>5, <1>t, ReturnsIdle DEF Complete
  <2>3. /\ request' \in [Requests -> Row]
        /\ \A q \in Requests : q # r => request'[q] = request[q]
        /\ request'[r].status = "completed" /\ request'[r].attempts = request[r].attempts
    BY <1>5, <1>t, <2>r, BecomesRow DEF Complete, RequestStatus
  <2>4. worker[w].run = [req |-> r, attempt |-> request[r].attempts]
    BY <2>r, <2>1 DEF Run
  <2>5. RowFacts(r)'
    BY <1>5, <2>1, <2>3, <2>4 DEF RowFacts, Complete
  <2> QED BY <1>5, <1>t, <2>r, <2>2, <2>3, <2>5, LetsGo DEF Complete, TypeOK
<1>6. CASE CompleteLost(w)
  <2>1. CASE request' = request
    BY <1>6, <1>t, <2>1, GoesKeeps DEF CompleteLost, Busy, TypeOK
  <2>2. CASE request' = Becomes(worker[w].run.req, "completed")
    <3>r. PICK r \in Requests : r = worker[w].run.req
      BY <1>6, BusyHolds DEF CompleteLost, Busy
    <3>1. /\ worker[w].run \in Run /\ worker[w].run \in assessed /\ RowFacts(r)
          /\ request[r].attempts = worker[w].run.attempt
      BY <1>6, <1>t, <3>r, BusyHolds DEF CompleteLost, Busy, WorkerFacts, Inv
    <3>2. /\ request' \in [Requests -> Row]
          /\ \A q \in Requests : q # r => request'[q] = request[q]
          /\ request'[r].status = "completed" /\ request'[r].attempts = request[r].attempts
          /\ ~request'[r].stale
      BY <1>t, <2>2, <3>r, BecomesRow DEF RequestStatus
    <3>3. worker[w].run = [req |-> r, attempt |-> request[r].attempts]
      BY <3>r, <3>1 DEF Run
    <3>4. RowFacts(r)'
      BY <1>6, <3>1, <3>2, <3>3 DEF RowFacts, CompleteLost
    <3>5. Held(request'[r], "failing")
      BY <3>2 DEF Held
    <3> QED BY <1>6, <1>t, <3>r, <3>2, <3>4, <3>5, HoldsOn DEF CompleteLost, Busy, TypeOK
  <2> QED BY <1>6, <2>1, <2>2 DEF CompleteLost
<1>7. CASE ReadAttempts(w)
  <2> DEFINE again == worker[w].again /\ request[worker[w].run.req].attempts < MaxAttempts
  <2>1. again \in BOOLEAN
    OBVIOUS
  <2>2. worker[w].at = "failing" /\ Goes(w, "writing", again)
    BY <1>7 DEF ReadAttempts
  <2>3. again => worker[w].run.attempt < MaxAttempts
    BY <2>2, BusyHolds DEF Busy
  <2> QED BY <1>7, <1>t, <2>1, <2>2, <2>3, GoesKeeps DEF ReadAttempts, Busy, TypeOK
<1>8. CASE WriteFailure(w) \/ FailureUnheard(w)
  <2> DEFINE status == IF worker[w].again THEN "queued" ELSE "failed"
  <2>f. FailureWritten(w) /\ worker[w].at = "writing"
    BY <1>8 DEF WriteFailure, FailureUnheard, FailureWritten
  <2>r. PICK r \in Requests : r = worker[w].run.req
    BY <2>f, BusyHolds DEF Busy
  <2>1. /\ RowFacts(r) /\ request[r].attempts = worker[w].run.attempt
        /\ worker[w].again => worker[w].run.attempt < MaxAttempts
    BY <2>f, <1>t, <2>r, BusyHolds DEF Busy, WorkerFacts, Inv
  <2>2. PICK at \in Place \ Busy :
          worker' = [worker EXCEPT ![w] = Free(at)]
    <3>1. CASE WriteFailure(w)
      BY <1>t, <3>1, ReturnsIdle DEF WriteFailure
    <3>2. CASE FailureUnheard(w)
      BY <3>2 DEF FailureUnheard, GoesOn, Idle, Place, Busy
    <3> QED BY <1>8, <3>1, <3>2
  <2>3. request' = Becomes(r, status) /\ status \in RequestStatus
    BY <2>f, <2>r DEF FailureWritten, RequestStatus
  <2>4. /\ request' \in [Requests -> Row]
        /\ \A q \in Requests : q # r => request'[q] = request[q]
        /\ request'[r].status = status /\ request'[r].attempts = request[r].attempts
    BY <1>t, <2>3, BecomesRow
  <2>5. RowFacts(r)'
    <3>1. CASE worker[w].again
      BY <2>1, <2>4, <3>1 DEF RowFacts
    <3>2. CASE ~worker[w].again
      BY <2>1, <2>4, <3>2 DEF RowFacts
    <3> QED BY <3>1, <3>2
  <2> QED BY <2>f, <1>t, <2>r, <2>2, <2>4, <2>5, LetsGo DEF FailureWritten, TypeOK
<1>9. CASE FailureLost(w)
  <2>1. "polling" \in Place \ Busy
    BY DEF Place, Busy
  <2>2. \A r \in Requests : RowFacts(r)'
    BY <1>9, RowKept DEF FailureLost
  <2> QED BY <1>9, <1>t, <2>1, <2>2, LetsGo DEF FailureLost, GoesOn, TypeOK, Idle
<1> QED BY <1>1, <1>2, <1>3, <1>4, <1>5, <1>6, <1>7, <1>8, <1>9, <1>10 DEF Loop

\* A process that dies lets go of its run and changes no row.
LEMMA RestartInv ==
  ASSUME Inv, NEW w \in Workers, Restart(w)
  PROVE  Inv'
<1>1. "polling" \in Place \ Busy
  BY DEF Place, Busy
<1>2. \A r \in Requests : RowFacts(r)'
  BY RowKept DEF Restart
<1>3. orphaned' \in [Workers -> BOOLEAN] /\ orphans' \subseteq [worker: Workers, run: Run]
  BY DEF Restart, Inv, TypeOK
<1> QED BY <1>1, <1>2, <1>3, LetsGo DEF Restart, Inv, TypeOK, Idle

\* A statement that takes back or writes off stale claims touches no held row.
LEMMA TakeBackInv ==
  ASSUME Inv, NEW more \in BOOLEAN,
         TakeBack(Reclaimable(more), IF more THEN "queued" ELSE "failed")
  PROVE  Inv'
<1> DEFINE status == IF more THEN "queued" ELSE "failed"
<1>1. request' = [r \in Requests |-> IF r \in Reclaimable(more)
                    THEN [request[r] EXCEPT !.status = status, !.stale = FALSE] ELSE request[r]]
  BY DEF TakeBack
<1>r. ASSUME NEW r \in Requests PROVE request'[r] \in Row
  <2>1. PICK row : row = request[r]
    OBVIOUS
  <2>2. row \in Row
    BY <2>1 DEF Inv, TypeOK
  <2>3. [row EXCEPT !.status = status, !.stale = FALSE] \in Row
    BY <2>2 DEF Row, RequestStatus
  <2> QED BY <1>1, <2>1, <2>2, <2>3
<1>2. request' \in [Requests -> Row]
  <2> HIDE DEF status
  <2>1. request' = [r \in Requests |-> request'[r]]
    BY <1>1
  <2> QED BY <2>1, <1>r
<1>3. ASSUME NEW r \in Requests, request'[r] # request[r]
      PROVE  RowFacts(r)' /\ \A w \in Workers : worker[w].run # NoRun => worker[w].run.req # r
  <2>1. r \in Reclaimable(more) /\ request[r] \in Row /\ RowFacts(r)
    BY <1>1, <1>3 DEF Inv, TypeOK
  <2>2. request'[r].status = status /\ request'[r].attempts = request[r].attempts
    BY <1>1, <2>1 DEF Row
  <2>3. more = (request[r].attempts < MaxAttempts) /\ request[r].stale
    BY <2>1 DEF Reclaimable
  <2>4. RowFacts(r)'
    BY <2>1, <2>2, <2>3 DEF RowFacts
  <2> QED BY <2>3, <2>4, NotHeld
<1> QED BY <1>2, <1>3, RowsMove DEF TakeBack

\* Every step of the system keeps it.
LEMMA NextInv == Inv /\ [Next]_vars => Inv'
<1> SUFFICES ASSUME Inv, [Next]_vars PROVE Inv'
  OBVIOUS
<1>t. TypeOK
  BY DEF Inv
<1>1. ASSUME NEW r \in Requests, Submit(r) \/ Cancel(r) PROVE Inv'
  <2>1. PICK status \in {"queued", "cancelled"} :
          request' = Becomes(r, status) /\ UNCHANGED <<worker, orphaned, orphans, assessed>>
    BY <1>1 DEF Submit, Cancel
  <2>2. /\ request[r].status \in {"none", "queued"} /\ RowFacts(r)
        /\ \A w \in Workers : worker[w].run # NoRun => worker[w].run.req # r
    BY <1>1, NotHeld DEF Submit, Cancel, Inv
  <2>3. /\ request' \in [Requests -> Row]
        /\ \A q \in Requests : q # r => request'[q] = request[q]
        /\ request'[r].status = status /\ request'[r].attempts = request[r].attempts
    BY <1>t, <2>1, BecomesRow DEF RequestStatus
  <2>4. RowFacts(r)'
    BY <2>2, <2>3 DEF RowFacts
  <2> QED BY <2>1, <2>2, <2>3, <2>4, RowsMove
<1>7. ASSUME NEW r \in Requests, ClaimGoesStale(r) PROVE Inv'
  <2>1. /\ request[r] \in Row /\ RowFacts(r)
        /\ \A w \in Workers : ~Holds(w, r)
    BY <1>7 DEF ClaimGoesStale, Inv, TypeOK
  <2>2. /\ \A q \in Requests : q # r => request'[q] = request[q]
        /\ request'[r] = [request[r] EXCEPT !.stale = TRUE]
        /\ request' \in [Requests -> Row]
    BY <1>7, <1>t, <2>1 DEF ClaimGoesStale, TypeOK, Row
  <2>3. RowFacts(r)'
    BY <1>7, <2>1, <2>2 DEF RowFacts, Row, ClaimGoesStale
  <2> QED BY <1>7, <2>1, <2>2, <2>3, RowsMove DEF ClaimGoesStale, Holds
<1>2. ASSUME NEW w \in Workers, Restart(w) \/ Exit(w) PROVE Inv'
  BY <1>2, RestartInv DEF Exit
<1>3. ASSUME NEW o \in orphans, OrphanWrites(o) \/ OrphanEnds(o) PROVE Inv'
  <2>1. /\ UNCHANGED <<request, worker, orphaned>> /\ orphans' \subseteq orphans
        /\ assessed \subseteq assessed' /\ assessed' \subseteq Run
    BY <1>3, <1>t DEF OrphanWrites, OrphanEnds, TypeOK
  <2>2. TypeOK'
    BY <1>t, <2>1 DEF TypeOK
  <2>3. \A r \in Requests : RowFacts(r)'
    BY <2>1, RowKept
  <2>4. ASSUME NEW v \in Workers PROVE WorkerFacts(v)'
    <3>1. WorkerFacts(v)
      BY DEF Inv
    <3> QED BY <2>1, <3>1 DEF WorkerFacts, Holds
  <2> QED BY <2>2, <2>3, <2>4 DEF Inv
<1>4. CASE ReclaimRequeue
  BY <1>4, TakeBackInv DEF ReclaimRequeue
<1>5. CASE ReclaimAbandon
  BY <1>5, TakeBackInv DEF ReclaimAbandon
<1>6. CASE UNCHANGED vars
  BY <1>6 DEF vars, Inv, TypeOK, WorkerFacts, RowFacts, Holds
<1> QED BY <1>1, <1>2, <1>3, <1>4, <1>5, <1>6, <1>7, LoopInv DEF Next

----------------------------------------------------------------------------
(* What follows *)

\* The invariant holds of every behaviour whose writes are timely.
THEOREM Invariance == Timely /\ Spec => []Inv
<1> QED BY InitInv, NextInv, PTL DEF Spec

\* Rows, loops and runs keep their types; in particular the counter never runs
\* into the table's CHECK.
THEOREM TypeCorrect == Timely /\ Spec => []TypeOK
<1>1. Inv => TypeOK
  BY DEF Inv
<1> QED BY <1>1, Invariance, PTL

\* A claim has one holder, who holds the attempt its row counts until it has heard
\* that the row is no longer claimed.
\* (claimNextRequest, reclaimStaleRequests)
THEOREM ClaimsAreExclusive == Timely /\ Spec => []OneWorkerPerRequest
<1>1. Inv => OneWorkerPerRequest
  BY DEF Inv, WorkerFacts, Held, OneWorkerPerRequest
<1> QED BY <1>1, Invariance, PTL

\* A request is completed only by the attempt whose assessment was written.
\* (processNextRequest, completeRequest)
THEOREM CompletionIsEarned == Timely /\ Spec => []CompletedWasAssessed
<1>1. Inv => CompletedWasAssessed
  BY DEF Inv, RowFacts, CompletedWasAssessed
<1> QED BY <1>1, Invariance, PTL

----------------------------------------------------------------------------
(* The queue implements RequestLifecycle *)

\* A row that neither changes nor is let go or taken up looks the same.
LEMMA ShownKept ==
  ASSUME NEW r \in Requests, request'[r] = request[r],
         \A v \in Workers : Holds(v, r)' <=> Holds(v, r)
  PROVE  Lifecycle!Unmoved(r)
<1>1. Unheard(r)' <=> Unheard(r)
  BY DEF Unheard
<1>2. Shown(r)' = Shown(r)
  BY <1>1 DEF Shown
<1> QED BY <1>2 DEF Lifecycle!Unmoved, Lifecycle!Untried

\* A step that moves one row at most is judged by that row.
LEMMA OneRowMoves ==
  ASSUME NEW r \in Requests,
         \A q \in Requests : q # r => request'[q] = request[q],
         \A q \in Requests : q # r => \A v \in Workers : Holds(v, q)' <=> Holds(v, q),
         \/ Lifecycle!Submitted(r) \/ Lifecycle!Withdrawn(r) \/ Lifecycle!Begun(r)
         \/ Lifecycle!Retried(r) \/ Lifecycle!Answered(r) \/ Lifecycle!Doubted(r)
         \/ Lifecycle!Believed(r) \/ Lifecycle!TakenBack(r) \/ Lifecycle!Unmoved(r)
  PROVE  Lifecycle!Next
<1>1. \A q \in Requests : q # r => Lifecycle!Unmoved(q)
  BY ShownKept
<1> QED BY <1>1 DEF Lifecycle!Next

\* How a step of one row looks from RequestLifecycle.
LEMMA RowSeen ==
  ASSUME NEW r \in Requests
  PROVE  /\ \A from, to : (Shown(r) = from /\ Shown(r)' = to) => Lifecycle!Moves(r, from, to)
         /\ request'[r].attempts = request[r].attempts => Lifecycle!Untried(r)
         /\ request[r].status # "completed" => Shown(r) = request[r].status
         /\ request'[r].status # "completed" => Shown(r)' = request'[r].status
         /\ (\A v \in Workers : ~Holds(v, r)') => Shown(r)' = request'[r].status
BY DEF Lifecycle!Moves, Lifecycle!Untried, Shown, Unheard

\* A worker that lets go holds nothing any more, and nobody else held what it did.
LEMMA LetGoOf ==
  ASSUME Inv, NEW w \in Workers, NEW at, worker' = [worker EXCEPT ![w] = Free(at)]
  PROVE  /\ \A q \in Requests : q # worker[w].run.req =>
              \A v \in Workers : Holds(v, q)' <=> Holds(v, q)
         /\ worker[w].run # NoRun => \A v \in Workers : worker'[v].run.req # worker[w].run.req
<1>1. \A q \in Requests : q # 0
  BY QueueAssumption
<1>2. worker'[w].run.req = 0 /\ \A v \in Workers : v # w => worker'[v] = worker[v]
  BY DEF Inv, TypeOK, Free, NoRun
<1>3. WorkerFacts(w) /\ worker[w].run \in Run \cup {NoRun}
  BY DEF Inv, TypeOK
<1>4. worker[w].run # NoRun =>
        worker[w].run.req # 0 /\ \A v \in Workers : v # w => worker[v].run.req # worker[w].run.req
  BY <1>1, <1>3 DEF WorkerFacts, Holds, Run
<1> QED BY <1>1, <1>2, <1>4 DEF Holds

\* A worker that drops what it held, with no row changed: at most an answer that
\* had not been heard stands.
LEMMA Dropped ==
  ASSUME Inv, NEW w \in Workers, NEW at, worker' = [worker EXCEPT ![w] = Free(at)],
         UNCHANGED request
  PROVE  Lifecycle!Next
<1>1. CASE worker[w].run = NoRun
  <2>1. \A q \in Requests : q # worker[w].run.req
    BY <1>1, QueueAssumption DEF NoRun
  <2>2. \A q \in Requests : Lifecycle!Unmoved(q)
    BY <2>1, LetGoOf, ShownKept
  <2> QED BY <2>2 DEF Lifecycle!Next
<1>2. CASE worker[w].run # NoRun
  <2>1. PICK r \in Requests : r = worker[w].run.req
    BY <1>2 DEF Inv, TypeOK, Run
  <2>2. /\ \A v \in Workers : ~Holds(v, r)'
        /\ \A q \in Requests : q # r => \A v \in Workers : Holds(v, q)' <=> Holds(v, q)
    BY <1>2, <2>1, LetGoOf DEF Holds
  <2>3. Holds(w, r)
    BY <2>1 DEF Holds
  <2>4. CASE request[r].status = "completed"
    <3>1. Shown(r) = "unheard" /\ Shown(r)' = "completed"
      BY <2>2, <2>3, <2>4, RowSeen DEF Shown, Unheard
    <3>2. Lifecycle!Believed(r)
      BY <3>1, RowSeen DEF Lifecycle!Believed
    <3> QED BY <2>2, <3>2, OneRowMoves
  <2>5. CASE request[r].status # "completed"
    <3>1. Shown(r)' = Shown(r)
      BY <2>5, RowSeen
    <3>2. Lifecycle!Unmoved(r)
      BY <3>1 DEF Lifecycle!Unmoved, Lifecycle!Untried
    <3> QED BY <2>2, <3>2, OneRowMoves
  <2> QED BY <2>4, <2>5
<1> QED BY <1>1, <1>2

\* Every step of a worker's loop is a step of RequestLifecycle.
LEMMA LoopRefines ==
  ASSUME Inv, NEW w \in Workers, Loop(w)
  PROVE  Lifecycle!Next
<1>t. TypeOK /\ WorkerFacts(w)
  BY DEF Inv
<1>1. CASE Claim(w)
  <2>1. PICK r \in Requests :
          /\ Oldest(r)
          /\ request' = [request EXCEPT ![r] = [status |-> "claimed", stale |-> FALSE,
                                                attempts |-> request[r].attempts + 1]]
          /\ worker' = [worker EXCEPT ![w] = [at |-> "running", again |-> FALSE,
                            run |-> [req |-> r, attempt |-> request[r].attempts + 1]]]
    BY <1>1 DEF Claim
  <2>2. /\ \A q \in Requests : q # r => request'[q] = request[q]
        /\ request[r].status = "queued" /\ request'[r].status = "claimed"
        /\ request'[r].attempts = request[r].attempts + 1
        /\ request[r].attempts < MaxAttempts
    BY <1>t, <2>1 DEF TypeOK, Oldest, Inv, RowFacts
  <2>3. Lifecycle!Begun(r)
    BY <2>2, RowSeen DEF Lifecycle!Begun
  <2>4. worker[w].run = NoRun
    BY <1>1, <1>t DEF Claim, WorkerFacts, Busy
  <2>5. \A q \in Requests : q # r => \A v \in Workers : Holds(v, q)' <=> Holds(v, q)
    BY <1>t, <2>1, <2>4, QueueAssumption DEF Holds, NoRun, TypeOK
  <2> QED BY <2>2, <2>3, <2>5, OneRowMoves
<1>2. CASE Complete(w)
  <2>1. PICK r \in Requests : r = worker[w].run.req /\ request[r].status = "claimed"
    BY <1>2, BusyHolds DEF Complete, Busy, Held
  <2>2. /\ \A q \in Requests : q # r => request'[q] = request[q]
        /\ request'[r].status = "completed" /\ request'[r].attempts = request[r].attempts
    BY <1>2, <1>t, <2>1, BecomesRow DEF Complete, RequestStatus
  <2>3. PICK at \in Place \ Busy : worker' = [worker EXCEPT ![w] = Free(at)]
    BY <1>2, <1>t, ReturnsIdle DEF Complete
  <2>4. worker[w].run # NoRun
    BY <1>2, BusyHolds DEF Complete, Busy
  <2>5. /\ \A v \in Workers : ~Holds(v, r)'
        /\ \A q \in Requests : q # r => \A v \in Workers : Holds(v, q)' <=> Holds(v, q)
    BY <2>1, <2>3, <2>4, LetGoOf DEF Holds
  <2>6. Lifecycle!Answered(r)
    BY <2>1, <2>2, <2>5, RowSeen DEF Lifecycle!Answered
  <2> QED BY <2>2, <2>5, <2>6, OneRowMoves
<1>3. CASE WriteFailure(w) \/ FailureUnheard(w)
  <2>f. FailureWritten(w) /\ worker[w].at = "writing"
    BY <1>3 DEF WriteFailure, FailureUnheard, FailureWritten
  <2>1. PICK r \in Requests : r = worker[w].run.req /\ Held(request[r], worker[w].at)
    BY <2>f, BusyHolds DEF Busy
  <2>2. /\ worker[w].again => request[r].attempts < MaxAttempts
        /\ worker[w].run # NoRun /\ Holds(w, r)
    BY <2>f, <1>t, <2>1, BusyHolds DEF Busy, WorkerFacts, Holds
  <2> DEFINE status == IF worker[w].again THEN "queued" ELSE "failed"
  <2>3. request' = Becomes(r, status) /\ status \in RequestStatus
    BY <2>f, <2>1 DEF FailureWritten, RequestStatus
  <2>4. /\ \A q \in Requests : q # r => request'[q] = request[q]
        /\ request'[r].status = status /\ request'[r].attempts = request[r].attempts
    BY <1>t, <2>3, BecomesRow
  <2>5. PICK at : worker' = [worker EXCEPT ![w] = Free(at)]
    BY <1>3 DEF WriteFailure, FailureUnheard, GoesOn, Returns, Idle
  <2>6. \A q \in Requests : q # r => \A v \in Workers : Holds(v, q)' <=> Holds(v, q)
    BY <2>1, <2>5, LetGoOf
  <2>7. Shown(r) \in {"claimed", "unheard"}
    BY <2>1, <2>2 DEF Held, Shown, Unheard
  <2>8. Shown(r)' = status
    BY <2>4, RowSeen
  <2>9. CASE worker[w].again
    <3>1. ~Lifecycle!OthersLive(r)
      <4>1. ~OtherLive(r)
        BY <2>f, <2>1, <2>9 DEF FailureWritten
      <4>2. \A q \in Requests : Shown(q) \in {"queued", "claimed"} => Live(q)
        BY DEF Shown, Live
      <4> QED BY <4>1, <4>2 DEF OtherLive, Lifecycle!OthersLive, Lifecycle!Live
    <3>2. Lifecycle!Retried(r) \/ Lifecycle!TakenBack(r)
      BY <2>2, <2>4, <2>7, <2>8, <2>9, <3>1, RowSeen DEF Lifecycle!Retried, Lifecycle!TakenBack
    <3> QED BY <2>4, <2>6, <3>2, OneRowMoves
  <2>10. CASE ~worker[w].again
    <3>1. Lifecycle!Answered(r) \/ Lifecycle!TakenBack(r)
      BY <2>4, <2>7, <2>8, <2>10, RowSeen DEF Lifecycle!Answered, Lifecycle!TakenBack
    <3> QED BY <2>4, <2>6, <3>1, OneRowMoves
  <2> QED BY <2>9, <2>10
<1>4. CASE CompleteLost(w)
  <2>1. \A v \in Workers : worker'[v].run = worker[v].run
    BY <1>4, <1>t DEF CompleteLost, Goes, TypeOK
  <2>2. \A q \in Requests : \A v \in Workers : Holds(v, q)' <=> Holds(v, q)
    BY <2>1 DEF Holds
  <2>3. CASE request' = request
    BY <2>2, <2>3, ShownKept DEF Lifecycle!Next
  <2>4. CASE request' = Becomes(worker[w].run.req, "completed")
    <3>1. PICK r \in Requests : r = worker[w].run.req /\ request[r].status = "claimed"
      BY <1>4, BusyHolds DEF CompleteLost, Busy, Held
    <3>2. /\ \A q \in Requests : q # r => request'[q] = request[q]
          /\ request'[r].status = "completed" /\ request'[r].attempts = request[r].attempts
      BY <1>t, <2>4, <3>1, BecomesRow DEF RequestStatus
    <3>3. Holds(w, r)'
      BY <2>1, <3>1 DEF Holds
    <3>4. Shown(r) = "claimed" /\ Shown(r)' = "unheard"
      BY <3>1, <3>2, <3>3 DEF Shown, Unheard
    <3>5. Lifecycle!Doubted(r)
      BY <3>2, <3>4, RowSeen DEF Lifecycle!Doubted
    <3> QED BY <2>2, <3>2, <3>5, OneRowMoves
  <2> QED BY <1>4, <2>3, <2>4 DEF CompleteLost
<1>5. CASE FailureLost(w)
  BY <1>5, Dropped DEF FailureLost, GoesOn, Idle
<1>6. CASE RunSucceeds(w) \/ RunFails(w) \/ RunUnheard(w) \/ RunTimesOut(w) \/ ReadAttempts(w)
  <2>1. \E at, again : Goes(w, at, again)
    BY <1>6 DEF RunSucceeds, RunFails, RunUnheard, RunTimesOut, ReadAttempts
  <2>2. \A v \in Workers : worker'[v].run = worker[v].run
    BY <1>t, <2>1 DEF Goes, TypeOK
  <2>3. UNCHANGED request
    BY <1>6 DEF RunSucceeds, RunFails, RunUnheard, RunTimesOut, ReadAttempts
  <2> QED BY <2>2, <2>3, ShownKept DEF Holds, Lifecycle!Next
<1> QED BY <1>1, <1>2, <1>3, <1>4, <1>5, <1>6 DEF Loop

\* So is a statement of the reclaim sweep, over all the rows it moves at once.
LEMMA TakeBackRefines ==
  ASSUME Inv, NEW more \in BOOLEAN,
         TakeBack(Reclaimable(more), IF more THEN "queued" ELSE "failed")
  PROVE  Lifecycle!Next
<1> SUFFICES ASSUME NEW r \in Requests
             PROVE  Lifecycle!Retried(r) \/ Lifecycle!Answered(r) \/ Lifecycle!Unmoved(r)
  BY DEF Lifecycle!Next
<1> DEFINE status == IF more THEN "queued" ELSE "failed"
<1>1. CASE r \in Reclaimable(more)
  <2>1. /\ request[r].status = "claimed" /\ more = (request[r].attempts < MaxAttempts)
        /\ request[r] \in Row
    BY <1>1 DEF Reclaimable, Inv, TypeOK
  <2>2. request'[r].status = status /\ request'[r].attempts = request[r].attempts
    BY <1>1, <2>1 DEF TakeBack, Row
  <2>3. CASE more
    <3>1. Lifecycle!Retried(r)
      BY <2>1, <2>2, <2>3, RowSeen DEF Lifecycle!Retried
    <3> QED BY <3>1
  <2>4. CASE ~more
    <3>1. Lifecycle!Answered(r)
      BY <2>1, <2>2, <2>4, RowSeen DEF Lifecycle!Answered
    <3> QED BY <3>1
  <2> QED BY <2>3, <2>4
<1>2. CASE r \notin Reclaimable(more)
  <2>1. request'[r] = request[r] /\ worker' = worker
    BY <1>2 DEF TakeBack
  <2> QED BY <2>1, ShownKept DEF Holds
<1> QED BY <1>1, <1>2

\* Every step is a step of RequestLifecycle: a stutter moves no request.
LEMMA NextRefines == Inv /\ [Next]_vars => Lifecycle!Next
<1> SUFFICES ASSUME Inv, [Next]_vars PROVE Lifecycle!Next
  OBVIOUS
<1>t. TypeOK
  BY DEF Inv
<1>0. ASSUME UNCHANGED <<request, worker>> PROVE Lifecycle!Next
  BY <1>0, ShownKept DEF Holds, Lifecycle!Next
<1>1. ASSUME NEW r \in Requests, Submit(r) PROVE Lifecycle!Next
  <2>1. /\ \A q \in Requests : q # r => request'[q] = request[q]
        /\ request'[r].status = "queued" /\ request'[r].attempts = request[r].attempts
    BY <1>1, <1>t, BecomesRow DEF Submit, RequestStatus
  <2>2. \A q \in Requests : Shown(q) \in {"queued", "claimed"} => Live(q)
    BY DEF Shown, Live
  <2>3. request[r].status = "none" /\ ~Lifecycle!OthersLive(r)
    BY <1>1, <2>2 DEF Submit, OtherLive, Lifecycle!OthersLive, Lifecycle!Live
  <2>4. Lifecycle!Submitted(r)
    BY <2>1, <2>3, RowSeen DEF Lifecycle!Submitted
  <2>5. \A q \in Requests : \A v \in Workers : Holds(v, q)' <=> Holds(v, q)
    BY <1>1 DEF Submit, Holds
  <2> QED BY <2>1, <2>4, <2>5, OneRowMoves
<1>2. ASSUME NEW r \in Requests, Cancel(r) PROVE Lifecycle!Next
  <2>1. /\ \A q \in Requests : q # r => request'[q] = request[q]
        /\ request'[r].status = "cancelled" /\ request'[r].attempts = request[r].attempts
    BY <1>2, <1>t, BecomesRow DEF Cancel, RequestStatus
  <2>2. Lifecycle!Withdrawn(r)
    BY <1>2, <2>1, RowSeen DEF Cancel, Lifecycle!Withdrawn
  <2>3. \A q \in Requests : \A v \in Workers : Holds(v, q)' <=> Holds(v, q)
    BY <1>2 DEF Cancel, Holds
  <2> QED BY <2>1, <2>2, <2>3, OneRowMoves
<1>3. ASSUME NEW r \in Requests, ClaimGoesStale(r) PROVE Lifecycle!Next
  <2>1. /\ \A q \in Requests : q # r => request'[q] = request[q]
        /\ request[r].status = "claimed"
        /\ request'[r].status = request[r].status /\ request'[r].attempts = request[r].attempts
    BY <1>3, <1>t DEF ClaimGoesStale, TypeOK, Row
  <2>2. Shown(r)' = Shown(r)
    BY <2>1, RowSeen
  <2>3. Lifecycle!Unmoved(r)
    BY <2>1, <2>2 DEF Lifecycle!Unmoved, Lifecycle!Untried
  <2>4. \A q \in Requests : \A v \in Workers : Holds(v, q)' <=> Holds(v, q)
    BY <1>3 DEF ClaimGoesStale, Holds
  <2> QED BY <2>1, <2>3, <2>4, OneRowMoves
<1>4. ASSUME NEW w \in Workers, Restart(w) \/ Exit(w) PROVE Lifecycle!Next
  <2>1. Restart(w)
    BY <1>4 DEF Exit
  <2> QED BY <2>1, Dropped DEF Restart, Idle
<1>5. ASSUME NEW o \in orphans, OrphanWrites(o) \/ OrphanEnds(o) PROVE Lifecycle!Next
  BY <1>0, <1>5 DEF OrphanWrites, OrphanEnds
<1>6. CASE ReclaimRequeue
  BY <1>6, TakeBackRefines DEF ReclaimRequeue
<1>7. CASE ReclaimAbandon
  BY <1>7, TakeBackRefines DEF ReclaimAbandon
<1>8. CASE UNCHANGED vars
  BY <1>0, <1>8 DEF vars
<1> QED BY <1>1, <1>2, <1>3, <1>4, <1>5, <1>6, <1>7, <1>8, LoopRefines DEF Next

\* Through failures, timeouts, crashes, lost answers and reclaims each request moves
\* only as RequestLifecycle says: begun at most MaxAttempts times, answered once, but
\* for the answer whose own worker never heard that it was written.  (queue.ts)
THEOREM QueueImplementsLifecycle == Timely /\ Spec => RequestsFollowTheirLifecycle
<1>1. Init => Lifecycle!Init
  BY DEF Init, Lifecycle!Init, Shown, Unheard
<1> QED BY <1>1, Invariance, NextRefines, PTL
        DEF Spec, RequestsFollowTheirLifecycle, Lifecycle!Spec
=============================================================================
