----------------------------- MODULE Desk_proofs -----------------------------
(***************************************************************************)
(* What is promised to someone waiting, for every number of processes,     *)
(* requests, appeals and readers, and whatever the bounds: that a paused   *)
(* worker stops (SpendCeiling), that a deadline is spoken of before the    *)
(* register is deleted and an export recorded before it is taken           *)
(* (PrivacyDesk), that no public surface says more of a badge than was     *)
(* true (PublicBadge), and that nothing a run still files makes its        *)
(* verdict a better one (PublishedVerdict).                                *)
(*                                                                         *)
(* PausedWorkersStop follows from what a live pause says of whoever was    *)
(* told he may claim: he was told before it, and has begun nothing since   *)
(* (PauseFacts).  WhatIsOwedIsSaid needs every export in hand to be of a   *)
(* request already on record and every recorded saying to be of a day the  *)
(* entry was late (ExportFacts, SaidFacts).  PublicIsToldTheTruth is about *)
(* answers made from copies an hour old, so it is inductive only together  *)
(* with what every copy says of the moment it was made (CopyFacts), and    *)
(* with the history those moments are looked up in (HistoryFacts); that a  *)
(* first mention of a key exists is the well-ordering of the naturals.     *)
(*                                                                         *)
(* NothingFiledHelps is monotone arithmetic over a sum: that the recursive *)
(* function of Total exists, may take any part out first (SumTakesOut) and *)
(* keeps an order between amounts (TotalsOrdered) is shown by least        *)
(* counterexample. Every dimension then falls, so does their weighted      *)
(* whole (WeightedFalls), gates only join, and each lowers the least of    *)
(* the caps (CappedFalls).                                                 *)
(***************************************************************************)
EXTENDS SpendCeiling, PrivacyDesk, PublicBadge, PublishedVerdict, FiniteSetTheorems,
        WellFoundedInduction, TLAPS

----------------------------------------------------------------------------
(* The spending pause (SpendCeiling)                                        *)

\* While a pause is live, whoever was told he may claim was told before it, and
\* has begun nothing under it.
PauseFacts ==
  /\ unasked = {}
  /\ pause.live => \A w \in Spenders :
       begun[w] <= 1 /\ (claimant[w].at = "told" => claimant[w].overtaken /\ begun[w] = 0)

SpendInv == SpendTypeOK /\ PauseFacts

LEMMA SpendStarts == SpendInit => SpendInv
BY SpendAssumption DEF SpendInit, SpendInv, SpendTypeOK, PauseFacts, NotWatching

LEMMA SpendSteps == SpendInv /\ [SpendNext]_spendVars => SpendInv'
<1> SUFFICES ASSUME SpendInv, [SpendNext]_spendVars PROVE SpendInv'
  OBVIOUS
<1> USE DEF SpendInv, SpendTypeOK, PauseFacts
<1>1. CASE UNCHANGED spendVars
  BY <1>1 DEF spendVars
<1>2. ASSUME NEW w \in Spenders, AskWhetherPaused(w) PROVE SpendInv'
  BY <1>2 DEF AskWhetherPaused
<1>3. ASSUME NEW w \in Spenders, Claims(w) PROVE SpendInv'
  BY <1>3 DEF Claims
<1>4. ASSUME NEW w \in Spenders, ClaimsNothing(w) PROVE SpendInv'
  BY <1>4 DEF ClaimsNothing
<1>5. ASSUME NEW w \in Spenders, RunIsOver(w) PROVE SpendInv'
  BY <1>5, SpendAssumption DEF RunIsOver, AfterRun
<1>6. ASSUME NEW w \in Spenders, ReadSpending(w) PROVE SpendInv'
  BY <1>6 DEF ReadSpending
<1>7. ASSUME NEW w \in Spenders, EnterPause(w) PROVE SpendInv'
  <2>1. watch' = [watch EXCEPT ![w] = NotWatching] /\ today' = today /\ unasked' = unasked
    BY <1>7 DEF EnterPause
  <2>2. pause' \in [live : BOOLEAN, lifts : 0..MaxLifts]
    BY <1>7 DEF EnterPause
  <2>3. CASE pause.live
    <3>1. claimant' = claimant /\ begun' = begun
      BY <1>7, <2>3 DEF EnterPause
    <3> QED
      BY <2>1, <2>2, <2>3, <3>1, SpendAssumption DEF NotWatching
  <2>4. CASE ~pause.live
    <3>1. begun' = [v \in Spenders |-> 0]
      BY <1>7, <2>4 DEF EnterPause
    <3>2. claimant' = [v \in Spenders |->
                         [claimant[v] EXCEPT !.overtaken = claimant[v].at = "told"]]
      BY <1>7, <2>4 DEF EnterPause
    <3>3. claimant' \in [Spenders -> [at : {"idle", "told", "running"}, overtaken : BOOLEAN]]
      BY <3>2
    <3>4. ASSUME NEW v \in Spenders PROVE claimant'[v].at = "told" => claimant'[v].overtaken
      <4>1. claimant'[v] = [claimant[v] EXCEPT !.overtaken = claimant[v].at = "told"]
        BY <3>2
      <4>2. claimant[v] \in [at : {"idle", "told", "running"}, overtaken : BOOLEAN]
        OBVIOUS
      <4>3. claimant'[v].at = claimant[v].at
            /\ claimant'[v].overtaken = (claimant[v].at = "told")
        BY <4>1, <4>2, Zenon
      <4> QED
        BY <4>3
    <3>5. SpendTypeOK'
      <4>1. begun' \in [Spenders -> Nat]
        BY <3>1
      <4>2. NotWatching \in [at : {"idle", "read"}, today : 0..MaxSpent, paused : BOOLEAN]
        BY SpendAssumption DEF NotWatching
      <4>3. watch' \in [Spenders -> [at : {"idle", "read"}, today : 0..MaxSpent, paused : BOOLEAN]]
        BY <2>1, <4>2
      <4> QED
        BY <2>1, <2>2, <3>3, <4>1, <4>3
    <3>6. \A v \in Spenders : begun'[v] = 0
      BY <3>1
    <3> HIDE DEF SpendTypeOK
    <3>7. PauseFacts'
      BY <2>1, <3>4, <3>6
    <3> QED
      BY <3>5, <3>7
  <2> QED
    BY <2>3, <2>4
<1>8. ASSUME NEW w \in Spenders, LeaveUnpaused(w) PROVE SpendInv'
  BY <1>8, SpendAssumption DEF LeaveUnpaused, NotWatching
<1>9. CASE Lift
  BY <1>9, SpendAssumption DEF Lift
<1>10. CASE Midnight
  BY <1>10, SpendAssumption DEF Midnight
<1> QED
  BY <1>1, <1>2, <1>3, <1>4, <1>5, <1>6, <1>7, <1>8, <1>9, <1>10 DEF SpendNext

\* Every variable of the spending pause keeps its type, for any number of
\* processes and any ceiling (sweepSpendCap, processNextRequest).
THEOREM SpendTypeCorrect == SpendSpec => []SpendTypeOK
<1>1. SpendInv => SpendTypeOK
  BY DEF SpendInv
<1> QED
  BY SpendStarts, SpendSteps, <1>1, PTL DEF SpendSpec

\* While the platform is paused no process begins a second run, and none begins
\* one it was not told of before the pause, for any number of processes, sweeps,
\* lifts and costs (spendingIsPaused, claimNextRequest, enterPause).
THEOREM PauseStopsEveryWorker == SpendSpec => []PausedWorkersStop
<1>1. SpendInv => PausedWorkersStop
  BY DEF SpendInv, PauseFacts, PausedWorkersStop
<1> QED
  BY SpendStarts, SpendSteps, <1>1, PTL DEF SpendSpec

----------------------------------------------------------------------------
(* The privacy desk (PrivacyDesk)                                           *)

WatcherRow == [at : {"idle", "appeals", "speaking"}, now : Nat,
               late : SUBSET Owed, said : SUBSET (Owed \X (1..LastDeskDay))]
ExportRow == [at : {"idle", "asked", "reading", "recorded"}, of : DataRequests \cup {"none"}]

\* An export on its way is of a request, and recorded where it says so.
ExportFacts ==
  /\ \A s \in Staff : export[s].at # "idle" => export[s].of \in DataRequests
  /\ \A s \in Staff : export[s].at = "recorded" => export[s].of \in copied.logged
  /\ copied.handed \subseteq copied.logged

\* A sweep in progress began no later than today; a process remembers days that have
\* come, and what it remembers of today is in today's log.
SaidFacts ==
  /\ \A w \in Watchers : watcher[w].at # "idle" => watcher[w].now \in 1..day
  /\ \A w \in Watchers : \A o \in Owed, d \in 1..LastDeskDay :
       <<o, d>> \in watcher[w].said => d <= day /\ (d = day => o \in heard)
  /\ foundLate \subseteq heard

DeskInv == DeskTypeOK /\ DOMAIN entry = Owed /\ ExportFacts /\ SaidFacts

LEMMA DeskStarts == DeskInit => DeskInv
BY DeskAssumption DEF DeskInit, DeskInv, DeskTypeOK, ExportFacts, SaidFacts

\* Who asks, who answers and whose role moves leaves the sweeps and exports alone.
LEMMA EntriesMove ==
  ASSUME DeskInv, DOMAIN entry' = Owed,
         \A o \in Owed : entry'[o] = Unmade \/
           /\ entry'[o].due \in Nat
           /\ IF o \in DataRequests
              THEN entry'[o].kind \in RequestType /\ entry'[o].status \in RequestStatus
              ELSE entry'[o].kind = "appeal" /\ entry'[o].status \in AppealStatus,
         UNCHANGED <<deskRole, export, copied, watcher, heard, foundLate, day>>
  PROVE  DeskInv'
BY DEF DeskInv, DeskTypeOK, ExportFacts, SaidFacts

LEMMA EntriesTyped ==
  ASSUME DeskInv,
         \/ \E r \in DataRequests : SubmitDataRequest(r)
         \/ \E a \in Appeals : SubmitAppeal(a)
         \/ \E s \in Staff, r \in DataRequests : ResolveDataRequest(s, r)
         \/ \E s \in Staff, a \in Appeals : ResolveAppeal(s, a)
  PROVE  DeskInv'
<1> USE DEF DeskInv, DeskTypeOK
<1>1. ASSUME NEW r \in DataRequests, SubmitDataRequest(r) PROVE DeskInv'
  <2>1. PICK kind \in RequestType :
          entry' = [entry EXCEPT ![r] = [kind |-> kind, status |-> "received",
                                         due |-> Deadline(RESPONSE_DAYS)]]
    BY <1>1 DEF SubmitDataRequest
  <2>2. Deadline(RESPONSE_DAYS) \in Nat /\ "received" \in RequestStatus /\ r \in Owed
    BY DeskAssumption DEF Deadline, RequestStatus, Owed
  <2> QED
    BY <1>1, <2>1, <2>2, EntriesMove DEF SubmitDataRequest
<1>2. ASSUME NEW a \in Appeals, SubmitAppeal(a) PROVE DeskInv'
  <2>1. Deadline(APPEAL_RESPONSE_DAYS) \in Nat /\ "open" \in AppealStatus /\ a \in Owed
        /\ a \notin DataRequests
    BY DeskAssumption DEF Deadline, AppealStatus, Owed
  <2> QED
    BY <1>2, <2>1, EntriesMove DEF SubmitAppeal
<1>3. ASSUME NEW s \in Staff, NEW r \in DataRequests, ResolveDataRequest(s, r) PROVE DeskInv'
  <2>1. r \in Owed /\ entry[r] # Unmade
    BY <1>3 DEF Owed, ResolveDataRequest
  <2> QED
    BY <1>3, <2>1, EntriesMove DEF ResolveDataRequest
<1>4. ASSUME NEW s \in Staff, NEW a \in Appeals, ResolveAppeal(s, a) PROVE DeskInv'
  <2>1. a \in Owed /\ a \notin DataRequests /\ entry[a] # Unmade
    BY <1>4, DeskAssumption DEF Owed, ResolveAppeal
  <2> QED
    BY <1>4, <2>1, EntriesMove DEF ResolveAppeal
<1> QED
  BY <1>1, <1>2, <1>3, <1>4

\* Every step of an export: it goes from one place to the next, recorded first.
LEMMA ExportsGo ==
  ASSUME DeskInv, NEW s \in Staff,
         AskForExport(s) \/ AssembleSubjectExport(s) \/ RecordExport(s) \/ HandOver(s)
  PROVE  DeskInv'
<1> USE DEF DeskInv, DeskTypeOK, ExportGoes
<1>1. UNCHANGED <<entry, deskRole, watcher, heard, foundLate, day>>
  BY DEF AskForExport, AssembleSubjectExport, RecordExport, HandOver
<1>2. SaidFacts'
  BY <1>1 DEF SaidFacts
<1>3. \A v \in Staff \ {s} : export'[v] = export[v]
  BY DEF AskForExport, AssembleSubjectExport, RecordExport, HandOver
<1>4. /\ export' \in [Staff -> ExportRow]
      /\ export'[s].at # "idle" => export'[s].of \in DataRequests
      /\ copied' \in [handed : SUBSET DataRequests, logged : SUBSET DataRequests]
      /\ copied.logged \subseteq copied'.logged
      /\ export'[s].at = "recorded" => export'[s].of \in copied'.logged
      /\ copied'.handed \subseteq copied'.logged
  <2> USE DEF ExportFacts, ExportRow
  <2>1. CASE AskForExport(s)
    BY <2>1 DEF AskForExport
  <2>2. CASE AssembleSubjectExport(s)
    <3>1. PICK at \in {"idle", "reading"} : \E of \in DataRequests \cup {"none"} :
            ExportGoes(s, at, of) /\ (at # "idle" => of \in DataRequests)
      BY <2>2 DEF AssembleSubjectExport
    <3> QED
      BY <2>2, <3>1 DEF AssembleSubjectExport
  <2>3. CASE RecordExport(s)
    <3>1. export[s].of \in DataRequests
      BY <2>3 DEF RecordExport
    <3>2. CASE /\ ExportGoes(s, "recorded", export[s].of)
               /\ copied' = [copied EXCEPT !.logged = @ \cup {export[s].of}]
      <4>1. export' \in [Staff -> ExportRow] /\ export'[s] = [at |-> "recorded", of |-> export[s].of]
        BY <3>1, <3>2
      <4>2. /\ copied' \in [handed : SUBSET DataRequests, logged : SUBSET DataRequests]
            /\ copied'.handed = copied.handed
            /\ copied'.logged = copied.logged \cup {export[s].of}
        BY <3>1, <3>2
      <4> QED
        BY <3>1, <4>1, <4>2
    <3>3. CASE ExportGoes(s, "idle", "none") /\ copied' = copied
      BY <3>3
    <3> QED
      BY <2>3, <3>2, <3>3 DEF RecordExport
  <2>4. CASE HandOver(s)
    BY <2>4 DEF HandOver
  <2> QED
    BY <2>1, <2>2, <2>3, <2>4
<1> QED
  BY <1>1, <1>2, <1>3, <1>4 DEF ExportFacts, ExportRow

\* A sweep that goes on, and says nothing of a day that has not come.
LEMMA SweepsGo ==
  ASSUME DeskInv, NEW w \in Watchers,
         ReadRequests(w) \/ ReadAppeals(w) \/ Speak(w) \/ RestartWatcher(w)
  PROVE  DeskInv'
<1> USE DEF DeskInv, DeskTypeOK, WatcherGoes
<1>1. UNCHANGED <<entry, deskRole, export, copied, day>>
  BY DEF ReadRequests, ReadAppeals, Speak, RestartWatcher
<1>2. ExportFacts'
  BY <1>1 DEF ExportFacts
<1>3. watcher[w] \in WatcherRow /\ DOMAIN watcher = Watchers
  BY DEF WatcherRow
<1>4. ASSUME NEW next \in WatcherRow, watcher' = [watcher EXCEPT ![w] = next],
             heard \subseteq heard', heard' \subseteq Owed, foundLate' \subseteq heard',
             next.at # "idle" => next.now \in 1..day,
             \A o \in Owed, d \in 1..LastDeskDay :
               <<o, d>> \in next.said => d <= day /\ (d = day => o \in heard')
      PROVE  DeskInv'
  <2>1. watcher' \in [Watchers -> WatcherRow]
    BY <1>4 DEF WatcherRow
  <2>2. SaidFacts'
    BY <1>1, <1>3, <1>4 DEF SaidFacts
  <2> QED
    BY <1>1, <1>2, <1>4, <2>1, <2>2 DEF WatcherRow
<1>5. CASE ReadRequests(w)
  <2> DEFINE next == [watcher[w] EXCEPT !.at = "appeals", !.now = day,
                        !.late = {r \in DataRequests : IsOverdue(r, day)}]
  <2>1. next \in WatcherRow
    <3>1. {r \in DataRequests : IsOverdue(r, day)} \in SUBSET Owed /\ day \in Nat
      BY DEF Owed
    <3> HIDE DEF DeskInv, DeskTypeOK
    <3> QED
      BY <1>3, <3>1 DEF WatcherRow
  <2>2. watcher' = [watcher EXCEPT ![w] = next] /\ heard' = heard /\ foundLate' = foundLate
    BY <1>5 DEF ReadRequests
  <2>3. next.now \in 1..day /\ next.said = watcher[w].said
    BY <1>3 DEF WatcherRow
  <2> HIDE DEF next
  <2> QED
    BY <1>4, <2>1, <2>2, <2>3 DEF SaidFacts
<1>6. CASE ReadAppeals(w)
  <2> DEFINE next == [watcher[w] EXCEPT !.at = "speaking",
                        !.late = @ \cup {a \in Appeals : IsOverdue(a, watcher[w].now)}]
  <2>1. next \in WatcherRow
    BY <1>3 DEF WatcherRow, Owed
  <2>2. watcher' = [watcher EXCEPT ![w] = next] /\ heard' = heard /\ foundLate' = foundLate
    BY <1>6 DEF ReadAppeals
  <2>3. next.now \in 1..day /\ next.said = watcher[w].said
    BY <1>3, <1>6 DEF WatcherRow, SaidFacts, ReadAppeals
  <2> HIDE DEF next
  <2> QED
    BY <1>4, <2>1, <2>2, <2>3 DEF SaidFacts
<1>7. CASE RestartWatcher(w)
  <2> DEFINE next == [at |-> "idle", now |-> 0, late |-> {}, said |-> {}]
  <2>1. next \in WatcherRow /\ next.at = "idle" /\ next.said = {}
    BY DEF WatcherRow
  <2>2. watcher' = [watcher EXCEPT ![w] = next] /\ heard' = heard /\ foundLate' = foundLate
    BY <1>7 DEF RestartWatcher
  <2> HIDE DEF next
  <2> QED
    BY <1>4, <2>1, <2>2 DEF SaidFacts
<1>8. CASE Speak(w)
  <2> DEFINE now == watcher[w].now
             late == watcher[w].late
             spoken == {o \in late : DueToSay(w, o)}
             said == {p \in watcher[w].said : p[1] \notin spoken} \cup {<<o, now>> : o \in spoken}
             next == [at |-> "idle", now |-> 0, late |-> {}, said |-> said]
  <2>1. now \in 1..day /\ now \in 1..LastDeskDay /\ late \subseteq Owed /\ spoken \subseteq late
    <3>1. now \in 1..day
      BY <1>8 DEF Speak, SaidFacts
    <3>2. day \in 1..LastDeskDay
      OBVIOUS
    <3>3. now \in 1..LastDeskDay
      BY <3>1, <3>2, DeskAssumption
    <3>4. late \subseteq Owed
      BY <1>3 DEF WatcherRow
    <3> QED
      BY <3>1, <3>3, <3>4
  <2>2. watcher[w].said \subseteq Owed \X (1..LastDeskDay)
    BY <1>3 DEF WatcherRow
  <2>3. said \subseteq Owed \X (1..LastDeskDay)
    BY <2>1, <2>2
  <2>4. next \in WatcherRow
    BY <2>3 DEF WatcherRow
  <2>5. watcher' = [watcher EXCEPT ![w] = next]
    BY <1>8 DEF Speak
  <2>6. /\ heard' = IF now = day THEN heard \cup spoken ELSE heard
        /\ foundLate' = IF now = day THEN foundLate \cup late ELSE foundLate
    BY <1>8 DEF Speak
  <2>7. ASSUME now = day PROVE late \subseteq heard'
    <3>1. ASSUME NEW o \in late, o \notin spoken PROVE o \in heard
      <4>1. <<o, now>> \in watcher[w].said
        BY <3>1 DEF DueToSay
      <4> QED
        BY <2>1, <2>7, <3>1, <4>1 DEF SaidFacts
    <3> QED
      BY <2>6, <2>7, <3>1
  <2>8. foundLate' \subseteq heard' /\ heard \subseteq heard' /\ heard' \subseteq Owed
    BY <2>1, <2>6, <2>7 DEF SaidFacts
  <2>9. ASSUME NEW o \in Owed, NEW d \in 1..LastDeskDay, <<o, d>> \in said
        PROVE  d <= day /\ (d = day => o \in heard')
    <3>1. CASE <<o, d>> \in watcher[w].said
      BY <2>8, <3>1 DEF SaidFacts
    <3>2. CASE <<o, d>> \in {<<x, now>> : x \in spoken}
      BY <2>1, <2>6, <3>2
    <3> QED
      BY <2>9, <3>1, <3>2
  <2>10. next.at = "idle" /\ next.said = said
    OBVIOUS
  <2> HIDE DEF next, said
  <2> QED
    BY <1>4, <2>4, <2>5, <2>8, <2>9, <2>10
<1> QED
  BY <1>5, <1>6, <1>7, <1>8

LEMMA DeskSteps == DeskInv /\ [DeskNext]_deskVars => DeskInv'
<1> SUFFICES ASSUME DeskInv, [DeskNext]_deskVars PROVE DeskInv'
  OBVIOUS
<1>1. CASE UNCHANGED deskVars
  BY <1>1 DEF deskVars, DeskInv, DeskTypeOK, ExportFacts, SaidFacts, Open, IsOverdue
<1>2. ASSUME NEW s \in Staff, RoleMoves(s) PROVE DeskInv'
  BY <1>2 DEF RoleMoves, DeskInv, DeskTypeOK, ExportFacts, SaidFacts
<1>3. CASE NextDay
  <2>1. /\ day \in Nat /\ day' = day + 1 /\ day' \in 1..LastDeskDay /\ heard' = {} /\ foundLate' = {}
        /\ UNCHANGED <<entry, deskRole, export, copied, watcher>>
    BY <1>3, DeskAssumption DEF NextDay, DeskInv, DeskTypeOK
  <2>2. DeskTypeOK'
    BY <2>1 DEF DeskInv, DeskTypeOK
  <2>3. ExportFacts'
    BY <2>1 DEF DeskInv, ExportFacts
  <2>4. ASSUME NEW w \in Watchers, watcher[w].at # "idle" PROVE watcher[w].now \in 1..(day + 1)
    BY <2>1, <2>4 DEF DeskInv, SaidFacts
  <2>5. ASSUME NEW w \in Watchers, NEW o \in Owed, NEW d \in 1..LastDeskDay,
               <<o, d>> \in watcher[w].said
        PROVE  d <= day + 1 /\ d # day + 1
    <3>1. d <= day
      BY <2>5 DEF DeskInv, SaidFacts
    <3> QED
      BY <2>1, <3>1
  <2>6. SaidFacts'
    BY <2>1, <2>4, <2>5 DEF SaidFacts
  <2> QED
    BY <2>1, <2>2, <2>3, <2>6 DEF DeskInv
<1> QED
  BY <1>1, <1>2, <1>3, EntriesTyped, ExportsGo, SweepsGo DEF DeskNext

\* Every request, appeal, export and sweep keeps its type, for any requests, staff,
\* processes and days (submitDataRequest, resolveDataRequest, the export route).
THEOREM DeskTypeCorrect == DeskSpec => []DeskTypeOK
<1>1. DeskInv => DeskTypeOK
  BY DEF DeskInv
<1> QED
  BY DeskStarts, DeskSteps, <1>1, PTL DEF DeskSpec

\* What any sweep finds late is in the log of the day, and every export handed over
\* is on record, for any number of requests, processes, restarts and days
\* (saidOnceADay, sweepGovernanceDeadlines, the export route).
THEOREM OwedIsSaid == DeskSpec => []WhatIsOwedIsSaid
<1>1. DeskInv => WhatIsOwedIsSaid
  BY DEF DeskInv, ExportFacts, SaidFacts, WhatIsOwedIsSaid
<1> QED
  BY DeskStarts, DeskSteps, <1>1, PTL DEF DeskSpec

----------------------------------------------------------------------------
(* What the public is told of a badge (PublicBadge)                         *)

PastedEntries == Seq([kid : KeyIds, form : KeyForm])
CopyNames == {"answer", "keys"}

PublicTyped ==
  /\ clock \in Nat \ {0} /\ standing \in Nat /\ unpublished \in [KeyIds -> Nat]
  /\ signer \in KeyIds /\ announced \in PastedEntries /\ retired \in PastedEntries
  /\ mark \in [status : {"none", "active", "suspended", "expired", "revoked"},
               kid : KeyIds, until : Nat, listed : BOOLEAN]
  /\ DOMAIN copies = CopyNames

\* The history is of the past, and of this moment where it holds at this moment.
HistoryFacts ==
  /\ standing <= clock /\ (Stands => standing = clock)
  /\ \A k \in KeyIds : unpublished[k] <= clock /\ (Missing(k) => unpublished[k] = clock)

\* An answer of this moment or of an earlier one: live while the badge stood, never
\* a word about the signature.
TrueAnswer(a) ==
  /\ a.said.live \in Answers3 /\ a.said.genuine = "unknown"
  /\ a.ok => a.at \in Nat \ {0} /\ a.at <= clock
  /\ a.said.live = "yes" => a.ok /\ a.at <= standing

\* A key set without a key, of a moment at which that key was in neither variable.
TrueKeys(a) ==
  a.ok => /\ a.at \in Nat \ {0} /\ a.at <= clock
          /\ \A kid \in KeyIds : (\A k \in a.keys : k.kid # kid) => a.at <= unpublished[kid]

OfTheMark(a) == route = "offline" /\ a.ok => Issued /\ a.kid = mark.kid

CopyFacts ==
  TrueAnswer(copies["answer"]) /\ TrueKeys(copies["keys"]) /\ OfTheMark(copies["answer"])

PublicInv == PublicTyped /\ HistoryFacts /\ CopyFacts /\ PublicIsToldTheTruth

\* The numbers are well ordered.
LEMMA EarliestExists ==
  ASSUME NEW T \in SUBSET Nat, T # {}
  PROVE  \E n \in T : \A m \in T : n <= m
<1>1. PICK n \in T : \A m \in T : <<m, n>> \notin OpToRel(<, Nat)
  BY NatLessThanWellFounded, WFMin
<1>2. \A m \in T : ~(m < n)
  BY <1>1 DEF OpToRel
<1>3. n \in Nat /\ \A m \in T : m \in Nat
  OBVIOUS
<1> QED
  BY <1>2, <1>3

\* A key that is in one of the variables, in an entry that can be used, is published.
LEMMA FirstMentionIsOfTheKey ==
  ASSUME NEW raw \in PastedEntries, NEW kid \in KeyIds, Mentions(raw, kid) # {}
  PROVE  FirstMention(raw, kid).kid = kid
<1>1. Mentions(raw, kid) \in SUBSET Nat
  BY DEF Mentions, PastedEntries
<1>2. \E n \in Mentions(raw, kid) : \A m \in Mentions(raw, kid) : n <= m
  BY <1>1, EarliestExists
<1>3. PICK n \in Mentions(raw, kid) : FirstMention(raw, kid) = PublicPart(raw[n])
  BY <1>2 DEF FirstMention
<1>4. raw[n].kid = kid
  BY DEF Mentions
<1> QED
  BY <1>3, <1>4 DEF PublicPart, KeyEntry

LEMMA KeysCover ==
  ASSUME PublicInv, NEW kid \in KeyIds, \A k \in PublishedKeys : k.kid # kid
  PROVE  unpublished[kid] = clock
<1>1. Mentions(announced, kid) = {}
  <2>1. SUFFICES ASSUME Mentions(announced, kid) # {} PROVE FALSE
    OBVIOUS
  <2>2. FirstMention(announced, kid) \in PublishedKeys
    BY <2>1 DEF PublishedKeys, PublicJwks, KidsOf
  <2> QED
    BY <2>1, <2>2, FirstMentionIsOfTheKey DEF PublicInv, PublicTyped
<1>2. Mentions(retired, kid) = {}
  <2>1. SUFFICES ASSUME Mentions(retired, kid) # {} PROVE FALSE
    OBVIOUS
  <2>2. FirstMention(retired, kid) \in PublishedKeys
    BY <1>1, <2>1 DEF PublishedKeys, KidsOf
  <2> QED
    BY <2>1, <2>2, FirstMentionIsOfTheKey DEF PublicInv, PublicTyped
<1>3. Missing(kid)
  BY <1>1, <1>2 DEF Missing, Mentions
<1> QED
  BY <1>3 DEF PublicInv, HistoryFacts

\* Whatever a route says of the badge at this moment, it says "live" of one that stands.
LEMMA LiveStands ==
  ASSUME PublicInv
  PROVE  /\ Live(STATE_BY_STATUS(EffectiveStatus)) \in {"yes", "no"}
         /\ Live(STATE_BY_STATUS(EffectiveStatus)) = "yes" => standing = clock
         /\ EffectiveStatus = "active" => standing = clock
<1>1. EffectiveStatus = "active" => Stands
  BY DEF EffectiveStatus, Stands, PublicInv, PublicTyped
<1>2. EffectiveStatus # "live"
  BY DEF EffectiveStatus, PublicInv, PublicTyped
<1> QED
  BY <1>1, <1>2 DEF Live, STATE_BY_STATUS, PublicInv, HistoryFacts

LEMMA ServedIsTrue ==
  ASSUME PublicInv, NEW lookup
  PROVE  /\ TrueAnswer(ServeBadge(lookup)) /\ TrueAnswer(ServeStatus(lookup))
         /\ TrueAnswer(ServeDocument(lookup)) /\ TrueAnswer(ServeList(lookup))
         /\ OfTheMark(ServeDocument(lookup)) /\ TrueKeys(ServeKeys)
<1> DEFINE state == Live(STATE_BY_STATUS(EffectiveStatus))
<1>1. TrueAnswer(Failed)
  BY DEF TrueAnswer, Failed, Silence, Told, Answers3
<1>2. clock \in Nat \ {0} /\ standing \in Nat
  BY DEF PublicInv, PublicTyped
<1>3. ASSUME NEW live \in Answers3, live = "yes" => standing = clock
      PROVE  TrueAnswer(Answer(Told(live, "unknown")))
  BY <1>2, <1>3 DEF TrueAnswer, Answer, Told, Failed
<1>4. state \in Answers3 /\ (state = "yes" => standing = clock)
  BY LiveStands DEF Answers3
<1> HIDE DEF state
<1>5. TrueAnswer(Answer(Told("no", "unknown"))) /\ TrueAnswer(Answer(Told(state, "unknown")))
  BY <1>3, <1>4 DEF Answers3
<1>6. TrueAnswer(ServeBadge(lookup)) /\ TrueAnswer(ServeStatus(lookup))
  BY <1>1, <1>5 DEF ServeBadge, ServeStatus, state
<1>7. TrueAnswer([Answer(Told(state, "unknown")) EXCEPT !.kid = mark.kid])
  BY <1>5 DEF TrueAnswer, Answer, Told, Failed
<1>8. TrueAnswer(ServeDocument(lookup))
  BY <1>1, <1>7 DEF ServeDocument, state
<1>9. OfTheMark(ServeDocument(lookup))
  BY DEF OfTheMark, ServeDocument, Answer, Failed
<1>10. TrueAnswer(ServeList(lookup))
  <2> DEFINE live == IF Listed THEN "yes" ELSE "unknown"
  <2>1. live \in Answers3 /\ (live = "yes" => standing = clock)
    BY LiveStands DEF Listed, Answers3
  <2> HIDE DEF live
  <2>2. TrueAnswer(Answer(Told(live, "unknown")))
    BY <1>3, <2>1
  <2> QED
    BY <1>1, <2>2 DEF ServeList, live
<1>11. TrueKeys(ServeKeys)
  <2>1. TrueKeys(Failed)
    BY DEF TrueKeys, Failed
  <2>2. /\ [Answer(Silence) EXCEPT !.keys = PublishedKeys].at = clock
        /\ [Answer(Silence) EXCEPT !.keys = PublishedKeys].keys = PublishedKeys
    BY DEF Answer, Failed
  <2>3. TrueKeys([Answer(Silence) EXCEPT !.keys = PublishedKeys])
    BY <1>2, <2>2, KeysCover DEF TrueKeys
  <2> QED
    BY <2>1, <2>3 DEF ServeKeys
<1> QED
  BY <1>6, <1>8, <1>9, <1>10, <1>11

LEMMA PublicStarts == PublicInit => PublicInv
<1> SUFFICES ASSUME PublicInit PROVE PublicInv
  OBVIOUS
<1> USE DEF PublicInit
<1>1. PublicTyped
  <2>1. FirstKey \in KeyIds
    BY PublicAssumption
  <2>2. KeyEntry(FirstKey, "public") \in [kid : KeyIds, form : KeyForm]
    BY <2>1 DEF KeyEntry, KeyForm
  <2>3. announced \in PastedEntries /\ retired \in PastedEntries
    <3> DEFINE pasted == KeyEntry(FirstKey, "public")
    <3>1. pasted \in [kid : KeyIds, form : KeyForm]
      BY <2>2
    <3> HIDE DEF pasted
    <3>2. <<pasted>> \in PastedEntries /\ <<>> \in PastedEntries
      BY <3>1 DEF PastedEntries
    <3> QED
      BY <3>2 DEF pasted
  <2>4. mark \in [status : {"none", "active", "suspended", "expired", "revoked"},
                 kid : KeyIds, until : Nat, listed : BOOLEAN]
    BY <2>1 DEF NoMark
  <2>5. unpublished \in [KeyIds -> Nat]
    OBVIOUS
  <2> QED
    BY <2>1, <2>3, <2>4, <2>5 DEF PublicTyped, CopyNames
<1>2. ~Missing(FirstKey)
  BY DEF Missing, HasShape, KeyEntry
<1>3. HistoryFacts
  BY <1>2 DEF HistoryFacts, Stands, NoMark
<1>4. CopyFacts
  BY DEF CopyFacts, TrueAnswer, TrueKeys, OfTheMark, Failed, Silence, Told, Answers3
<1>5. PublicIsToldTheTruth
  BY DEF PublicIsToldTheTruth, LiveWasLive, ForgeryWasUnpublished, Silence, Told
<1> QED
  BY <1>1, <1>3, <1>4, <1>5 DEF PublicInv

\* A step that is nobody's answer: the history only grows, and the copies stay true.
LEMMA WorldMoves ==
  ASSUME PublicInv, NobodyAsks, copies' = copies,
         clock' \in Nat, clock <= clock', signer' \in KeyIds,
         announced' \in PastedEntries, retired' \in PastedEntries,
         mark' \in [status : {"none", "active", "suspended", "expired", "revoked"},
                    kid : KeyIds, until : Nat, listed : BOOLEAN],
         Issued => Issued' /\ mark'.kid = mark.kid
  PROVE  PublicInv'
<1> USE DEF PublicInv, PublicTyped
<1>1. /\ standing' \in Nat /\ standing <= standing' /\ standing' <= clock'
      /\ Stands' => standing' = clock'
  BY DEF NobodyAsks, HistoryFacts
<1>2. unpublished' \in [KeyIds -> Nat]
  BY DEF NobodyAsks
<1>3. \A k \in KeyIds : /\ unpublished[k] <= unpublished'[k] /\ unpublished'[k] <= clock'
                        /\ Missing(k)' => unpublished'[k] = clock'
  BY DEF NobodyAsks, HistoryFacts
<1>4. PublicTyped'
  BY <1>1, <1>2
<1>5. HistoryFacts'
  BY <1>1, <1>3 DEF HistoryFacts
<1>6. TrueAnswer(copies["answer"])'
  BY <1>1 DEF CopyFacts, TrueAnswer, Answers3
<1>7. TrueKeys(copies["keys"])'
  BY <1>2, <1>3 DEF CopyFacts, TrueKeys
<1>8. OfTheMark(copies["answer"])'
  BY DEF CopyFacts, OfTheMark, NobodyAsks
<1>9. PublicIsToldTheTruth'
  BY DEF NobodyAsks, Silence, Told, PublicIsToldTheTruth, LiveWasLive, ForgeryWasUnpublished
<1> QED
  BY <1>4, <1>5, <1>6, <1>7, <1>8, <1>9 DEF CopyFacts

\* An answer that is new, or a copy that is fresh.
LEMMA FetchedIsTrue ==
  ASSUME PublicInv, NEW age \in Nat, NEW serve, TrueAnswer(serve), serve.ok => serve.at = clock,
         NEW a \in Fetch("answer", age, serve)
  PROVE  /\ TrueAnswer(a)
         /\ a.said.live = "yes" => standing > 0 /\ clock - standing <= age
<1>1. TrueAnswer(a)
  BY DEF Fetch, PublicInv, CopyFacts
<1>2. a.ok => a.at \in Nat /\ clock - a.at <= age
  BY <1>1 DEF Fetch, Fresh, TrueAnswer, PublicInv, PublicTyped
<1> QED
  BY <1>1, <1>2 DEF TrueAnswer, PublicInv, PublicTyped

LEMMA ServedNow ==
  ASSUME NEW lookup,
         NEW a \in {ServeBadge(lookup), ServeStatus(lookup), ServeDocument(lookup),
                    ServeList(lookup), ServeKeys}, a.ok
  PROVE  a.at = clock
<1>1. ~Failed.ok
  BY DEF Failed
<1>2. ASSUME NEW said PROVE Answer(said).at = clock
  BY DEF Answer, Failed
<1>3. [Answer(Silence) EXCEPT !.keys = PublishedKeys].at = Answer(Silence).at
  BY DEF Answer, Failed
<1>4. ASSUME NEW said, NEW kid PROVE [Answer(said) EXCEPT !.kid = kid].at = Answer(said).at
  BY DEF Answer, Failed
<1> QED
  <2>1. CASE a = ServeKeys
    BY <1>1, <1>2, <1>3, <2>1 DEF ServeKeys
  <2>2. CASE a = ServeBadge(lookup) \/ a = ServeStatus(lookup)
    BY <1>1, <1>2, <1>4, <2>2 DEF ServeBadge, ServeStatus
  <2>3. CASE a = ServeDocument(lookup) \/ a = ServeList(lookup)
    BY <1>1, <1>2, <1>4, <2>3 DEF ServeDocument, ServeList
  <2> QED
    BY <2>1, <2>2, <2>3

\* A reader's step: what it is told is true, and so is what it keeps.
LEMMA ReaderIsTold ==
  ASSUME PublicInv, Asked, DOMAIN copies' = CopyNames,
         TrueAnswer(copies'["answer"]), TrueKeys(copies'["keys"]), OfTheMark(copies'["answer"]),
         told'.live = "yes" => standing > 0 /\ clock - standing <= KeptFor[route],
         told'.genuine = "no" =>
           unpublished[mark.kid] > 0 /\ clock - unpublished[mark.kid] <= KeyAge[route]
  PROVE  PublicInv'
<1> USE DEF PublicInv, Asked
<1>1. PublicTyped'
  BY DEF PublicTyped
<1>2. HistoryFacts'
  BY DEF HistoryFacts, Stands, Missing
<1>3. CopyFacts'
  BY DEF CopyFacts, TrueAnswer, TrueKeys, OfTheMark, Issued
<1>4. PublicIsToldTheTruth'
  BY DEF PublicIsToldTheTruth, LiveWasLive, ForgeryWasUnpublished
<1> QED
  BY <1>1, <1>2, <1>3, <1>4

\* A reader of one answer, which is kept for the age its route allows.
LEMMA AnswerIsTold ==
  ASSUME PublicInv, Asked, route # "offline", NEW age \in Nat, age = KeptFor[route],
         NEW serve, TrueAnswer(serve), serve.ok => serve.at = clock,
         NEW a \in Fetch("answer", age, serve), told' = a.said, copies' = Keep("answer", a)
  PROVE  PublicInv'
<1>1. /\ TrueAnswer(a)
      /\ a.said.live = "yes" => standing > 0 /\ clock - standing <= age
  BY FetchedIsTrue
<1>2. /\ DOMAIN copies' = CopyNames /\ copies'["keys"] = copies["keys"]
      /\ copies'["answer"] \in {a, copies["answer"]}
  BY DEF Keep, CopyNames, PublicInv, PublicTyped
<1>3. TrueAnswer(copies'["answer"]) /\ TrueKeys(copies'["keys"])
  BY <1>1, <1>2 DEF PublicInv, CopyFacts
<1>4. OfTheMark(copies'["answer"])
  BY DEF OfTheMark
<1>5. told'.genuine = "unknown"
  BY <1>1 DEF TrueAnswer
<1> QED
  BY <1>1, <1>2, <1>3, <1>4, <1>5, ReaderIsTold

LEMMA OfflineIsTold == ASSUME PublicInv, CheckOffline PROVE PublicInv'
<1>1. Asked /\ route = "offline"
  BY DEF CheckOffline
<1>2. PICK lookup \in Lookups :
        \E d \in Fetch("answer", ShortAge, ServeDocument(lookup)),
           k \in Fetch("keys", LongAge, ServeKeys) :
          /\ told' = IF d.ok /\ k.ok THEN Told(d.said.live, Signed(d.kid, k.keys)) ELSE Silence
          /\ copies' = [answer |-> Keep("answer", d)["answer"], keys |-> Keep("keys", k)["keys"]]
  BY DEF CheckOffline
<1>3. PICK d \in Fetch("answer", ShortAge, ServeDocument(lookup)),
           k \in Fetch("keys", LongAge, ServeKeys) :
          /\ told' = IF d.ok /\ k.ok THEN Told(d.said.live, Signed(d.kid, k.keys)) ELSE Silence
          /\ copies' = [answer |-> Keep("answer", d)["answer"], keys |-> Keep("keys", k)["keys"]]
  BY <1>2
<1>4. ShortAge \in Nat /\ LongAge \in Nat /\ clock \in Nat
  BY PublicAssumption DEF PublicInv, PublicTyped
<1>5. /\ TrueAnswer(d)
      /\ d.said.live = "yes" => standing > 0 /\ clock - standing <= ShortAge
  BY <1>4, ServedIsTrue, ServedNow, FetchedIsTrue
<1>6. OfTheMark(d)
  BY ServedIsTrue DEF Fetch, PublicInv, CopyFacts
<1>7. TrueKeys(k) /\ (k.ok => clock - k.at <= LongAge)
  <2>1. TrueKeys(ServeKeys) /\ TrueKeys(copies["keys"]) /\ (ServeKeys.ok => ServeKeys.at = clock)
    BY ServedIsTrue, ServedNow DEF PublicInv, CopyFacts
  <2> QED
    BY <1>4, <2>1 DEF Fetch, Fresh
<1>8. /\ copies'["answer"] \in {d, copies["answer"]} /\ copies'["keys"] \in {k, copies["keys"]}
      /\ DOMAIN copies' = CopyNames
  BY <1>3 DEF Keep, CopyNames, PublicInv, PublicTyped
<1>9. /\ TrueAnswer(copies'["answer"]) /\ OfTheMark(copies'["answer"])
      /\ TrueKeys(copies'["keys"])
  BY <1>5, <1>6, <1>7, <1>8 DEF PublicInv, CopyFacts
<1>10. told'.live = "yes" => standing > 0 /\ clock - standing <= KeptFor[route]
  BY <1>1, <1>3, <1>5 DEF KeptFor, Told, Silence
<1>11. ASSUME told'.genuine = "no"
       PROVE  unpublished[mark.kid] > 0 /\ clock - unpublished[mark.kid] <= KeyAge[route]
  <2>1. d.ok /\ k.ok /\ Signed(d.kid, k.keys) = "no"
    BY <1>3, <1>11 DEF Told, Silence
  <2>2. d.kid = mark.kid /\ mark.kid \in KeyIds
    BY <1>1, <1>6, <2>1 DEF OfTheMark, PublicInv, PublicTyped
  <2>3. \A key \in k.keys : key.kid # mark.kid
    BY <2>1, <2>2 DEF Signed
  <2>4. k.at \in Nat \ {0} /\ k.at <= unpublished[mark.kid]
    BY <1>7, <2>1, <2>2, <2>3 DEF TrueKeys
  <2>5. unpublished[mark.kid] \in Nat
    BY <2>2 DEF PublicInv, PublicTyped
  <2>6. KeyAge[route] = LongAge
    BY <1>1 DEF KeyAge
  <2> QED
    BY <1>4, <1>7, <2>1, <2>4, <2>5, <2>6
<1> QED
  BY <1>1, <1>8, <1>9, <1>10, <1>11, ReaderIsTold

LEMMA VerifyIsTold == ASSUME PublicInv, OpenVerify PROVE PublicInv'
<1>1. Asked /\ route = "verify" /\ copies' = copies
  BY DEF OpenVerify
<1>2. PICK lookup \in Lookups :
        told' = IF ~RowReached(lookup) \/ ~Issued \/ ~KeysReadable THEN Silence
                ELSE Told(Live(STATE_BY_STATUS(EffectiveStatus)), Signed(mark.kid, PublishedKeys))
  BY DEF OpenVerify
<1>3. clock \in Nat \ {0} /\ standing \in Nat /\ mark.kid \in KeyIds
  BY DEF PublicInv, PublicTyped
<1>4. ASSUME told'.genuine = "no"
      PROVE  unpublished[mark.kid] > 0 /\ clock - unpublished[mark.kid] <= KeyAge[route]
  <2>1. Signed(mark.kid, PublishedKeys) = "no"
    BY <1>2, <1>4 DEF Told, Silence
  <2>2. \A key \in PublishedKeys : key.kid # mark.kid
    BY <2>1 DEF Signed
  <2>3. unpublished[mark.kid] = clock
    BY <1>3, <2>2, KeysCover
  <2> QED
    BY <1>1, <1>3, <2>3 DEF KeyAge
<1>5. told'.live = "yes" => standing > 0 /\ clock - standing <= KeptFor[route]
  <2>1. told'.live = "yes" => standing = clock
    BY <1>2, LiveStands DEF Told, Silence
  <2> QED
    BY <1>1, <1>3, <2>1 DEF KeptFor
<1> QED
  BY <1>1, <1>4, <1>5, ReaderIsTold DEF PublicInv, PublicTyped, CopyFacts

LEMMA SealPageIsTold == ASSUME PublicInv, OpenSealPage PROVE PublicInv'
<1>1. Asked /\ route = "page" /\ copies' = copies
  BY DEF OpenSealPage
<1>2. /\ told'.genuine = "unknown"
      /\ told'.live = "yes" => standing = clock
  BY LiveStands DEF OpenSealPage, Told, Silence
<1>3. clock \in Nat \ {0} /\ standing \in Nat
  BY DEF PublicInv, PublicTyped
<1>4. told'.live = "yes" => standing > 0 /\ clock - standing <= KeptFor[route]
  BY <1>1, <1>2, <1>3 DEF KeptFor
<1> QED
  BY <1>1, <1>2, <1>4, ReaderIsTold DEF PublicInv, PublicTyped, CopyFacts

LEMMA ExtensionIsTold == ASSUME PublicInv, RefreshList \/ OpenPopup PROVE PublicInv'
<1>1. Asked /\ route = "extension"
  BY DEF RefreshList, OpenPopup
<1>2. clock \in Nat /\ standing \in Nat /\ StaleAfter \in Nat /\ KeptFor[route] = StaleAfter
  BY <1>1, PublicAssumption DEF PublicInv, PublicTyped, KeptFor
<1>3. CASE RefreshList
  <2>1. PICK lookup \in Lookups : copies' = Keep("answer", ServeList(lookup))
    BY <1>3 DEF RefreshList
  <2>2. TrueAnswer(ServeList(lookup))
    BY ServedIsTrue
  <2>3. /\ copies'["answer"] \in {ServeList(lookup), copies["answer"]}
        /\ copies'["keys"] = copies["keys"] /\ DOMAIN copies' = CopyNames
    BY <2>1 DEF Keep, CopyNames, PublicInv, PublicTyped
  <2>4. TrueAnswer(copies'["answer"]) /\ TrueKeys(copies'["keys"]) /\ OfTheMark(copies'["answer"])
    BY <1>1, <2>2, <2>3 DEF PublicInv, CopyFacts, OfTheMark
  <2>5. told'.live = "unknown" /\ told'.genuine = "unknown"
    BY <1>3 DEF RefreshList, Silence, Told
  <2> QED
    BY <1>1, <2>3, <2>4, <2>5, ReaderIsTold
<1>4. CASE OpenPopup
  <2>1. copies' = copies
    BY <1>4 DEF OpenPopup
  <2>2. \/ told' = Silence
        \/ Fresh(copies["answer"], StaleAfter) /\ told' = copies["answer"].said
    BY <1>4 DEF OpenPopup
  <2>3. TrueAnswer(copies["answer"])
    BY DEF PublicInv, CopyFacts
  <2>4. told'.genuine = "unknown"
    BY <2>2, <2>3 DEF TrueAnswer, Silence, Told
  <2>5. told'.live = "yes" => standing > 0 /\ clock - standing <= KeptFor[route]
    BY <1>2, <2>2, <2>3 DEF TrueAnswer, Silence, Told, Fresh
  <2> QED
    BY <1>1, <2>1, <2>4, <2>5, ReaderIsTold DEF PublicInv, PublicTyped, CopyFacts
<1> QED
  BY <1>3, <1>4

LEMMA PublicSteps == PublicInv /\ [PublicNext]_publicVars => PublicInv'
<1> SUFFICES ASSUME PublicInv, [PublicNext]_publicVars PROVE PublicInv'
  OBVIOUS
<1>1. /\ clock \in Nat /\ signer \in KeyIds
      /\ announced \in PastedEntries /\ retired \in PastedEntries
      /\ mark \in [status : {"none", "active", "suspended", "expired", "revoked"},
                   kid : KeyIds, until : Nat, listed : BOOLEAN]
  BY DEF PublicInv, PublicTyped
<1>2. ShortAge \in Nat /\ LongAge \in Nat /\ Term \in Nat /\ Pastes \subseteq PastedEntries
  BY PublicAssumption DEF PastedEntries
<1>3. CASE IssueMark
  BY <1>1, <1>2, <1>3, WorldMoves DEF IssueMark
<1>4. CASE MoveMark
  <2>1. mark' \in [status : {"none", "active", "suspended", "expired", "revoked"},
                   kid : KeyIds, until : Nat, listed : BOOLEAN]
        /\ mark'.kid = mark.kid /\ mark'.status # "none"
    BY <1>1, <1>4 DEF MoveMark, Issued
  <2> QED
    BY <1>1, <1>4, <2>1, WorldMoves DEF MoveMark, Issued
<1>5. CASE Rotate
  BY <1>1, <1>5, WorldMoves DEF Rotate, Issued
<1>6. CASE Paste
  BY <1>1, <1>2, <1>6, WorldMoves DEF Paste, Issued
<1>7. CASE TickPublic
  BY <1>1, <1>7, WorldMoves DEF TickPublic, Issued
<1>8. CASE SeeImage
  <2>1. ShortAge = KeptFor[route] /\ route # "offline"
    BY <1>8 DEF SeeImage, KeptFor
  <2> QED
    BY <1>2, <1>8, <2>1, ServedIsTrue, ServedNow, AnswerIsTold DEF SeeImage
<1>9. CASE AskStatus
  <2>1. ShortAge = KeptFor[route] /\ route # "offline"
    BY <1>9 DEF AskStatus, KeptFor
  <2> QED
    BY <1>2, <1>9, <2>1, ServedIsTrue, ServedNow, AnswerIsTold DEF AskStatus
<1>10. CASE ReadList
  <2>1. LongAge = KeptFor[route] /\ route # "offline"
    BY <1>10 DEF ReadList, KeptFor
  <2> QED
    BY <1>2, <1>10, <2>1, ServedIsTrue, ServedNow, AnswerIsTold DEF ReadList
<1>11. CASE UNCHANGED publicVars
  <2>1. PublicTyped' /\ HistoryFacts'
    BY <1>11 DEF publicVars, PublicInv, PublicTyped, HistoryFacts, Stands, Missing
  <2>2. CopyFacts'
    BY <1>11 DEF publicVars, PublicInv, CopyFacts, TrueAnswer, TrueKeys, OfTheMark, Issued
  <2>3. PublicIsToldTheTruth'
    BY <1>11 DEF publicVars, PublicInv, PublicIsToldTheTruth, LiveWasLive, ForgeryWasUnpublished
  <2> QED
    BY <2>1, <2>2, <2>3 DEF PublicInv
<1> QED
  BY <1>3, <1>4, <1>5, <1>6, <1>7, <1>8, <1>9, <1>10, <1>11,
     OfflineIsTold, VerifyIsTold, SealPageIsTold, ExtensionIsTold DEF PublicNext

\* Whoever is told on any route that the badge is live, it stood no longer ago than
\* copies of that route are kept, and whoever is told that it is no signature of
\* ours, its key was in neither variable no longer ago than the key set is kept:
\* for any keys, pastes, ages and terms (badgeHeaders, publicStatus, publishedKeys).
THEOREM ThePublicIsToldTheTruth == PublicSpec => []PublicIsToldTheTruth
<1>1. PublicInv => PublicIsToldTheTruth
  BY DEF PublicInv
<1> QED
  BY PublicStarts, PublicSteps, <1>1, PTL DEF PublicSpec

----------------------------------------------------------------------------
(* What is published of a run (PublishedVerdict): sums                      *)

\* A set of numbers has a least one.
LEMMA LeastOf ==
  ASSUME NEW T \in SUBSET Nat, T # {} PROVE \E n \in T : \A m \in T : n <= m
<1>1. PICK n \in T : \A m \in T : <<m, n>> \notin OpToRel(<, Nat)
  BY NatLessThanWellFounded, WFMin
<1>2. \A m \in T : ~(m < n)
  BY <1>1 DEF OpToRel
<1> QED
  BY <1>2

Summable(amount) == IsFiniteSet(DOMAIN amount) /\ amount \in [DOMAIN amount -> Int]
Some(of) == CHOOSE x \in of : TRUE
Small(amount, n) == {of \in SUBSET DOMAIN amount : Cardinality(of) <= n}
AddsUp(amount, sum, of) ==
  sum[of] = IF of = {} THEN 0 ELSE amount[Some(of)] + sum[of \ {Some(of)}]
SumUpTo(amount, n, sum) ==
  sum \in [Small(amount, n) -> Int] /\ \A of \in Small(amount, n) : AddsUp(amount, sum, of)
SumOf(amount, sum) ==
  sum \in [SUBSET DOMAIN amount -> Int] /\ \A of \in SUBSET DOMAIN amount : AddsUp(amount, sum, of)

\* Taking one away leaves a smaller set.
LEMMA OneFewer ==
  ASSUME NEW amount, Summable(amount), NEW of \in SUBSET DOMAIN amount, NEW x \in of
  PROVE  /\ of \ {x} \in SUBSET DOMAIN amount /\ IsFiniteSet(of)
         /\ Cardinality(of) \in Nat /\ Cardinality(of \ {x}) = Cardinality(of) - 1
<1>1. IsFiniteSet(of)
  BY FS_Subset DEF Summable
<1> QED
  BY <1>1, FS_RemoveElement, FS_CardinalityType

\* A sum over the sets of n at most gives one over those of one more.
LEMMA SumGrows ==
  ASSUME NEW amount, Summable(amount), NEW n \in Nat, NEW sum, SumUpTo(amount, n, sum)
  PROVE  \E more : SumUpTo(amount, n + 1, more)
<1> DEFINE Value(of) == IF of = {} THEN 0 ELSE amount[Some(of)] + sum[of \ {Some(of)}]
<1> DEFINE more == [of \in Small(amount, n + 1) |-> Value(of)]
<1>1. ASSUME NEW of \in Small(amount, n + 1), of # {}
      PROVE  /\ Some(of) \in DOMAIN amount /\ of \ {Some(of)} \in Small(amount, n)
             /\ of \ {Some(of)} \in Small(amount, n + 1)
  <2>1. of \in SUBSET DOMAIN amount /\ Cardinality(of) <= n + 1 /\ Some(of) \in of
    BY <1>1 DEF Small, Some
  <2>2. /\ of \ {Some(of)} \in SUBSET DOMAIN amount
        /\ Cardinality(of) \in Nat /\ Cardinality(of \ {Some(of)}) = Cardinality(of) - 1
    BY <2>1, OneFewer
  <2> QED
    BY <2>1, <2>2 DEF Small
<1>2. \A of \in Small(amount, n + 1) : of # {} =>
        amount[Some(of)] \in Int /\ sum[of \ {Some(of)}] \in Int
  BY <1>1 DEF SumUpTo, Summable
<1>3. more \in [Small(amount, n + 1) -> Int]
  <2>1. \A of \in Small(amount, n + 1) : Value(of) \in Int
    BY <1>2
  <2> HIDE DEF Value
  <2> QED
    BY <2>1
<1>4. \A of \in Small(amount, n) : of \in Small(amount, n + 1) /\ more[of] = sum[of]
  <2> SUFFICES ASSUME NEW of \in Small(amount, n)
               PROVE  of \in Small(amount, n + 1) /\ more[of] = sum[of]
    OBVIOUS
  <2>1. of \in SUBSET DOMAIN amount /\ Cardinality(of) <= n
    BY DEF Small
  <2>2. IsFiniteSet(of) /\ Cardinality(of) \in Nat
    BY <2>1, FS_Subset, FS_CardinalityType DEF Summable
  <2>3. of \in Small(amount, n + 1)
    BY <2>1, <2>2 DEF Small
  <2>4. AddsUp(amount, sum, of)
    BY DEF SumUpTo
  <2> QED
    BY <2>3, <2>4 DEF AddsUp
<1>5. \A of \in Small(amount, n + 1) : AddsUp(amount, more, of)
  <2> SUFFICES ASSUME NEW of \in Small(amount, n + 1) PROVE AddsUp(amount, more, of)
    OBVIOUS
  <2>1. CASE of = {}
    BY <2>1 DEF AddsUp
  <2>2. CASE of # {}
    <3>1. more[of \ {Some(of)}] = sum[of \ {Some(of)}]
      BY <1>1, <1>4, <2>2
    <3> QED
      BY <2>2, <3>1 DEF AddsUp
  <2> QED
    BY <2>1, <2>2
<1> HIDE DEF more
<1> QED
  BY <1>3, <1>5 DEF SumUpTo

LEMMA SumExists ==
  ASSUME NEW amount, Summable(amount)
  PROVE  \A n \in Nat : \E sum : SumUpTo(amount, n, sum)
<1> DEFINE T == {n \in Nat : ~\E sum : SumUpTo(amount, n, sum)}
<1> SUFFICES ASSUME T # {} PROVE FALSE
  OBVIOUS
<1>1. PICK n \in T : \A m \in T : n <= m
  BY LeastOf
<1>2. CASE n = 0
  <2> DEFINE none == [of \in Small(amount, 0) |-> 0]
  <2>1. \A of \in Small(amount, 0) : of = {}
    <3> SUFFICES ASSUME NEW of \in Small(amount, 0) PROVE of = {}
      OBVIOUS
    <3>1. of \in SUBSET DOMAIN amount /\ Cardinality(of) <= 0
      BY DEF Small
    <3>2. IsFiniteSet(of) /\ Cardinality(of) \in Nat
      BY <3>1, FS_Subset, FS_CardinalityType DEF Summable
    <3> QED
      BY <3>1, <3>2, FS_EmptySet
  <2>2. SumUpTo(amount, 0, none)
    BY <2>1 DEF SumUpTo, AddsUp
  <2> QED
    BY <1>1, <1>2, <2>2
<1>3. CASE n # 0
  <2>1. n - 1 \in Nat /\ n - 1 \notin T
    BY <1>1, <1>3
  <2>2. PICK sum : SumUpTo(amount, n - 1, sum)
    BY <2>1
  <2>3. \E more : SumUpTo(amount, (n - 1) + 1, more)
    BY <2>1, <2>2, SumGrows
  <2>4. (n - 1) + 1 = n
    BY <1>1
  <2> QED
    BY <1>1, <2>3, <2>4
<1> QED
  BY <1>2, <1>3

\* The total is that of a function which adds up, on every part.
LEMMA TotalIs ==
  ASSUME NEW amount, Summable(amount)
  PROVE  \E sum : SumOf(amount, sum) /\ Total(amount) = sum[DOMAIN amount]
<1> DEFINE Rec(sum) == sum = [of \in SUBSET DOMAIN amount |->
             IF of = {} THEN 0 ELSE amount[Some(of)] + sum[of \ {Some(of)}]]
<1>1. \A sum : SumOf(amount, sum) => Rec(sum)
  BY DEF SumOf, AddsUp
<1>2. \E sum : SumOf(amount, sum)
  <2> DEFINE n == Cardinality(DOMAIN amount)
  <2>1. n \in Nat
    BY FS_CardinalityType DEF Summable
  <2>2. Small(amount, n) = SUBSET DOMAIN amount
    <3>1. \A of \in SUBSET DOMAIN amount : Cardinality(of) <= n
      BY FS_Subset DEF Summable
    <3> QED
      BY <3>1 DEF Small
  <2> QED
    BY <2>1, <2>2, SumExists DEF SumUpTo, SumOf
<1>3. \E sum : Rec(sum)
  BY <1>1, <1>2
<1> DEFINE it == CHOOSE sum : Rec(sum)
<1>4. Rec(it)
  <2> HIDE DEF Rec
  <2> QED
    BY <1>3
<1>5. PICK sum : SumOf(amount, sum)
  BY <1>2
<1>6. it \in [SUBSET DOMAIN amount -> Int]
  <2> SUFFICES ASSUME \E of \in SUBSET DOMAIN amount : it[of] # sum[of]
               PROVE  FALSE
    BY <1>4, <1>5 DEF SumOf
  <2> DEFINE T == {k \in Nat : \E of \in SUBSET DOMAIN amount : it[of] # sum[of] /\ Cardinality(of) = k}
  <2>1. \A of \in SUBSET DOMAIN amount : Cardinality(of) \in Nat
    BY FS_Subset, FS_CardinalityType DEF Summable
  <2>2. PICK k \in T : \A m \in T : k <= m
    <3>1. T # {}
      BY <2>1
    <3> QED
      BY <3>1, LeastOf
  <2>3. PICK of \in SUBSET DOMAIN amount : it[of] # sum[of] /\ Cardinality(of) = k
    BY <2>2
  <2>4. it[of] = IF of = {} THEN 0 ELSE amount[Some(of)] + it[of \ {Some(of)}]
    BY <1>4
  <2>5. sum[of] = IF of = {} THEN 0 ELSE amount[Some(of)] + sum[of \ {Some(of)}]
    BY <1>5 DEF SumOf, AddsUp
  <2>6. of # {} /\ Some(of) \in of
    BY <2>3, <2>4, <2>5 DEF Some
  <2>7. of \ {Some(of)} \in SUBSET DOMAIN amount /\ Cardinality(of \ {Some(of)}) = k - 1 /\ k \in Nat
    BY <2>2, <2>3, <2>6, OneFewer
  <2>8. k - 1 \notin T
    <3> HIDE DEF T
    <3> SUFFICES ASSUME k - 1 \in T PROVE FALSE
      OBVIOUS
    <3>1. k <= k - 1
      BY <2>2
    <3> QED
      BY <3>1, <2>7
  <2>9. it[of \ {Some(of)}] = sum[of \ {Some(of)}]
    BY <2>1, <2>7, <2>8
  <2> QED
    BY <2>3, <2>4, <2>5, <2>9
<1>7. SumOf(amount, it)
  BY <1>4, <1>6 DEF SumOf, AddsUp
<1>8. Total(amount) = it[DOMAIN amount]
  BY DEF Total, Some
<1> HIDE DEF it
<1> QED
  BY <1>7, <1>8

\* Any part may be taken out of a sum first.
LEMMA SumTakesOut ==
  ASSUME NEW amount, Summable(amount), NEW sum, SumOf(amount, sum)
  PROVE  \A of \in SUBSET DOMAIN amount : \A x \in of : sum[of] = amount[x] + sum[of \ {x}]
<1> DEFINE Good(of) == \A x \in of : sum[of] = amount[x] + sum[of \ {x}]
<1> DEFINE T == {k \in Nat : \E of \in SUBSET DOMAIN amount : ~Good(of) /\ Cardinality(of) = k}
<1>1. \A of \in SUBSET DOMAIN amount : Cardinality(of) \in Nat
  BY FS_Subset, FS_CardinalityType DEF Summable
<1>2. CASE T = {}
  <2> HIDE DEF Good
  <2>1. \A of \in SUBSET DOMAIN amount : Good(of)
    BY <1>1, <1>2
  <2> QED
    BY <2>1 DEF Good
<1>3. CASE T # {}
  <2>1. PICK k \in T : \A m \in T : k <= m
    BY <1>3, LeastOf
  <2>2. PICK of \in SUBSET DOMAIN amount : ~Good(of) /\ Cardinality(of) = k
    BY <2>1
  <2>3. PICK x \in of : sum[of] # amount[x] + sum[of \ {x}]
    BY <2>2
  <2> DEFINE y == Some(of)
  <2>4. y \in of /\ sum[of] = amount[y] + sum[of \ {y}]
    BY <2>3 DEF SumOf, AddsUp, Some
  <2>5. x # y
    BY <2>3, <2>4
  <2> HIDE DEF y
  <2>6. k \in Nat
    BY <2>1
  <2>7. \A less \in SUBSET DOMAIN amount : Cardinality(less) < k => Good(less)
    <3> SUFFICES ASSUME NEW less \in SUBSET DOMAIN amount, Cardinality(less) < k, ~Good(less)
                 PROVE  FALSE
      OBVIOUS
    <3>1. Cardinality(less) \in T
      <4> HIDE DEF Good
      <4> QED
        BY <1>1
    <3> HIDE DEF T
    <3>2. k <= Cardinality(less) /\ Cardinality(less) \in Nat
      BY <2>1, <3>1, <1>1
    <3> QED
      BY <3>2, <2>6
  <2>8. /\ of \ {x} \in SUBSET DOMAIN amount /\ Cardinality(of \ {x}) < k
        /\ of \ {y} \in SUBSET DOMAIN amount /\ Cardinality(of \ {y}) < k
    <3>1. Cardinality(of \ {x}) = k - 1 /\ of \ {x} \in SUBSET DOMAIN amount
      BY <2>2, OneFewer
    <3>2. Cardinality(of \ {y}) = k - 1 /\ of \ {y} \in SUBSET DOMAIN amount
      BY <2>2, <2>4, OneFewer
    <3> QED
      BY <3>1, <3>2, <2>6
  <2>9. Good(of \ {x}) /\ Good(of \ {y})
    BY <2>7, <2>8
  <2>10. /\ sum[of \ {x}] = amount[y] + sum[(of \ {x}) \ {y}]
         /\ sum[of \ {y}] = amount[x] + sum[(of \ {y}) \ {x}]
    BY <2>4, <2>5, <2>9
  <2>11. (of \ {x}) \ {y} = (of \ {y}) \ {x} /\ (of \ {x}) \ {y} \in SUBSET DOMAIN amount
    OBVIOUS
  <2>12. amount[x] \in Int /\ amount[y] \in Int /\ sum[(of \ {x}) \ {y}] \in Int
    BY <2>4, <2>11 DEF Summable, SumOf
  <2>13. sum[of] = amount[y] + (amount[x] + sum[(of \ {x}) \ {y}])
    BY <2>4, <2>10, <2>11
  <2>14. amount[x] + sum[of \ {x}] = amount[x] + (amount[y] + sum[(of \ {x}) \ {y}])
    BY <2>10
  <2>15. amount[y] + (amount[x] + sum[(of \ {x}) \ {y}])
           = amount[x] + (amount[y] + sum[(of \ {x}) \ {y}])
    BY <2>12
  <2>16. FALSE
    BY <2>3, <2>13, <2>14, <2>15
  <2> QED
    BY <2>16
<1> QED
  BY <1>2, <1>3

\* What is nowhere more comes to no more in all.
LEMMA TotalsOrdered ==
  ASSUME NEW less, NEW more, Summable(less), Summable(more), DOMAIN less = DOMAIN more,
         \A x \in DOMAIN less : less[x] <= more[x]
  PROVE  Total(less) \in Int /\ Total(more) \in Int /\ Total(less) <= Total(more)
<1>1. PICK low : SumOf(less, low) /\ Total(less) = low[DOMAIN less]
  BY TotalIs
<1>2. PICK high : SumOf(more, high) /\ Total(more) = high[DOMAIN more]
  BY TotalIs
<1>3. \A of \in SUBSET DOMAIN less : low[of] \in Int /\ high[of] \in Int
  BY <1>1, <1>2 DEF SumOf
<1> DEFINE Good(of) == low[of] <= high[of]
<1> DEFINE T == {k \in Nat : \E of \in SUBSET DOMAIN less : ~Good(of) /\ Cardinality(of) = k}
<1>4. \A of \in SUBSET DOMAIN less : Cardinality(of) \in Nat
  BY FS_Subset, FS_CardinalityType DEF Summable
<1>5. CASE T = {}
  <2>1. Good(DOMAIN less)
    <3> HIDE DEF Good
    <3> QED
      BY <1>4, <1>5
  <2> QED
    BY <1>1, <1>2, <1>3, <2>1
<1>6. CASE T # {}
  <2>1. PICK k \in T : \A m \in T : k <= m
    BY <1>6, LeastOf
  <2>2. PICK of \in SUBSET DOMAIN less : ~Good(of) /\ Cardinality(of) = k
    BY <2>1
  <2> DEFINE y == Some(of)
  <2>3. low[of] = IF of = {} THEN 0 ELSE less[y] + low[of \ {y}]
    BY <1>1 DEF SumOf, AddsUp
  <2>4. high[of] = IF of = {} THEN 0 ELSE more[y] + high[of \ {y}]
    BY <1>2 DEF SumOf, AddsUp
  <2>5. of # {}
    BY <2>2, <2>3, <2>4
  <2>6. y \in of
    BY <2>5 DEF Some
  <2> HIDE DEF y
  <2>7. k \in Nat /\ of \ {y} \in SUBSET DOMAIN less /\ Cardinality(of \ {y}) = k - 1
    BY <2>1, <2>2, <2>6, OneFewer
  <2>8. Good(of \ {y})
    <3> SUFFICES ASSUME ~Good(of \ {y}) PROVE FALSE
      OBVIOUS
    <3>1. Cardinality(of \ {y}) \in T
      <4> HIDE DEF Good
      <4> QED
        BY <1>4, <2>7
    <3> HIDE DEF T
    <3>2. k <= k - 1
      BY <2>1, <2>7, <3>1
    <3> QED
      BY <3>2, <2>7
  <2>9. less[y] \in Int /\ more[y] \in Int /\ less[y] <= more[y]
    BY <2>6 DEF Summable
  <2>10. low[of \ {y}] \in Int /\ high[of \ {y}] \in Int
    BY <1>3, <2>7
  <2> QED
    BY <2>2, <2>3, <2>4, <2>5, <2>8, <2>9, <2>10
<1> QED
  BY <1>5, <1>6

LEMMA TotalIsInt ==
  ASSUME NEW amount, Summable(amount)
  PROVE  Total(amount) \in Int
<1>1. PICK sum : SumOf(amount, sum) /\ Total(amount) = sum[DOMAIN amount]
  BY TotalIs
<1> QED
  BY <1>1 DEF SumOf

\* No part of what is nowhere negative is more than the whole.
LEMMA PartOfTotal ==
  ASSUME NEW amount, Summable(amount), \A x \in DOMAIN amount : amount[x] >= 0,
         NEW x \in DOMAIN amount
  PROVE  amount[x] <= Total(amount) /\ Total(amount) \in Nat
<1> DEFINE alone == [z \in DOMAIN amount |-> IF z = x THEN amount[x] ELSE 0]
<1>1. Summable(alone) /\ DOMAIN alone = DOMAIN amount
  BY DEF Summable
<1>2. \A z \in DOMAIN alone : alone[z] <= amount[z]
  BY DEF Summable
<1>3. PICK sum : SumOf(alone, sum) /\ Total(alone) = sum[DOMAIN alone]
  BY <1>1, TotalIs
<1>4. \A of \in SUBSET DOMAIN amount : x \notin of => sum[of] = 0
  <2> SUFFICES ASSUME \E of \in SUBSET DOMAIN amount : x \notin of /\ sum[of] # 0 PROVE FALSE
    OBVIOUS
  <2> DEFINE Bad(of) == x \notin of /\ sum[of] # 0
  <2> DEFINE T == {k \in Nat : \E of \in SUBSET DOMAIN amount : Bad(of) /\ Cardinality(of) = k}
  <2>1. \A of \in SUBSET DOMAIN amount : Cardinality(of) \in Nat
    BY FS_Subset, FS_CardinalityType DEF Summable
  <2>2. PICK k \in T : \A m \in T : k <= m
    <3>1. T # {}
      BY <2>1
    <3> QED
      BY <3>1, LeastOf
  <2>3. PICK of \in SUBSET DOMAIN amount : Bad(of) /\ Cardinality(of) = k
    BY <2>2
  <2> DEFINE y == Some(of)
  <2>4. sum[of] = IF of = {} THEN 0 ELSE alone[y] + sum[of \ {y}]
    BY <1>1, <1>3 DEF SumOf, AddsUp
  <2>5. y \in of
    BY <2>3, <2>4 DEF Some
  <2> HIDE DEF y
  <2>6. k \in Nat /\ of \ {y} \in SUBSET DOMAIN amount /\ Cardinality(of \ {y}) = k - 1
    BY <2>2, <2>3, <2>5, OneFewer
  <2>7. ~Bad(of \ {y})
    <3> SUFFICES ASSUME Bad(of \ {y}) PROVE FALSE
      OBVIOUS
    <3>1. Cardinality(of \ {y}) \in T
      <4> HIDE DEF Bad
      <4> QED
        BY <2>1, <2>6
    <3> HIDE DEF T
    <3>2. k <= k - 1
      BY <2>2, <2>6, <3>1
    <3> QED
      BY <3>2, <2>6
  <2>8. sum[of \ {y}] = 0 /\ alone[y] = 0
    BY <2>3, <2>5, <2>7
  <2> QED
    BY <2>3, <2>4, <2>5, <2>8
<1>5. Total(alone) = amount[x]
  <2>1. sum[DOMAIN alone] = alone[x] + sum[DOMAIN alone \ {x}]
    BY <1>1, <1>3, SumTakesOut
  <2>2. sum[DOMAIN alone \ {x}] = 0
    BY <1>1, <1>4
  <2> QED
    BY <1>1, <1>3, <2>1, <2>2 DEF Summable
<1> HIDE DEF alone
<1>6. Total(alone) \in Int /\ Total(amount) \in Int /\ Total(alone) <= Total(amount)
  BY <1>1, <1>2, TotalsOrdered
<1>7. amount[x] \in Int /\ amount[x] >= 0
  BY DEF Summable
<1> QED
  BY <1>5, <1>6, <1>7

-----------------------------------------------------------------------------
(* What is published of a run (PublishedVerdict): the rubric *)

SixDimensions == {"functional", "security", "privacy", "practicality", "production", "store"}
Weighs == [d \in SixDimensions |->
  CASE d = "functional" -> 25 [] d = "security" -> 25 [] d = "privacy" -> 15
    [] d = "practicality" -> 15 [] d = "production" -> 10 [] d = "store" -> 10]

LEMMA SixAreFinite == IsFiniteSet(SixDimensions) /\ SixDimensions # {}
<1>1. IsFiniteSet({})
  BY FS_EmptySet
<1>2. IsFiniteSet({"functional"})
  BY FS_Singleton
<1>3. IsFiniteSet({"functional", "security"})
  <2>1. {"functional", "security"} = {"functional"} \cup {"security"}
    OBVIOUS
  <2> QED
    BY <1>2, <2>1, FS_AddElement
<1>4. IsFiniteSet({"functional", "security", "privacy"})
  <2>1. {"functional", "security", "privacy"} = {"functional", "security"} \cup {"privacy"}
    OBVIOUS
  <2> QED
    BY <1>3, <2>1, FS_AddElement
<1>5. IsFiniteSet({"functional", "security", "privacy", "practicality"})
  <2>1. {"functional", "security", "privacy", "practicality"}
          = {"functional", "security", "privacy"} \cup {"practicality"}
    OBVIOUS
  <2> QED
    BY <1>4, <2>1, FS_AddElement
<1>6. IsFiniteSet({"functional", "security", "privacy", "practicality", "production"})
  <2>1. {"functional", "security", "privacy", "practicality", "production"}
          = {"functional", "security", "privacy", "practicality"} \cup {"production"}
    OBVIOUS
  <2> QED
    BY <1>5, <2>1, FS_AddElement
<1>7. SixDimensions
        = {"functional", "security", "privacy", "practicality", "production"} \cup {"store"}
  BY DEF SixDimensions
<1> QED
  BY <1>6, <1>7, FS_AddElement

\* The total over the dimensions is the six of them, one by one.
LEMMA SixAmounts ==
  ASSUME NEW amount \in [SixDimensions -> Int]
  PROVE  Total(amount) = amount["functional"] + (amount["security"] + (amount["privacy"]
           + (amount["practicality"] + (amount["production"] + amount["store"]))))
<1>1. Summable(amount) /\ DOMAIN amount = SixDimensions
  BY SixAreFinite DEF Summable
<1>2. PICK sum : SumOf(amount, sum) /\ Total(amount) = sum[SixDimensions]
  BY <1>1, TotalIs
<1>3. \A of \in SUBSET SixDimensions : \A x \in of : sum[of] = amount[x] + sum[of \ {x}]
  <2>1. \A of \in SUBSET DOMAIN amount : \A x \in of : sum[of] = amount[x] + sum[of \ {x}]
    <3> SUFFICES ASSUME NEW of \in SUBSET DOMAIN amount, NEW x \in of
                 PROVE  sum[of] = amount[x] + sum[of \ {x}]
      OBVIOUS
    <3>1. Summable(amount) /\ SumOf(amount, sum)
      BY <1>1, <1>2
    <3> QED
      BY <3>1, SumTakesOut
  <2> QED
    BY <1>1, <2>1
<1>4. sum[{}] = 0
  BY <1>1, <1>2 DEF SumOf, AddsUp
<1> DEFINE S5 == SixDimensions \ {"functional"}
           S4 == S5 \ {"security"}
           S3 == S4 \ {"privacy"}
           S2 == S3 \ {"practicality"}
           S1 == S2 \ {"production"}
<1>5. sum[SixDimensions] = amount["functional"] + sum[S5]
  BY <1>3 DEF SixDimensions
<1>6. sum[S5] = amount["security"] + sum[S4]
  BY <1>3 DEF SixDimensions
<1>7. sum[S4] = amount["privacy"] + sum[S3]
  BY <1>3 DEF SixDimensions
<1>8. sum[S3] = amount["practicality"] + sum[S2]
  BY <1>3 DEF SixDimensions
<1>9. sum[S2] = amount["production"] + sum[S1]
  BY <1>3 DEF SixDimensions
<1>10. S1 = {"store"}
  BY DEF SixDimensions
<1>11. sum[S1] = amount["store"] + sum[{}]
  BY <1>3, <1>10 DEF SixDimensions
<1> HIDE DEF S5, S4, S3, S2, S1
<1>12. amount["store"] \in Int
  BY DEF SixDimensions
<1>13. sum[S1] = amount["store"]
  BY <1>4, <1>11, <1>12
<1> QED
  BY <1>2, <1>5, <1>6, <1>7, <1>8, <1>9, <1>13

\* Both rubrics have the six dimensions, with these weights, and the same gates.
LEMMA TheRubrics ==
  ASSUME NEW version \in DOMAIN Rubrics
  PROVE  /\ DOMAIN Rubrics[version].dimensions = SixDimensions
         /\ \A d \in SixDimensions : Rubrics[version].dimensions[d].weight = Weighs[d]
         /\ \A d \in SixDimensions : Rubrics[version].dimensions[d].floor \in Nat
         /\ Rubrics[version].gates = Gates /\ Rubrics[version].threshold = 7000
<1>1. ASSUME NEW fi, NEW sec, NEW pri, NEW ux, NEW prd, NEW str
      PROVE  LET of == RubricOf(fi, sec, pri, ux, prd, str) IN
             /\ DOMAIN of = SixDimensions
             /\ \A d \in SixDimensions : of[d].weight = Weighs[d]
             /\ \A d \in SixDimensions : of[d].floor \in Nat
  <2> DEFINE of == RubricOf(fi, sec, pri, ux, prd, str)
  <2>1. DOMAIN of = SixDimensions
    BY DEF RubricOf, SixDimensions
  <2>2. /\ of["functional"] = Dimension("FI", 25, fi, 6000)
        /\ of["security"] = Dimension("SEC", 25, sec, 6500)
        /\ of["privacy"] = Dimension("PRI", 15, pri, 6000)
        /\ of["practicality"] = Dimension("UX", 15, ux, 0)
        /\ of["production"] = Dimension("PRD", 10, prd, 0)
        /\ of["store"] = Dimension("STR", 10, str, 0)
    BY DEF RubricOf
  <2> HIDE DEF of
  <2>3. \A d \in SixDimensions : of[d].weight = Weighs[d]
    BY <2>2 DEF Dimension, Weighs, SixDimensions
  <2>4. \A d \in SixDimensions : of[d].floor \in Nat
    BY <2>2 DEF Dimension, SixDimensions
  <2> QED
    BY <2>1, <2>3, <2>4 DEF of
<1>2. version \in {"1.0.0", "1.1.0"}
  BY DEF Rubrics
<1>3. /\ Rubrics[version].gates = Gates /\ Rubrics[version].threshold = 7000
      /\ Rubrics[version].dimensions =
           IF version = "1.0.0" THEN RubricOf(7, 11, 6, 6, 5, 7) ELSE RubricOf(8, 13, 7, 7, 6, 8)
  BY <1>2 DEF Rubrics
<1> QED
  BY <1>1, <1>3

\* The exposed secret is a criterion of both.
LEMMA SecretIsACriterion ==
  ASSUME NEW version \in DOMAIN Rubrics
  PROVE  <<"SEC", 4>> \in CriteriaIn(Rubrics[version])
<1>1. ASSUME NEW fi, NEW sec \in {11, 13}, NEW pri, NEW ux, NEW prd, NEW str
      PROVE  LET of == RubricOf(fi, sec, pri, ux, prd, str) IN
             "security" \in DOMAIN of /\ <<"SEC", 4>> \in of["security"].criteria
  <2>1. <<"SEC", 4>> \in Numbered("SEC", sec)
    BY DEF Numbered
  <2> HIDE DEF Numbered
  <2> QED
    BY <2>1 DEF RubricOf, Dimension
<1>2. version \in {"1.0.0", "1.1.0"}
  BY DEF Rubrics
<1>3. Rubrics[version].dimensions =
        IF version = "1.0.0" THEN RubricOf(7, 11, 6, 6, 5, 7) ELSE RubricOf(8, 13, 7, 7, 6, 8)
  BY <1>2 DEF Rubrics
<1>4. /\ "security" \in DOMAIN Rubrics[version].dimensions
      /\ <<"SEC", 4>> \in Rubrics[version].dimensions["security"].criteria
  BY <1>1, <1>3
<1> QED
  BY <1>4 DEF CriteriaIn

\* A score, in hundredths of a point.
Points(n) == n \in Nat /\ n <= 10000

CriticalGate == Gate("critical security", 4900, AnyRule, {"security", "privacy"}, {"critical"})
SecretGate == Gate("exposed secret", 3900, {<<"SEC", 4>>}, {}, Severities)
CoverageGate == Gate("no authorisation coverage", NoCap, AnyRule, {}, Severities)

\* Every gate has a cap, and all but the run's own fact a rule or a dimension that triggers it.
LEMMA TheGates ==
  \A g \in Gates :
    /\ Points(g.cap)
    /\ g.id \notin RunFactGates =>
         /\ g.rules \cup g.dimensions # {}
         /\ g.rules \subseteq {<<"SEC", 4>>} /\ g.dimensions \subseteq SixDimensions
<1>1. \A g \in Gates : g = CriticalGate \/ g = SecretGate \/ g = CoverageGate
  <2>1. Gates = {CriticalGate, SecretGate, CoverageGate}
    BY DEF Gates, CriticalGate, SecretGate, CoverageGate
  <2> QED
    BY <2>1
<1>2. /\ CriticalGate.cap = 4900 /\ CriticalGate.rules = {}
      /\ CriticalGate.dimensions = {"security", "privacy"}
  BY DEF CriticalGate, Gate, AnyRule
<1>3. SecretGate.cap = 3900 /\ SecretGate.rules = {<<"SEC", 4>>} /\ SecretGate.dimensions = {}
  BY DEF SecretGate, Gate
<1>4. CoverageGate.cap = NoCap /\ CoverageGate.id = "no authorisation coverage"
  BY DEF CoverageGate, Gate
<1>5. CoverageGate.id \in RunFactGates
  BY <1>4 DEF RunFactGates
<1>6. {"security", "privacy"} \subseteq SixDimensions
  BY DEF SixDimensions
<1>7. ASSUME NEW g \in Gates
      PROVE  Points(g.cap)
  <2>1. g.cap = 4900 \/ g.cap = 3900 \/ g.cap = 10000
    <3>1. CASE g = CriticalGate
      BY <1>2, <3>1
    <3>2. CASE g = SecretGate
      BY <1>3, <3>2
    <3>3. CASE g = CoverageGate
      <4>1. g.cap = NoCap
        BY <1>4, <3>3
      <4> QED
        BY <4>1 DEF NoCap
    <3> QED
      BY <1>1, <3>1, <3>2, <3>3
  <2> QED
    BY <2>1, SMT DEF Points
<1>8. ASSUME NEW g \in Gates, g.id \notin RunFactGates
      PROVE  /\ g.rules \cup g.dimensions # {}
             /\ g.rules \subseteq {<<"SEC", 4>>} /\ g.dimensions \subseteq SixDimensions
  <2>1. CASE g = CriticalGate
    <3>1. g.rules = {} /\ g.dimensions = {"security", "privacy"}
      BY <1>2, <2>1
    <3> QED
      BY <1>6, <3>1
  <2>2. CASE g = SecretGate
    <3>1. g.rules = {<<"SEC", 4>>} /\ g.dimensions = {}
      BY <1>3, <2>2
    <3> QED
      BY <3>1
  <2>3. g # CoverageGate
    BY <1>5, <1>8
  <2> QED
    BY <1>1, <2>1, <2>2, <2>3
<1> QED
  BY <1>7, <1>8

\* Both rubrics can be scored: assertRubricIsScorable throws for neither.
LEMMA BothAreScorable ==
  ASSUME NEW version \in DOMAIN Rubrics
  PROVE  Scorable(Rubrics[version])
<1> DEFINE dimensions == Rubrics[version].dimensions
<1>1. DOMAIN dimensions = SixDimensions /\ \A d \in SixDimensions : dimensions[d].weight = Weighs[d]
  BY TheRubrics
<1>2. Rubrics[version].gates = Gates
  BY TheRubrics
<1>3. Weighs \in [SixDimensions -> Int] /\ \A d \in SixDimensions : Weighs[d] > 0
  BY DEF Weighs, SixDimensions
<1>4. [d \in DOMAIN dimensions |-> dimensions[d].weight] = Weighs
  <2> HIDE DEF dimensions
  <2>1. Weighs = [d \in SixDimensions |-> Weighs[d]]
    BY <1>3
  <2> QED
    BY <1>1, <2>1
<1>5. Total(Weighs) = 100
  <2>1. Total(Weighs) = Weighs["functional"] + (Weighs["security"] + (Weighs["privacy"]
           + (Weighs["practicality"] + (Weighs["production"] + Weighs["store"]))))
    BY <1>3, SixAmounts
  <2> QED
    BY <2>1 DEF Weighs, SixDimensions
<1>6. <<"SEC", 4>> \in CriteriaIn(Rubrics[version])
  BY SecretIsACriterion
<1>7. \A g \in Rubrics[version].gates : g.id \notin RunFactGates =>
        /\ g.rules \cup g.dimensions # {}
        /\ g.rules \subseteq CriteriaIn(Rubrics[version]) /\ g.dimensions \subseteq DOMAIN dimensions
  BY <1>1, <1>2, <1>6, TheGates
<1>8. DOMAIN dimensions # {}
  BY <1>1, SixAreFinite
<1>9. \A d \in DOMAIN dimensions : dimensions[d].weight > 0
  BY <1>1, <1>3
<1> QED
  BY <1>4, <1>5, <1>7, <1>8, <1>9 DEF Scorable

\* Every score has a band.
LEMMA EveryScoreHasABand ==
  ASSUME NEW score, Points(score) PROVE BandFor(score) # {}
<1>1. ASSUME NEW low, NEW high, <<low, high>> \in Bands, low <= score, score <= high
      PROVE  BandFor(score) # {}
  BY <1>1 DEF BandFor
<1>2. \/ (0 <= score /\ score <= 3999)
      \/ (4000 <= score /\ score <= 5999)
      \/ (6000 <= score /\ score <= 7499)
      \/ (7500 <= score /\ score <= 8999)
      \/ (9000 <= score /\ score <= 10000)
  BY SMT DEF Points
<1>3. /\ <<0, 3999>> \in Bands /\ <<4000, 5999>> \in Bands /\ <<6000, 7499>> \in Bands
      /\ <<7500, 8999>> \in Bands /\ <<9000, 10000>> \in Bands
  BY DEF Bands
<1> QED
  BY <1>1, <1>2, <1>3

-----------------------------------------------------------------------------
(* What is published of a run (PublishedVerdict): scores *)

Filed == [Filings -> Nat]
NoFewer(of, more) == \A f \in Filings : of[f] <= more[f]

LEMMA WeightIsNat == \A f \in Filings : Weight(f) \in Nat
<1> SUFFICES ASSUME NEW f \in Filings PROVE Weight(f) \in Nat
  OBVIOUS
<1>1. f.severity \in DOMAIN SeverityPenalty /\ f.confidence \in DOMAIN ConfidenceMultiplier
  BY VerdictAssumption
<1>2. SeverityPenalty[f.severity] \in Nat
  BY <1>1 DEF SeverityPenalty
<1>3. ConfidenceMultiplier[f.confidence] \in Nat
  BY <1>1 DEF ConfidenceMultiplier
<1>4. \A a, b \in Nat : 10 * a * b \in Nat
  OBVIOUS
<1> QED
  BY <1>2, <1>3, <1>4 DEF Weight

LEMMA PenaltyGrows ==
  ASSUME NEW of \in Filed, NEW more \in Filed, NoFewer(of, more), NEW d
  PROVE  Penalty(of, d) \in Int /\ Penalty(more, d) \in Int /\ Penalty(of, d) <= Penalty(more, d)
<1> DEFINE Amounts(x) == [f \in DOMAIN x |-> IF f.dimension = d THEN x[f] * Weight(f) ELSE 0]
<1>1. \A x \in Filed : /\ DOMAIN x = Filings
                       /\ \A f \in Filings : x[f] \in Nat
  BY DEF Filed
<1>2. \A a, w \in Nat : a * w \in Nat
  OBVIOUS
<1>3. \A a, b, w \in Nat : a <= b => a * w <= b * w
  <2> SUFFICES ASSUME NEW a \in Nat, NEW b \in Nat, NEW w \in Nat, a <= b PROVE a * w <= b * w
    OBVIOUS
  <2>1. (b - a) * w \in Nat
    BY <1>2
  <2>2. b * w = a * w + (b - a) * w
    OBVIOUS
  <2>3. a * w \in Nat /\ b * w \in Nat
    BY <1>2
  <2> QED
    BY <2>1, <2>2, <2>3
<1>4. \A x \in Filed : DOMAIN Amounts(x) = Filings
        /\ \A f \in Filings : Amounts(x)[f] = IF f.dimension = d THEN x[f] * Weight(f) ELSE 0
  BY <1>1
<1>5. \A x \in Filed : \A f \in Filings : x[f] * Weight(f) \in Nat
  BY <1>1, <1>2, WeightIsNat
<1>6. \A x \in Filed : Summable(Amounts(x))
  <2> SUFFICES ASSUME NEW x \in Filed PROVE Summable(Amounts(x))
    OBVIOUS
  <2>1. \A f \in Filings : (IF f.dimension = d THEN x[f] * Weight(f) ELSE 0) \in Int
    BY <1>5
  <2>2. Amounts(x) \in [Filings -> Int]
    BY <1>1, <2>1
  <2> QED
    BY <1>4, <2>2, VerdictAssumption DEF Summable
<1>7. \A f \in Filings : of[f] * Weight(f) <= more[f] * Weight(f)
  BY <1>1, <1>3, WeightIsNat DEF NoFewer
<1>8. \A f \in Filings : Amounts(of)[f] <= Amounts(more)[f]
  BY <1>4, <1>7
<1> HIDE DEF Amounts
<1>9. /\ Total(Amounts(of)) \in Int /\ Total(Amounts(more)) \in Int
      /\ Total(Amounts(of)) <= Total(Amounts(more))
  BY <1>4, <1>6, <1>8, TotalsOrdered
<1> QED
  BY <1>9 DEF Penalty, Amounts

LEMMA DimensionFalls ==
  ASSUME NEW of \in Filed, NEW more \in Filed, NoFewer(of, more), NEW d
  PROVE  /\ Points(DimensionScore(of, d)) /\ Points(DimensionScore(more, d))
         /\ DimensionScore(more, d) <= DimensionScore(of, d)
BY PenaltyGrows, SMT DEF DimensionScore, Clamp, Points

LEMMA WeightedIs ==
  ASSUME NEW version \in DOMAIN Rubrics, NEW of,
         \A d \in SixDimensions : Points(DimensionScore(of, d))
  PROVE  Weighted(version, of) =
           Rounded(25 * DimensionScore(of, "functional") + 25 * DimensionScore(of, "security")
                   + 15 * DimensionScore(of, "privacy") + 15 * DimensionScore(of, "practicality")
                   + 10 * DimensionScore(of, "production") + 10 * DimensionScore(of, "store"))
<1> DEFINE dimensions == Rubrics[version].dimensions
<1> DEFINE amount == [d \in SixDimensions |-> DimensionScore(of, d) * Weighs[d]]
<1>1. DOMAIN dimensions = SixDimensions /\ \A d \in SixDimensions : dimensions[d].weight = Weighs[d]
  BY TheRubrics
<1>2. [d \in DOMAIN dimensions |-> DimensionScore(of, d) * dimensions[d].weight] = amount
  <2> HIDE DEF dimensions
  <2> QED
    BY <1>1
<1>3. \A d \in SixDimensions : Weighs[d] \in Nat
  BY DEF Weighs, SixDimensions
<1>4. \A d \in SixDimensions : DimensionScore(of, d) * Weighs[d] \in Int
  <2>1. \A d \in SixDimensions : DimensionScore(of, d) \in Nat
    BY SMT DEF Points
  <2>2. \A a, w \in Nat : a * w \in Int
    OBVIOUS
  <2> QED
    BY <1>3, <2>1, <2>2
<1>5. amount \in [SixDimensions -> Int]
  <2> DEFINE Part(d) == DimensionScore(of, d) * Weighs[d]
  <2>1. \A d \in SixDimensions : Part(d) \in Int
    BY <1>4
  <2>2. amount = [d \in SixDimensions |-> Part(d)]
    OBVIOUS
  <2> HIDE DEF Part, amount
  <2> QED
    BY <2>1, <2>2
<1>6. /\ amount["functional"] = DimensionScore(of, "functional") * 25
      /\ amount["security"] = DimensionScore(of, "security") * 25
      /\ amount["privacy"] = DimensionScore(of, "privacy") * 15
      /\ amount["practicality"] = DimensionScore(of, "practicality") * 15
      /\ amount["production"] = DimensionScore(of, "production") * 10
      /\ amount["store"] = DimensionScore(of, "store") * 10
  BY DEF Weighs, SixDimensions
<1> HIDE DEF amount
<1>7. Total(amount) = amount["functional"] + (amount["security"] + (amount["privacy"]
           + (amount["practicality"] + (amount["production"] + amount["store"]))))
  BY <1>5, SixAmounts
<1>8. /\ DimensionScore(of, "functional") \in Int /\ DimensionScore(of, "security") \in Int
      /\ DimensionScore(of, "privacy") \in Int /\ DimensionScore(of, "practicality") \in Int
      /\ DimensionScore(of, "production") \in Int /\ DimensionScore(of, "store") \in Int
  BY SMT DEF SixDimensions, Points
<1>9. Total(amount) = 25 * DimensionScore(of, "functional") + 25 * DimensionScore(of, "security")
                   + 15 * DimensionScore(of, "privacy") + 15 * DimensionScore(of, "practicality")
                   + 10 * DimensionScore(of, "production") + 10 * DimensionScore(of, "store")
  BY <1>6, <1>7, <1>8
<1> QED
  BY <1>2, <1>9 DEF Weighted

\* The most the weights of all dimensions make of it, before rounding.
Most == 1000000

LEMMA WeightedFalls ==
  ASSUME NEW version \in DOMAIN Rubrics, NEW of \in Filed, NEW more \in Filed, NoFewer(of, more)
  PROVE  /\ Points(Weighted(version, of)) /\ Points(Weighted(version, more))
         /\ Weighted(version, more) <= Weighted(version, of)
<1>1. \A d \in SixDimensions :
        /\ Points(DimensionScore(of, d)) /\ Points(DimensionScore(more, d))
        /\ DimensionScore(more, d) <= DimensionScore(of, d)
  BY DimensionFalls
<1> DEFINE Whole(a, b, c, d, e, f) == 25 * a + 25 * b + 15 * c + 15 * d + 10 * e + 10 * f
<1>2. ASSUME NEW m \in Nat, NEW n \in Nat, m <= n, n <= Most
      PROVE  /\ Rounded(m) \in Nat /\ Rounded(n) \in Nat /\ Rounded(m) <= Rounded(n)
             /\ Rounded(n) <= 10000
  <2>1. Rounded(m) \in Nat /\ Rounded(n) \in Nat
    BY SMT DEF Rounded
  <2>2. Rounded(m) <= Rounded(n)
    BY <1>2, SMT DEF Rounded
  <2>3. Rounded(n) <= 10000
    BY <1>2, SMT DEF Rounded, Most
  <2> QED
    BY <2>1, <2>2, <2>3, SMT
<1> DEFINE WholeOf(x) == Whole(DimensionScore(x, "functional"), DimensionScore(x, "security"),
                               DimensionScore(x, "privacy"), DimensionScore(x, "practicality"),
                               DimensionScore(x, "production"), DimensionScore(x, "store"))
<1>3. Weighted(version, of) = Rounded(WholeOf(of))
  BY <1>1, WeightedIs
<1>4. Weighted(version, more) = Rounded(WholeOf(more))
  BY <1>1, WeightedIs
<1>5. WholeOf(more) \in Nat /\ WholeOf(of) \in Nat /\ WholeOf(more) <= WholeOf(of) /\ WholeOf(of) <= Most
  <2> HIDE DEF Whole
  <2>1. ASSUME NEW d \in SixDimensions
        PROVE  /\ DimensionScore(of, d) \in Nat /\ DimensionScore(more, d) \in Nat
               /\ DimensionScore(of, d) <= 10000
               /\ DimensionScore(more, d) <= DimensionScore(of, d)
    BY <1>1, SMT DEF Points
  <2>2. \A d \in {"functional", "security", "privacy", "practicality", "production", "store"} :
          d \in SixDimensions
    BY DEF SixDimensions
  <2> DEFINE a == DimensionScore(of, "functional")  u == DimensionScore(more, "functional")
             b == DimensionScore(of, "security")  v == DimensionScore(more, "security")
             c == DimensionScore(of, "privacy")  w == DimensionScore(more, "privacy")
             d == DimensionScore(of, "practicality")  x == DimensionScore(more, "practicality")
             e == DimensionScore(of, "production")  y == DimensionScore(more, "production")
             f == DimensionScore(of, "store")  z == DimensionScore(more, "store")
  <2>3. a \in Nat /\ u \in Nat /\ a <= 10000 /\ u <= a
    BY <2>1, <2>2
  <2>4. b \in Nat /\ v \in Nat /\ b <= 10000 /\ v <= b
    BY <2>1, <2>2
  <2>5. c \in Nat /\ w \in Nat /\ c <= 10000 /\ w <= c
    BY <2>1, <2>2
  <2>6. d \in Nat /\ x \in Nat /\ d <= 10000 /\ x <= d
    BY <2>1, <2>2
  <2>7. e \in Nat /\ y \in Nat /\ e <= 10000 /\ y <= e
    BY <2>1, <2>2
  <2>8. f \in Nat /\ z \in Nat /\ f <= 10000 /\ z <= f
    BY <2>1, <2>2
  <2>9. WholeOf(of) = Whole(a, b, c, d, e, f) /\ WholeOf(more) = Whole(u, v, w, x, y, z)
    OBVIOUS
  <2> HIDE DEF WholeOf, a, b, c, d, e, f, u, v, w, x, y, z
  <2>10. /\ 25 * u <= 25 * a /\ 25 * v <= 25 * b /\ 15 * w <= 15 * c /\ 15 * x <= 15 * d
         /\ 10 * y <= 10 * e /\ 10 * z <= 10 * f
    BY <2>3, <2>4, <2>5, <2>6, <2>7, <2>8, SMT
  <2>11. /\ 25 * a <= 250000 /\ 25 * b <= 250000 /\ 15 * c <= 150000 /\ 15 * d <= 150000
         /\ 10 * e <= 100000 /\ 10 * f <= 100000
    BY <2>3, <2>4, <2>5, <2>6, <2>7, <2>8, SMT
  <2>12. /\ 25 * u \in Nat /\ 25 * v \in Nat /\ 15 * w \in Nat /\ 15 * x \in Nat
         /\ 10 * y \in Nat /\ 10 * z \in Nat
    BY <2>3, <2>4, <2>5, <2>6, <2>7, <2>8, SMT
  <2>13. /\ 25 * a \in Nat /\ 25 * b \in Nat /\ 15 * c \in Nat /\ 15 * d \in Nat
         /\ 10 * e \in Nat /\ 10 * f \in Nat
    BY <2>3, <2>4, <2>5, <2>6, <2>7, <2>8, SMT
  <2>14. Whole(u, v, w, x, y, z) \in Nat /\ Whole(a, b, c, d, e, f) \in Nat
    BY <2>12, <2>13, SMT DEF Whole
  <2>15. Whole(u, v, w, x, y, z) <= Whole(a, b, c, d, e, f)
    BY <2>10, <2>12, <2>13, SMT DEF Whole
  <2>16. Whole(a, b, c, d, e, f) <= Most
    BY <2>11, <2>13, SMT DEF Most, Whole
  <2> QED
    BY <2>9, <2>14, <2>15, <2>16
<1> HIDE DEF WholeOf
<1> QED
  BY <1>2, <1>3, <1>4, <1>5, SMT DEF Points

LEMMA LeastIsThere ==
  ASSUME NEW S \in SUBSET Nat, S # {}
  PROVE  Min(S) \in S /\ \A n \in S : Min(S) <= n
BY LeastOf DEF Min

\* More gates, and a lower score, make no higher one.
LEMMA CappedFalls ==
  ASSUME NEW score, NEW lower, Points(score), Points(lower), lower <= score,
         NEW few, NEW many, few \subseteq many, many \subseteq Gates
  PROVE  /\ Points(Capped(score, few)) /\ Points(Capped(lower, many))
         /\ Capped(lower, many) <= Capped(score, few)
<1> DEFINE A == {score} \cup {g.cap : g \in few}
           B == {lower} \cup {g.cap : g \in many}
<1>1. \A n \in A \cup B : Points(n)
  BY TheGates
<1>2. score \in A /\ lower \in B /\ \A n \in A : n = score \/ n \in B
  OBVIOUS
<1> HIDE DEF A, B
<1>3. A \in SUBSET Nat /\ A # {} /\ B \in SUBSET Nat /\ B # {}
  BY <1>1, <1>2 DEF Points
<1>4. Min(A) \in A /\ Min(B) \in B /\ \A n \in B : Min(B) <= n
  BY <1>3, LeastIsThere
<1>5. Points(Min(A)) /\ Points(Min(B))
  BY <1>1, <1>4
<1>6. Min(B) <= Min(A)
  <2>1. CASE Min(A) \in B
    BY <1>4, <2>1
  <2>2. CASE Min(A) = score
    <3>1. Min(B) <= lower
      BY <1>2, <1>4
    <3> QED
      BY <1>5, <2>2, <3>1 DEF Points
  <2> QED
    BY <1>2, <1>4, <2>1, <2>2
<1> QED
  BY <1>5, <1>6 DEF Capped, A, B

\* What was filed stays filed.
LEMMA AmongGrows ==
  ASSUME NEW of \in Filed, NEW more \in Filed, NoFewer(of, more)
  PROVE  Among(of) \subseteq Among(more)
BY DEF Filed, NoFewer, Among

LEMMA GatesGrow ==
  ASSUME NEW version \in DOMAIN Rubrics, NEW of \in Filed, NEW more \in Filed, NoFewer(of, more),
         NEW refused, NEW refusedNow, refused => refusedNow
  PROVE  /\ GatesApplied(version, of, refused) \subseteq GatesApplied(version, more, refusedNow)
         /\ GatesApplied(version, more, refusedNow) \subseteq Gates
<1>1. Among(of) \subseteq Among(more)
  BY AmongGrows
<1>2. ASSUME NEW g, GateTriggers(version, g, of, refused)
      PROVE  GateTriggers(version, g, more, refusedNow)
  BY <1>1, <1>2 DEF GateTriggers
<1>3. Rubrics[version].gates = Gates
  BY TheRubrics
<1> QED
  BY <1>2, <1>3 DEF GatesApplied

LEMMA OverallFalls ==
  ASSUME NEW version \in DOMAIN Rubrics, NEW of \in Filed, NEW more \in Filed, NoFewer(of, more),
         NEW refused, NEW refusedNow, refused => refusedNow
  PROVE  /\ Points(OverallScore(version, of, refused))
         /\ Points(OverallScore(version, more, refusedNow))
         /\ OverallScore(version, more, refusedNow) <= OverallScore(version, of, refused)
<1>1. /\ Points(Weighted(version, of)) /\ Points(Weighted(version, more))
      /\ Weighted(version, more) <= Weighted(version, of)
  BY WeightedFalls
<1>2. /\ GatesApplied(version, of, refused) \subseteq GatesApplied(version, more, refusedNow)
      /\ GatesApplied(version, more, refusedNow) \subseteq Gates
  BY GatesGrow
<1> QED
  BY <1>1, <1>2, CappedFalls DEF OverallScore

LEMMA BlockersGrow ==
  ASSUME NEW version \in DOMAIN Rubrics, NEW of \in Filed, NEW more \in Filed, NoFewer(of, more),
         NEW refused, NEW refusedNow, refused => refusedNow
  PROVE  CertificationBlockers(version, of, refused)
           \subseteq CertificationBlockers(version, more, refusedNow)
<1> DEFINE Capping(x, r) ==
             {Blocker(g.id, "label") : g \in {g \in GatesApplied(version, x, r) : g.blocks}}
           Below(x, r) == IF OverallScore(version, x, r) < Rubrics[version].threshold
                            THEN {Blocker("overall", "threshold")} ELSE {}
           UnderFloor(x) ==
             {Blocker(d, "floor") : d \in {d \in DOMAIN Rubrics[version].dimensions :
                                       DimensionScore(x, d) < Rubrics[version].dimensions[d].floor}}
<1>1. Capping(of, refused) \subseteq Capping(more, refusedNow)
  BY GatesGrow
<1>2. Below(of, refused) \subseteq Below(more, refusedNow)
  <2>1. /\ OverallScore(version, of, refused) \in Nat /\ OverallScore(version, more, refusedNow) \in Nat
        /\ OverallScore(version, more, refusedNow) <= OverallScore(version, of, refused)
    BY OverallFalls DEF Points
  <2>2. Rubrics[version].threshold = 7000
    BY TheRubrics
  <2>3. OverallScore(version, of, refused) < Rubrics[version].threshold
          => OverallScore(version, more, refusedNow) < Rubrics[version].threshold
    BY <2>1, <2>2
  <2> QED
    BY <2>3
<1>3. UnderFloor(of) \subseteq UnderFloor(more)
  <2>1. ASSUME NEW d \in DOMAIN Rubrics[version].dimensions,
               DimensionScore(of, d) < Rubrics[version].dimensions[d].floor
        PROVE  DimensionScore(more, d) < Rubrics[version].dimensions[d].floor
    <3>1. Rubrics[version].dimensions[d].floor \in Nat
      BY TheRubrics
    <3>2. /\ DimensionScore(of, d) \in Nat /\ DimensionScore(more, d) \in Nat
          /\ DimensionScore(more, d) <= DimensionScore(of, d)
      BY DimensionFalls DEF Points
    <3> QED
      BY <2>1, <3>1, <3>2
  <2> QED
    BY <2>1
<1>4. \A x, r : CertificationBlockers(version, x, r) = Capping(x, r) \cup Below(x, r) \cup UnderFloor(x)
  BY DEF CertificationBlockers
<1> HIDE DEF Capping, Below, UnderFloor
<1> QED
  BY <1>1, <1>2, <1>3, <1>4

\* An answer only moves towards what was found, or away from what is clear.
LEMMA AnswersKeep ==
  ASSUME NEW of \in Filed, NEW more \in Filed, NoFewer(of, more), NEW asked,
         NEW missed, NEW missedNow, missed \subseteq missedNow,
         NEW failures, NEW failuresNow, failures \subseteq failuresNow, NEW claim
  PROVE  /\ AnswerTo(claim, asked, more, missedNow, failuresNow) = "checked_clear"
              => AnswerTo(claim, asked, of, missed, failures) = "checked_clear"
         /\ AnswerTo(claim, asked, of, missed, failures) = "checked_found"
              => AnswerTo(claim, asked, more, missedNow, failuresNow) = "checked_found"
<1>1. FoundFor(claim, asked, of) => FoundFor(claim, asked, more)
  BY AmongGrows DEF FoundFor
<1>2. GateFailed(claim, failures) => GateFailed(claim, failuresNow)
  BY DEF GateFailed
<1>3. Unlooked(claim, asked, missed) => Unlooked(claim, asked, missedNow)
  BY DEF Unlooked
<1> QED
  BY <1>1, <1>2, <1>3 DEF AnswerTo

-----------------------------------------------------------------------------
(* What is published of a run (PublishedVerdict): the invariant *)

Row == [score : Scores, failures : SUBSET PossibleBlockers, eligible : BOOLEAN]

LEMMA RowWritten ==
  \A score \in Scores, failures \in SUBSET PossibleBlockers, eligible \in BOOLEAN :
    [score |-> score, failures |-> failures, eligible |-> eligible] \in Row
BY DEF Row

LEMMA VerdictInitTyped == VerdictInit => VerdictTypeOK
<1> SUFFICES ASSUME VerdictInit PROVE VerdictTypeOK
  OBVIOUS
<1>1. filed \in [Filings -> 0..MaxFiled]
  BY VerdictAssumption DEF VerdictInit
<1>2. outcome \in Row
  <2>1. 0 \in Scores
    BY SMT DEF Scores
  <2> QED
    BY <2>1, RowWritten DEF VerdictInit, Unwritten
<1> QED
  BY <1>1, <1>2 DEF VerdictInit, VerdictTypeOK, Row

\* What is filed is a number of each.
LEMMA FiledIsFiled == [Filings -> 0..MaxFiled] \subseteq Filed
<1>1. 0..MaxFiled \subseteq Nat
  BY VerdictAssumption
<1> QED
  BY <1>1 DEF Filed

\* A finding is filed once more, and no more than MaxFiled are.
LEMMA FilingTyped ==
  ASSUME VerdictTypeOK, NEW f \in Filings, FileFinding(f)
  PROVE  /\ filed' \in [Filings -> 0..MaxFiled] /\ NoFewer(filed, filed')
<1>1. DOMAIN filed = Filings /\ \A g \in Filings : filed[g] \in Nat
  BY FiledIsFiled DEF VerdictTypeOK, Filed
<1>2. Summable(filed)
  <2>1. filed \in [Filings -> Int]
    <3>1. filed \in [Filings -> Nat]
      BY FiledIsFiled DEF VerdictTypeOK, Filed
    <3> QED
      BY <3>1
  <2>2. IsFiniteSet(Filings)
    BY VerdictAssumption
  <2> QED
    BY <1>1, <2>1, <2>2 DEF Summable
<1>3. filed[f] <= Total(filed) /\ Total(filed) \in Nat
  BY <1>1, <1>2, PartOfTotal
<1>4. Total(filed) < MaxFiled
  BY DEF FileFinding
<1>5. filed[f] + 1 \in 0..MaxFiled
  <2>1. filed[f] \in Nat /\ MaxFiled \in Nat
    <3>1. filed[f] \in Nat
      BY <1>1
    <3>2. MaxFiled \in Nat
      BY VerdictAssumption
    <3> QED
      BY <3>1, <3>2
  <2>2. PICK n \in Nat : n = filed[f]
    BY <2>1
  <2>3. PICK sum \in Nat : sum = Total(filed)
    BY <1>3
  <2>4. n <= sum /\ sum < MaxFiled
    BY <1>3, <1>4, <2>2, <2>3
  <2>5. n + 1 \in Nat /\ n + 1 <= MaxFiled
    BY <2>1, <2>4
  <2>6. n + 1 \in 0..MaxFiled
    BY <2>1, <2>5
  <2> QED
    BY <2>2, <2>6
<1>6. filed' = [filed EXCEPT ![f] = filed[f] + 1]
  BY DEF FileFinding
<1>7. filed \in [Filings -> 0..MaxFiled]
  BY DEF VerdictTypeOK
<1>8. filed' \in [Filings -> 0..MaxFiled]
  BY <1>5, <1>6, <1>7
<1>9. \A g \in Filings : filed[g] <= filed'[g]
  BY <1>1, <1>6
<1> QED
  BY <1>8, <1>9 DEF NoFewer

\* What a run's assignment is scored by is one of the two rubrics.
LEMMA RubricKnown == VerdictTypeOK => RubricVersion \in DOMAIN Rubrics
<1>1. \A a \in Assignments : a.rubric \in DOMAIN Rubrics
  BY VerdictAssumption
<1> QED
  BY <1>1 DEF VerdictTypeOK, RubricVersion

LEMMA NoFewerThanItself == \A of \in Filed : NoFewer(of, of)
BY DEF Filed, NoFewer

LEMMA BlockersTyped ==
  ASSUME NEW version \in DOMAIN Rubrics, NEW of, NEW refused
  PROVE  CertificationBlockers(version, of, refused) \in SUBSET PossibleBlockers
<1>1. "1.1.0" \in DOMAIN Rubrics
  BY DEF Rubrics
<1>2. DOMAIN Rubrics[version].dimensions = DOMAIN Rubrics["1.1.0"].dimensions
  BY <1>1, TheRubrics
<1>3. GatesApplied(version, of, refused) \subseteq Gates
  BY TheRubrics DEF GatesApplied
<1> QED
  BY <1>2, <1>3 DEF CertificationBlockers, PossibleBlockers

LEMMA ScoreTyped ==
  ASSUME VerdictTypeOK, ScoreRun
  PROVE  outcome' \in Row
<1> DEFINE score == OverallScore(RubricVersion, filed, Unreachable)
           failures == CertificationBlockers(RubricVersion, filed, Unreachable)
<1>1. score \in Scores
  <2>1. filed \in Filed /\ RubricVersion \in DOMAIN Rubrics
    BY FiledIsFiled, RubricKnown DEF VerdictTypeOK
  <2>2. Points(score)
    BY <2>1, NoFewerThanItself, OverallFalls
  <2>3. PICK n : n = score /\ Points(n)
    BY <2>2
  <2> HIDE DEF score
  <2>4. n \in Scores
    BY <2>3 DEF Points, Scores
  <2> QED
    BY <2>3, <2>4
<1>2. failures \in SUBSET PossibleBlockers
  BY RubricKnown, BlockersTyped
<1>3. \/ outcome' = outcome
      \/ outcome' = [score |-> score, failures |-> failures, eligible |-> FALSE]
  BY DEF ScoreRun
<1> HIDE DEF score, failures
<1>4. CASE outcome' = outcome
  BY <1>4 DEF VerdictTypeOK, Row
<1>5. CASE outcome' = [score |-> score, failures |-> failures, eligible |-> FALSE]
  BY <1>1, <1>2, <1>5, RowWritten
<1> QED
  BY <1>3, <1>4, <1>5

LEMMA VerdictStepTyped ==
  ASSUME VerdictTypeOK, [VerdictNext]_verdictVars
  PROVE  VerdictTypeOK'
<1>1. ASSUME NEW f \in Filings, FileFinding(f) PROVE VerdictTypeOK'
  BY <1>1, FilingTyped DEF FileFinding, VerdictTypeOK
<1>2. ASSUME NEW c \in MayBeMissed, MissCriterion(c) PROVE VerdictTypeOK'
  BY <1>2 DEF MissCriterion, VerdictTypeOK
<1>3. CASE ReportUnreached
  BY <1>3 DEF ReportUnreached, VerdictTypeOK
<1>4. CASE ScoreRun
  <2>1. outcome' \in Row
    BY <1>4, ScoreTyped
  <2>2. phase' \in {"unscored", "awaiting review"}
    BY <1>4 DEF ScoreRun
  <2>3. UNCHANGED <<assignment, filed, gaps, exploration, advice>>
    BY <1>4 DEF ScoreRun
  <2> QED
    BY <2>1, <2>2, <2>3 DEF VerdictTypeOK, Row
<1>5. CASE OpenReview
  <2>1. ASSUME NEW of, NEW row, NEW failedStages, NEW prior
        PROVE  Attention(of, row, failedStages, prior) \subseteq Advised
    BY Zenon DEF Attention, Advised
  <2>2. advice' \subseteq Advised
    BY <1>5, <2>1 DEF OpenReview
  <2> QED
    BY <1>5, <2>2 DEF OpenReview, VerdictTypeOK
<1>6. CASE ApproveVerdict
  <2>1. PICK eligible \in BOOLEAN : outcome' = [outcome EXCEPT !.eligible = eligible]
    BY <1>6 DEF ApproveVerdict
  <2>2. phase' = "approved" /\ UNCHANGED <<assignment, filed, gaps, exploration, advice>>
    BY <1>6 DEF ApproveVerdict
  <2>3. outcome' \in Row
    BY <2>1 DEF VerdictTypeOK, Row
  <2> QED
    BY <2>2, <2>3 DEF VerdictTypeOK, Row
<1>7. CASE AdjustVerdict
  <2>1. PICK score \in Adjustments : outcome' = [outcome EXCEPT !.score = score]
    BY <1>7 DEF AdjustVerdict
  <2>2. UNCHANGED <<assignment, filed, gaps, exploration, phase, advice>>
    BY <1>7 DEF AdjustVerdict
  <2>3. score \in Scores
    BY VerdictAssumption DEF Scores
  <2>4. outcome' \in Row
    BY <2>1, <2>3 DEF VerdictTypeOK, Row
  <2> QED
    BY <2>2, <2>4 DEF VerdictTypeOK, Row
<1>8. CASE RejectVerdict
  BY <1>8 DEF RejectVerdict, VerdictTypeOK
<1>9. CASE UNCHANGED verdictVars
  BY <1>9 DEF verdictVars, VerdictTypeOK
<1> QED
  BY <1>1, <1>2, <1>3, <1>4, <1>5, <1>6, <1>7, <1>8, <1>9 DEF VerdictNext

\* Every variable of the verdict has its type, whatever a run files and a reviewer does: it
\* files at most MaxFiled findings, and a score is within the scale whoever wrote it.
THEOREM VerdictTyped == VerdictSpec => []VerdictTypeOK
<1>1. VerdictInit => VerdictTypeOK
  BY VerdictInitTyped
<1>2. VerdictTypeOK /\ [VerdictNext]_verdictVars => VerdictTypeOK'
  BY VerdictStepTyped
<1> QED
  BY <1>1, <1>2, PTL DEF VerdictSpec

\* A step in which a run files more takes nothing back of what it has.
LEMMA FilingMore ==
  ASSUME VerdictTypeOK, [VerdictNext]_verdictVars, FilesMore
  PROVE  /\ assignment' = assignment /\ filed \in Filed /\ filed' \in Filed
         /\ NoFewer(filed, filed') /\ gaps \subseteq gaps'
         /\ Unreachable => Unreachable'
<1>1. filed \in Filed /\ filed' \in Filed /\ NoFewer(filed, filed)
  <2>1. VerdictTypeOK'
    BY VerdictStepTyped
  <2>2. filed \in Filed /\ filed' \in Filed
    BY <2>1, FiledIsFiled DEF VerdictTypeOK
  <2> QED
    BY <2>2, NoFewerThanItself
<1>2. ASSUME NEW f \in Filings, FileFinding(f)
      PROVE  /\ assignment' = assignment /\ NoFewer(filed, filed') /\ gaps \subseteq gaps'
             /\ Unreachable => Unreachable'
  BY <1>2, FilingTyped DEF FileFinding, Unreachable
<1>3. ASSUME NEW c \in MayBeMissed, MissCriterion(c)
      PROVE  /\ assignment' = assignment /\ NoFewer(filed, filed') /\ gaps \subseteq gaps'
             /\ Unreachable => Unreachable'
  BY <1>1, <1>3 DEF MissCriterion, Unreachable
<1>4. ASSUME ReportUnreached
      PROVE  /\ assignment' = assignment /\ NoFewer(filed, filed') /\ gaps \subseteq gaps'
             /\ Unreachable => Unreachable'
  BY <1>1, <1>4 DEF ReportUnreached, Unreachable
<1>5. ~ScoreRun /\ ~OpenReview /\ ~ApproveVerdict /\ ~AdjustVerdict /\ ~RejectVerdict
      /\ ~UNCHANGED verdictVars
  BY DEF FilesMore, ScoreRun, OpenReview, ApproveVerdict, AdjustVerdict, RejectVerdict, verdictVars
<1> QED
  BY <1>1, <1>2, <1>3, <1>4, <1>5 DEF VerdictNext

\* For any findings a run can file, any number of them, any criteria it may miss and any
\* application: what it still files, misses or fails to reach never raises the score, never
\* takes a blocker away and never makes one of the nine questions clear.
THEOREM FilingNeverHelps == VerdictSpec => NothingFiledHelps
<1>1. ASSUME VerdictTypeOK, [VerdictNext]_verdictVars, FilesMore
      PROVE  LET said == AnswersNow  says == AnswersNow' IN
             /\ Scorable(Rubrics[RubricVersion])
             /\ ScoreNow' <= ScoreNow /\ BandFor(ScoreNow') # {}
             /\ BlockersNow \subseteq BlockersNow'
             /\ \A claim \in ASSURANCE_CLAIMS :
                  /\ says[claim] = "checked_clear" => said[claim] = "checked_clear"
                  /\ said[claim] = "checked_found" => says[claim] = "checked_found"
  <2>1. /\ assignment' = assignment /\ filed \in Filed /\ filed' \in Filed
        /\ NoFewer(filed, filed') /\ gaps \subseteq gaps' /\ (Unreachable => Unreachable')
    BY <1>1, FilingMore
  <2>2. RubricVersion \in DOMAIN Rubrics /\ RubricVersion' = RubricVersion
    BY <1>1, <2>1, RubricKnown DEF RubricVersion
  <2>3. ScoreNow' <= ScoreNow /\ Points(ScoreNow')
    BY <2>1, <2>2, OverallFalls DEF ScoreNow
  <2>4. BlockersNow \subseteq BlockersNow'
    BY <2>1, <2>2, BlockersGrow DEF BlockersNow
  <2>5. ASSUME NEW claim \in ASSURANCE_CLAIMS
        PROVE  /\ AnswersNow'[claim] = "checked_clear" => AnswersNow[claim] = "checked_clear"
               /\ AnswersNow[claim] = "checked_found" => AnswersNow'[claim] = "checked_found"
    <3>1. AnswersNow[claim] = AnswerTo(claim, assignment, filed, gaps, BlockersNow)
      BY DEF AnswersNow
    <3>2. AnswersNow'[claim] = AnswerTo(claim, assignment, filed', gaps', BlockersNow')
      BY <2>1 DEF AnswersNow
    <3> QED
      BY <2>1, <2>4, <3>1, <3>2, AnswersKeep
  <2>6. Scorable(Rubrics[RubricVersion]) /\ BandFor(ScoreNow') # {}
    BY <2>2, <2>3, BothAreScorable, EveryScoreHasABand
  <2> QED
    BY <2>3, <2>4, <2>5, <2>6
<1>2. VerdictInit => VerdictTypeOK
  BY VerdictInitTyped
<1>3. VerdictTypeOK /\ [VerdictNext]_verdictVars => VerdictTypeOK'
  BY VerdictStepTyped
<1> QED
  BY <1>1, <1>2, <1>3, PTL DEF VerdictSpec, NothingFiledHelps

-----------------------------------------------------------------------------
\* The type of the public badge.

Said == [live : Answers3, genuine : Answers3]

\* The clock and the pastes stay within their bounds, a copy that is not kept has no
\* date, and what a reader is told is one of three answers to each question.
PublicBounds ==
  /\ clock <= LastTick /\ pastes \in 0..MaxPastes /\ mark.until <= LastTick + Term
  /\ \A d \in CopyNames : copies[d].ok \/ copies[d].at = 0
  /\ told \in Said

\* What an answer says of the badge it says in one of the three words.
Worded(a) == a.said \in Said /\ (a.ok \/ a.at = 0)

PublicBounded == PublicBounds /\ Worded(copies["answer"])

LEMMA AnswersAreWorded ==
  ASSUME NEW live \in Answers3, NEW genuine \in Answers3
  PROVE  Told(live, genuine) \in Said
BY DEF Told, Said

LEMMA SilenceIsWorded == Silence \in Said
<1>1. "unknown" \in Answers3
  BY DEF Answers3
<1> QED
  BY <1>1, AnswersAreWorded DEF Silence

LEMMA ServedIsWorded ==
  ASSUME NEW lookup
  PROVE  /\ Worded(ServeBadge(lookup)) /\ Worded(ServeStatus(lookup))
         /\ Worded(ServeDocument(lookup)) /\ Worded(ServeList(lookup))
         /\ ServeKeys.ok \/ ServeKeys.at = 0
<1> DEFINE state == Live(STATE_BY_STATUS(EffectiveStatus))
<1>1. state \in Answers3 /\ {"yes", "no", "unknown"} \subseteq Answers3
  BY DEF Live, Answers3
<1> HIDE DEF state
<1>2. Worded(Failed)
  BY SilenceIsWorded DEF Worded, Failed
<1>3. ASSUME NEW said \in Said, NEW kid
      PROVE  Worded(Answer(said)) /\ Worded([Answer(said) EXCEPT !.kid = kid])
  BY <1>3 DEF Worded, Answer, Failed
<1>4. /\ Told("no", "unknown") \in Said /\ Told(state, "unknown") \in Said
      /\ Told("yes", "unknown") \in Said /\ Told("unknown", "unknown") \in Said
  BY <1>1, AnswersAreWorded
<1>5. Told(IF Listed THEN "yes" ELSE "unknown", "unknown") \in Said
  BY <1>4
<1>6. [Answer(Silence) EXCEPT !.keys = PublishedKeys].ok
  BY DEF Answer, Failed
<1>7. ServeKeys.ok \/ ServeKeys.at = 0
  BY <1>6 DEF ServeKeys, Failed
<1>8. Worded(ServeBadge(lookup)) /\ Worded(ServeStatus(lookup)) /\ Worded(ServeDocument(lookup))
  BY <1>2, <1>3, <1>4 DEF ServeBadge, ServeStatus, ServeDocument, state
<1>9. Worded(ServeList(lookup))
  BY <1>2, <1>3, <1>5 DEF ServeList
<1> QED
  BY <1>7, <1>8, <1>9

LEMMA PublicBoundsStart == PublicInit => PublicBounded
<1> SUFFICES ASSUME PublicInit PROVE PublicBounded
  OBVIOUS
<1>1. Worded(Failed)
  BY SilenceIsWorded DEF Worded, Failed
<1>2. copies["answer"] = Failed /\ copies["keys"] = Failed /\ told \in Said
  BY SilenceIsWorded DEF PublicInit
<1>3. clock <= LastTick /\ pastes \in 0..MaxPastes /\ mark.until <= LastTick + Term
  BY PublicAssumption DEF PublicInit, NoMark
<1> QED
  BY <1>1, <1>2, <1>3 DEF PublicBounded, PublicBounds, CopyNames, Worded

LEMMA WorldStaysBounded ==
  ASSUME PublicInv, PublicBounded, IssueMark \/ MoveMark \/ Rotate \/ Paste \/ TickPublic
  PROVE  PublicBounded'
<1>1. copies' = copies /\ told' \in Said
  BY SilenceIsWorded DEF IssueMark, MoveMark, Rotate, Paste, TickPublic, NobodyAsks
<1>2. clock \in Nat /\ mark.until \in Nat /\ clock <= LastTick /\ mark.until <= LastTick + Term
  BY DEF PublicInv, PublicTyped, PublicBounded, PublicBounds
<1>3. LastTick \in Nat /\ Term \in Nat /\ MaxPastes \in Nat
  BY PublicAssumption
<1>4. clock' <= LastTick
  BY <1>2, <1>3 DEF IssueMark, MoveMark, Rotate, Paste, TickPublic
<1>5. pastes' \in 0..MaxPastes
  BY <1>3 DEF PublicBounded, PublicBounds, IssueMark, MoveMark, Rotate, Paste, TickPublic
<1>6. CASE IssueMark
  <2>1. mark'.until = clock + Term
    BY <1>6 DEF IssueMark
  <2> QED
    BY <1>1, <1>2, <1>3, <1>4, <1>5, <2>1 DEF PublicBounded, PublicBounds, Worded
<1>7. CASE MoveMark
  <2>1. mark'.until = mark.until
    BY <1>7 DEF MoveMark, PublicInv, PublicTyped
  <2> QED
    BY <1>1, <1>2, <1>4, <1>5, <2>1 DEF PublicBounded, PublicBounds, Worded
<1>8. CASE Rotate \/ Paste \/ TickPublic
  <2>1. mark' = mark
    BY <1>8 DEF Rotate, Paste, TickPublic
  <2> QED
    BY <1>1, <1>2, <1>4, <1>5, <2>1 DEF PublicBounded, PublicBounds, Worded
<1> QED
  BY <1>6, <1>7, <1>8

\* A reader changes what is kept and what was said, and nothing else.
LEMMA ReaderStaysBounded ==
  ASSUME PublicBounded, Asked, Worded(copies'["answer"]), told' \in Said,
         copies'["keys"].ok \/ copies'["keys"].at = 0
  PROVE  PublicBounded'
BY DEF Asked, PublicBounded, PublicBounds, CopyNames, Worded

LEMMA AnswerStaysBounded ==
  ASSUME PublicInv, PublicBounded, Asked, NEW age, NEW serve, Worded(serve),
         NEW a \in Fetch("answer", age, serve), told' = a.said, copies' = Keep("answer", a)
  PROVE  PublicBounded'
<1>1. Worded(a)
  BY DEF Fetch, PublicBounded
<1>2. copies'["keys"] = copies["keys"] /\ copies'["answer"] \in {a, copies["answer"]}
  BY DEF Keep, CopyNames, PublicInv, PublicTyped
<1>3. Worded(copies'["answer"]) /\ told' \in Said
  BY <1>1, <1>2 DEF PublicBounded, Worded
<1>4. copies'["keys"].ok \/ copies'["keys"].at = 0
  BY <1>2 DEF PublicBounded, PublicBounds, CopyNames
<1> QED
  BY <1>3, <1>4, ReaderStaysBounded

LEMMA ReadersStayBounded ==
  ASSUME PublicInv, PublicBounded,
         SeeImage \/ AskStatus \/ ReadList \/ RefreshList \/ OpenPopup \/ CheckOffline
           \/ OpenVerify \/ OpenSealPage
  PROVE  PublicBounded'
<1>1. CASE SeeImage
  BY <1>1, AnswerStaysBounded, ServedIsWorded DEF SeeImage
<1>2. CASE AskStatus
  BY <1>2, AnswerStaysBounded, ServedIsWorded DEF AskStatus
<1>3. CASE ReadList
  BY <1>3, AnswerStaysBounded, ServedIsWorded DEF ReadList
<1>4. /\ copies["keys"].ok \/ copies["keys"].at = 0
      /\ Worded(copies["answer"]) /\ copies["answer"].said \in Said
  BY DEF PublicBounded, PublicBounds, CopyNames, Worded
<1>5. CASE RefreshList
  <2>1. PICK lookup \in Lookups : copies' = Keep("answer", ServeList(lookup))
    BY <1>5 DEF RefreshList
  <2>2. copies'["keys"] = copies["keys"] /\ copies'["answer"] \in {ServeList(lookup), copies["answer"]}
    BY <2>1 DEF Keep, CopyNames, PublicInv, PublicTyped
  <2>3. Worded(copies'["answer"]) /\ (copies'["keys"].ok \/ copies'["keys"].at = 0)
    BY <1>4, <2>2, ServedIsWorded
  <2>4. Asked /\ told' \in Said
    BY <1>5, SilenceIsWorded DEF RefreshList
  <2> QED
    BY <2>3, <2>4, ReaderStaysBounded
<1>6. CASE OpenPopup
  <2>1. Asked /\ copies' = copies /\ told' \in Said
    BY <1>4, <1>6, SilenceIsWorded DEF OpenPopup
  <2> QED
    BY <1>4, <2>1, ReaderStaysBounded
<1>7. CASE CheckOffline
  <2>1. PICK lookup \in Lookups :
          \E d \in Fetch("answer", ShortAge, ServeDocument(lookup)),
             k \in Fetch("keys", LongAge, ServeKeys) :
            /\ told' = IF d.ok /\ k.ok THEN Told(d.said.live, Signed(d.kid, k.keys)) ELSE Silence
            /\ copies' = [answer |-> Keep("answer", d)["answer"], keys |-> Keep("keys", k)["keys"]]
    BY <1>7 DEF CheckOffline
  <2>2. PICK d \in Fetch("answer", ShortAge, ServeDocument(lookup)),
             k \in Fetch("keys", LongAge, ServeKeys) :
            /\ told' = IF d.ok /\ k.ok THEN Told(d.said.live, Signed(d.kid, k.keys)) ELSE Silence
            /\ copies' = [answer |-> Keep("answer", d)["answer"], keys |-> Keep("keys", k)["keys"]]
    BY <2>1
  <2>3. Worded(d) /\ (k.ok \/ k.at = 0)
    BY <1>4, ServedIsWorded DEF Fetch
  <2>4. Signed(d.kid, k.keys) \in Answers3
    BY DEF Signed, Answers3
  <2>5. told' \in Said
    <3>1. d.said.live \in Answers3
      BY <2>3 DEF Worded, Said
    <3>2. Told(d.said.live, Signed(d.kid, k.keys)) \in Said
      BY <2>4, <3>1, AnswersAreWorded
    <3> QED
      BY <2>2, <3>2, SilenceIsWorded
  <2>6. copies'["answer"] \in {d, copies["answer"]} /\ copies'["keys"] \in {k, copies["keys"]}
    BY <2>2 DEF Keep, CopyNames, PublicInv, PublicTyped
  <2>7. Worded(copies'["answer"]) /\ (copies'["keys"].ok \/ copies'["keys"].at = 0)
    BY <1>4, <2>3, <2>6
  <2>8. Asked
    BY <1>7 DEF CheckOffline
  <2> QED
    BY <2>5, <2>7, <2>8, ReaderStaysBounded
<1>8. Live(STATE_BY_STATUS(EffectiveStatus)) \in Answers3 /\ "unknown" \in Answers3
  BY DEF Live, Answers3
<1>9. CASE OpenVerify
  <2>1. Signed(mark.kid, PublishedKeys) \in Answers3
    BY DEF Signed, Answers3
  <2>2. Told(Live(STATE_BY_STATUS(EffectiveStatus)), Signed(mark.kid, PublishedKeys)) \in Said
    BY <1>8, <2>1, AnswersAreWorded
  <2>3. Asked /\ copies' = copies /\ told' \in Said
    BY <1>9, <2>2, SilenceIsWorded DEF OpenVerify
  <2> QED
    BY <1>4, <2>3, ReaderStaysBounded
<1>10. CASE OpenSealPage
  <2>1. Told(Live(STATE_BY_STATUS(EffectiveStatus)), "unknown") \in Said
    BY <1>8, AnswersAreWorded
  <2>2. Asked /\ copies' = copies /\ told' \in Said
    BY <1>10, <2>1, SilenceIsWorded DEF OpenSealPage
  <2> QED
    BY <1>4, <2>2, ReaderStaysBounded
<1> QED
  BY <1>1, <1>2, <1>3, <1>5, <1>6, <1>7, <1>9, <1>10

\* Keys, copies and answers are what the routes and the reader's side hold, for any
\* keys, ages and pastes (the public routes, the extension).
THEOREM PublicTypeCorrect == PublicSpec => []PublicTypeOK
<1> DEFINE IInv == PublicInv /\ PublicBounded
<1>1. PublicInit => IInv
  BY PublicStarts, PublicBoundsStart
<1>2. ASSUME IInv, [PublicNext]_publicVars PROVE IInv'
  <2>1. CASE PublicNext
    BY <1>2, <2>1, PublicSteps, WorldStaysBounded, ReadersStayBounded DEF PublicNext
  <2>2. CASE UNCHANGED publicVars
    BY <1>2, <2>2, PublicSteps DEF publicVars, PublicBounded, PublicBounds, Worded
  <2> QED
    BY <1>2, <2>1, <2>2
<1>3. IInv => PublicTypeOK
  <2> SUFFICES ASSUME PublicInv, PublicBounded PROVE PublicTypeOK
    OBVIOUS
  <2>1. /\ clock \in Nat /\ mark.until \in Nat /\ clock <= LastTick
        /\ mark.until <= LastTick + Term /\ LastTick \in Nat /\ Term \in Nat
    BY PublicAssumption DEF PublicInv, PublicTyped, PublicBounded, PublicBounds
  <2>2. clock \in 0..LastTick /\ mark.until \in 0..(LastTick + Term)
    BY <2>1
  <2>3. \A d \in DOMAIN copies : copies[d].at <= clock
    BY <2>1 DEF PublicInv, PublicTyped, CopyFacts, TrueAnswer, TrueKeys, CopyNames, PublicBounded,
       PublicBounds
  <2>4. told.live \in Answers3 /\ told.genuine \in Answers3
    BY DEF PublicBounded, PublicBounds, Said
  <2>5. /\ mark.status \in {"none", "active", "suspended", "expired", "revoked"}
        /\ mark.kid \in KeyIds /\ mark.listed \in BOOLEAN
    BY DEF PublicInv, PublicTyped
  <2> QED
    BY <2>2, <2>3, <2>4, <2>5 DEF PublicInv, PublicTyped, HistoryFacts, PublicBounded, PublicBounds,
       PublicTypeOK
<1> QED
  BY <1>1, <1>2, <1>3, PTL DEF PublicSpec

=============================================================================
