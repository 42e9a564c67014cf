----------------------------- MODULE PrivacyDesk -----------------------------
(***************************************************************************)
(* What is owed to a person by a date: data-subject requests and appeals,  *)
(* who answers them and hands over an export, and the sweep that says      *)
(* which of them are late (apps/web/app/console/privacy/actions.ts, the    *)
(* export route, packages/governance, sweepGovernanceDeadlines).           *)
(*                                                                         *)
(* Abstracted: the words of a request, an answer or a ground beyond        *)
(* whether there are enough of them, and the contents of the tables an     *)
(* export copies.                                                          *)
(***************************************************************************)
EXTENDS Naturals, FiniteSets

CONSTANTS
  DataRequests,    \* public.data_requests that are ever made
  Appeals,         \* public.appeals that are ever made
  Staff,           \* platform accounts at the desk
  Watchers,        \* processes that run sweepGovernanceDeadlines
  RESPONSE_DAYS,
  APPEAL_RESPONSE_DAYS,
  LastDeskDay      \* bound

ASSUME DeskAssumption ==
  /\ RESPONSE_DAYS \in Nat \ {0} /\ APPEAL_RESPONSE_DAYS \in Nat \ {0} /\ LastDeskDay \in Nat \ {0}
  /\ DataRequests \cap Appeals = {}

Owed == DataRequests \cup Appeals
Exportable == {"access", "portability"}
RequestType == Exportable \cup {"correction", "deletion", "objection"}
RequestStatus == {"received", "verifying", "in_progress", "completed", "refused"}
AppealStatus == {"open", "under_review", "upheld", "partially_upheld", "rejected"}

VARIABLES
  entry,     \* each of them: its kind, status and due date
  deskRole,  \* platform_role of the staff
  export,    \* where each of the staff is with an export
  copied,    \* the exports handed over, and the exports the audit log has
  watcher,   \* where each sweep is, and what its process has said on which day
  heard,     \* what the log says today
  foundLate, \* what a sweep that has ended today found late
  day
deskVars == <<entry, deskRole, export, copied, watcher, heard, foundLate, day>>

Unmade == [kind |-> "none", status |-> "none", due |-> 0]

DeskTypeOK ==
  /\ \A o \in Owed : entry[o] = Unmade \/
       /\ entry[o].due \in Nat
       /\ IF o \in DataRequests THEN entry[o].kind \in RequestType /\ entry[o].status \in RequestStatus
          ELSE entry[o].kind = "appeal" /\ entry[o].status \in AppealStatus
  /\ deskRole \in [Staff -> {"reviewer", "admin", "none"}]
  /\ export \in [Staff -> [at: {"idle", "asked", "reading", "recorded"}, of: DataRequests \cup {"none"}]]
  /\ copied \in [handed: SUBSET DataRequests, logged: SUBSET DataRequests]
  /\ watcher \in [Watchers -> [at: {"idle", "appeals", "speaking"}, now: Nat,
                               late: SUBSET Owed, said: SUBSET (Owed \X (1..LastDeskDay))]]
  /\ heard \subseteq Owed /\ foundLate \subseteq Owed /\ day \in 1..LastDeskDay

DeskInit ==
  /\ entry = [o \in Owed |-> Unmade]
  /\ deskRole \in [Staff -> {"admin"}]
  /\ export = [s \in Staff |-> [at |-> "idle", of |-> "none"]]
  /\ copied = [handed |-> {}, logged |-> {}]
  /\ watcher = [w \in Watchers |-> [at |-> "idle", now |-> 0, late |-> {}, said |-> {}]]
  /\ heard = {} /\ foundLate = {} /\ day = 1

-----------------------------------------------------------------------------
(* The person asks. *)

\* The triggers date what comes in.
Deadline(days) == day + days

\* Nothing keeps a second request of the same kind out.
SubmitDataRequest(r) ==
  /\ entry[r] = Unmade
  /\ \E kind \in RequestType, said \in BOOLEAN :
       /\ kind \in {"correction", "objection"} => said
       /\ entry' = [entry EXCEPT ![r] = [kind |-> kind, status |-> "received", due |-> Deadline(RESPONSE_DAYS)]]
  /\ UNCHANGED <<deskRole, export, copied, watcher, heard, foundLate, day>>

SubmitAppeal(a) ==
  /\ entry[a] = Unmade
  /\ entry' = [entry EXCEPT ![a] = [kind |-> "appeal", status |-> "open",
                                due |-> Deadline(APPEAL_RESPONSE_DAYS)]]
  /\ UNCHANGED <<deskRole, export, copied, watcher, heard, foundLate, day>>

-----------------------------------------------------------------------------
(* The desk answers. *)

CanTransition(from, to) ==
  CASE from = "received" -> to \in {"verifying", "in_progress", "refused"}
    [] from = "verifying" -> to \in {"in_progress", "refused"}
    [] from = "in_progress" -> to \in {"completed", "refused"}
    [] OTHER -> FALSE

\* One conditional update, whatever page the answer was written on; the answer is long enough,
\* and a refusal names its basis.
ResolveDataRequest(s, r) ==
  /\ deskRole[s] = "admin" /\ entry[r] # Unmade
  /\ \E to \in RequestStatus \ {"received"} :
       /\ CanTransition(entry[r].status, to)
       /\ entry' = [entry EXCEPT ![r].status = to]
  /\ UNCHANGED <<deskRole, export, copied, watcher, heard, foundLate, day>>

\* An appeal that was answered may be answered again, or put back under review.
ResolveAppeal(s, a) ==
  /\ deskRole[s] \in {"reviewer", "admin"} /\ entry[a] # Unmade
  /\ \E to \in AppealStatus \ {"open"} : entry' = [entry EXCEPT ![a].status = to]
  /\ UNCHANGED <<deskRole, export, copied, watcher, heard, foundLate, day>>

RoleMoves(s) ==
  /\ \E to \in {"reviewer", "admin", "none"} \ {deskRole[s]} : deskRole' = [deskRole EXCEPT ![s] = to]
  /\ UNCHANGED <<entry, export, copied, watcher, heard, foundLate, day>>

ExportGoes(s, at, of) ==
  /\ export' = [export EXCEPT ![s] = [at |-> at, of |-> of]]
  /\ UNCHANGED <<entry, deskRole, watcher, heard, foundLate, day>>

\* The route asks for the deskRole, the request and its kind, whatever its status.
AskForExport(s) ==
  /\ export[s].at = "idle" /\ deskRole[s] = "admin"
  /\ \E r \in DataRequests : entry[r].kind \in Exportable /\ ExportGoes(s, "asked", r)
  /\ UNCHANGED copied

\* assembleSubjectExport, inside the transaction, asks for the deskRole again.
AssembleSubjectExport(s) ==
  /\ export[s].at = "asked"
  /\ IF deskRole[s] = "admin" THEN ExportGoes(s, "reading", export[s].of) ELSE ExportGoes(s, "idle", "none")
  /\ UNCHANGED copied

\* The audit entry is in the transaction of the reads; without it nothing is handed over.
RecordExport(s) ==
  /\ export[s].at = "reading"
  /\ \/ ExportGoes(s, "recorded", export[s].of) /\ copied' = [copied EXCEPT !.logged = @ \cup {export[s].of}]
     \/ ExportGoes(s, "idle", "none") /\ UNCHANGED copied

HandOver(s) ==
  /\ export[s].at = "recorded" /\ ExportGoes(s, "idle", "none")
  /\ \/ copied' = [copied EXCEPT !.handed = @ \cup {export[s].of}]
     \/ UNCHANGED copied

-----------------------------------------------------------------------------
(* The sweep says what is late. *)

Open(o) ==
  \/ o \in DataRequests /\ entry[o].status \in RequestStatus \ {"completed", "refused"}
  \/ o \in Appeals /\ entry[o].status \in {"open", "under_review"}
IsOverdue(o, now) == Open(o) /\ entry[o].due < now

WatcherGoes(w, next) ==
  /\ watcher' = [watcher EXCEPT ![w] = next] /\ UNCHANGED <<entry, deskRole, export, copied, day>>

ReadRequests(w) ==
  /\ watcher[w].at = "idle"
  /\ WatcherGoes(w, [watcher[w] EXCEPT !.at = "appeals", !.now = day,
                       !.late = {r \in DataRequests : IsOverdue(r, day)}])
  /\ UNCHANGED <<heard, foundLate>>

ReadAppeals(w) ==
  /\ watcher[w].at = "appeals"
  /\ WatcherGoes(w, [watcher[w] EXCEPT !.at = "speaking",
                       !.late = @ \cup {a \in Appeals : IsOverdue(a, watcher[w].now)}])
  /\ UNCHANGED <<heard, foundLate>>

\* saidOnceADay: by the row, and by the day the sweep began on.  The map keeps the last day a
\* row was spoken of on.
\* A plausible slip: by the row only.
DueToSayOnce(w, o) == ~\E on \in 1..LastDeskDay : <<o, on>> \in watcher[w].said
DueToSay(w, o) == <<o, watcher[w].now>> \notin watcher[w].said

Speak(w) ==
  /\ watcher[w].at = "speaking"
  /\ LET spoken == {o \in watcher[w].late : DueToSay(w, o)}
         isToday == watcher[w].now = day IN
     /\ heard' = IF isToday THEN heard \cup spoken ELSE heard
     /\ foundLate' = IF isToday THEN foundLate \cup watcher[w].late ELSE foundLate
     /\ WatcherGoes(w, [at |-> "idle", now |-> 0, late |-> {},
          said |-> {p \in watcher[w].said : p[1] \notin spoken}
                     \cup {<<o, watcher[w].now>> : o \in spoken}])

RestartWatcher(w) ==
  /\ WatcherGoes(w, [at |-> "idle", now |-> 0, late |-> {}, said |-> {}])
  /\ UNCHANGED <<heard, foundLate>>

NextDay ==
  /\ day < LastDeskDay /\ day' = day + 1 /\ heard' = {} /\ foundLate' = {}
  /\ UNCHANGED <<entry, deskRole, export, copied, watcher>>

DeskNext ==
  \/ \E r \in DataRequests : SubmitDataRequest(r)
  \/ \E a \in Appeals : SubmitAppeal(a)
  \/ \E s \in Staff : \/ \E r \in DataRequests : ResolveDataRequest(s, r)
                      \/ \E a \in Appeals : ResolveAppeal(s, a)
                      \/ RoleMoves(s) \/ AskForExport(s) \/ AssembleSubjectExport(s)
                      \/ RecordExport(s) \/ HandOver(s)
  \/ \E w \in Watchers : ReadRequests(w) \/ ReadAppeals(w) \/ Speak(w) \/ RestartWatcher(w)
  \/ NextDay

DeskSpec == DeskInit /\ [][DeskNext]_deskVars

-----------------------------------------------------------------------------

\* What a sweep finds late is in the log of that day, on every day until it is answered, also when
\* it was said the day before, when the process is another one or began anew, and when something
\* else was said; and an export that was handed over is in the audit log
\* (saidOnceADay, sweepGovernanceDeadlines, the export route).
WhatIsOwedIsSaid == foundLate \subseteq heard /\ copied.handed \subseteq copied.logged
=============================================================================
