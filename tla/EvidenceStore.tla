--------------------------- MODULE EvidenceStore ---------------------------
(***************************************************************************)
(* What a run captured: the bytes in the object store, the rows of         *)
(* public.evidence that point at them, and the two audit actions that say  *)
(* what is held without a row.  persistOutcome puts the bytes first and    *)
(* writes the rows in one transaction; sweepRetention deletes the row      *)
(* first and the bytes after the commit, then asks the store again for     *)
(* what it refused earlier.                                                *)
(*                                                                         *)
(* One action is one call of the store, one statement or one transaction.  *)
(* A run is one attempt: its assessment id is fresh, so its paths are too. *)
(* The sweep belongs to every worker process, so several may run at once.  *)
(*                                                                         *)
(* Abstracted: the hash and the wording of a record, the limit of 500 rows *)
(* to a sweep, retention dates (a row is due or not yet), the yearly       *)
(* deletion of alerts, and orphans written before paths had a column.      *)
(***************************************************************************)
EXTENDS Naturals, FiniteSets

CONSTANTS
  Captures,   \* the runs that reach persistOutcome
  Pieces,     \* the artefacts of each
  Sweepers,   \* worker processes that sweep
  MaxFaults   \* bound: how often a process dies or a statement fails

ASSUME EvidenceAssumption == MaxFaults \in Nat /\ IsFiniteSet(Sweepers)

VARIABLES
  bytes,      \* paths the object store holds
  rows,       \* public.evidence
  due,        \* rows whose retention_until has passed
  deletions,  \* public.retention_deletions: how many records name the row
  orphanRows, \* audit rows ARTEFACT_ORPHANED
  recovered,  \* audit rows ARTEFACT_REMOVED_LATER: how many name the path
  capture,    \* where each run's persistOutcome is
  sweep,      \* where each process's sweepRetention is
  dropped,    \* history: what an interrupted step let go of
  faults

evidenceVars ==
  <<bytes, rows, due, deletions, orphanRows, recovered, capture, sweep, dropped, faults>>

----------------------------------------------------------------------------

Artefact == Captures \X Pieces
Of(r, pieces) == {r} \X pieces

\* left: the pieces the current loop has not come to; refused: abandoned.
CaptureAt == {"storing", "writing", "cleaning", "recording", "done", "gone"}
SweepAt == {"idle", "deleting", "removing", "noting", "retrying", "clearing"}
Nothing == <<>>
Resting == [at |-> "idle", page |-> {}, item |-> Nothing]

EvidenceTypeOK ==
  /\ bytes \subseteq Artefact /\ rows \subseteq Artefact /\ due \subseteq Artefact
  /\ orphanRows \subseteq Artefact /\ dropped \subseteq Artefact
  /\ deletions \in [Artefact -> Nat] /\ recovered \in [Artefact -> Nat]
  /\ capture \in [Captures -> [at: CaptureAt, left: SUBSET Pieces, refused: SUBSET Pieces]]
  /\ sweep \in [Sweepers -> [at: SweepAt, page: SUBSET Artefact,
                             item: Artefact \cup {Nothing}]]
  /\ \A s \in Sweepers :
       sweep[s].item \in Artefact <=> sweep[s].at \in {"removing", "noting", "clearing"}
  /\ faults \in Nat

EvidenceInit ==
  /\ bytes = {} /\ rows = {} /\ due = {} /\ orphanRows = {} /\ dropped = {}
  /\ deletions = [a \in Artefact |-> 0] /\ recovered = [a \in Artefact |-> 0]
  /\ capture = [r \in Captures |-> [at |-> "storing", left |-> Pieces, refused |-> {}]]
  /\ sweep = [s \in Sweepers |-> Resting]
  /\ faults = 0

CaptureIs(r, at) == capture[r].at = at
CaptureGoes(r, at, left, refused) ==
  capture' = [capture EXCEPT ![r] = [at |-> at, left |-> left, refused |-> refused]]
SweepIs(s, at) == sweep[s].at = at
SweepGoes(s, at, page, item) ==
  sweep' = [sweep EXCEPT ![s] = [at |-> at, page |-> page, item |-> item]]

Fault == faults < MaxFaults /\ faults' = faults + 1
Drop(what) == dropped' = dropped \cup (what \cap bytes)

----------------------------------------------------------------------------
(* persistOutcome *)

AfterStoring(left) == IF left = {} THEN "writing" ELSE "storing"

\* The loop over the artefacts, before `begin` and outside the try.
StoreArtefact(r) ==
  /\ CaptureIs(r, "storing")
  /\ \E p \in capture[r].left :
       /\ bytes' = bytes \cup {<<r, p>>}
       /\ CaptureGoes(r, AfterStoring(capture[r].left \ {p}), capture[r].left \ {p}, {})
  /\ UNCHANGED <<rows, due, deletions, orphanRows, recovered, sweep, dropped, faults>>

\* A put that throws, or a body that is missing, leaves the loop: nothing above
\* this line removes what is stored already.
StoreFails(r) ==
  /\ CaptureIs(r, "storing")
  /\ CaptureGoes(r, "gone", {}, {})
  /\ Drop(Of(r, Pieces))
  /\ UNCHANGED <<bytes, rows, due, deletions, orphanRows, recovered, sweep, faults>>

\* begin .. commit, authorisation still there and every insert accepted.
CommitRows(r) ==
  /\ CaptureIs(r, "writing")
  /\ rows' = rows \cup Of(r, Pieces)
  /\ CaptureGoes(r, "done", {}, {})
  /\ UNCHANGED <<bytes, due, deletions, orphanRows, recovered, sweep, dropped, faults>>

\* AuthorisationWithdrawnError, DanglingEvidenceError, or a statement refused.
RollBack(r) ==
  /\ CaptureIs(r, "writing")
  /\ CaptureGoes(r, "cleaning", Pieces, {})
  /\ UNCHANGED <<bytes, rows, due, deletions, orphanRows, recovered, sweep, dropped, faults>>

\* Mistake: the cleanup runs although nobody knows whether the commit arrived.
LoseConnectionCleans(r) ==
  /\ CaptureIs(r, "writing") /\ Fault
  /\ CaptureGoes(r, "cleaning", Pieces, {})
  /\ rows' = rows \cup Of(r, Pieces) \/ UNCHANGED rows
  /\ UNCHANGED <<bytes, due, deletions, orphanRows, recovered, sweep, dropped>>

\* The connection is gone: `rollback` throws inside the catch and the cleanup
\* below it never runs.  Whether the commit had arrived nobody here knows.
LoseConnection(r) ==
  /\ CaptureIs(r, "writing") /\ Fault
  /\ CaptureGoes(r, "gone", {}, {})
  /\ \/ rows' = rows \cup Of(r, Pieces) /\ UNCHANGED dropped
     \/ Drop(Of(r, Pieces)) /\ UNCHANGED rows
  /\ UNCHANGED <<bytes, due, deletions, orphanRows, recovered, sweep>>

\* One turn of the removal loop; what the store refuses is abandoned.
CleanOne(r) ==
  /\ CaptureIs(r, "cleaning")
  /\ \E p \in capture[r].left :
       \/ /\ bytes' = bytes \ {<<r, p>>}
          /\ CaptureGoes(r, "cleaning", capture[r].left \ {p}, capture[r].refused)
       \/ /\ UNCHANGED bytes
          /\ CaptureGoes(r, "cleaning", capture[r].left \ {p}, capture[r].refused \cup {p})
  /\ UNCHANGED <<rows, due, deletions, orphanRows, recovered, sweep, dropped, faults>>

Cleaned(r) ==
  /\ CaptureIs(r, "cleaning") /\ capture[r].left = {}
  /\ CaptureGoes(r, "recording", capture[r].refused, {})
  /\ UNCHANGED <<bytes, rows, due, deletions, orphanRows, recovered, sweep, dropped, faults>>

\* The audit row for an abandoned path; a failure to write it is swallowed.
RecordAbandoned(r) ==
  /\ CaptureIs(r, "recording")
  /\ \E p \in capture[r].left :
       /\ CaptureGoes(r, "recording", capture[r].left \ {p}, {})
       /\ \/ orphanRows' = orphanRows \cup {<<r, p>>} /\ UNCHANGED <<dropped, faults>>
          \/ Fault /\ Drop({<<r, p>>}) /\ UNCHANGED orphanRows
  /\ UNCHANGED <<bytes, rows, due, deletions, recovered, sweep>>

\* The error goes on to processNextRequest, which fails the request.
Rethrow(r) ==
  /\ CaptureIs(r, "recording") /\ capture[r].left = {}
  /\ CaptureGoes(r, "gone", {}, {})
  /\ UNCHANGED <<bytes, rows, due, deletions, orphanRows, recovered, sweep, dropped, faults>>

\* The process dies.  The request is claimed again, and its next attempt is a
\* run of its own.
CaptureDies(r) ==
  /\ capture[r].at \notin {"done", "gone"} /\ Fault
  /\ CaptureGoes(r, "gone", {}, {})
  /\ Drop(Of(r, Pieces) \ (orphanRows \cup rows))
  /\ UNCHANGED <<bytes, rows, due, deletions, orphanRows, recovered, sweep>>

----------------------------------------------------------------------------
(* sweepRetention *)

Expire(a) ==
  /\ a \in rows \ due
  /\ due' = due \cup {a}
  /\ UNCHANGED <<bytes, rows, deletions, orphanRows, recovered, capture, sweep, dropped, faults>>

\* The select, outside any transaction: the page is worked through afterwards.
ReadDue(s) ==
  /\ SweepIs(s, "idle")
  /\ SweepGoes(s, "deleting", rows \cap due, Nothing)
  /\ UNCHANGED <<bytes, rows, due, deletions, orphanRows, recovered, capture, dropped, faults>>

\* The record and the delete, in one transaction.  Another process may have
\* deleted the row since it was read: the record is written all the same.
DeleteRow(s, a) ==
  /\ SweepIs(s, "deleting") /\ a \in sweep[s].page
  /\ deletions' = [deletions EXCEPT ![a] = @ + 1]
  /\ rows' = rows \ {a}
  /\ SweepGoes(s, "removing", sweep[s].page \ {a}, a)
  /\ UNCHANGED <<bytes, due, orphanRows, recovered, capture, dropped, faults>>

\* Rolled back and logged: the row stays due.
DeleteFails(s, a) ==
  /\ SweepIs(s, "deleting") /\ a \in sweep[s].page /\ Fault
  /\ SweepGoes(s, "deleting", sweep[s].page \ {a}, Nothing)
  /\ UNCHANGED <<bytes, rows, due, deletions, orphanRows, recovered, capture, dropped>>

\* Mistake: a removal that is refused is logged and no more.
RemoveBytesForgets(s) ==
  /\ SweepIs(s, "removing")
  /\ bytes' = bytes \ {sweep[s].item} \/ UNCHANGED bytes
  /\ SweepGoes(s, "deleting", sweep[s].page, Nothing)
  /\ UNCHANGED <<rows, due, deletions, orphanRows, recovered, capture, dropped, faults>>

\* storage.remove: a path already gone is removed without complaint.
RemoveBytes(s) ==
  /\ SweepIs(s, "removing")
  /\ \/ /\ bytes' = bytes \ {sweep[s].item}
        /\ SweepGoes(s, "deleting", sweep[s].page, Nothing)
     \/ /\ UNCHANGED bytes
        /\ SweepGoes(s, "noting", sweep[s].page, sweep[s].item)
  /\ UNCHANGED <<rows, due, deletions, orphanRows, recovered, capture, dropped, faults>>

\* A failure to write the audit row is only logged.
NoteOrphan(s) ==
  /\ SweepIs(s, "noting")
  /\ SweepGoes(s, "deleting", sweep[s].page, Nothing)
  /\ \/ orphanRows' = orphanRows \cup {sweep[s].item} /\ UNCHANGED <<dropped, faults>>
     \/ Fault /\ Drop({sweep[s].item}) /\ UNCHANGED orphanRows
  /\ UNCHANGED <<bytes, rows, due, deletions, recovered, capture>>

\* UNRESOLVED_ORPHANS_SQL
Unresolved == {a \in orphanRows : recovered[a] = 0}

\* Mistake: the second pass is begun with nothing to ask for.
ReadNoOrphans(s) ==
  /\ SweepIs(s, "deleting") /\ sweep[s].page = {}
  /\ SweepGoes(s, "retrying", {}, Nothing)
  /\ UNCHANGED <<bytes, rows, due, deletions, orphanRows, recovered, capture, dropped, faults>>

ReadOrphans(s) ==
  /\ SweepIs(s, "deleting") /\ sweep[s].page = {}
  /\ SweepGoes(s, "retrying", Unresolved, Nothing)
  /\ UNCHANGED <<bytes, rows, due, deletions, orphanRows, recovered, capture, dropped, faults>>

RetryAccepted(s, a) ==
  /\ SweepIs(s, "retrying") /\ a \in sweep[s].page
  /\ bytes' = bytes \ {a}
  /\ SweepGoes(s, "clearing", sweep[s].page \ {a}, a)
  /\ UNCHANGED <<rows, due, deletions, orphanRows, recovered, capture, dropped, faults>>

RetryRefused(s, a) ==
  /\ SweepIs(s, "retrying") /\ a \in sweep[s].page
  /\ SweepGoes(s, "retrying", sweep[s].page \ {a}, Nothing)
  /\ UNCHANGED <<bytes, rows, due, deletions, orphanRows, recovered, capture, dropped, faults>>

\* No condition on an earlier recovery row: the page was read before.
RecordRecovery(s) ==
  /\ SweepIs(s, "clearing")
  /\ SweepGoes(s, "retrying", sweep[s].page, Nothing)
  /\ \/ recovered' = [recovered EXCEPT ![sweep[s].item] = @ + 1] /\ UNCHANGED faults
     \/ Fault /\ UNCHANGED recovered
  /\ UNCHANGED <<bytes, rows, due, deletions, orphanRows, capture, dropped>>

EndSweep(s) ==
  /\ SweepIs(s, "retrying") /\ sweep[s].page = {}
  /\ sweep' = [sweep EXCEPT ![s] = Resting]
  /\ UNCHANGED <<bytes, rows, due, deletions, orphanRows, recovered, capture, dropped, faults>>

\* The process dies, or a commit or rollback throws out of the sweep.
SweepDies(s) ==
  /\ ~SweepIs(s, "idle") /\ Fault
  /\ sweep' = [sweep EXCEPT ![s] = Resting]
  /\ Drop(IF sweep[s].at \in {"removing", "noting"} THEN {sweep[s].item} ELSE {})
  /\ UNCHANGED <<bytes, rows, due, deletions, orphanRows, recovered, capture>>

----------------------------------------------------------------------------

CaptureStep(r) ==
  \/ StoreArtefact(r) \/ StoreFails(r) \/ CommitRows(r) \/ RollBack(r)
  \/ LoseConnection(r) \/ CleanOne(r) \/ Cleaned(r) \/ RecordAbandoned(r)
  \/ Rethrow(r) \/ CaptureDies(r)

\* What the sweep does when no fault stops it.
SweepStep(s) ==
  \/ ReadDue(s) \/ RemoveBytes(s) \/ NoteOrphan(s) \/ ReadOrphans(s)
  \/ RecordRecovery(s) \/ EndSweep(s)
  \/ \E a \in Artefact : DeleteRow(s, a) \/ RetryAccepted(s, a) \/ RetryRefused(s, a)

SweepFault(s) == SweepDies(s) \/ \E a \in Artefact : DeleteFails(s, a)

EvidenceNext ==
  \/ \E r \in Captures : CaptureStep(r)
  \/ \E s \in Sweepers : SweepStep(s) \/ SweepFault(s)
  \/ \E a \in Artefact : Expire(a)

EvidenceSpec == EvidenceInit /\ [][EvidenceNext]_evidenceVars

----------------------------------------------------------------------------
(* Properties *)

\* A row of public.evidence never points at nothing, whatever crashes, whatever
\* the store refuses and whoever sweeps: bytes are put before the rows and go
\* after them, and a lost connection cleans nothing up, since the commit it
\* waited for may have arrived.
EveryRowHasItsBytes == rows \subseteq bytes

InHand(a) ==
  \/ \E r \in Captures :
       /\ a[1] = r
       /\ \/ CaptureIs(r, "storing") \/ CaptureIs(r, "writing")
          \/ CaptureIs(r, "cleaning") /\ a[2] \in capture[r].left \cup capture[r].refused
          \/ CaptureIs(r, "recording") /\ a[2] \in capture[r].left
  \/ \E s \in Sweepers : sweep[s].at \in {"removing", "noting"} /\ sweep[s].item = a

\* What the store holds can be found again: by its row, by an orphan nobody has
\* resolved, or by a process that still has it in hand.  Only a step that was
\* interrupted lets go of any.
NothingHeldIsForgotten ==
  \A a \in bytes : a \in rows \/ a \in Unresolved \/ InHand(a) \/ a \in dropped

\* What the records say is so: a deletion record means the row is gone, a
\* recovery means the bytes are gone, and an orphan has no row to be found by.
RecordsAreTrue ==
  \A a \in Artefact :
    /\ deletions[a] > 0 => a \notin rows
    /\ recovered[a] > 0 => a \notin bytes
    /\ a \in orphanRows => a \notin rows

\* A recovery is claimed at most once by each process that sweeps: the retry
\* stops when it has succeeded, and appends no audit row on every sweep after.
RetryStops == \A a \in Artefact : recovered[a] <= Cardinality(Sweepers)

\* Evidence past its deadline loses its row, though sweeps die and statements fail;
\* bytes written down as orphaned are removed in the end, and that is recorded.
WhatIsDueIsDeleted ==
  \A a \in Artefact :
    /\ (a \in rows /\ a \in due) ~> (a \notin rows)
    /\ (a \in orphanRows) ~> (recovered[a] > 0)
============================================================================
