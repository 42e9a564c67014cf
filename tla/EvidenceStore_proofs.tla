------------------------ MODULE EvidenceStore_proofs ------------------------
(***************************************************************************)
(* Evidence for any runs, artefacts and sweeping processes, and however    *)
(* often one of them dies: a row has its bytes, the records are true, what *)
(* is held can be found again, and a retry stops.                          *)
(*                                                                         *)
(* The invariant adds whom an artefact belongs to: until its run's         *)
(* transaction is decided nobody else has touched it, and afterwards the   *)
(* run adds nothing to it, so what a sweep read may be old but never       *)
(* becomes true again.                                                     *)
(***************************************************************************)
EXTENDS EvidenceStore, FiniteSetTheorems, TLAPS

Before == {"storing", "writing", "cleaning"}
Removing == {"removing", "noting"}
Deleting == {"deleting", "removing", "noting"}
Retrying == {"retrying", "clearing"}

\* An artefact that only its own run knows of.
Untouched(a) ==
  /\ a \notin rows /\ a \notin orphanRows
  /\ deletions[a] = 0 /\ recovered[a] = 0

CaptureFacts(r) ==
  /\ capture[r].at \in Before => \A a \in Of(r, Pieces) : Untouched(a)
  /\ capture[r].at = "storing" => Of(r, Pieces \ capture[r].left) \subseteq bytes
  /\ capture[r].at = "writing" => Of(r, Pieces) \subseteq bytes
  /\ capture[r].at = "recording" =>
       \A a \in Of(r, Pieces) : a \notin rows /\ deletions[a] = 0

SweepFacts(s) ==
  /\ sweep[s].at = "idle" => sweep[s].page = {}
  /\ sweep[s].at \in Deleting =>
       \A a \in sweep[s].page : a \in rows \/ deletions[a] > 0
  /\ sweep[s].at \in Removing => deletions[sweep[s].item] > 0
  /\ sweep[s].at \in Retrying => sweep[s].page \subseteq orphanRows
  /\ sweep[s].at = "clearing" =>
       /\ sweep[s].item \in orphanRows /\ sweep[s].item \notin bytes
       /\ sweep[s].item \notin sweep[s].page

RowFacts(a) ==
  /\ a \in rows => a \in bytes /\ a \notin orphanRows /\ deletions[a] = 0
  /\ recovered[a] > 0 => a \notin bytes /\ a \in orphanRows

\* The processes that may yet record a recovery of it.
Retriers(a) ==
  {s \in Sweepers : /\ sweep[s].at \in Retrying
                    /\ a \in sweep[s].page \/ a = sweep[s].item}

Counted(a) == recovered[a] + Cardinality(Retriers(a)) <= Cardinality(Sweepers)

Owned ==
  /\ EvidenceTypeOK
  /\ \A r \in Captures : CaptureFacts(r)
  /\ \A s \in Sweepers : SweepFacts(s)
  /\ \A a \in Artefact : RowFacts(a)

----------------------------------------------------------------------------
(* Types *)

LEMMA NothingIsNoArtefact ==
  Nothing \notin Artefact
BY DEF Nothing, Artefact

CaptureRecord == [at: CaptureAt, left: SUBSET Pieces, refused: SUBSET Pieces]
SweepRecord == [at: SweepAt, page: SUBSET Artefact, item: Artefact \cup {Nothing}]

LEMMA CaptureTyped ==
  ASSUME EvidenceTypeOK, NEW r \in Captures, NEW at \in CaptureAt,
         NEW left \in SUBSET Pieces, NEW refused \in SUBSET Pieces,
         CaptureGoes(r, at, left, refused)
  PROVE  /\ capture' \in [Captures -> CaptureRecord]
         /\ capture'[r] = [at |-> at, left |-> left, refused |-> refused]
         /\ \A q \in Captures \ {r} : capture'[q] = capture[q]
BY DEF EvidenceTypeOK, CaptureGoes, CaptureRecord

LEMMA SweepTyped ==
  ASSUME EvidenceTypeOK, NEW s \in Sweepers, NEW at \in SweepAt,
         NEW page \in SUBSET Artefact, NEW item \in Artefact \cup {Nothing},
         item \in Artefact <=> at \in {"removing", "noting", "clearing"},
         SweepGoes(s, at, page, item)
  PROVE  /\ sweep' \in [Sweepers -> SweepRecord]
         /\ \A t \in Sweepers :
              sweep'[t].item \in Artefact <=> sweep'[t].at \in {"removing", "noting", "clearing"}
         /\ sweep'[s] = [at |-> at, page |-> page, item |-> item]
         /\ \A t \in Sweepers \ {s} : sweep'[t] = sweep[t]
BY DEF EvidenceTypeOK, SweepGoes, SweepRecord

LEMMA CaptureStepTyped ==
  ASSUME EvidenceTypeOK, NEW r \in Captures, CaptureStep(r)
  PROVE  EvidenceTypeOK'
<1>0. /\ capture[r].left \in SUBSET Pieces /\ capture[r].refused \in SUBSET Pieces
      /\ Pieces \in SUBSET Pieces /\ {} \in SUBSET Pieces
      /\ "gone" \in CaptureAt /\ "done" \in CaptureAt /\ "cleaning" \in CaptureAt
      /\ "recording" \in CaptureAt
      /\ \A left : AfterStoring(left) \in CaptureAt
  BY DEF EvidenceTypeOK, CaptureAt, AfterStoring
<1>1. \A p \in Pieces : <<r, p>> \in Artefact
  BY DEF Artefact
<1>2. Of(r, Pieces) \subseteq Artefact
  BY DEF Of, Artefact
<1>3. sweep' = sweep /\ deletions' = deletions /\ recovered' = recovered /\ due' = due
  BY DEF CaptureStep, StoreArtefact, StoreFails, CommitRows, RollBack, LoseConnection,
         CleanOne, Cleaned, RecordAbandoned, Rethrow, CaptureDies
<1>4. capture' \in [Captures -> CaptureRecord]
  <2>1. CASE StoreArtefact(r)
    <3>1. PICK p \in capture[r].left :
            CaptureGoes(r, AfterStoring(capture[r].left \ {p}), capture[r].left \ {p}, {})
      BY <2>1 DEF StoreArtefact
    <3> QED BY <1>0, <3>1, CaptureTyped
  <2>2. CASE StoreFails(r) \/ LoseConnection(r) \/ Rethrow(r) \/ CaptureDies(r)
    <3>1. CaptureGoes(r, "gone", {}, {})
      BY <2>2 DEF StoreFails, LoseConnection, Rethrow, CaptureDies
    <3> QED BY <1>0, <3>1, CaptureTyped
  <2>3. CASE CommitRows(r)
    BY <1>0, <2>3, CaptureTyped DEF CommitRows
  <2>4. CASE RollBack(r)
    BY <1>0, <2>4, CaptureTyped DEF RollBack
  <2>5. CASE CleanOne(r)
    <3>1. PICK p \in capture[r].left, refused \in SUBSET Pieces :
            CaptureGoes(r, "cleaning", capture[r].left \ {p}, refused)
      BY <1>0, <2>5 DEF CleanOne
    <3> QED BY <1>0, <3>1, CaptureTyped
  <2>6. CASE Cleaned(r)
    BY <1>0, <2>6, CaptureTyped DEF Cleaned
  <2>7. CASE RecordAbandoned(r)
    <3>1. PICK p \in capture[r].left : CaptureGoes(r, "recording", capture[r].left \ {p}, {})
      BY <2>7 DEF RecordAbandoned
    <3> QED BY <1>0, <3>1, CaptureTyped
  <2> QED BY <2>1, <2>2, <2>3, <2>4, <2>5, <2>6, <2>7 DEF CaptureStep
<1>5. bytes' \subseteq Artefact
  <2>1. CASE StoreArtefact(r)
    BY <1>0, <1>1, <2>1 DEF StoreArtefact, EvidenceTypeOK
  <2>2. CASE ~StoreArtefact(r)
    <3>1. bytes' \subseteq bytes
      BY <2>2 DEF CaptureStep, StoreFails, CommitRows, RollBack, LoseConnection,
             CleanOne, Cleaned, RecordAbandoned, Rethrow, CaptureDies
    <3> QED BY <3>1 DEF EvidenceTypeOK
  <2> QED BY <2>1, <2>2
<1>6. rows' \subseteq Artefact
  <2>1. rows' \subseteq rows \cup Of(r, Pieces)
    BY DEF CaptureStep, StoreArtefact, StoreFails, CommitRows, RollBack, LoseConnection,
           CleanOne, Cleaned, RecordAbandoned, Rethrow, CaptureDies
  <2> QED BY <1>2, <2>1 DEF EvidenceTypeOK
<1>7. orphanRows' \subseteq Artefact
  <2>1. CASE RecordAbandoned(r)
    BY <1>0, <1>1, <2>1 DEF RecordAbandoned, EvidenceTypeOK
  <2>2. CASE ~RecordAbandoned(r)
    <3>1. orphanRows' = orphanRows
      BY <2>2 DEF CaptureStep, StoreArtefact, StoreFails, CommitRows, RollBack,
             LoseConnection, CleanOne, Cleaned, Rethrow, CaptureDies
    <3> QED BY <3>1 DEF EvidenceTypeOK
  <2> QED BY <2>1, <2>2
<1>8. dropped' \subseteq Artefact
  <2>1. dropped' \subseteq dropped \cup bytes
    BY DEF CaptureStep, StoreArtefact, StoreFails, CommitRows, RollBack, LoseConnection,
           CleanOne, Cleaned, RecordAbandoned, Rethrow, CaptureDies, Drop
  <2> QED BY <2>1 DEF EvidenceTypeOK
<1>9. faults' \in Nat
  <2>1. faults' = faults \/ Fault
    BY DEF CaptureStep, StoreArtefact, StoreFails, CommitRows, RollBack, LoseConnection,
           CleanOne, Cleaned, RecordAbandoned, Rethrow, CaptureDies
  <2> QED BY <2>1 DEF EvidenceTypeOK, Fault
<1> QED BY <1>3, <1>4, <1>5, <1>6, <1>7, <1>8, <1>9 DEF EvidenceTypeOK, CaptureRecord

LEMMA SweepStepTyped ==
  ASSUME EvidenceTypeOK, NEW s \in Sweepers, SweepStep(s) \/ SweepFault(s)
  PROVE  EvidenceTypeOK'
<1>0. /\ sweep[s].page \in SUBSET Artefact /\ sweep[s].item \in Artefact \cup {Nothing}
      /\ sweep[s].item \in Artefact <=> sweep[s].at \in {"removing", "noting", "clearing"}
      /\ {} \in SUBSET Artefact /\ Nothing \in Artefact \cup {Nothing} /\ Nothing \notin Artefact
      /\ "idle" \in SweepAt /\ "deleting" \in SweepAt /\ "removing" \in SweepAt
      /\ "noting" \in SweepAt /\ "retrying" \in SweepAt /\ "clearing" \in SweepAt
  BY NothingIsNoArtefact DEF EvidenceTypeOK, SweepAt
<1> DEFINE Moved == \E at \in SweepAt, page \in SUBSET Artefact, item \in Artefact \cup {Nothing} :
                      /\ SweepGoes(s, at, page, item)
                      /\ item \in Artefact <=> at \in {"removing", "noting", "clearing"}
<1>1. Moved
  <2>1. CASE ReadDue(s)
    <3>1. rows \cap due \in SUBSET Artefact
      BY DEF EvidenceTypeOK
    <3> QED BY <1>0, <2>1, <3>1 DEF ReadDue
  <2>2. CASE RemoveBytes(s)
    BY <1>0, <2>2 DEF RemoveBytes, SweepIs
  <2>3. CASE NoteOrphan(s)
    BY <1>0, <2>3 DEF NoteOrphan
  <2>4. CASE ReadOrphans(s)
    <3>1. Unresolved \in SUBSET Artefact
      BY DEF EvidenceTypeOK, Unresolved
    <3> QED BY <1>0, <2>4, <3>1 DEF ReadOrphans
  <2>5. CASE RecordRecovery(s)
    BY <1>0, <2>5 DEF RecordRecovery
  <2>6. CASE EndSweep(s) \/ SweepDies(s)
    <3>1. SweepGoes(s, "idle", {}, Nothing)
      BY <2>6 DEF EndSweep, SweepDies, SweepGoes, Resting
    <3> QED BY <1>0, <3>1
  <2>7. ASSUME NEW a \in Artefact,
               DeleteRow(s, a) \/ RetryAccepted(s, a) \/ RetryRefused(s, a) \/ DeleteFails(s, a)
        PROVE  Moved
    <3>1. sweep[s].page \ {a} \in SUBSET Artefact /\ a \in Artefact \cup {Nothing}
      BY <1>0
    <3>2. \/ SweepGoes(s, "removing", sweep[s].page \ {a}, a)
          \/ SweepGoes(s, "clearing", sweep[s].page \ {a}, a)
          \/ SweepGoes(s, "retrying", sweep[s].page \ {a}, Nothing)
          \/ SweepGoes(s, "deleting", sweep[s].page \ {a}, Nothing)
      BY <2>7 DEF DeleteRow, RetryAccepted, RetryRefused, DeleteFails
    <3> QED BY <1>0, <3>1, <3>2
  <2> QED BY <2>1, <2>2, <2>3, <2>4, <2>5, <2>6, <2>7 DEF SweepStep, SweepFault
<1>2. /\ sweep' \in [Sweepers -> SweepRecord]
      /\ \A t \in Sweepers :
           sweep'[t].item \in Artefact <=> sweep'[t].at \in {"removing", "noting", "clearing"}
  BY <1>1, SweepTyped
<1> USE DEF SweepStep, SweepFault, ReadDue, RemoveBytes, NoteOrphan, ReadOrphans, RecordRecovery,
            EndSweep, DeleteRow, RetryAccepted, RetryRefused, DeleteFails, SweepDies
<1>3. capture' = capture /\ due' = due
  OBVIOUS
<1>4. bytes' \subseteq bytes /\ rows' \subseteq rows
  OBVIOUS
<1>5. orphanRows' \subseteq Artefact
  <2>1. CASE NoteOrphan(s)
    BY <1>0, <2>1 DEF EvidenceTypeOK, SweepIs
  <2>2. CASE ~NoteOrphan(s)
    <3>1. orphanRows' = orphanRows
      BY <2>2
    <3> QED BY <3>1 DEF EvidenceTypeOK
  <2> QED BY <2>1, <2>2
<1>6. dropped' \subseteq dropped \cup bytes
  BY DEF Drop
<1>7. faults' = faults \/ Fault
  OBVIOUS
<1>8. deletions' \in [Artefact -> Nat]
  <2>1. deletions' = deletions \/ \E a \in Artefact : deletions' = [deletions EXCEPT ![a] = @ + 1]
    OBVIOUS
  <2> QED BY <2>1 DEF EvidenceTypeOK
<1>9. recovered' \in [Artefact -> Nat]
  <2>1. recovered' = recovered \/ recovered' = [recovered EXCEPT ![sweep[s].item] = @ + 1]
    OBVIOUS
  <2> QED BY <2>1 DEF EvidenceTypeOK
<1> QED BY <1>2, <1>3, <1>4, <1>5, <1>6, <1>7, <1>8, <1>9
        DEF EvidenceTypeOK, SweepRecord, Fault

----------------------------------------------------------------------------
(* Whose an artefact is: a run's steps *)

LEMMA RunsShareNothing ==
  ASSUME NEW r \in Captures, NEW q \in Captures, q # r
  PROVE  Of(q, Pieces) \cap Of(r, Pieces) = {}
BY DEF Of

LEMMA OwnArtefacts ==
  ASSUME NEW r \in Captures
  PROVE  /\ Of(r, Pieces) \subseteq Artefact
         /\ \A p \in Pieces : <<r, p>> \in Of(r, Pieces)
BY DEF Of, Artefact

\* All that a step of persistOutcome may do to what is shared.
LEMMA CaptureEffect ==
  ASSUME EvidenceTypeOK, NEW r \in Captures, CaptureStep(r)
  PROVE  /\ sweep' = sweep /\ deletions' = deletions /\ recovered' = recovered
         /\ \A q \in Captures \ {r} : capture'[q] = capture[q]
         /\ rows' # rows => CaptureIs(r, "writing") /\ rows' = rows \cup Of(r, Pieces)
         /\ \A a \in bytes' \ bytes : CaptureIs(r, "storing") /\ a \in Of(r, Pieces)
         /\ \A a \in bytes \ bytes' : CaptureIs(r, "cleaning") /\ a \in Of(r, Pieces)
         /\ orphanRows \subseteq orphanRows'
         /\ \A a \in orphanRows' \ orphanRows : CaptureIs(r, "recording") /\ a \in Of(r, Pieces)
<1>1. capture[r].left \in SUBSET Pieces
  BY DEF EvidenceTypeOK
<1>2. \A p \in capture[r].left : <<r, p>> \in Of(r, Pieces)
  BY <1>1, OwnArtefacts
<1>3. \A q \in Captures \ {r} : capture'[q] = capture[q]
  BY DEF CaptureStep, StoreArtefact, StoreFails, CommitRows, RollBack, LoseConnection,
         CleanOne, Cleaned, RecordAbandoned, Rethrow, CaptureDies, CaptureGoes, EvidenceTypeOK
<1>4. CASE StoreArtefact(r)
  BY <1>2, <1>3, <1>4 DEF StoreArtefact
<1>5. CASE CleanOne(r)
  BY <1>2, <1>3, <1>5 DEF CleanOne
<1>6. CASE RecordAbandoned(r)
  BY <1>2, <1>3, <1>6 DEF RecordAbandoned
<1>7. CASE StoreFails(r) \/ CommitRows(r) \/ RollBack(r) \/ LoseConnection(r) \/ Cleaned(r)
           \/ Rethrow(r) \/ CaptureDies(r)
  BY <1>3, <1>7 DEF StoreFails, CommitRows, RollBack, LoseConnection, Cleaned, Rethrow, CaptureDies
<1> QED BY <1>4, <1>5, <1>6, <1>7 DEF CaptureStep

\* Where a run goes, and what it then counts on.
LEMMA CaptureKeepsOwn ==
  ASSUME Owned, NEW r \in Captures, CaptureStep(r)
  PROVE  CaptureFacts(r)'
<1>0. /\ EvidenceTypeOK /\ CaptureFacts(r)
      /\ capture \in [Captures -> CaptureRecord]
      /\ capture[r].left \in SUBSET Pieces
  BY DEF Owned, EvidenceTypeOK, CaptureRecord
<1>1. /\ deletions' = deletions /\ recovered' = recovered
      /\ \A p \in Pieces : <<r, p>> \in Of(r, Pieces)
  BY <1>0, CaptureEffect, OwnArtefacts
<1>2. CASE StoreArtefact(r)
  <2>1. PICK p \in capture[r].left :
          /\ bytes' = bytes \cup {<<r, p>>}
          /\ CaptureGoes(r, AfterStoring(capture[r].left \ {p}), capture[r].left \ {p}, {})
    BY <1>2 DEF StoreArtefact
  <2>2. /\ capture'[r].left = capture[r].left \ {p}
        /\ capture'[r].at = AfterStoring(capture[r].left \ {p})
    BY <1>0, <2>1 DEF CaptureGoes
  <2>3. \A a \in Of(r, Pieces) : Untouched(a)'
    BY <1>0, <1>2 DEF CaptureFacts, StoreArtefact, CaptureIs, Before, Untouched
  <2>4. Of(r, Pieces \ (capture[r].left \ {p})) \subseteq bytes'
    <3>1. Of(r, Pieces \ capture[r].left) \subseteq bytes
      BY <1>0, <1>2 DEF CaptureFacts, StoreArtefact, CaptureIs
    <3>2. Of(r, Pieces \ (capture[r].left \ {p})) \subseteq Of(r, Pieces \ capture[r].left) \cup {<<r, p>>}
      BY DEF Of
    <3> QED BY <2>1, <3>1, <3>2
  <2>5. capture[r].left \ {p} = {} => Of(r, Pieces \ (capture[r].left \ {p})) = Of(r, Pieces)
    BY DEF Of
  <2> QED BY <2>2, <2>3, <2>4, <2>5 DEF CaptureFacts, AfterStoring
<1>3. CASE StoreFails(r) \/ LoseConnection(r) \/ Rethrow(r) \/ CaptureDies(r)
  <2>1. CaptureGoes(r, "gone", {}, {})
    BY <1>3 DEF StoreFails, LoseConnection, Rethrow, CaptureDies
  <2>2. capture'[r].at = "gone"
    BY <1>0, <2>1 DEF CaptureGoes
  <2> QED BY <2>2 DEF CaptureFacts, Before
<1>4. CASE CommitRows(r)
  <2>1. capture'[r].at = "done"
    BY <1>0, <1>4 DEF CommitRows, CaptureGoes
  <2> QED BY <2>1 DEF CaptureFacts, Before
<1>5. CASE RollBack(r)
  <2>1. capture'[r].at = "cleaning"
    BY <1>0, <1>5 DEF RollBack, CaptureGoes
  <2> QED BY <1>0, <1>5, <2>1 DEF RollBack, CaptureIs, CaptureFacts, Before, Untouched
<1>6. CASE CleanOne(r)
  <2>1. capture'[r].at = "cleaning"
    BY <1>0, <1>6 DEF CleanOne, CaptureGoes
  <2> QED BY <1>0, <1>6, <2>1 DEF CleanOne, CaptureIs, CaptureFacts, Before, Untouched
<1>7. CASE Cleaned(r)
  <2>1. capture'[r].at = "recording"
    BY <1>0, <1>7 DEF Cleaned, CaptureGoes
  <2> QED BY <1>0, <1>7, <2>1 DEF Cleaned, CaptureIs, CaptureFacts, Before, Untouched
<1>8. CASE RecordAbandoned(r)
  <2>1. capture'[r].at = "recording"
    BY <1>0, <1>8 DEF RecordAbandoned, CaptureGoes
  <2> QED BY <1>0, <1>8, <2>1 DEF RecordAbandoned, CaptureIs, CaptureFacts, Before
<1> QED BY <1>2, <1>3, <1>4, <1>5, <1>6, <1>7, <1>8 DEF CaptureStep

LEMMA CaptureKeepsOthers ==
  ASSUME Owned, NEW r \in Captures, CaptureStep(r), NEW q \in Captures, q # r
  PROVE  CaptureFacts(q)'
<1>0. EvidenceTypeOK /\ CaptureFacts(q) /\ capture[q].left \in SUBSET Pieces
  BY DEF Owned, EvidenceTypeOK
<1>1. capture'[q] = capture[q] /\ deletions' = deletions /\ recovered' = recovered
  BY <1>0, CaptureEffect
<1>2. \A a \in Of(q, Pieces) :
        (a \in rows' <=> a \in rows) /\ (a \in bytes' <=> a \in bytes)
          /\ (a \in orphanRows' <=> a \in orphanRows)
  BY <1>0, CaptureEffect, RunsShareNothing
<1>3. Of(q, Pieces \ capture[q].left) \subseteq Of(q, Pieces)
  BY DEF Of
<1> QED BY <1>0, <1>1, <1>2, <1>3 DEF CaptureFacts, Untouched

LEMMA CaptureKeepsSweeps ==
  ASSUME Owned, NEW r \in Captures, CaptureStep(r), NEW s \in Sweepers
  PROVE  SweepFacts(s)'
<1>0. EvidenceTypeOK /\ SweepFacts(s) /\ CaptureFacts(r)
  BY DEF Owned
<1>1. sweep' = sweep /\ deletions' = deletions /\ rows \subseteq rows' /\ orphanRows \subseteq orphanRows'
  BY <1>0, CaptureEffect
<1>2. \A a \in orphanRows : a \in bytes' => a \in bytes
  BY <1>0, CaptureEffect DEF CaptureFacts, CaptureIs, Before, Untouched
<1> QED BY <1>0, <1>1, <1>2 DEF SweepFacts

LEMMA CaptureKeepsRows ==
  ASSUME Owned, NEW r \in Captures, CaptureStep(r), NEW a \in Artefact
  PROVE  RowFacts(a)'
<1>0. EvidenceTypeOK /\ RowFacts(a) /\ CaptureFacts(r)
  BY DEF Owned
<1>1. deletions' = deletions /\ recovered' = recovered /\ orphanRows \subseteq orphanRows'
  BY <1>0, CaptureEffect
<1>2. ASSUME a \in rows'
      PROVE  a \in bytes' /\ a \notin orphanRows' /\ deletions'[a] = 0
  <2>1. CASE a \in rows
    <3>1. a \in bytes'
      BY <1>0, <2>1, CaptureEffect DEF RowFacts, CaptureFacts, CaptureIs, Before, Untouched
    <3>2. a \notin orphanRows'
      BY <1>0, <2>1, CaptureEffect DEF RowFacts, CaptureFacts, CaptureIs
    <3> QED BY <1>0, <1>1, <2>1, <3>1, <3>2 DEF RowFacts
  <2>2. CASE a \notin rows
    <3>1. CaptureIs(r, "writing") /\ a \in Of(r, Pieces)
      BY <1>0, <1>2, <2>2, CaptureEffect
    <3>2. a \in bytes /\ Untouched(a)
      BY <1>0, <3>1 DEF CaptureFacts, CaptureIs, Before
    <3> QED BY <1>0, <1>1, <3>1, <3>2, CaptureEffect DEF CaptureIs, Untouched
  <2> QED BY <2>1, <2>2
<1>3. ASSUME recovered'[a] > 0
      PROVE  a \notin bytes' /\ a \in orphanRows'
  <2>1. a \notin bytes /\ a \in orphanRows
    BY <1>0, <1>1, <1>3 DEF RowFacts
  <2>2. a \notin bytes'
    BY <1>0, <2>1, CaptureEffect DEF CaptureFacts, CaptureIs, Before, Untouched
  <2> QED BY <1>1, <2>1, <2>2
<1> QED BY <1>2, <1>3 DEF RowFacts

----------------------------------------------------------------------------
(* Whose an artefact is: a sweep's steps *)

\* All that a step of sweepRetention may do to what is shared.
LEMMA SweepEffect ==
  ASSUME EvidenceTypeOK, NEW s \in Sweepers, SweepStep(s) \/ SweepFault(s)
  PROVE  /\ capture' = capture /\ bytes' \subseteq bytes /\ rows' \subseteq rows
         /\ \A t \in Sweepers \ {s} : sweep'[t] = sweep[t]
         /\ orphanRows \subseteq orphanRows'
         /\ \A a \in orphanRows' \ orphanRows : SweepIs(s, "noting") /\ a = sweep[s].item
         /\ \A a \in Artefact :
              /\ deletions'[a] \in Nat /\ deletions'[a] >= deletions[a]
              /\ recovered'[a] \in Nat /\ recovered'[a] >= recovered[a]
              /\ a \in rows \ rows' => deletions'[a] > 0
              /\ deletions'[a] # deletions[a] =>
                   SweepIs(s, "deleting") /\ a \in sweep[s].page /\ a \notin rows'
              /\ recovered'[a] # recovered[a] =>
                   SweepIs(s, "clearing") /\ a = sweep[s].item /\ recovered'[a] = recovered[a] + 1
              /\ a \in bytes \ bytes' =>
                   \/ SweepIs(s, "removing") /\ a = sweep[s].item
                   \/ SweepIs(s, "retrying") /\ a \in sweep[s].page
<1> USE DEF SweepStep, SweepFault
<1>0. /\ deletions \in [Artefact -> Nat] /\ recovered \in [Artefact -> Nat]
      /\ sweep \in [Sweepers -> SweepRecord]
      /\ SweepIs(s, "clearing") => sweep[s].item \in Artefact
  BY DEF EvidenceTypeOK, SweepRecord, SweepIs
<1>1. \A t \in Sweepers \ {s} : sweep'[t] = sweep[t]
  BY <1>0 DEF ReadDue, RemoveBytes, NoteOrphan, ReadOrphans, RecordRecovery, EndSweep, DeleteRow,
              RetryAccepted, RetryRefused, DeleteFails, SweepDies, SweepGoes
<1>2. CASE ReadDue(s) \/ ReadOrphans(s) \/ EndSweep(s) \/ SweepDies(s)
  BY <1>0, <1>1, <1>2 DEF ReadDue, ReadOrphans, EndSweep, SweepDies
<1>3. CASE RemoveBytes(s)
  BY <1>0, <1>1, <1>3 DEF RemoveBytes
<1>4. CASE NoteOrphan(s)
  BY <1>0, <1>1, <1>4 DEF NoteOrphan
<1>5. CASE RecordRecovery(s)
  BY <1>0, <1>1, <1>5 DEF RecordRecovery
<1>6. ASSUME NEW a \in Artefact, DeleteRow(s, a)
      PROVE  /\ capture' = capture /\ bytes' = bytes /\ rows' = rows \ {a} /\ orphanRows' = orphanRows
             /\ recovered' = recovered /\ SweepIs(s, "deleting") /\ a \in sweep[s].page
             /\ deletions' = [deletions EXCEPT ![a] = @ + 1]
  BY <1>6 DEF DeleteRow
<1>7. CASE \E a \in Artefact : DeleteRow(s, a)
  BY <1>0, <1>1, <1>6, <1>7
<1>8. CASE \E a \in Artefact : RetryAccepted(s, a) \/ RetryRefused(s, a) \/ DeleteFails(s, a)
  BY <1>0, <1>1, <1>8 DEF RetryAccepted, RetryRefused, DeleteFails
<1> QED BY <1>2, <1>3, <1>4, <1>5, <1>7, <1>8

LEMMA SweepKeepsCaptures ==
  ASSUME Owned, NEW s \in Sweepers, SweepStep(s) \/ SweepFault(s), NEW r \in Captures
  PROVE  CaptureFacts(r)'
<1>0. EvidenceTypeOK /\ CaptureFacts(r) /\ SweepFacts(s) /\ capture' = capture
  BY SweepEffect DEF Owned
<1>1. /\ \A a \in Of(r, Pieces) : a \in Artefact
      /\ Of(r, Pieces \ capture[r].left) \subseteq Of(r, Pieces)
  BY OwnArtefacts DEF Of
<1>2. ASSUME NEW a \in Artefact, Untouched(a)
      PROVE  Untouched(a)' /\ (a \in bytes => a \in bytes')
  <2>1. a \notin rows' /\ (deletions'[a] = deletions[a])
    BY <1>0, <1>2, SweepEffect DEF Untouched, SweepFacts, SweepIs, Deleting
  <2>2. a \notin orphanRows'
    BY <1>0, <1>2, SweepEffect DEF Untouched, SweepFacts, SweepIs, Removing
  <2>3. recovered'[a] = recovered[a]
    BY <1>0, <1>2, SweepEffect DEF Untouched, SweepFacts, SweepIs
  <2>4. a \in bytes => a \in bytes'
    BY <1>0, <1>2, SweepEffect DEF Untouched, SweepFacts, SweepIs, Removing, Retrying
  <2> QED BY <1>2, <2>1, <2>2, <2>3, <2>4 DEF Untouched
<1>3. ASSUME NEW a \in Artefact, a \notin rows, deletions[a] = 0
      PROVE  a \notin rows' /\ deletions'[a] = 0
  BY <1>0, <1>3, SweepEffect DEF SweepFacts, SweepIs, Deleting
<1> QED BY <1>0, <1>1, <1>2, <1>3 DEF CaptureFacts, Before

LEMMA SweepKeepsOthers ==
  ASSUME Owned, NEW s \in Sweepers, SweepStep(s) \/ SweepFault(s), NEW t \in Sweepers, t # s
  PROVE  SweepFacts(t)'
<1>0. /\ EvidenceTypeOK /\ SweepFacts(t) /\ sweep'[t] = sweep[t]
      /\ sweep[t].page \subseteq Artefact
      /\ sweep[t].at \in Removing => sweep[t].item \in Artefact
      /\ deletions \in [Artefact -> Nat]
  BY SweepEffect DEF Owned, EvidenceTypeOK, Removing
<1>1. /\ \A a \in Artefact : a \in rows \/ deletions[a] > 0 => a \in rows' \/ deletions'[a] > 0
      /\ \A a \in Artefact : deletions[a] > 0 => deletions'[a] > 0
      /\ orphanRows \subseteq orphanRows' /\ bytes' \subseteq bytes
  BY <1>0, SweepEffect
<1> QED BY <1>0, <1>1 DEF SweepFacts

LEMMA SweepKeepsOwn ==
  ASSUME Owned, NEW s \in Sweepers, SweepStep(s) \/ SweepFault(s)
  PROVE  SweepFacts(s)'
<1>0. /\ EvidenceTypeOK /\ SweepFacts(s) /\ sweep \in [Sweepers -> SweepRecord]
      /\ sweep[s].page \subseteq Artefact /\ deletions \in [Artefact -> Nat]
  BY DEF Owned, EvidenceTypeOK, SweepRecord
<1>1. CASE ReadDue(s)
  BY <1>0, <1>1 DEF ReadDue, SweepGoes, SweepFacts, Deleting, Removing, Retrying
<1>2. CASE RemoveBytes(s)
  BY <1>0, <1>2 DEF RemoveBytes, SweepGoes, SweepIs, SweepFacts, Deleting, Removing, Retrying
<1>3. CASE NoteOrphan(s)
  BY <1>0, <1>3 DEF NoteOrphan, SweepGoes, SweepIs, SweepFacts, Deleting, Removing, Retrying
<1>4. CASE ReadOrphans(s)
  BY <1>0, <1>4 DEF ReadOrphans, Unresolved, SweepGoes, SweepFacts, Deleting, Removing, Retrying
<1>5. CASE RecordRecovery(s)
  BY <1>0, <1>5 DEF RecordRecovery, SweepGoes, SweepIs, SweepFacts, Deleting, Removing, Retrying
<1>6. CASE EndSweep(s) \/ SweepDies(s)
  BY <1>0, <1>6 DEF EndSweep, SweepDies, Resting, SweepFacts, Deleting, Removing, Retrying
<1>7. ASSUME NEW a \in Artefact, DeleteRow(s, a)
      PROVE  SweepFacts(s)'
  <2>1. /\ sweep'[s] = [at |-> "removing", page |-> sweep[s].page \ {a}, item |-> a]
        /\ rows' = rows \ {a} /\ deletions'[a] > 0
        /\ \A b \in Artefact \ {a} : deletions'[b] = deletions[b]
    BY <1>0, <1>7 DEF DeleteRow, SweepGoes
  <2>2. \A b \in sweep[s].page : b \in rows \/ deletions[b] > 0
    BY <1>0, <1>7 DEF DeleteRow, SweepIs, SweepFacts, Deleting
  <2>3. \A b \in sweep'[s].page : b \in rows' \/ deletions'[b] > 0
    BY <1>0, <2>1, <2>2
  <2> QED BY <2>1, <2>3 DEF SweepFacts, Deleting, Removing, Retrying
<1>8. ASSUME NEW a \in Artefact, RetryAccepted(s, a)
      PROVE  SweepFacts(s)'
  <2>1. /\ sweep'[s] = [at |-> "clearing", page |-> sweep[s].page \ {a}, item |-> a]
        /\ bytes' = bytes \ {a} /\ orphanRows' = orphanRows
    BY <1>0, <1>8 DEF RetryAccepted, SweepGoes
  <2>2. a \in sweep[s].page /\ sweep[s].page \subseteq orphanRows
    BY <1>0, <1>8 DEF RetryAccepted, SweepIs, SweepFacts, Retrying
  <2> QED BY <2>1, <2>2 DEF SweepFacts, Deleting, Removing, Retrying
<1>9. ASSUME NEW a \in Artefact, RetryRefused(s, a) \/ DeleteFails(s, a)
      PROVE  SweepFacts(s)'
  BY <1>0, <1>9 DEF RetryRefused, DeleteFails, SweepGoes, SweepIs, SweepFacts,
                    Deleting, Removing, Retrying
<1> QED BY <1>1, <1>2, <1>3, <1>4, <1>5, <1>6, <1>7, <1>8, <1>9 DEF SweepStep, SweepFault

LEMMA SweepKeepsRows ==
  ASSUME Owned, NEW s \in Sweepers, SweepStep(s) \/ SweepFault(s), NEW a \in Artefact
  PROVE  RowFacts(a)'
<1>0. EvidenceTypeOK /\ RowFacts(a) /\ SweepFacts(s)
  BY DEF Owned
<1>1. ASSUME a \in rows'
      PROVE  a \in bytes' /\ a \notin orphanRows' /\ deletions'[a] = 0
  <2>1. a \in rows /\ a \in bytes /\ a \notin orphanRows /\ deletions[a] = 0
    BY <1>0, <1>1, SweepEffect DEF RowFacts
  <2>2. deletions'[a] = 0
    BY <1>0, <1>1, <2>1, SweepEffect
  <2>3. a \notin orphanRows' /\ a \in bytes'
    BY <1>0, <2>1, SweepEffect DEF SweepFacts, SweepIs, Removing, Retrying
  <2> QED BY <2>2, <2>3
<1>2. ASSUME recovered'[a] > 0
      PROVE  a \notin bytes' /\ a \in orphanRows'
  <2>1. CASE recovered[a] > 0
    BY <1>0, <2>1, SweepEffect DEF RowFacts
  <2>2. CASE recovered'[a] # recovered[a]
    BY <1>0, <2>2, SweepEffect DEF SweepFacts, SweepIs
  <2> QED BY <1>2, <2>1, <2>2
<1> QED BY <1>1, <1>2 DEF RowFacts

----------------------------------------------------------------------------
(* The invariant *)

LEMMA OwnedAtFirst ==
  ASSUME EvidenceInit
  PROVE  Owned
<1>1. EvidenceTypeOK
  BY EvidenceAssumption, NothingIsNoArtefact
     DEF EvidenceInit, EvidenceTypeOK, CaptureAt, SweepAt, Resting
<1>2. \A r \in Captures : CaptureFacts(r)
  BY OwnArtefacts DEF EvidenceInit, CaptureFacts, Before, Untouched, Of
<1>3. \A s \in Sweepers : SweepFacts(s)
  BY DEF EvidenceInit, SweepFacts, Resting, Deleting, Removing, Retrying
<1>4. \A a \in Artefact : RowFacts(a)
  BY DEF EvidenceInit, RowFacts
<1> QED BY <1>1, <1>2, <1>3, <1>4 DEF Owned

LEMMA OwnedKept ==
  ASSUME Owned, [EvidenceNext]_evidenceVars
  PROVE  Owned'
<1>0. EvidenceTypeOK
  BY DEF Owned
<1>1. ASSUME NEW r \in Captures, CaptureStep(r)
      PROVE  Owned'
  <2>1. \A q \in Captures : CaptureFacts(q)'
    BY <1>1, CaptureKeepsOwn, CaptureKeepsOthers
  <2>2. \A s \in Sweepers : SweepFacts(s)'
    BY <1>1, CaptureKeepsSweeps
  <2>3. \A a \in Artefact : RowFacts(a)'
    BY <1>1, CaptureKeepsRows
  <2>4. EvidenceTypeOK'
    BY <1>0, <1>1, CaptureStepTyped
  <2> QED BY <2>1, <2>2, <2>3, <2>4 DEF Owned
<1>2. ASSUME NEW s \in Sweepers, SweepStep(s) \/ SweepFault(s)
      PROVE  Owned'
  <2>1. \A q \in Captures : CaptureFacts(q)'
    BY <1>2, SweepKeepsCaptures
  <2>2. \A t \in Sweepers : SweepFacts(t)'
    BY <1>2, SweepKeepsOwn, SweepKeepsOthers
  <2>3. \A a \in Artefact : RowFacts(a)'
    BY <1>2, SweepKeepsRows
  <2>4. EvidenceTypeOK'
    BY <1>0, <1>2, SweepStepTyped
  <2> QED BY <2>1, <2>2, <2>3, <2>4 DEF Owned
<1>3. ASSUME NEW a \in Artefact, Expire(a)
      PROVE  Owned'
  <2>1. EvidenceTypeOK'
    BY <1>0, <1>3 DEF EvidenceTypeOK, Expire
  <2>2. /\ \A r \in Captures : CaptureFacts(r)'
        /\ \A s \in Sweepers : SweepFacts(s)'
        /\ \A b \in Artefact : RowFacts(b)'
    BY <1>3 DEF Owned, Expire, CaptureFacts, SweepFacts, RowFacts, Untouched
  <2> QED BY <2>1, <2>2 DEF Owned
<1>4. CASE UNCHANGED evidenceVars
  <2>1. EvidenceTypeOK'
    BY <1>0, <1>4 DEF EvidenceTypeOK, evidenceVars
  <2>2. /\ \A r \in Captures : CaptureFacts(r)'
        /\ \A s \in Sweepers : SweepFacts(s)'
        /\ \A b \in Artefact : RowFacts(b)'
    BY <1>4 DEF Owned, evidenceVars, CaptureFacts, SweepFacts, RowFacts, Untouched
  <2> QED BY <2>1, <2>2 DEF Owned
<1> QED BY <1>1, <1>2, <1>3, <1>4 DEF EvidenceNext

LEMMA AlwaysOwned ==
  EvidenceSpec => []Owned
BY OwnedAtFirst, OwnedKept, PTL DEF EvidenceSpec

\* The state of the object store, the table and both processes keeps its types.
THEOREM EvidenceTypeCorrect ==
  EvidenceSpec => []EvidenceTypeOK
<1>1. Owned => EvidenceTypeOK
  BY DEF Owned
<1> QED BY <1>1, AlwaysOwned, PTL

\* A row of public.evidence has its bytes in the store, for any number of runs
\* and sweeping processes, whatever is refused and whoever dies.
THEOREM RowsKeepTheirBytes ==
  EvidenceSpec => []EveryRowHasItsBytes
<1>1. Owned => EveryRowHasItsBytes
  BY DEF Owned, EvidenceTypeOK, RowFacts, EveryRowHasItsBytes
<1> QED BY <1>1, AlwaysOwned, PTL

\* A deletion record, a recovery and an orphan's audit row each say what is so.
THEOREM RecordsStayTrue ==
  EvidenceSpec => []RecordsAreTrue
<1>1. Owned => RecordsAreTrue
  BY DEF Owned, EvidenceTypeOK, RowFacts, RecordsAreTrue
<1> QED BY <1>1, AlwaysOwned, PTL

----------------------------------------------------------------------------
(* What is held is not forgotten *)

Accounted(a) == a \in bytes => a \in rows \/ a \in Unresolved \/ InHand(a) \/ a \in dropped

\* A step of a run accounts for every artefact it leaves in the store.
LEMMA CaptureAccounts ==
  ASSUME Owned, NEW r \in Captures, CaptureStep(r), NEW a \in Artefact, Accounted(a)
  PROVE  Accounted(a)'
<1>0. /\ EvidenceTypeOK /\ CaptureFacts(r) /\ RowFacts(a)
      /\ capture \in [Captures -> CaptureRecord]
      /\ capture[r].left \in SUBSET Pieces /\ capture[r].refused \in SUBSET Pieces
      /\ recovered \in [Artefact -> Nat]
  BY DEF Owned, EvidenceTypeOK, CaptureRecord
<1>1. /\ sweep' = sweep /\ recovered' = recovered
      /\ \A q \in Captures \ {r} : capture'[q] = capture[q]
      /\ rows \subseteq rows' /\ orphanRows \subseteq orphanRows'
  BY <1>0, CaptureEffect
<1>2. dropped \subseteq dropped'
  BY DEF CaptureStep, StoreArtefact, StoreFails, CommitRows, RollBack, LoseConnection,
         CleanOne, Cleaned, RecordAbandoned, Rethrow, CaptureDies, Drop
<1>3. SUFFICES ASSUME a \in bytes'
               PROVE  a \in rows' \/ a \in Unresolved' \/ InHand(a)' \/ a \in dropped'
  BY DEF Accounted
<1>4. a \in Unresolved => a \in Unresolved'
  BY <1>1 DEF Unresolved
<1>5. CASE a[1] # r
  <2>1. a \notin Of(r, Pieces)
    BY <1>5 DEF Of
  <2>2. a \in bytes
    BY <1>0, <1>3, <2>1, CaptureEffect
  <2>3. InHand(a) => InHand(a)'
    BY <1>1, <1>5 DEF InHand, CaptureIs
  <2> QED BY <1>1, <1>2, <1>4, <2>2, <2>3 DEF Accounted
<1>6. CASE a[1] = r
  <2>0. PICK p \in Pieces : a = <<r, p>>
    BY <1>6 DEF Artefact
  <2>00. a \in Of(r, Pieces) /\ a[2] = p
    BY <2>0 DEF Of
  <2> DEFINE Holds(c) == \/ c.at \in {"storing", "writing"}
                         \/ c.at = "cleaning" /\ p \in c.left \cup c.refused
                         \/ c.at = "recording" /\ p \in c.left
  <2>1. Holds(capture'[r]) => InHand(a)'
    BY <1>6, <2>00 DEF InHand, CaptureIs
  <2>2. (\E s \in Sweepers : sweep[s].at \in {"removing", "noting"} /\ sweep[s].item = a) => InHand(a)'
    BY <1>1 DEF InHand
  <2>3. InHand(a) =>
          \/ Holds(capture[r])
          \/ \E s \in Sweepers : sweep[s].at \in {"removing", "noting"} /\ sweep[s].item = a
    BY <1>6, <2>00 DEF InHand, CaptureIs
  <2>4. SUFFICES ASSUME a \in bytes => Holds(capture[r])
                 PROVE  a \in rows' \/ Holds(capture'[r]) \/ a \in Unresolved' \/ a \in dropped'
    BY <1>1, <1>2, <1>4, <2>1, <2>2, <2>3 DEF Accounted
  <2>5. CASE StoreArtefact(r)
    <3>1. capture'[r].at \in {"storing", "writing"}
      BY <1>0, <2>5 DEF StoreArtefact, CaptureGoes, AfterStoring
    <3> QED BY <3>1
  <2>6. CASE StoreFails(r)
    BY <1>3, <2>00, <2>6 DEF StoreFails, Drop
  <2>7. CASE CommitRows(r)
    BY <2>00, <2>7 DEF CommitRows
  <2>8. CASE RollBack(r)
    BY <1>0, <2>8 DEF RollBack, CaptureGoes
  <2>9. CASE LoseConnection(r)
    BY <1>3, <2>00, <2>9 DEF LoseConnection, Drop
  <2>10. CASE CleanOne(r)
    <3>1. p \in capture[r].left \cup capture[r].refused
      BY <1>3, <2>4, <2>10 DEF CleanOne, CaptureIs
    <3>2. PICK q \in capture[r].left :
            \/ /\ bytes' = bytes \ {<<r, q>>}
               /\ CaptureGoes(r, "cleaning", capture[r].left \ {q}, capture[r].refused)
            \/ CaptureGoes(r, "cleaning", capture[r].left \ {q}, capture[r].refused \cup {q})
      BY <2>10 DEF CleanOne
    <3>3. Holds(capture'[r])
      BY <1>0, <1>3, <2>0, <3>1, <3>2 DEF CaptureGoes
    <3> QED BY <3>3
  <2>11. CASE Cleaned(r)
    <3>1. p \in capture[r].refused
      BY <1>3, <2>4, <2>11 DEF Cleaned, CaptureIs
    <3>2. Holds(capture'[r])
      BY <1>0, <2>11, <3>1 DEF Cleaned, CaptureGoes
    <3> QED BY <3>2
  <2>12. CASE RecordAbandoned(r)
    <3>1. p \in capture[r].left
      BY <1>3, <2>4, <2>12 DEF RecordAbandoned, CaptureIs
    <3>2. PICK q \in capture[r].left :
            /\ CaptureGoes(r, "recording", capture[r].left \ {q}, {})
            /\ \/ orphanRows' = orphanRows \cup {<<r, q>>}
               \/ Drop({<<r, q>>})
      BY <2>12 DEF RecordAbandoned
    <3>3. CASE q # p
      <4>1. Holds(capture'[r])
        BY <1>0, <3>1, <3>2, <3>3 DEF CaptureGoes
      <4> QED BY <4>1
    <3>4. CASE q = p
      <4>1. a \in bytes /\ recovered[a] = 0
        BY <1>0, <1>3, <2>12 DEF RecordAbandoned, RowFacts
      <4>2. a \in orphanRows' \/ a \in dropped'
        BY <2>0, <3>2, <3>4, <4>1 DEF Drop
      <4> QED BY <1>1, <4>1, <4>2 DEF Unresolved
    <3> QED BY <3>3, <3>4
  <2>13. CASE Rethrow(r)
    BY <1>3, <2>4, <2>13 DEF Rethrow, CaptureIs
  <2>14. CASE CaptureDies(r)
    <3>1. a \in bytes /\ rows' = rows /\ orphanRows' = orphanRows
      BY <1>3, <2>14 DEF CaptureDies
    <3>2. a \in orphanRows \/ a \in rows \/ a \in dropped'
      BY <2>00, <2>14, <3>1 DEF CaptureDies, Drop
    <3>3. recovered[a] = 0
      BY <1>0, <3>1 DEF RowFacts
    <3> QED BY <1>1, <3>1, <3>2, <3>3 DEF Unresolved
  <2> QED BY <2>5, <2>6, <2>7, <2>8, <2>9, <2>10, <2>11, <2>12, <2>13, <2>14 DEF CaptureStep
<1> QED BY <1>5, <1>6

\* A step of a sweep does too: what it takes out of the table it has in hand.
LEMMA SweepAccounts ==
  ASSUME Owned, NEW s \in Sweepers, SweepStep(s) \/ SweepFault(s), NEW a \in Artefact,
         Accounted(a)
  PROVE  Accounted(a)'
<1>0. /\ EvidenceTypeOK /\ SweepFacts(s) /\ RowFacts(a)
      /\ sweep \in [Sweepers -> SweepRecord] /\ recovered \in [Artefact -> Nat]
  BY DEF Owned, EvidenceTypeOK, SweepRecord
<1>1. /\ capture' = capture /\ bytes' \subseteq bytes
      /\ \A t \in Sweepers \ {s} : sweep'[t] = sweep[t]
      /\ orphanRows \subseteq orphanRows'
  BY <1>0, SweepEffect
<1>2. dropped \subseteq dropped'
  BY DEF SweepStep, SweepFault, ReadDue, RemoveBytes, NoteOrphan, ReadOrphans, RecordRecovery,
         EndSweep, DeleteRow, RetryAccepted, RetryRefused, DeleteFails, SweepDies, Drop
<1>3. SUFFICES ASSUME a \in bytes'
               PROVE  a \in rows' \/ a \in Unresolved' \/ InHand(a)' \/ a \in dropped'
  BY DEF Accounted
<1>4. a \in bytes /\ recovered'[a] = 0
  <2>1. a \in bytes /\ recovered[a] = 0
    BY <1>0, <1>1, <1>3 DEF RowFacts
  <2> QED BY <1>0, <1>3, <2>1, SweepEffect DEF SweepFacts, SweepIs
<1>5. a \in orphanRows' => a \in Unresolved'
  BY <1>4 DEF Unresolved
<1> DEFINE Taken(c) == c.at \in {"removing", "noting"} /\ c.item = a
<1>6. Taken(sweep'[s]) => InHand(a)'
  BY DEF InHand
<1>7. InHand(a) => InHand(a)' \/ Taken(sweep[s])
  BY <1>1 DEF InHand, CaptureIs
<1>8. CASE Taken(sweep[s])
  <2>1. CASE RemoveBytes(s)
    BY <1>0, <1>3, <1>6, <1>8, <2>1 DEF RemoveBytes, SweepGoes
  <2>2. CASE NoteOrphan(s)
    BY <1>4, <1>5, <1>8, <2>2 DEF NoteOrphan, Drop
  <2>3. CASE SweepDies(s)
    BY <1>4, <1>8, <2>3 DEF SweepDies, Drop
  <2> QED BY <1>8, <2>1, <2>2, <2>3
          DEF SweepStep, SweepFault, ReadDue, ReadOrphans, RecordRecovery, EndSweep, DeleteRow,
              RetryAccepted, RetryRefused, DeleteFails, SweepIs
<1>9. CASE a \in rows \ rows'
  <2>1. DeleteRow(s, a)
    BY <1>9 DEF SweepStep, SweepFault, ReadDue, RemoveBytes, NoteOrphan, ReadOrphans,
             RecordRecovery, EndSweep, DeleteRow, RetryAccepted, RetryRefused, DeleteFails, SweepDies
  <2>2. Taken(sweep'[s])
    BY <1>0, <2>1 DEF DeleteRow, SweepGoes
  <2> QED BY <1>6, <2>2
<1> QED BY <1>1, <1>2, <1>4, <1>5, <1>7, <1>8, <1>9 DEF Accounted, Unresolved

LEMMA AccountedKept ==
  ASSUME Owned, \A a \in Artefact : Accounted(a), [EvidenceNext]_evidenceVars
  PROVE  (\A a \in Artefact : Accounted(a))'
<1>1. SUFFICES ASSUME NEW a \in Artefact
               PROVE  Accounted(a)'
  OBVIOUS
<1>2. CASE \E r \in Captures : CaptureStep(r)
  BY <1>2, CaptureAccounts
<1>3. CASE \E s \in Sweepers : SweepStep(s) \/ SweepFault(s)
  BY <1>3, SweepAccounts
<1>4. CASE \E b \in Artefact : Expire(b)
  BY <1>4 DEF Expire, Accounted, InHand, Unresolved, CaptureIs
<1>5. CASE UNCHANGED evidenceVars
  BY <1>5 DEF evidenceVars, Accounted, InHand, Unresolved, CaptureIs
<1> QED BY <1>2, <1>3, <1>4, <1>5 DEF EvidenceNext

\* Whatever the object store holds is named by a row, by an orphan still to be
\* retried or by a process at work on it, unless a step that was interrupted
\* let go of it.
THEOREM HeldIsFoundAgain ==
  EvidenceSpec => []NothingHeldIsForgotten
<1>1. EvidenceInit => \A a \in Artefact : Accounted(a)
  BY DEF EvidenceInit, Accounted
<1>2. Owned /\ (\A a \in Artefact : Accounted(a)) => NothingHeldIsForgotten
  BY DEF Owned, EvidenceTypeOK, Accounted, NothingHeldIsForgotten
<1>3. EvidenceSpec => [](\A a \in Artefact : Accounted(a))
  BY <1>1, AccountedKept, AlwaysOwned, PTL DEF EvidenceSpec
<1> QED BY <1>2, <1>3, AlwaysOwned, PTL

----------------------------------------------------------------------------
(* A retry stops *)

LEMMA RetriersAreFew ==
  ASSUME NEW a
  PROVE  IsFiniteSet(Retriers(a)) /\ Cardinality(Retriers(a)) <= Cardinality(Sweepers)
<1>1. Retriers(a) \in SUBSET Sweepers
  BY DEF Retriers
<1> QED BY <1>1, EvidenceAssumption, FS_Subset

\* Only reading the orphans adds a process that may record a recovery, and it
\* reads what nobody has recovered yet; a process that records one has done so.
LEMMA CountKept ==
  ASSUME Owned, NEW a \in Artefact, Counted(a), [EvidenceNext]_evidenceVars
  PROVE  Counted(a)'
<1>0. /\ EvidenceTypeOK /\ recovered \in [Artefact -> Nat]
      /\ sweep \in [Sweepers -> SweepRecord]
  BY DEF Owned, EvidenceTypeOK, SweepRecord
<1>1. /\ IsFiniteSet(Retriers(a)) /\ Cardinality(Retriers(a)) \in Nat
      /\ IsFiniteSet(Sweepers) /\ Cardinality(Sweepers) \in Nat
  BY RetriersAreFew, EvidenceAssumption, FS_CardinalityType
<1>2. ASSUME Retriers(a)' \subseteq Retriers(a), recovered'[a] = recovered[a]
      PROVE  Counted(a)'
  <2>1. Retriers(a)' \in SUBSET Retriers(a)
    BY <1>2
  <2>2. /\ Cardinality(Retriers(a)') <= Cardinality(Retriers(a))
        /\ Cardinality(Retriers(a)') \in Nat
    BY <1>1, <2>1, FS_Subset, FS_CardinalityType
  <2> QED BY <1>0, <1>1, <1>2, <2>2 DEF Counted
<1>3. ASSUME NEW s \in Sweepers, SweepStep(s) \/ SweepFault(s)
      PROVE  Counted(a)'
  <2>0. /\ SweepFacts(s) /\ \A t \in Sweepers \ {s} : sweep'[t] = sweep[t]
        /\ sweep[s].item \in Artefact \cup {Nothing} /\ a # Nothing
    BY <1>0, <1>3, SweepEffect, NothingIsNoArtefact DEF Owned, EvidenceTypeOK
  <2> DEFINE Asks(c) == c.at \in Retrying /\ (a \in c.page \/ a = c.item)
  <2>1. ASSUME Asks(sweep'[s]) => Asks(sweep[s]), recovered'[a] = recovered[a]
        PROVE  Counted(a)'
    <3>1. Retriers(a)' \subseteq Retriers(a)
      BY <2>0, <2>1 DEF Retriers
    <3> QED BY <1>2, <2>1, <3>1
  <2>2. CASE ReadOrphans(s)
    <3>1. CASE recovered[a] = 0
      <4>1. recovered'[a] = 0
        BY <2>2, <3>1 DEF ReadOrphans
      <4>2. Retriers(a)' \in SUBSET Sweepers
        BY DEF Retriers
      <4>3. Cardinality(Retriers(a)') <= Cardinality(Sweepers) /\ Cardinality(Retriers(a)') \in Nat
        BY <1>1, <4>2, FS_Subset, FS_CardinalityType
      <4> QED BY <4>1, <4>3 DEF Counted
    <3>2. CASE recovered[a] # 0
      <4>1. ~Asks(sweep'[s])
        BY <1>0, <2>0, <2>2, <3>2 DEF ReadOrphans, SweepGoes, Unresolved
      <4> QED BY <2>1, <2>2, <4>1 DEF ReadOrphans
    <3> QED BY <3>1, <3>2
  <2>3. CASE RecordRecovery(s)
    <3>1. /\ sweep'[s] = [at |-> "retrying", page |-> sweep[s].page, item |-> Nothing]
          /\ sweep[s].at = "clearing" /\ sweep[s].item \notin sweep[s].page
          /\ sweep[s].item \in Artefact
      BY <1>0, <2>0, <2>3 DEF RecordRecovery, SweepIs, SweepGoes, SweepFacts, EvidenceTypeOK
    <3>2. CASE recovered'[a] = recovered[a]
      <4>1. Asks(sweep'[s]) => Asks(sweep[s])
        BY <2>0, <3>1 DEF Retrying
      <4> QED BY <2>1, <3>2, <4>1
    <3>3. CASE recovered'[a] # recovered[a]
      <4>1. a = sweep[s].item /\ recovered'[a] = recovered[a] + 1
        BY <1>0, <1>3, <3>3, SweepEffect
      <4>2. s \in Retriers(a) /\ s \notin Retriers(a)'
        BY <2>0, <3>1, <4>1 DEF Retriers, Retrying
      <4>3. Retriers(a)' \subseteq Retriers(a) \ {s}
        BY <2>0, <4>2 DEF Retriers
      <4>4. /\ IsFiniteSet(Retriers(a) \ {s})
            /\ Cardinality(Retriers(a) \ {s}) = Cardinality(Retriers(a)) - 1
        BY <1>1, <4>2, FS_RemoveElement
      <4>5. Retriers(a)' \in SUBSET (Retriers(a) \ {s})
        BY <4>3
      <4>6. /\ Cardinality(Retriers(a)') <= Cardinality(Retriers(a)) - 1
            /\ Cardinality(Retriers(a)') \in Nat
        BY <4>4, <4>5, FS_Subset, FS_CardinalityType
      <4> QED BY <1>0, <1>1, <4>1, <4>6 DEF Counted
    <3> QED BY <3>2, <3>3
  <2>4. CASE \E b \in Artefact : RetryAccepted(s, b) \/ RetryRefused(s, b)
    <3>1. PICK b \in Artefact : RetryAccepted(s, b) \/ RetryRefused(s, b)
      BY <2>4
    <3>2. /\ recovered' = recovered /\ sweep[s].at = "retrying" /\ b \in sweep[s].page
          /\ \/ sweep'[s] = [at |-> "clearing", page |-> sweep[s].page \ {b}, item |-> b]
             \/ sweep'[s] = [at |-> "retrying", page |-> sweep[s].page \ {b}, item |-> Nothing]
      BY <1>0, <3>1 DEF RetryAccepted, RetryRefused, SweepIs, SweepGoes
    <3>3. Asks(sweep'[s]) => Asks(sweep[s])
      BY <2>0, <3>2 DEF Retrying
    <3> QED BY <2>1, <3>2, <3>3
  <2>5. CASE \/ ReadDue(s) \/ RemoveBytes(s) \/ NoteOrphan(s) \/ EndSweep(s) \/ SweepDies(s)
             \/ \E b \in Artefact : DeleteRow(s, b) \/ DeleteFails(s, b)
    <3>1. sweep'[s].at \notin Retrying /\ recovered' = recovered
      BY <1>0, <2>5 DEF ReadDue, RemoveBytes, NoteOrphan, EndSweep, SweepDies, DeleteRow,
                        DeleteFails, SweepGoes, Resting, Retrying
    <3> QED BY <2>1, <3>1
  <2> QED BY <1>3, <2>2, <2>3, <2>4, <2>5 DEF SweepStep, SweepFault
<1>4. CASE \E r \in Captures : CaptureStep(r)
  <2>1. sweep' = sweep /\ recovered' = recovered
    BY <1>0, <1>4, CaptureEffect
  <2> QED BY <1>2, <2>1 DEF Retriers
<1>5. CASE (\E b \in Artefact : Expire(b)) \/ UNCHANGED evidenceVars
  <2>1. sweep' = sweep /\ recovered' = recovered
    BY <1>5 DEF Expire, evidenceVars
  <2> QED BY <1>2, <2>1 DEF Retriers
<1> QED BY <1>3, <1>4, <1>5 DEF EvidenceNext

\* However many sweeps run, and however often, a path is claimed as recovered
\* no more often than there are processes that sweep.
THEOREM RecoveryIsClaimedSparingly ==
  EvidenceSpec => []RetryStops
<1>1. ASSUME EvidenceInit, NEW a \in Artefact
      PROVE  Counted(a)
  <2>1. recovered[a] = 0 /\ Cardinality(Retriers(a)) \in Nat /\ Cardinality(Sweepers) \in Nat
    BY <1>1, RetriersAreFew, EvidenceAssumption, FS_CardinalityType DEF EvidenceInit
  <2> QED BY <2>1, RetriersAreFew DEF Counted
<1>2. Owned /\ (\A a \in Artefact : Counted(a)) => RetryStops
  <2>1. SUFFICES ASSUME Owned, NEW a \in Artefact, Counted(a)
                 PROVE  recovered[a] <= Cardinality(Sweepers)
    BY DEF RetryStops
  <2>2. recovered[a] \in Nat
    BY <2>1 DEF Owned, EvidenceTypeOK
  <2>3. Cardinality(Retriers(a)) \in Nat /\ Cardinality(Sweepers) \in Nat
    BY RetriersAreFew, EvidenceAssumption, FS_CardinalityType
  <2> QED BY <2>1, <2>2, <2>3 DEF Counted
<1>3. EvidenceInit => \A a \in Artefact : Counted(a)
  BY <1>1
<1>4. Owned /\ (\A a \in Artefact : Counted(a)) /\ [EvidenceNext]_evidenceVars
        => (\A a \in Artefact : Counted(a))'
  BY CountKept
<1>5. EvidenceSpec => [](\A a \in Artefact : Counted(a))
  BY <1>3, <1>4, AlwaysOwned, PTL DEF EvidenceSpec
<1> QED BY <1>2, <1>5, AlwaysOwned, PTL
============================================================================
