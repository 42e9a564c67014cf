--------------------------- MODULE RepositoryScan ---------------------------
(***************************************************************************)
(* What static_intake says of a repository, and what it says it did not    *)
(* read: the clone with its time and size limits, the walk with its        *)
(* ceiling, the scan for credentials, the dependency check with its        *)
(* manifests and lockfile, the licence and the environment files.          *)
(*                                                                         *)
(* The tree is a sequence of entries in the order the walk meets them,     *)
(* chosen as it is walked; what a file holds is true whether or not it is  *)
(* read.  A check that finds nothing is a tick on the visitor's list, so   *)
(* the question is what silence can stand for.                             *)
(*                                                                         *)
(* Abstracted: patterns, severities and wording; one package, with one     *)
(* advisory, stands for them all; a version has two parts.                 *)
(***************************************************************************)
EXTENDS Naturals, Sequences, FiniteSets

CONSTANTS
  Entries,       \* what the walk may meet: a set of Entry
  Lockfiles,     \* what the root's lockfile may list: sequences of versions
  Affected,      \* the advisory: versions before this one
  Radix,         \* a part of a version weighs this many of the next: 1_000
  MaxFiles,      \* MAX_FILES
  MaxManifests,  \* MAX_MANIFESTS
  MaxEntries     \* bound: entries of a tree

EntryKind == {"text", "typed", "binary", "nameless", "large", "link", "skipped directory",
         "closed directory", "gone"}
Version == Nat \X Nat

\* A version, or the first version of a range, that is not of three numbers: "latest",
\* "*", "4.x", "file:..".
Illegible == <<>>
Legibly == Version \cup {Illegible}

\* "version" is the lowest the declaration permits, "named" the first that its text
\* names: what a pinned one permits, and any other or none where it is a range.
Declaration ==
  {d \in [pinned: BOOLEAN, version: Version, named: Legibly, parses: BOOLEAN, depth: 0..2] :
     d.pinned => d.named = d.version}
Undeclared == [pinned |-> TRUE, version |-> <<0, 0>>, named |-> <<0, 0>>, parses |-> TRUE, depth |-> 0]
Entry == [kind: EntryKind, name: {"ordinary", "example", "env", "manifest", "licence"},
          secret: BOOLEAN, opens: BOOLEAN, declares: Declaration]

ASSUME ScanAssumption ==
  /\ Entries \subseteq Entry /\ Lockfiles \subseteq Seq(Legibly) /\ Affected \in Version
  /\ Affected[2] < Radix /\ Radix \in Nat \ {0} /\ MaxFiles \in Nat \ {0} /\ MaxManifests \in Nat \ {0}
  /\ MaxEntries \in Nat

VARIABLES
  clone,     \* where the clone is, how large, and whether its directory is on disk
  tree,      \* the entries met so far
  lockfile,
  scan,      \* the step the stage has come to
  answer     \* findings, notes, criteria not tested, status

scanVars == <<clone, tree, lockfile, scan, answer>>

----------------------------------------------------------------------------

NothingSaid == [charged |-> {}, examples |-> {}, environment |-> {}, matched |-> {},
            notes |-> {}, notTested |-> {}, status |-> "none"]
Note == {"unavailable", "too large", "links", "directories", "stopped", "types",
         "unreadable", "no manifest", "unparsed", "manifests left", "licence unknown",
         "nothing found", "nothing opened"}
Index == 1..MaxEntries

ScanTypeOK ==
  /\ clone \in [at: {"asked", "cloning", "cloned", "refused"}, over: BOOLEAN, disk: BOOLEAN]
  /\ tree \in Seq(Entries) /\ Len(tree) <= MaxEntries /\ lockfile \in Lockfiles
  /\ scan \in {"clone", "walk", "credentials", "dependencies", "licence", "done"}
  /\ answer \in [charged: SUBSET Index, examples: SUBSET Index, environment: SUBSET Index,
                 matched: SUBSET (Index \X BOOLEAN), notes: SUBSET Note,
                 notTested: SUBSET {"SEC-10"},
                 status: {"none", "skipped", "failed", "succeeded"}]

ScanInit ==
  /\ clone = [at |-> "asked", over |-> FALSE, disk |-> FALSE]
  /\ tree = <<>> /\ lockfile \in Lockfiles /\ scan = "clone" /\ answer = NothingSaid

----------------------------------------------------------------------------
(* Fetching                                                                 *)

CloneFrame == UNCHANGED <<tree, lockfile>>
Unavailable == [NothingSaid EXCEPT !.notes = {"unavailable"}, !.notTested = {"SEC-10"},
                               !.status = "failed"]

\* No repository is in the authorisation, or the URL is refused: nothing is written.
NotFetched ==
  /\ clone.at = "asked"
  /\ clone' = [clone EXCEPT !.at = "refused"]
  /\ scan' = "done" /\ CloneFrame
  /\ \/ answer' = Unavailable
     \/ answer' = [Unavailable EXCEPT !.notes = {}, !.status = "skipped"]

BeginClone ==
  /\ clone.at = "asked"
  /\ clone' = [clone EXCEPT !.at = "cloning", !.disk = TRUE]
  /\ UNCHANGED <<scan, answer>> /\ CloneFrame

CloneGrows ==
  /\ clone.at = "cloning" /\ ~clone.over /\ clone' = [clone EXCEPT !.over = TRUE]
  /\ UNCHANGED <<scan, answer>> /\ CloneFrame

\* The first of: the timer, a poll that finds it too large, git that fails, a
\* directory that cannot be measured when git has ended.
CloneFails ==
  /\ clone.at = "cloning"
  /\ clone' = [clone EXCEPT !.at = "refused", !.disk = FALSE]
  /\ scan' = "done" /\ answer' = Unavailable /\ CloneFrame

\* NothingSaid asks the size again once git has ended: one that outgrew the ceiling
\* after the last poll is kept.
CloneEnds ==
  /\ clone.at = "cloning"
  /\ clone' = [clone EXCEPT !.at = "cloned"]
  /\ scan' = "walk" /\ UNCHANGED answer /\ CloneFrame

----------------------------------------------------------------------------
(* The walk                                                                 *)

Kept(e) == e.kind = "text"
KeptBefore(n) == {i \in 1..(n - 1) : Kept(tree[i])}

\* The walk stops for good at the file that fills it.
Reached(n) == Cardinality(KeptBefore(n)) < MaxFiles
Files == {i \in DOMAIN tree : Reached(i) /\ Kept(tree[i])}
Truncated == Cardinality(Files) = MaxFiles

Visit(e) ==
  /\ scan = "walk" /\ Len(tree) < MaxEntries
  /\ tree' = Append(tree, e)
  /\ UNCHANGED <<clone, lockfile, scan, answer>>

Met(kind) == \E i \in DOMAIN tree : Reached(i) /\ tree[i].kind = kind

\* Mistake: where the walk stopped is not said.
CoverageGapOfEntries ==
  {note \in {"too large", "links", "directories", "types"} :
     \/ note = "too large" /\ Met("large")
     \/ note = "links" /\ Met("link")
     \/ note = "directories" /\ Met("closed directory")
     \/ note = "types" /\ Met("typed")}

\* Files of a type known to be binary, without an extension, in a directory passed
\* over, or gone when asked about, are in no count.
CoverageGap ==
  {note \in {"too large", "links", "directories", "stopped", "types"} :
     \/ note = "too large" /\ Met("large")
     \/ note = "links" /\ Met("link")
     \/ note = "directories" /\ Met("closed directory")
     \/ note = "stopped" /\ Truncated
     \/ note = "types" /\ Met("typed")}

Stays == UNCHANGED <<clone, tree, lockfile>>

EndWalk ==
  /\ scan = "walk" /\ Stays
  /\ IF Files = {}
     THEN /\ scan' = "done"
          /\ answer' = [answer EXCEPT !.notes = CoverageGap \cup {"nothing found"},
                                      !.notTested = {"SEC-10"}, !.status = "failed"]
     ELSE scan' = "credentials" /\ answer' = [answer EXCEPT !.notes = CoverageGap]

----------------------------------------------------------------------------
(* The checks                                                               *)

Unreadable == {i \in Files : ~tree[i].opens}

\* A hit in an example file is a note.
ScanForCredentials ==
  LET hits == {i \in Files \ Unreadable : tree[i].secret}
      examples == {i \in hits : tree[i].name = "example"} IN
  /\ scan = "credentials" /\ scan' = "dependencies" /\ Stays
  /\ answer' = [answer EXCEPT
       !.charged = hits \ examples, !.examples = examples,
       !.notes = @ \cup (IF Unreadable = {} THEN {} ELSE {"unreadable"})]

Manifests == {i \in Files : tree[i].name = "manifest"}

\* The nearest to the root, then by name: any of one depth.
Read(read) ==
  /\ read \subseteq Manifests
  /\ Cardinality(read) = MaxManifests \/ read = Manifests
  /\ Cardinality(read) <= MaxManifests
  /\ \A i \in read, j \in Manifests \ read : tree[i].declares.depth <= tree[j].declares.depth

\* Mistake: the parts of a version are compared one by one.
BelowByPart(v, bound) == v[1] < bound[1] /\ v[2] < bound[2]

\* A version is compared as one number.
Below(v, bound) == v[1] * Radix + v[2] < bound[1] * Radix + bound[2]

\* The first version the lockfile lists is the installed one, whoever installs it;
\* without a lockfile a range stands for the first version it names.  What is not
\* legible is not below anything, and not a word is said of it.
Consulted(i) == IF lockfile # <<>> THEN Head(lockfile) ELSE tree[i].declares.named
Matches(i) == Consulted(i) # Illegible /\ Below(Consulted(i), Affected)
Certain(i) == lockfile # <<>> \/ tree[i].declares.pinned

CheckDependencies ==
  /\ scan = "dependencies" /\ scan' = "licence" /\ Stays
  /\ \E read \in SUBSET Manifests :
       LET parsed == {i \in read : tree[i].opens /\ tree[i].declares.parses} IN
       /\ Read(read)
       /\ IF parsed = {}
          THEN answer' = [answer EXCEPT !.notes = @ \cup {"no manifest"}, !.notTested = {"SEC-10"}]
          ELSE answer' = [answer EXCEPT
                 !.matched = {<<i, Certain(i)>> : i \in {j \in parsed : Matches(j)}},
                 !.notes = @ \cup (IF parsed = read THEN {} ELSE {"unparsed"})
                             \cup (IF read = Manifests THEN {} ELSE {"manifests left"})]

\* An environment file is charged once: one with a hit already was.
CommittedEnvironment ==
  {i \in Files : tree[i].name = "env"} \ (answer.charged \cup answer.examples)

\* PRD-04 is information only; what it could not read is a note.
LicenceUnknown ==
  /\ \E i \in DOMAIN tree : tree[i].name = "manifest" /\ tree[i].declares.depth = 1
                            /\ ~(tree[i].opens /\ tree[i].declares.parses)
  /\ ~\E i \in DOMAIN tree : tree[i].name = "licence"

CheckLicence ==
  /\ scan = "licence" /\ scan' = "done" /\ Stays
  /\ answer' = [answer EXCEPT
       !.environment = CommittedEnvironment,
       !.notes = @ \cup (IF LicenceUnknown THEN {"licence unknown"} ELSE {})
                   \cup (IF Unreadable = Files THEN {"nothing opened"} ELSE {}),
       !.status = IF Unreadable = Files THEN "failed" ELSE "succeeded"]

\* The finally around the pipeline.
Dispose ==
  /\ scan = "done" /\ clone.at = "cloned" /\ clone.disk
  /\ clone' = [clone EXCEPT !.disk = FALSE]
  /\ UNCHANGED <<tree, lockfile, scan, answer>>

ScanNext ==
  \/ NotFetched \/ BeginClone \/ CloneGrows \/ CloneFails \/ CloneEnds
  \/ \E e \in Entries : Visit(e)
  \/ EndWalk \/ ScanForCredentials \/ CheckDependencies \/ CheckLicence \/ Dispose

ScanSpec == ScanInit /\ [][ScanNext]_scanVars

----------------------------------------------------------------------------
(* Properties                                                               *)

Precedes(v, bound) == v[1] < bound[1] \/ (v[1] = bound[1] /\ v[2] < bound[2])

\* What the walk passes over without a word.
PassedOver(i) == tree[i].kind \in {"binary", "nameless", "skipped directory", "gone"}
NoteOf == [large |-> "too large", link |-> "links", typed |-> "types"]
SaidUnread(i) ==
  \/ ~Reached(i) /\ "stopped" \in answer.notes
  \/ tree[i].kind \in DOMAIN NoteOf /\ NoteOf[tree[i].kind] \in answer.notes
  \/ tree[i].kind = "closed directory" /\ "directories" \in answer.notes
  \/ i \in Files /\ ~tree[i].opens /\ "unreadable" \in answer.notes

\* The tree's own version is affected, whatever the check makes of it.
Vulnerable(i) ==
  /\ tree[i].name = "manifest" /\ Precedes(tree[i].declares.version, Affected)
  /\ \A n \in DOMAIN lockfile : lockfile[n] # Illegible => Precedes(lockfile[n], Affected)

\* The check has the version before it: the installed one is legible, or the range
\* names first the lowest it permits.
Legible(i) ==
  IF lockfile # <<>> THEN Head(lockfile) # Illegible
  ELSE tree[i].declares.named = tree[i].declares.version

\* A version is told apart from the next part's only below the radix.
Comparable ==
  /\ \A n \in DOMAIN lockfile : lockfile[n] # Illegible => lockfile[n][2] < Radix
  /\ \A i \in DOMAIN tree : tree[i].declares.version[2] < Radix

\* In a scan that succeeded, a credential that is in the tree is charged, shown as an
\* example, or in a file the stage says it did not read, unless the walk passes such
\* entries over; an affected dependency whose version the check has before it is
\* charged, or the stage says that manifests went unread, whatever the walk's ceiling,
\* the manifests' and unreadable files leave out; and a charge is for what is there.
SilenceWasRead ==
  scan = "done" /\ answer.status = "succeeded" =>
    \A i \in DOMAIN tree : ~PassedOver(i) =>
      /\ tree[i].secret => i \in answer.charged \cup answer.examples \/ SaidUnread(i)
      /\ Vulnerable(i) /\ Legible(i) /\ Comparable =>
           \/ \E certain \in BOOLEAN : <<i, certain>> \in answer.matched
           \/ SaidUnread(i) \/ "SEC-10" \in answer.notTested
           \/ answer.notes \cap {"unparsed", "manifests left"} # {}
      /\ <<i, TRUE>> \in answer.matched /\ Comparable =>
           \/ Precedes(tree[i].declares.version, Affected)
           \/ \E n \in DOMAIN lockfile : lockfile[n] # Illegible /\ Precedes(lockfile[n], Affected)
============================================================================
