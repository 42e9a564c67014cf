----------------------------- MODULE PageSurvey -----------------------------
(***************************************************************************)
(* The two surveys deterministic_checks makes of a page it has open.       *)
(*                                                                         *)
(* measureTrust and trustFindings: where a card number goes, whether a     *)
(* known miner is loaded, whether a person can be reached (the questions   *)
(* of runChecks); what they cannot tell is written down, because a         *)
(* criterion with nothing against it is shown as a tick.                   *)
(*                                                                         *)
(* measureDesign and designFindings: how many sizes, colours and styles    *)
(* the page uses, which left edges and gaps are nearly another, which text *)
(* cannot be read; once at desktop width and once, for what is new, at a   *)
(* phone's.                                                                *)
(*                                                                         *)
(* Abstracted: how the browser comes by the numbers, the arithmetic of     *)
(* contrast, the wording of a finding.                                     *)
(***************************************************************************)
EXTENDS PublicLook, Integers, Sequences, Functions

----------------------------------------------------------------------------
(* The trust survey *)

TrustSurveyCriteria == {"SEC-12", "SEC-13", "PRI-07"}

\* What the page loads and holds: a card field in its own document, a payment
\* processor's script or frame, a known miner, more inline script than is read.
TrustPage == [holds: SUBSET {"card field", "processor", "miner", "long script"}, page: PublicPage]

ContactSignals == {"contact_email", "telephone", "company_identity"}
ContactOutcome(page) ==
  LET answers == {RunCheck(page, signal) : signal \in ContactSignals} IN
  IF "found" \in answers THEN "found"
  ELSE IF "unclear" \in answers THEN "unclear" ELSE "not_found"

TrustCharged(survey) ==
  {criterion \in TrustSurveyCriteria :
     CASE criterion = "SEC-12" -> "card field" \in survey.holds
       [] criterion = "SEC-13" -> "miner" \in survey.holds
       [] OTHER -> ContactOutcome(survey.page) = "not_found"}

\* A checkout the owner says there is, and that this page does not show; signatures
\* matched against part of the script; a contact that is none for certain.
TrustNotTested(survey, hasPayments) ==
  {criterion \in TrustSurveyCriteria :
     CASE criterion = "SEC-12" -> hasPayments /\ survey.holds \cap {"card field", "processor"} = {}
       [] criterion = "SEC-13" -> "long script" \in survey.holds
       [] OTHER -> ContactOutcome(survey.page) = "unclear"}

----------------------------------------------------------------------------
(* The design survey: values that are nearly another *)

NEAR_MISS_WINDOW_PX == 12
MIN_INTENDED_OCCURRENCES == 2
EDGE_MIN_BLOCKS == 8
MISS_COUNT == 2         \* EDGE_MISS_COUNT, RHYTHM_MISS_COUNT
SPACING_GRID_PX == 4

Counts(values) == [v \in Range(values) |-> Cardinality({n \in DOMAIN values : values[n] = v})]

\* Close, and no whole step of the grid away: the same value typed twice.
NearlySame(v, w) ==
  LET distance == IF v < w THEN w - v ELSE v - w IN
  distance <= NEAR_MISS_WINDOW_PX /\ distance % SPACING_GRID_PX # 0

LooksIntended(counts, other, value) ==
  counts[other] > counts[value] \/ (counts[other] = counts[value] /\ other < value)

\* nearestIntended picks the nearest of these.
IntendedFor(counts, value) ==
  {other \in DOMAIN counts \ {value} :
     /\ counts[other] >= MIN_INTENDED_OCCURRENCES
     /\ NearlySame(other, value) /\ LooksIntended(counts, other, value)}

NearMisses(counts) == {value \in DOMAIN counts : IntendedFor(counts, value) # {}}

EdgeMisses(edges) == IF Len(edges) < EDGE_MIN_BLOCKS THEN {} ELSE NearMisses(Counts(edges))
RhythmMisses(gaps) == NearMisses(Counts(gaps))

----------------------------------------------------------------------------
(* The design survey: what is said *)

DesignSurveyCriteria == {"UX-04", "UX-06", "UX-07"}

SPRAWL == [fontFamilies |-> 3, fontSizes |-> 8, textColours |-> 8, borderRadii |-> 4,
           buttonStyles |-> 3]

\* What one width of the page measures.  A text whose colours the browser could not paint
\* is not among the unreadable: a note says how many there are.
DesignPage ==
  [edges: Seq(Int), gaps: Seq(Nat), distinct: [DOMAIN SPRAWL -> Nat],
   spacings: Nat, offGrid: Nat, h1: Nat, skipsLevels: BOOLEAN, placeholder: BOOLEAN,
   smallTargets: Nat, unreadable: Nat]

\* Math.round of the share off the grid, in percent.
OffGridPercent(page) == (200 * page.offGrid + page.spacings) \div (2 * page.spacings)

\* A finding is known by its title, and a title has its number in it.
Titled(criterion, about, number) == [criterion |-> criterion, about |-> about, number |-> number]
If(condition, finding) == IF condition THEN {finding} ELSE {}

DesignFindings(page) ==
  LET edgeMisses == Cardinality(EdgeMisses(page.edges))
      rhythmMisses == Cardinality(RhythmMisses(page.gaps)) IN
  {Titled("UX-07", kind, page.distinct[kind]) :
     kind \in {k \in DOMAIN SPRAWL : page.distinct[k] > SPRAWL[k]}}
  \cup If(5 * page.offGrid > page.spacings, Titled("UX-07", "spacing", OffGridPercent(page)))
  \cup If(edgeMisses >= MISS_COUNT, Titled("UX-07", "edges", edgeMisses))
  \cup If(rhythmMisses >= MISS_COUNT, Titled("UX-07", "gaps", rhythmMisses))
  \cup If(page.h1 # 1, Titled("UX-07", "h1", page.h1))
  \cup If(page.skipsLevels, Titled("UX-07", "levels", 0))
  \cup If(page.unreadable > 0, Titled("UX-06", "contrast", page.unreadable))
  \cup If(page.placeholder, Titled("UX-06", "placeholder", 0))
  \cup If(page.smallTargets > 0, Titled("UX-04", "targets", page.smallTargets))

\* The phone's width says only what the desktop's did not, by its title.
NewAtPhoneWidth(desktop, phone) == DesignFindings(phone) \ DesignFindings(desktop)

----------------------------------------------------------------------------
(* Properties *)

\* "A pair of near-misses is reported once rather than each accusing the other", and no
\* longer circle accuses itself either: of any of the values, one is not told that it
\* was meant to be another of them.
NoneAccuseEachOther(counts) ==
  \A values \in (SUBSET DOMAIN counts) \ {{}} :
    \E value \in values : IntendedFor(counts, value) \cap values = {}

\* What is neither charged nor written down as open is shown to a visitor as a tick: the
\* page has no card field and, where the owner takes payments, hands over to somebody
\* known; nothing known mines, as far as all of its script goes; somebody can be reached.
TicksAreEarned(survey, hasPayments) ==
  LET ticked == TrustSurveyCriteria \ (TrustCharged(survey) \cup TrustNotTested(survey, hasPayments)) IN
  /\ "SEC-12" \in ticked =>
       "card field" \notin survey.holds /\ (hasPayments => "processor" \in survey.holds)
  /\ "SEC-13" \in ticked => survey.holds \cap {"miner", "long script"} = {}
  /\ "PRI-07" \in ticked => \E signal \in ContactSignals : RunCheck(survey.page, signal) = "found"
=============================================================================
