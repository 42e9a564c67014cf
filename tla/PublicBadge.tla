----------------------------- MODULE PublicBadge -----------------------------
(***************************************************************************)
(* What the public is told of one badge, and how long after it was true:   *)
(* the image, the two documents about the badge, the list of live badges   *)
(* and the browser extension that keeps it, the two pages, and the check   *)
(* of the signature with the keys the console publishes.                   *)
(*                                                                         *)
(* The worker signs with its key; the console publishes the keys of two    *)
(* environment variables the operator pastes, and nothing makes the two    *)
(* agree.  Copies of an answer are kept by the reader's side as long as    *)
(* the answer's max-age allows.  A behaviour follows the reader of one     *)
(* route.  The clock's unit is the short max-age.                          *)
(*                                                                         *)
(* Abstracted: the drawing, the disclosures and the wording; the canonical *)
(* payload (a genuine signature matches its key and no other); the event   *)
(* that records where an image was embedded; clocks that disagree.         *)
(***************************************************************************)
EXTENDS Naturals, Sequences, FiniteSets

CONSTANTS
  KeyIds,          \* the key ids the operator generated, in the order of use
  FirstKey,
  Pastes,          \* what the operator may set a variable to
  Routes,
  ShortAge,        \* max-age of the image, the documents about one badge
  LongAge,         \* max-age of the list and of the key set
  StaleAfter,      \* LIST_STALE_AFTER_HOURS of the extension
  Term,            \* how long after its issue the badge expires
  MaxPastes,       \* bound: changes of the variables
  LastTick         \* bound: where the clock stops

\* An entry of a variable: as badge-keys prints it, with its private half, with
\* an x that is no key, with a field missing; the whole value may not be JSON.
KeyForm == {"public", "private", "unreadable", "malformed", "not JSON"}

ASSUME PublicAssumption ==
  /\ FirstKey \in KeyIds
  /\ Pastes \subseteq Seq([kid : KeyIds, form : KeyForm])
  /\ {ShortAge, LongAge, StaleAfter, Term, MaxPastes, LastTick} \subseteq Nat
  /\ LastTick # 0

VARIABLES
  clock,
  signer,       \* VIBEFYCODE_BADGE_KEY_ID of the worker
  announced,    \* VIBEFYCODE_BADGE_PUBLIC_KEYS of the console
  retired,      \* VIBEFYCODE_BADGE_RETIRED_KEYS of the console
  pastes,
  mark,         \* the badge's row
  route,        \* the route this behaviour's reader uses
  copies,       \* what the reader's side keeps of earlier answers
  told,         \* what the reader was just told
  standing,     \* history: the last tick at which the badge was live, or 0
  unpublished   \* history: the last tick at which a key was in neither variable, or 0

publicVars == <<clock, signer, announced, retired, pastes, mark, route, copies, told,
                standing, unpublished>>

-----------------------------------------------------------------------------
(* The keys: entries as pasted, and what the console makes of them.         *)

KeyEntry(kid, form) == [kid |-> kid, form |-> form]
Garbled == <<KeyEntry(FirstKey, "not JSON")>>

\* Usable by its shape; an x that is no key is found out only when it is read.
HasShape(e) == e.form \in {"public", "private", "unreadable"}
PublicPart(e) == IF e.form = "private" THEN KeyEntry(e.kid, "public") ELSE e

Mentions(raw, kid) == {n \in DOMAIN raw : HasShape(raw[n]) /\ raw[n].kid = kid}
KidsOf(raw) == {kid \in KeyIds : Mentions(raw, kid) # {}}

\* The first usable mention of a key id in a variable, without its private half.
FirstMention(raw, kid) ==
  PublicPart(raw[CHOOSE n \in Mentions(raw, kid) : \A m \in Mentions(raw, kid) : n <= m])
PublicJwks(raw) == {FirstMention(raw, kid) : kid \in KidsOf(raw)}

\* The first mention of a key id wins, the announced ones before the retired.
KeysReadable == announced # Garbled /\ retired # Garbled
AnnouncedKeys == PublicJwks(announced)
PublishedKeys ==
  PublicJwks(announced)
  \cup {FirstMention(retired, kid) : kid \in KidsOf(retired) \ KidsOf(announced)}

\* Whether VibefyCode signed it, as far as the keys can say.
Signed(kid, keys) ==
  IF keys = {} THEN "unknown"
  ELSE IF \A k \in keys : k.kid # kid THEN "no"
  ELSE IF [kid |-> kid, form |-> "unreadable"] \in keys THEN "unknown" ELSE "yes"

-----------------------------------------------------------------------------
(* The badge as the public views show it.                                   *)

NoMark == [status |-> "none", kid |-> FirstKey, until |-> 0, listed |-> FALSE]
Issued == mark.status # "none"

StoredStatus == mark.status

\* Past its expiry a badge is expired whatever the stored status says.
EffectiveStatus ==
  IF mark.status \in {"revoked", "suspended"} THEN mark.status
  ELSE IF mark.until <= clock THEN "expired" ELSE mark.status

STATE_BY_STATUS(status) == IF status = "active" THEN "live" ELSE status

Live(state) == IF state = "live" THEN "yes" ELSE "no"
Listed == Issued /\ mark.listed /\ EffectiveStatus = "active"

-----------------------------------------------------------------------------
(* What each route answers; a failed answer is kept by nobody.              *)

Told(live, genuine) == [live |-> live, genuine |-> genuine]
Silence == Told("unknown", "unknown")
Failed == [said |-> Silence, kid |-> FirstKey, keys |-> {}, ok |-> FALSE, at |-> 0]
Answer(said) == [Failed EXCEPT !.said = said, !.ok = TRUE, !.at = clock]

\* The direct connection, then the published view over HTTPS, then nothing.
Lookups == {"direct", "api", "neither"}
RowReached(lookup) == lookup # "neither"

\* An unknown identifier is drawn as a revoked badge and kept as long.
ServeBadge(lookup) ==
  IF ~RowReached(lookup) THEN Failed
  ELSE IF ~Issued THEN Answer(Told("no", "unknown"))
  ELSE Answer(Told(Live(STATE_BY_STATUS(EffectiveStatus)), "unknown"))

ServeStatus(lookup) ==
  IF lookup # "direct" THEN Failed
  ELSE IF ~Issued THEN Answer(Told("no", "unknown"))
  ELSE Answer(Told(Live(STATE_BY_STATUS(EffectiveStatus)), "unknown"))

\* The signed payload with its current status; a 404 carries no max-age.
ServeDocument(lookup) ==
  IF lookup # "direct" \/ ~Issued THEN Failed
  ELSE [Answer(Told(Live(STATE_BY_STATUS(EffectiveStatus)), "unknown")) EXCEPT !.kid = mark.kid]

ServeList(lookup) ==
  IF lookup # "direct" THEN Failed
  ELSE Answer(Told(IF Listed THEN "yes" ELSE "unknown", "unknown"))

\* An empty set answers 503, which nobody keeps.
ServeKeys ==
  IF ~KeysReadable THEN Failed
  ELSE IF PublishedKeys = {} THEN Failed
  ELSE [Answer(Silence) EXCEPT !.keys = PublishedKeys]

-----------------------------------------------------------------------------
PublicInit ==
  /\ clock = 1
  /\ signer = FirstKey
  /\ announced = <<KeyEntry(FirstKey, "public")>>
  /\ retired = <<>>
  /\ pastes = 0
  /\ mark = NoMark
  /\ route \in Routes
  /\ copies = [d \in {"answer", "keys"} |-> Failed]
  /\ told = Silence
  /\ standing = 0
  /\ unpublished = [k \in KeyIds |-> IF k = FirstKey THEN 0 ELSE 1]

Stands == mark.status = "active" /\ clock < mark.until
Missing(kid) == \A raw \in {announced, retired} :
                  \A n \in DOMAIN raw : ~HasShape(raw[n]) \/ raw[n].kid # kid

\* The history, and the reader told nothing, in every step that is not an answer.
NobodyAsks ==
  /\ told' = Silence
  /\ standing' = IF Stands' THEN clock' ELSE standing
  /\ unpublished' = [k \in KeyIds |-> IF Missing(k)' THEN clock' ELSE unpublished[k]]
  /\ UNCHANGED route

\* sweepBadgeIssuance: the worker issues with the key it holds.
IssueMark ==
  /\ ~Issued
  /\ \E listed \in BOOLEAN :
       mark' = [status |-> "active", kid |-> signer, until |-> clock + Term, listed |-> listed]
  /\ UNCHANGED <<clock, signer, announced, retired, pastes, copies>>
  /\ NobodyAsks

\* The register suspends, restores, expires or revokes it, or its owner unlists it.
MoveMark ==
  /\ Issued
  /\ \/ /\ mark.status = "active"
        /\ \E s \in {"suspended", "revoked"} \cup (IF mark.until <= clock THEN {"expired"} ELSE {}) :
             mark' = [mark EXCEPT !.status = s]
     \/ /\ mark.status = "suspended"
        /\ \E s \in {"active", "revoked"} : mark' = [mark EXCEPT !.status = s]
     \/ mark' = [mark EXCEPT !.listed = ~mark.listed]
  /\ UNCHANGED <<clock, signer, announced, retired, pastes, copies>>
  /\ NobodyAsks

\* The worker is started with another key; its line is what the operator pastes.
Rotate ==
  /\ signer = FirstKey
  /\ \E k \in KeyIds \ {FirstKey} : signer' = k
  /\ UNCHANGED <<clock, announced, retired, pastes, mark, copies>>
  /\ NobodyAsks

Paste ==
  /\ pastes < MaxPastes
  /\ pastes' = pastes + 1
  /\ \/ announced' \in Pastes \ {announced} /\ UNCHANGED retired
     \/ retired' \in Pastes \ {retired} /\ UNCHANGED announced
  /\ UNCHANGED <<clock, signer, mark, copies>>
  /\ NobodyAsks

TickPublic ==
  /\ clock < LastTick
  /\ clock' = clock + 1
  /\ UNCHANGED <<signer, announced, retired, pastes, mark, copies>>
  /\ NobodyAsks

-----------------------------------------------------------------------------
(* The readers.                                                             *)

Asked == UNCHANGED <<clock, signer, announced, retired, pastes, mark, route, standing, unpublished>>
Fresh(copy, age) == copy.ok /\ clock - copy.at <= age

\* A kept copy while it is fresh, or the route's own answer, which is then kept.
Fetch(name, age, serve) ==
  IF Fresh(copies[name], age) THEN {copies[name], serve} ELSE {serve}
Keep(name, answer) == [copies EXCEPT ![name] = IF answer.ok THEN answer ELSE @]

SeeImage ==
  /\ route = "image"
  /\ \E lookup \in Lookups : \E a \in Fetch("answer", ShortAge, ServeBadge(lookup)) :
       told' = a.said /\ copies' = Keep("answer", a)
  /\ Asked

AskStatus ==
  /\ route = "status"
  /\ \E lookup \in Lookups : \E a \in Fetch("answer", ShortAge, ServeStatus(lookup)) :
       told' = a.said /\ copies' = Keep("answer", a)
  /\ Asked

ReadList ==
  /\ route = "list"
  /\ \E lookup \in Lookups : \E a \in Fetch("answer", LongAge, ServeList(lookup)) :
       told' = a.said /\ copies' = Keep("answer", a)
  /\ Asked

\* The extension's hourly request revalidates; a failed one leaves the list in place.
RefreshList ==
  /\ route = "extension"
  /\ \E lookup \in Lookups : copies' = Keep("answer", ServeList(lookup))
  /\ told' = Silence
  /\ Asked

\* Its popup: a list past its age says so beside the answer.
CoversOrigin(visited) == visited \in {"certified", "www"}
OpenPopup ==
  /\ route = "extension"
  /\ \E visited \in {"certified", "www", "subdomain"} :
       told' = IF Fresh(copies["answer"], StaleAfter) /\ CoversOrigin(visited)
               THEN copies["answer"].said ELSE Silence
  /\ UNCHANGED copies
  /\ Asked

\* The document and the key set, each kept, and the signature checked by the reader.
CheckOffline ==
  /\ route = "offline"
  /\ \E lookup \in Lookups :
     \E d \in Fetch("answer", ShortAge, ServeDocument(lookup)), k \in Fetch("keys", LongAge, ServeKeys) :
       /\ told' = IF d.ok /\ k.ok THEN Told(d.said.live, Signed(d.kid, k.keys)) ELSE Silence
       /\ copies' = [answer |-> Keep("answer", d)["answer"], keys |-> Keep("keys", k)["keys"]]
  /\ Asked

\* /verify: the row and the keys of the moment; keys that are not JSON fail the page.
OpenVerify ==
  /\ route = "verify"
  /\ \E lookup \in Lookups :
       told' = IF ~RowReached(lookup) \/ ~Issued \/ ~KeysReadable THEN Silence
               ELSE Told(Live(STATE_BY_STATUS(EffectiveStatus)), Signed(mark.kid, PublishedKeys))
  /\ UNCHANGED copies
  /\ Asked

\* /a/<slug>: the badge, then the answers and the owner's section, which may be missing.
OpenSealPage ==
  /\ route = "page"
  /\ \E lookup \in {"direct", "neither"} :
       told' = IF ~RowReached(lookup) \/ ~Issued THEN Silence
               ELSE Told(Live(STATE_BY_STATUS(EffectiveStatus)), "unknown")
  /\ UNCHANGED copies
  /\ Asked

PublicNext ==
  \/ IssueMark \/ MoveMark \/ Rotate \/ Paste \/ TickPublic
  \/ SeeImage \/ AskStatus \/ ReadList \/ RefreshList \/ OpenPopup
  \/ CheckOffline \/ OpenVerify \/ OpenSealPage

PublicSpec == PublicInit /\ [][PublicNext]_publicVars

-----------------------------------------------------------------------------
(* Properties.                                                              *)

Answers3 == {"yes", "no", "unknown"}

\* Every variable has its type.
PublicTypeOK ==
  /\ clock \in 0..LastTick /\ signer \in KeyIds /\ pastes \in 0..MaxPastes
  /\ mark.status \in {"none", "active", "suspended", "expired", "revoked"}
  /\ mark.kid \in KeyIds /\ mark.until \in 0..(LastTick + Term) /\ mark.listed \in BOOLEAN
  /\ told.live \in Answers3 /\ told.genuine \in Answers3
  /\ \A d \in DOMAIN copies : copies[d].at <= clock
  /\ standing <= clock /\ \A k \in KeyIds : unpublished[k] <= clock

KeptFor == [image |-> ShortAge, status |-> ShortAge, offline |-> ShortAge, list |-> LongAge,
            extension |-> StaleAfter, verify |-> 0, page |-> 0]
KeyAge == [offline |-> LongAge, verify |-> 0]

\* "A customer cannot keep displaying a mark that says verified after we have
\* suspended it", and a missed sweep "can never leave a stale mark reading as
\* active": whoever is told the badge is live, it was live no longer ago than the
\* copies of that route may be kept.
LiveWasLive ==
  told.live = "yes" => standing > 0 /\ clock - standing <= KeptFor[route]

\* A genuine badge is called a forgery only by a reader whose keys are no older
\* than their max-age allows, from when the operator had its key in neither
\* variable: a retired key goes on verifying what it signed.
ForgeryWasUnpublished ==
  told.genuine = "no" =>
    unpublished[mark.kid] > 0 /\ clock - unpublished[mark.kid] <= KeyAge[route]

PublicIsToldTheTruth == LiveWasLive /\ ForgeryWasUnpublished
=============================================================================
