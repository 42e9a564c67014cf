----------------------------- MODULE PublicLook -----------------------------
(***************************************************************************)
(* One look at one public page, from outside: fetchPublicPage follows the  *)
(* redirects of the address somebody typed, runChecks asks ten questions   *)
(* of the page it ends at, and two tools say what came of it: the trust    *)
(* check to a stranger about to pay, the pre-flight to the owner.  Whoever *)
(* reads it decides about somebody else's business, so what counts is whom *)
(* a failure is put down to.                                               *)
(*                                                                         *)
(* Abstracted: the words each question looks for, the quotations, and the  *)
(* two megabytes that are read of a page.                                  *)
(***************************************************************************)
EXTENDS Naturals, FiniteSets

CONSTANT MAX_REDIRECTS

ASSUME LookAssumption == MAX_REDIRECTS \in Nat

----------------------------------------------------------------------------
(* What there is to see *)

CheckId == {"encrypted", "cancellation", "contact_email", "telephone", "company_identity",
            "privacy_policy", "terms", "refund_policy", "recurring_payment", "pricing_visible"}
Headers == {"content-security-policy", "strict-transport-security",
            "x-content-type-options", "referrer-policy"}
Parts == {"title", "description", "viewport", "language", "key", "local address"}

\* What a question meets: its answer, half of one, nothing, or a page it cannot read.
PublicPage ==
  [ok: BOOLEAN, https: BOOLEAN, has: SUBSET Parts, headers: SUBSET Headers,
   shows: [CheckId -> {"plainly", "half", "nothing", "illegible"}]]

\* One answer to a request: "fails" by whose fault, "redirect" to what, or a page; a
\* redirect may carry a page too, and its status is no error.
Reply == {reply \in [is: {"page", "redirect", "fails"}, page: PublicPage, fault: {"theirs", "ours"},
                     to: {"public", "private", "not web", "garbled"}] :
            reply.is = "redirect" => reply.page.ok}
Chain == [0..MAX_REDIRECTS -> Reply]

----------------------------------------------------------------------------
(* fetchPublicPage *)

\* A redirect is followed while there are hops left and it leads to a public address.
IsFollowed(chain, hop) ==
  hop < MAX_REDIRECTS /\ chain[hop].is = "redirect" /\ chain[hop].to = "public"

LastHop(chain) ==
  CHOOSE hop \in 0..MAX_REDIRECTS :
    ~IsFollowed(chain, hop) /\ \A h \in 0..(hop - 1) : IsFollowed(chain, h)

\* TrustCheckInputError ("refused"), a page to read, or whyItCouldNotBeRead.  An address
\* that does not parse is neither a timeout nor a failed fetch, and so put down to us;
\* a redirect beyond the last hop is read as the page it came to.
Fetched(chain) ==
  LET hop == LastHop(chain)
      reply == chain[hop] IN
  IF reply.is = "fails" THEN reply.fault
  ELSE IF reply.is = "redirect" /\ hop < MAX_REDIRECTS
  THEN IF reply.to = "garbled" THEN "ours" ELSE "refused"
  ELSE IF reply.page.ok THEN "read" ELSE "error status"

PageRead(chain) == chain[LastHop(chain)].page

----------------------------------------------------------------------------
(* runChecks *)

\* Half an answer is enough of an address, and none of a policy that is not linked.
HalfAnswer(check) ==
  CASE check = "contact_email" -> "found"
    [] check \in {"privacy_policy", "terms"} -> "not_found"
    [] OTHER -> "unclear"

\* A check that throws is "unclear": that is a limit of ours.
RunCheck(page, check) ==
  IF check = "encrypted" THEN (IF page.https THEN "found" ELSE "not_found")
  ELSE CASE page.shows[check] = "plainly" -> "found"
         [] page.shows[check] = "half" -> HalfAnswer(check)
         [] page.shows[check] = "nothing" -> "not_found"
         [] OTHER -> "unclear"

----------------------------------------------------------------------------
(* runTrustCheck: does the site open at all, and the ten questions.  A refused *)
(* address is told to whoever typed it, and nothing is said of a site.        *)

Opens(chain) ==
  CASE Fetched(chain) = "read" -> "found"
    [] Fetched(chain) = "ours" -> "unclear"
    [] OTHER -> "not_found"

Observations(chain) ==
  [id \in CASE Fetched(chain) = "read" -> {"reachable"} \cup CheckId
            [] Fetched(chain) = "refused" -> {}
            [] OTHER -> {"reachable"} |->
     IF id = "reachable" THEN Opens(chain) ELSE RunCheck(PageRead(chain), id)]

HighWeight == {"reachable", "encrypted", "cancellation", "contact_email",
               "company_identity", "recurring_payment"}
HighWeightMissing(chain) ==
  {id \in HighWeight \cap DOMAIN Observations(chain) : Observations(chain)[id] = "not_found"}

----------------------------------------------------------------------------
(* runPreflight *)

PreflightId == {"answers", "https", "says_what_it_is", "phone", "language", "headers", "left_in",
                "contact", "privacy", "cancellation"}
BORROWED == [contact |-> "contact_email", privacy |-> "privacy_policy",
             cancellation |-> "cancellation"]
OUTCOME_FROM == [found |-> "ok", not_found |-> "missing", unclear |-> "unclear"]

OkIf(condition) == IF condition THEN "ok" ELSE "missing"

HeadersSet(page) ==
  LET unset == Cardinality(Headers \ page.headers) IN
  IF unset = 0 THEN "ok" ELSE IF unset >= 3 THEN "missing" ELSE "unclear"

LeftIn(page) ==
  IF "key" \in page.has THEN "missing"
  ELSE IF "local address" \in page.has THEN "unclear" ELSE "ok"

PreflightItem(page, id) ==
  CASE id = "answers" -> OkIf(page.ok)
    [] id = "https" -> OkIf(page.https)
    [] id = "says_what_it_is" /\ "title" \in page.has ->
         IF "description" \in page.has THEN "ok" ELSE "unclear"
    [] id = "says_what_it_is" /\ "title" \notin page.has -> "missing"
    [] id = "phone" -> OkIf("viewport" \in page.has)
    [] id = "language" -> OkIf("language" \in page.has)
    [] id = "headers" -> HeadersSet(page)
    [] id = "left_in" -> LeftIn(page)
    [] OTHER -> OUTCOME_FROM[RunCheck(page, BORROWED[id])]

\* preflightReport: of an error page nothing but that it is one.
PreflightItems(chain) ==
  [id \in CASE Fetched(chain) = "read" -> PreflightId
            [] Fetched(chain) = "error status" -> {"answers"}
            [] OTHER -> {} |-> PreflightItem(PageRead(chain), id)]

----------------------------------------------------------------------------
(* Properties *)

\* Of one chain of answers: nobody is warned of a site because of a failure of ours
\* or of an address that was refused; a question is answered only of a page that was
\* read; and the two tools agree on whether there was one, and wherever both ask.
LooksAreFair(chain) ==
  LET told == Observations(chain)
      items == PreflightItems(chain) IN
  /\ Fetched(chain) \in {"ours", "refused"} =>
       HighWeightMissing(chain) = {} /\ DOMAIN items = {}
  /\ DOMAIN told \cap CheckId # {} => chain[LastHop(chain)].is # "fails" /\ PageRead(chain).ok
  /\ "answers" \in DOMAIN items =>
       "reachable" \in DOMAIN told /\ (items["answers"] = "ok" <=> told["reachable"] = "found")
  /\ \A id \in DOMAIN items \cap DOMAIN BORROWED :
       /\ BORROWED[id] \in DOMAIN told
       /\ items[id] = "missing" <=> told[BORROWED[id]] = "not_found"
       /\ items[id] = "ok" <=> told[BORROWED[id]] = "found"
=============================================================================
