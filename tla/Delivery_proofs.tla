------------------------- MODULE Delivery_proofs --------------------------
(*************************************************************************)
(* What goes out to the mail and push providers and what comes in from   *)
(* the payment providers, for every number of alerts, members,           *)
(* processes, requests, events and failures (AlertDelivery,              *)
(* BillingEvents).                                                       *)
(*                                                                       *)
(* NotGivenIsTrue needs a message a provider took to be marked, in hand, *)
(* with a sweep that died or never heard (HandsFact), and an alert found *)
(* not to have been given to be past its window (OverFact).              *)
(*                                                                       *)
(* AppliedExactlyOnce needs the ids recorded to be those of the events   *)
(* applied, one event to an id (IdsFacts), and the event inside a        *)
(* transaction to have neither (InsideFacts); that is where Stripe's     *)
(* ids, one to an event, are assumed. Two subscriptions are never live   *)
(* at once because where a live row is staged the index has shown every  *)
(* other over (LiveFacts).                                               *)
(*                                                                       *)
(* MirrorAgrees compares two processes' books. What the provider has     *)
(* told of an object determines its state (ToldFacts); events of an      *)
(* object told in order are applied in order, so the row says what the   *)
(* last one applied does (OrderFacts); and the last one told is applied  *)
(* once all are answered.                                                *)
(*************************************************************************)
EXTENDS AlertDelivery, BillingEvents, SequenceTheorems, WellFoundedInduction, TLAPS

----------------------------------------------------------------------------
(* Alerts outside the console (AlertDelivery)                               *)

PostRow == [at : PostAt, page : SUBSET Delivery, late : SUBSET Alerts, good : SUBSET Delivery,
            dead : SUBSET Delivery, item : Delivery \cup {<<>>}, outcome : Outcome]

Accepted(a) == \E c \in Channel, m \in Recipients : <<c, <<a, m>>>> \in accepted
OnPage(s, a) == \E d \in post[s].page \cup ({post[s].item} \cap Delivery) : d[1] = a
InHand(s, a) == a \in TakenInHand(s)

\* What a sweep knows of its place: nothing is in hand between two rows, what it
\* takes as sent some provider took, and what it marks it has written down.
Sound(s) ==
  /\ post[s].item \in Delivery <=> post[s].at \in {"recording", "suppressing", "marking"}
  /\ post[s].at \in {"idle", "sending"} \/ s[2] = "email" => post[s].good = {}
  /\ post[s].at \in {"idle", "sending", "ticketing"} => post[s].outcome = "none"
  /\ post[s].at = "suppressing" => post[s].outcome # "sent"
  /\ \A d \in post[s].good : <<s[2], d>> \in accepted
  /\ post[s].outcome = "sent" => <<s[2], post[s].item>> \in accepted
  /\ post[s].at = "marking" => post[s].outcome = "sent" /\ record[<<s[2], post[s].item>>] # "none"

\* A message some provider took is marked, or in hand, or a sweep died with it or
\* never heard.
HandsFact ==
  \A a \in Alerts : Accepted(a) =>
    a \in delivered \cup interrupted \cup unheard \/ \E s \in Postman : InHand(s, a)

\* An alert found not to have been given is past its window, so no sweep will read
\* it again; one that still had it then is known.
Over(a) == a \in notGiven \/ \E w \in AlertWorkers : a \in notices[w]
OverFact ==
  \A a \in Alerts : Over(a) =>
    /\ age[a] = PastWindow
    /\ \A s \in Postman : OnPage(s, a) => a \in straddled
    /\ Accepted(a) => a \in interrupted \cup straddled \cup unheard

AlertInv ==
  /\ AlertTypeOK
  /\ \A s \in Postman : Sound(s)
  /\ HandsFact /\ OverFact /\ DeliveredWasTaken

LEMMA NothingIsNoDelivery == <<>> \notin Delivery
BY DEF Delivery

LEMMA DeliveryParts ==
  \A d \in Delivery : d[1] \in Alerts /\ d[2] \in Recipients /\ d = <<d[1], d[2]>>
BY DEF Delivery

LEMMA PostmanParts == \A s \in Postman : s[2] \in Channel
BY AlertAssumption

LEMMA RestIsSound ==
  /\ AtRest \in PostRow /\ AtRest.at = "idle" /\ AtRest.page = {} /\ AtRest.good = {}
  /\ AtRest.outcome = "none" /\ AtRest.item \notin Delivery
<1>1. AtRest.item \notin Delivery
  BY NothingIsNoDelivery DEF AtRest
<1> QED
  BY <1>1 DEF AtRest, PostRow, PostAt, Outcome

LEMMA AlertStarts == AlertInit => AlertInv
<1> SUFFICES ASSUME AlertInit PROVE AlertInv
  OBVIOUS
<1>1. \A s \in Postman : post[s] = AtRest
  BY DEF AlertInit
<1>2. \A s \in Postman : Sound(s)
  BY <1>1, RestIsSound DEF Sound
<1>3. \A a \in Alerts : ~Accepted(a) /\ ~Over(a)
  <2>1. \A a \in Alerts : ~Accepted(a)
    BY DEF AlertInit, Accepted
  <2>2. \A a \in Alerts : ~Over(a)
    BY DEF AlertInit, Over
  <2> QED
    BY <2>1, <2>2
<1>4. AlertTypeOK
  <2>1. post \in [Postman -> PostRow]
    BY RestIsSound DEF AlertInit
  <2>2. \A s \in Postman :
          post[s].item \in Delivery <=> post[s].at \in {"recording", "suppressing", "marking"}
    BY <1>2 DEF Sound
  <2> QED
    BY <2>1, <2>2, AlertAssumption DEF AlertInit, AlertTypeOK, PostRow, Age
<1>5. DeliveredWasTaken
  BY DEF AlertInit, DeliveredWasTaken
<1> QED
  BY <1>2, <1>3, <1>4, <1>5 DEF AlertInv, HandsFact, OverFact

----------------------------------------------------------------------------
(* One sweep moves *)

\* What the sweep may not do for the others to stay as they were.
MovesTo(s, row) ==
  /\ post' = [post EXCEPT ![s] = row]
  /\ age' = age /\ notices' = notices /\ notGiven' = notGiven /\ straddled' = straddled

Keeps ==
  /\ \A d \in Channel \X Delivery : d \in accepted => d \in accepted'
  /\ \A d \in Channel \X Delivery : record[d] # "none" => record'[d] # "none"
  /\ \A d \in Channel \X Delivery : record'[d] = "sent" => record[d] = "sent" \/ d \in accepted'
  /\ delivered \subseteq delivered' /\ interrupted \subseteq interrupted'
  /\ unheard \subseteq unheard'

LEMMA OthersStaySound ==
  ASSUME AlertInv, NEW s \in Postman, NEW v \in Postman, v # s, NEW row, MovesTo(s, row), Keeps
  PROVE  /\ Sound(v)' /\ \A a : OnPage(v, a)' <=> OnPage(v, a)
         /\ \A a : InHand(v, a)' <=> InHand(v, a)
<1>1. post'[v] = post[v] /\ post[v] \in PostRow /\ s[2] \in Channel /\ v[2] \in Channel
  BY PostmanParts DEF MovesTo, AlertInv, AlertTypeOK, PostRow
<1>2. post[v].good \subseteq Delivery
  BY <1>1 DEF PostRow
<1>3. Sound(v)
  BY DEF AlertInv
<1>4. \A d \in Delivery : <<v[2], d>> \in Channel \X Delivery
  BY <1>1
<1>5. post[v].outcome = "sent" => post[v].item \in Delivery
  BY <1>1, <1>3 DEF Sound, PostRow, PostAt
<1>6. Sound(v)'
  BY <1>1, <1>2, <1>3, <1>4, <1>5 DEF Sound, Keeps
<1> QED
  BY <1>1, <1>6 DEF OnPage, InHand, TakenInHand

LEMMA SweepMoves ==
  ASSUME AlertInv, AlertTypeOK', NEW s \in Postman, NEW row, MovesTo(s, row), Keeps, Sound(s)',
         \A a \in Alerts : Accepted(a)' =>
           Accepted(a) \/ (InHand(s, a)' /\ OnPage(s, a)) \/ a \in unheard',
         \A a \in Alerts : InHand(s, a) => InHand(s, a)' \/ a \in delivered' \cup interrupted',
         \A a \in Alerts : OnPage(s, a)' => OnPage(s, a) \/ age[a] # PastWindow,
         \A a \in delivered' \ delivered : \E c \in Channel, m \in Recipients :
           <<c, <<a, m>>>> \in accepted' /\ record'[<<c, <<a, m>>>>] # "none"
  PROVE  AlertInv'
<1>1. \A v \in Postman : Sound(v)'
  BY OthersStaySound
<1>2. HandsFact'
  <2> SUFFICES ASSUME NEW a \in Alerts, Accepted(a)', a \notin delivered', a \notin interrupted',
                      a \notin unheard'
               PROVE  \E v \in Postman : InHand(v, a)'
    BY DEF HandsFact
  <2>1. InHand(s, a)' \/ \E v \in Postman : InHand(v, a)
    BY DEF AlertInv, HandsFact, Keeps
  <2> QED
    BY <2>1, OthersStaySound
<1>3. OverFact'
  <2> SUFFICES ASSUME NEW a \in Alerts, Over(a)'
               PROVE  /\ age'[a] = PastWindow
                      /\ \A v \in Postman : OnPage(v, a)' => a \in straddled'
                      /\ Accepted(a)' => a \in interrupted' \cup straddled' \cup unheard'
    BY DEF OverFact
  <2>1. Over(a)
    BY DEF Over, MovesTo
  <2>2. /\ age[a] = PastWindow /\ \A v \in Postman : OnPage(v, a) => a \in straddled
        /\ Accepted(a) => a \in interrupted \cup straddled \cup unheard
    BY <2>1 DEF AlertInv, OverFact
  <2>3. ASSUME NEW v \in Postman, OnPage(v, a)' PROVE a \in straddled
    BY <2>2, <2>3, OthersStaySound
  <2> QED
    BY <2>2, <2>3 DEF MovesTo, Keeps
<1>4. DeliveredWasTaken'
  <2>1. \A d \in Channel \X Delivery : record'[d] = "sent" => d \in accepted'
    BY DEF AlertInv, DeliveredWasTaken, Keeps
  <2>2. ASSUME NEW a \in delivered'
        PROVE  \E c \in Channel, m \in Recipients :
                 <<c, <<a, m>>>> \in accepted' /\ record'[<<c, <<a, m>>>>] # "none"
    <3>1. CASE a \in delivered
      <4>1. PICK c \in Channel, m \in Recipients :
              <<c, <<a, m>>>> \in accepted /\ record[<<c, <<a, m>>>>] # "none"
        BY <3>1 DEF AlertInv, DeliveredWasTaken
      <4>2. <<c, <<a, m>>>> \in Channel \X Delivery
        BY <3>1 DEF AlertInv, AlertTypeOK, Delivery
      <4> QED
        BY <4>1, <4>2 DEF Keeps
    <3> QED
      BY <3>1
  <2> QED
    BY <2>1, <2>2 DEF DeliveredWasTaken
<1> QED
  BY <1>1, <1>2, <1>3, <1>4 DEF AlertInv

----------------------------------------------------------------------------
(* The sweeps that send *)

LEMMA RowOf ==
  ASSUME AlertInv, NEW s \in Postman
  PROVE  /\ post[s] \in PostRow /\ s[2] \in Channel /\ post[s].page \subseteq Delivery
         /\ post[s].good \subseteq Delivery /\ post[s].late \subseteq Alerts
         /\ Sound(s)
<1>1. post[s] \in PostRow /\ s[2] \in Channel
  BY PostmanParts DEF AlertInv, AlertTypeOK, PostRow
<1> QED
  BY <1>1 DEF AlertInv, PostRow

\* The type of the variables after a sweep's step.
LEMMA SweepTypes ==
  ASSUME AlertInv, NEW s \in Postman, NEW row \in PostRow, MovesTo(s, row), Sound(s)',
         record' \in [Channel \X Delivery -> {"none", "sent", "failed"}],
         suppressed' \subseteq Recipients, disabled' \subseteq Recipients,
         delivered' \subseteq Alerts, interrupted' \subseteq Alerts, unheard' \subseteq Alerts,
         accepted' \subseteq Channel \X Delivery, alertFaults' \in Nat
  PROVE  AlertTypeOK'
<1>1. post' \in [Postman -> PostRow]
  BY DEF MovesTo, AlertInv, AlertTypeOK, PostRow
<1>2. \A v \in Postman : v # s => post'[v] = post[v]
  BY DEF MovesTo, AlertInv, AlertTypeOK
<1>3. \A v \in Postman :
        post'[v].item \in Delivery <=> post'[v].at \in {"recording", "suppressing", "marking"}
  BY <1>2 DEF Sound, AlertInv
<1> QED
  BY <1>1, <1>3 DEF MovesTo, AlertInv, AlertTypeOK, PostRow

LEMMA PendingIsRead == ASSUME AlertInv, NEW s \in Postman, ReadPending(s) PROVE AlertInv'
<1> DEFINE row == [post[s] EXCEPT !.at = "sending", !.page = PendingOn(s[2]),
                                  !.late = {a \in Alerts : age[a] = LastDay}]
<1>1. post[s] \in PostRow /\ s[2] \in Channel /\ Sound(s) /\ post[s].at = "idle"
  BY RowOf DEF ReadPending, PostIs
<1>2. PendingOn(s[2]) \subseteq Delivery /\ \A d \in PendingOn(s[2]) : age[d[1]] # PastWindow
  BY DEF PendingOn, PastWindow, LastDay
<1>3. /\ row \in PostRow /\ row.at = "sending" /\ row.page = PendingOn(s[2])
      /\ row.item = post[s].item /\ row.outcome = post[s].outcome /\ row.good = post[s].good
  BY <1>1, <1>2 DEF PostRow, PostAt
<1>4. MovesTo(s, row) /\ post'[s] = row
  BY DEF ReadPending, MovesTo, AlertInv, AlertTypeOK
<1> HIDE DEF row
<1>5. Sound(s)'
  BY <1>1, <1>3, <1>4 DEF Sound, ReadPending
<1>6. AlertTypeOK'
  BY <1>3, <1>4, <1>5, SweepTypes DEF ReadPending, AlertInv, AlertTypeOK
<1>7. Keeps
  BY DEF Keeps, ReadPending
<1>8. \A a \in Alerts : ~InHand(s, a)
  BY <1>1 DEF InHand, TakenInHand, Sound
<1>9. \A a \in Alerts : OnPage(s, a)' => age[a] # PastWindow
  BY <1>1, <1>2, <1>3, <1>4 DEF OnPage, Sound
<1>10. \A a \in Alerts : Accepted(a)' => Accepted(a)
  BY DEF Accepted, ReadPending
<1> QED
  BY <1>3, <1>4, <1>5, <1>6, <1>7, <1>8, <1>9, <1>10, SweepMoves DEF ReadPending

\* What no sweep's step but its own may touch.
OnlyThePost ==
  UNCHANGED <<age, record, suppressed, disabled, delivered, notGiven, notices,
              interrupted, straddled, alertFaults>>

LEMMA RowIsTakenUp ==
  ASSUME AlertInv, NEW s \in Postman, NEW d \in Delivery, NEW outcome \in Outcome \ {"none"},
         post[s].at \in {"sending", "ticketing"}, d \in post[s].page, TakeUp(s, d, outcome),
         OnlyThePost, accepted' \subseteq Channel \X Delivery,
         \A e \in Channel \X Delivery : e \in accepted => e \in accepted',
         outcome = "sent" => <<s[2], d>> \in accepted',
         d \in post[s].good => outcome = "sent",
         unheard \subseteq unheard', unheard' \subseteq Alerts,
         \A a \in Alerts : Accepted(a)' =>
           Accepted(a) \/ (a = d[1] /\ outcome = "sent") \/ a \in unheard'
  PROVE  AlertInv'
<1> DEFINE row == [post[s] EXCEPT !.at = "recording", !.page = @ \ {d}, !.item = d,
                                  !.outcome = outcome]
<1>1. post[s] \in PostRow /\ s[2] \in Channel /\ Sound(s)
  BY RowOf
<1>2. /\ row \in PostRow /\ row.at = "recording" /\ row.page = post[s].page \ {d}
      /\ row.item = d /\ row.outcome = outcome /\ row.good = post[s].good
  BY <1>1 DEF PostRow, PostAt
<1>3. MovesTo(s, row) /\ post'[s] = row
  BY DEF TakeUp, OnlyThePost, MovesTo, AlertInv, AlertTypeOK
<1> HIDE DEF row
<1>4. \A e \in post[s].good : <<s[2], e>> \in Channel \X Delivery
  BY <1>1 DEF PostRow
<1>5. Sound(s)'
  BY <1>1, <1>2, <1>3, <1>4 DEF Sound
<1>6. AlertTypeOK'
  BY <1>2, <1>3, <1>5, SweepTypes DEF OnlyThePost, AlertInv, AlertTypeOK
<1>7. Keeps
  BY DEF Keeps, OnlyThePost
<1>8. \A a \in Alerts : InHand(s, a) => InHand(s, a)'
  <2> SUFFICES ASSUME NEW a \in Alerts, InHand(s, a) PROVE InHand(s, a)'
    OBVIOUS
  <2>1. PICK e \in post[s].page \cap post[s].good : a = e[1]
    BY <1>1 DEF InHand, TakenInHand, Sound
  <2> QED
    BY <1>2, <1>3, <2>1 DEF InHand, TakenInHand
<1>9. outcome = "sent" => InHand(s, d[1])'
  BY <1>2, <1>3 DEF InHand, TakenInHand
<1>10. OnPage(s, d[1]) /\ \A a \in Alerts : OnPage(s, a)' => OnPage(s, a)
  BY <1>2, <1>3 DEF OnPage
<1> QED
  BY <1>2, <1>3, <1>5, <1>6, <1>7, <1>8, <1>9, <1>10, SweepMoves DEF OnlyThePost

LEMMA TakenIsCounted ==
  ASSUME AlertInv, NEW channel \in Channel, NEW taken \in SUBSET Delivery, Taken(channel, taken)
  PROVE  /\ accepted' \subseteq Channel \X Delivery
         /\ \A e \in Channel \X Delivery : e \in accepted => e \in accepted'
         /\ \A d \in taken : <<channel, d>> \in accepted'
         /\ \A a \in Alerts : Accepted(a)' => Accepted(a) \/ \E d \in taken : d[1] = a
<1>1. accepted \subseteq Channel \X Delivery /\ accepted' = accepted \cup ({channel} \X taken)
  BY DEF AlertInv, AlertTypeOK, Taken
<1>2. ASSUME NEW a \in Alerts, Accepted(a)', ~Accepted(a) PROVE \E d \in taken : d[1] = a
  <2>1. PICK c \in Channel, m \in Recipients : <<c, <<a, m>>>> \in accepted'
    BY <1>2 DEF Accepted
  <2>2. <<c, <<a, m>>>> \notin accepted
    BY <1>2 DEF Accepted
  <2>3. <<a, m>> \in taken
    BY <1>1, <2>1, <2>2
  <2> QED
    BY <2>3
<1> QED
  BY <1>1, <1>2

\* A provider's answer is lost: whatever it took is on record as unheard.
LEMMA LostIsOnRecord ==
  ASSUME AlertInv, NEW channel \in Channel, NEW asked \in SUBSET Delivery,
         Unanswered(channel, asked)
  PROVE  /\ accepted' \subseteq Channel \X Delivery
         /\ \A e \in Channel \X Delivery : e \in accepted => e \in accepted'
         /\ unheard \subseteq unheard' /\ unheard' \subseteq Alerts
         /\ \A a \in Alerts : Accepted(a)' => Accepted(a) \/ a \in unheard'
<1>1. PICK T \in SUBSET asked : Taken(channel, T) /\ unheard' = unheard \cup {d[1] : d \in T}
  BY DEF Unanswered
<1>2. T \in SUBSET Delivery
  BY <1>1
<1>3. /\ accepted' \subseteq Channel \X Delivery
      /\ \A e \in Channel \X Delivery : e \in accepted => e \in accepted'
      /\ \A a \in Alerts : Accepted(a)' => Accepted(a) \/ \E d \in T : d[1] = a
  BY <1>1, <1>2, TakenIsCounted
<1>4. \A d \in T : d[1] \in Alerts
  BY <1>2, DeliveryParts
<1>5. unheard \subseteq Alerts
  BY DEF AlertInv, AlertTypeOK
<1> QED
  BY <1>1, <1>3, <1>4, <1>5

\* A row put by for the next sweep, at its turn or with the whole batch.
LEMMA RowsArePutBy ==
  ASSUME AlertInv, NEW s \in Postman, NEW row \in PostRow, MovesTo(s, row), OnlyThePost,
         accepted' \subseteq Channel \X Delivery,
         \A e \in Channel \X Delivery : e \in accepted => e \in accepted',
         unheard \subseteq unheard', unheard' \subseteq Alerts,
         \A a \in Alerts : Accepted(a)' => Accepted(a) \/ a \in unheard',
         row.at \in {"sending", "ticketing"},
         post[s].at = "sending", row.page \subseteq post[s].page,
         row.item = post[s].item, row.good = post[s].good, row.outcome = post[s].outcome
  PROVE  AlertInv'
<1>1. post[s] \in PostRow /\ s[2] \in Channel /\ Sound(s) /\ post'[s] = row
  BY RowOf DEF MovesTo, AlertInv, AlertTypeOK
<1>2. Sound(s)'
  BY <1>1 DEF Sound, OnlyThePost
<1>3. AlertTypeOK'
  BY <1>1, <1>2, SweepTypes DEF OnlyThePost, AlertInv, AlertTypeOK
<1>4. Keeps
  BY DEF Keeps, OnlyThePost
<1>5. \A a \in Alerts : ~InHand(s, a)
  BY <1>1 DEF InHand, TakenInHand, Sound
<1>6. \A a \in Alerts : OnPage(s, a)' => OnPage(s, a)
  BY <1>1 DEF OnPage
<1> QED
  BY <1>1, <1>2, <1>3, <1>4, <1>5, <1>6, SweepMoves DEF OnlyThePost

LEMMA EmailIsSent ==
  ASSUME AlertInv, NEW s \in Postman, NEW d \in Delivery, SendEmail(s, d) PROVE AlertInv'
<1>1. /\ s[2] = "email" /\ "email" \in Channel /\ post[s].at = "sending" /\ d \in post[s].page
      /\ post[s] \in PostRow /\ post[s].good = {} /\ OnlyThePost /\ d[1] \in Alerts
  BY RowOf, DeliveryParts DEF SendEmail, PostIs, OnlyThePost, Sound, Channel
<1>2. /\ accepted \subseteq Channel \X Delivery /\ unheard \subseteq Alerts
      /\ \A outcome \in {"sent", "bounced", "refused"} : outcome \in Outcome \ {"none"}
  BY DEF AlertInv, AlertTypeOK, Outcome
<1>3. CASE TakeUp(s, d, "sent") /\ Taken("email", {d}) /\ UNCHANGED unheard
  <2>1. PICK taken \in SUBSET Delivery : taken = {d} /\ Taken("email", taken)
    BY <1>3
  <2>2. /\ accepted' \subseteq Channel \X Delivery
        /\ \A e \in Channel \X Delivery : e \in accepted => e \in accepted'
        /\ \A e \in taken : <<"email", e>> \in accepted'
        /\ \A a \in Alerts : Accepted(a)' => Accepted(a) \/ \E e \in taken : e[1] = a
    BY <1>1, <2>1, TakenIsCounted
  <2>3. <<s[2], d>> \in accepted' /\ \A a \in Alerts : Accepted(a)' => Accepted(a) \/ a = d[1]
    BY <1>1, <2>1, <2>2
  <2> QED
    BY <1>1, <1>2, <1>3, <2>2, <2>3, RowIsTakenUp
<1>4. ASSUME NEW outcome \in {"bounced", "refused"}, TakeUp(s, d, outcome),
             UNCHANGED <<accepted, unheard>>
      PROVE  AlertInv'
  <2>1. outcome \in Outcome \ {"none"} /\ outcome # "sent"
    BY <1>2, <1>4
  <2>2. \A a \in Alerts : Accepted(a)' => Accepted(a)
    BY <1>4 DEF Accepted
  <2> QED
    BY <1>1, <1>2, <1>4, <2>1, <2>2, RowIsTakenUp
<1>5. CASE /\ IF d[1] \in post[s].late THEN TakeUp(s, d, "refused")
              ELSE post' = [post EXCEPT ![s].page = @ \ {d}]
           /\ Unanswered("email", {d})
  <2>1. PICK asked \in SUBSET Delivery : asked = {d} /\ Unanswered("email", asked)
    BY <1>5
  <2>2. /\ accepted' \subseteq Channel \X Delivery
        /\ \A e \in Channel \X Delivery : e \in accepted => e \in accepted'
        /\ unheard \subseteq unheard' /\ unheard' \subseteq Alerts
        /\ \A a \in Alerts : Accepted(a)' => Accepted(a) \/ a \in unheard'
    BY <1>1, <2>1, LostIsOnRecord
  <2>3. CASE d[1] \in post[s].late
    <3>1. TakeUp(s, d, "refused")
      BY <1>5, <2>3
    <3> QED
      BY <1>1, <1>2, <2>2, <3>1, RowIsTakenUp
  <2>4. CASE d[1] \notin post[s].late
    <3> DEFINE row == [post[s] EXCEPT !.page = @ \ {d}]
    <3>1. /\ row \in PostRow /\ row.at = "sending" /\ row.page \subseteq post[s].page
          /\ row.item = post[s].item /\ row.good = post[s].good /\ row.outcome = post[s].outcome
      BY <1>1 DEF PostRow
    <3>2. post' = [post EXCEPT ![s].page = @ \ {d}]
      BY <1>5, <2>4
    <3>3. MovesTo(s, row)
      BY <1>1, <3>2 DEF MovesTo, OnlyThePost
    <3> HIDE DEF row
    <3> QED
      BY <1>1, <2>2, <3>1, <3>3, RowsArePutBy
  <2> QED
    BY <2>3, <2>4
<1> QED
  BY <1>3, <1>4, <1>5 DEF SendEmail

LEMMA PushIsSent == ASSUME AlertInv, NEW s \in Postman, SendPush(s) PROVE AlertInv'
<1>1. /\ s[2] = "push" /\ post[s].at = "sending" /\ post[s] \in PostRow /\ "push" \in Channel
      /\ Sound(s) /\ OnlyThePost /\ post[s].page \subseteq Delivery
  BY RowOf DEF SendPush, PostIs, OnlyThePost, Channel
<1>2. CASE /\ post' = [post EXCEPT ![s].at = "ticketing",
                                   ![s].page = {d \in @ : d[1] \in post[s].late}]
           /\ Unanswered("push", post[s].page)
  <2> DEFINE row == [post[s] EXCEPT !.at = "ticketing", !.page = {d \in @ : d[1] \in post[s].late}]
  <2>1. /\ row \in PostRow /\ row.at = "ticketing" /\ row.page \subseteq post[s].page
        /\ row.item = post[s].item /\ row.good = post[s].good /\ row.outcome = post[s].outcome
    BY <1>1 DEF PostRow, PostAt
  <2>2. MovesTo(s, row)
    BY <1>1, <1>2 DEF MovesTo, OnlyThePost
  <2> HIDE DEF row
  <2>3. post[s].page \in SUBSET Delivery
    BY <1>1
  <2>4. /\ accepted' \subseteq Channel \X Delivery
        /\ \A e \in Channel \X Delivery : e \in accepted => e \in accepted'
        /\ unheard \subseteq unheard' /\ unheard' \subseteq Alerts
        /\ \A a \in Alerts : Accepted(a)' => Accepted(a) \/ a \in unheard'
    BY <1>1, <1>2, <2>3, LostIsOnRecord
  <2> QED
    BY <1>1, <2>1, <2>2, <2>4, RowsArePutBy
<1>3. ASSUME NEW good \in SUBSET post[s].page, NEW dead \in SUBSET (post[s].page \ good),
             post' = [post EXCEPT ![s].at = "ticketing", ![s].good = good, ![s].dead = dead],
             Taken("push", good), UNCHANGED unheard
      PROVE  AlertInv'
  <2> DEFINE row == [post[s] EXCEPT !.at = "ticketing", !.good = good, !.dead = dead]
  <2>1. good \in SUBSET Delivery /\ dead \in SUBSET Delivery
    BY <1>1
  <2>2. /\ row \in PostRow /\ row.at = "ticketing" /\ row.page = post[s].page
        /\ row.item = post[s].item /\ row.good = good /\ row.outcome = post[s].outcome
    BY <1>1, <2>1 DEF PostRow, PostAt
  <2>3. MovesTo(s, row) /\ post'[s] = row
    BY <1>1, <1>3 DEF MovesTo, OnlyThePost, AlertInv, AlertTypeOK
  <2> HIDE DEF row
  <2>4. /\ accepted' \subseteq Channel \X Delivery
        /\ \A e \in Channel \X Delivery : e \in accepted => e \in accepted'
        /\ \A d \in good : <<"push", d>> \in accepted'
        /\ \A a \in Alerts : Accepted(a)' => Accepted(a) \/ \E d \in good : d[1] = a
    BY <1>1, <1>3, <2>1, TakenIsCounted
  <2>5. Sound(s)'
    BY <1>1, <2>2, <2>3, <2>4 DEF Sound
  <2>6. AlertTypeOK'
    BY <1>1, <1>3, <2>2, <2>3, <2>4, <2>5, SweepTypes DEF OnlyThePost, AlertInv, AlertTypeOK
  <2>7. Keeps
    BY <1>1, <1>3, <2>4 DEF Keeps, OnlyThePost
  <2>8. \A a \in Alerts : ~InHand(s, a)
    BY <1>1 DEF InHand, TakenInHand, Sound
  <2>9. \A d \in good : InHand(s, d[1])' /\ OnPage(s, d[1])
    BY <2>2, <2>3 DEF InHand, TakenInHand, OnPage
  <2>10. \A a \in Alerts : OnPage(s, a)' => OnPage(s, a)
    BY <2>2, <2>3 DEF OnPage
  <2> QED
    BY <1>1, <2>2, <2>3, <2>4, <2>5, <2>6, <2>7, <2>8, <2>9, <2>10, SweepMoves DEF OnlyThePost
<1> QED
  BY <1>2, <1>3 DEF SendPush

LEMMA TicketIsRead ==
  ASSUME AlertInv, NEW s \in Postman, NEW d \in Delivery, ReadTicket(s, d) PROVE AlertInv'
<1> DEFINE outcome == IF d \in post[s].good THEN "sent"
                      ELSE IF d \in post[s].dead THEN "bounced" ELSE "refused"
<1>1. /\ post[s].at = "ticketing" /\ d \in post[s].page /\ TakeUp(s, d, outcome) /\ OnlyThePost
      /\ accepted' = accepted /\ unheard' = unheard /\ Sound(s)
  BY RowOf DEF ReadTicket, PostIs, OnlyThePost
<1>2. /\ outcome \in Outcome \ {"none"}
      /\ outcome = "sent" <=> d \in post[s].good
  BY DEF Outcome
<1> HIDE DEF outcome
<1>3. accepted \subseteq Channel \X Delivery /\ unheard \subseteq Alerts
  BY DEF AlertInv, AlertTypeOK
<1>4. \A a \in Alerts : Accepted(a)' => Accepted(a)
  BY <1>1 DEF Accepted
<1>5. outcome = "sent" => <<s[2], d>> \in accepted'
  BY <1>1, <1>2 DEF Sound
<1> QED
  BY <1>1, <1>2, <1>3, <1>4, <1>5, RowIsTakenUp

LEMMA RowIsRecorded == ASSUME AlertInv, NEW s \in Postman, RecordDelivery(s) PROVE AlertInv'
<1> DEFINE d == post[s].item
<1>1. /\ post[s].at = "recording" /\ post[s] \in PostRow /\ s[2] \in Channel /\ Sound(s)
      /\ accepted' = accepted /\ d \in Delivery /\ <<s[2], d>> \in Channel \X Delivery
      /\ post[s].good \subseteq Delivery
  BY RowOf DEF RecordDelivery, PostIs, Sound
<1>2. /\ age' = age /\ notices' = notices /\ notGiven' = notGiven /\ straddled' = straddled
      /\ UNCHANGED <<suppressed, disabled, delivered, interrupted, unheard, alertFaults>>
  BY DEF RecordDelivery
<1>3. record \in [Channel \X Delivery -> {"none", "sent", "failed"}]
  BY DEF AlertInv, AlertTypeOK
<1>4. /\ record' \in [Channel \X Delivery -> {"none", "sent", "failed"}]
      /\ \A e \in Channel \X Delivery : e # <<s[2], d>> => record'[e] = record[e]
      /\ record'[<<s[2], d>>] # "none"
      /\ record'[<<s[2], d>>] = "sent" =>
           record[<<s[2], d>>] = "sent" \/ post[s].outcome = "sent"
  BY <1>1, <1>3 DEF RecordDelivery
<1>5. Keeps
  BY <1>1, <1>2, <1>4 DEF Keeps, Sound
<1>6. PICK row \in PostRow :
        /\ post' = [post EXCEPT ![s] = row] /\ row.page = post[s].page /\ row.good = post[s].good
        /\ \/ /\ row.at = LoopOf(s) /\ row.item = <<>> /\ row.outcome = "none"
              /\ post[s].outcome # "sent"
           \/ /\ row.at = Afterwards(s) /\ row.item = post[s].item
              /\ row.outcome = post[s].outcome
  <2>1. CASE post[s].outcome = "refused"
    <3> DEFINE row == [post[s] EXCEPT !.at = LoopOf(s), !.item = <<>>, !.outcome = "none"]
    <3>1. row \in PostRow /\ row.page = post[s].page /\ row.good = post[s].good
          /\ row.at = LoopOf(s) /\ row.item = <<>> /\ row.outcome = "none"
      BY <1>1 DEF PostRow, PostAt, LoopOf, Outcome
    <3>2. post' = [post EXCEPT ![s] = row]
      BY <2>1 DEF RecordDelivery, ToNext
    <3> HIDE DEF row
    <3> QED
      BY <2>1, <3>1, <3>2
  <2>2. CASE post[s].outcome # "refused"
    <3> DEFINE row == [post[s] EXCEPT !.at = Afterwards(s)]
    <3>1. row \in PostRow /\ row.page = post[s].page /\ row.good = post[s].good
          /\ row.at = Afterwards(s) /\ row.item = post[s].item /\ row.outcome = post[s].outcome
      BY <1>1 DEF PostRow, PostAt, Afterwards
    <3>2. post' = [post EXCEPT ![s] = row]
      BY <2>2 DEF RecordDelivery
    <3> HIDE DEF row
    <3> QED
      BY <2>2, <3>1, <3>2
  <2> QED
    BY <2>1, <2>2
<1>7. post'[s] = row /\ MovesTo(s, row)
  BY <1>2, <1>6 DEF MovesTo, AlertInv, AlertTypeOK
<1>8. \A e \in post[s].good : <<s[2], e>> \in Channel \X Delivery
  BY <1>1
<1>9. Sound(s)'
  BY <1>1, <1>4, <1>6, <1>7, <1>8, NothingIsNoDelivery DEF Sound, LoopOf, Afterwards
<1>10. AlertTypeOK'
  BY <1>1, <1>2, <1>4, <1>6, <1>7, <1>9, SweepTypes DEF AlertInv, AlertTypeOK
<1>11. \A a \in Alerts : InHand(s, a) => InHand(s, a)'
  BY <1>6, <1>7 DEF InHand, TakenInHand
<1>12. \A a \in Alerts : OnPage(s, a)' => OnPage(s, a)
  BY <1>6, <1>7, NothingIsNoDelivery DEF OnPage
<1>13. \A a \in Alerts : Accepted(a)' => Accepted(a)
  BY <1>1 DEF Accepted
<1> QED
  BY <1>2, <1>5, <1>6, <1>7, <1>9, <1>10, <1>11, <1>12, <1>13, SweepMoves

\* On to the next row, once what was in hand is marked or was never sent.
LEMMA GoesOn ==
  ASSUME AlertInv, NEW s \in Postman, ToNext(s), post[s].at \in {"suppressing", "marking"},
         age' = age, notices' = notices, notGiven' = notGiven, straddled' = straddled,
         record' = record, accepted' = accepted, interrupted' = interrupted,
         unheard' = unheard, alertFaults' = alertFaults,
         suppressed' \subseteq Recipients, disabled' \subseteq Recipients,
         delivered' = delivered \/ post[s].at = "marking",
         delivered' \in {delivered, delivered \cup {post[s].item[1]}},
         post[s].outcome = "sent" => post[s].item[1] \in delivered'
  PROVE  AlertInv'
<1> DEFINE row == [post[s] EXCEPT !.at = LoopOf(s), !.item = <<>>, !.outcome = "none"]
<1>1. post[s] \in PostRow /\ s[2] \in Channel /\ Sound(s) /\ post[s].item \in Delivery
  BY RowOf DEF Sound
<1>2. /\ row \in PostRow /\ row.page = post[s].page /\ row.good = post[s].good
      /\ row.at = LoopOf(s) /\ row.item = <<>> /\ row.outcome = "none"
  BY <1>1 DEF PostRow, PostAt, LoopOf, Outcome
<1>3. post'[s] = row /\ MovesTo(s, row)
  BY DEF MovesTo, ToNext, AlertInv, AlertTypeOK
<1> HIDE DEF row
<1>4. Sound(s)'
  BY <1>1, <1>2, <1>3, NothingIsNoDelivery DEF Sound, LoopOf
<1>5. post[s].item[1] \in Alerts /\ post[s].item[2] \in Recipients
      /\ post[s].item = <<post[s].item[1], post[s].item[2]>>
  BY <1>1, DeliveryParts
<1>6. delivered' \subseteq Alerts
  BY <1>5 DEF AlertInv, AlertTypeOK
<1>7. AlertTypeOK'
  BY <1>2, <1>3, <1>4, <1>6, SweepTypes DEF AlertInv, AlertTypeOK
<1>8. Keeps
  BY DEF Keeps
<1>9. \A a \in Alerts : InHand(s, a) => InHand(s, a)' \/ a \in delivered'
  BY <1>2, <1>3 DEF InHand, TakenInHand
<1>10. \A a \in Alerts : OnPage(s, a)' => OnPage(s, a)
  BY <1>2, <1>3, NothingIsNoDelivery DEF OnPage
<1>11. \A a \in Alerts : Accepted(a)' => Accepted(a)
  BY DEF Accepted
<1>12. \A a \in delivered' \ delivered : \E c \in Channel, m \in Recipients :
         <<c, <<a, m>>>> \in accepted' /\ record'[<<c, <<a, m>>>>] # "none"
  BY <1>1, <1>5 DEF Sound
<1> QED
  BY <1>2, <1>3, <1>4, <1>7, <1>8, <1>9, <1>10, <1>11, <1>12, SweepMoves

LEMMA AddressIsSuppressed == ASSUME AlertInv, NEW s \in Postman, Suppress(s) PROVE AlertInv'
<1>1. post[s].at = "suppressing" /\ ToNext(s) /\ Sound(s) /\ post[s].item \in Delivery
  BY RowOf DEF Suppress, PostIs, Sound
<1>2. post[s].item[2] \in Recipients
  BY <1>1, DeliveryParts
<1>3. suppressed' \subseteq Recipients /\ disabled' \subseteq Recipients
  BY <1>2 DEF Suppress, AlertInv, AlertTypeOK
<1> QED
  BY <1>1, <1>3, GoesOn DEF Suppress, Sound

LEMMA AlertIsMarked == ASSUME AlertInv, NEW s \in Postman, Mark(s) PROVE AlertInv'
<1>1. post[s].at = "marking" /\ ToNext(s)
  BY DEF Mark, PostIs
<1>2. suppressed' \subseteq Recipients /\ disabled' \subseteq Recipients
  BY DEF Mark, AlertInv, AlertTypeOK
<1> QED
  BY <1>1, <1>2, GoesOn DEF Mark

\* A sweep is over, or has died with what it had in hand.
LEMMA SweepIsOver ==
  ASSUME AlertInv, NEW s \in Postman, post' = [post EXCEPT ![s] = AtRest],
         UNCHANGED <<age, record, suppressed, disabled, delivered, notGiven, notices,
                     accepted, straddled, unheard>>,
         interrupted' \in {interrupted, interrupted \cup TakenInHand(s)}, alertFaults' \in Nat,
         \A a \in Alerts : InHand(s, a) => a \in interrupted'
  PROVE  AlertInv'
<1>1. MovesTo(s, AtRest) /\ post'[s] = AtRest
  BY DEF MovesTo, AlertInv, AlertTypeOK
<1>2. Sound(s)'
  BY <1>1, RestIsSound DEF Sound
<1>3. post[s].outcome = "sent" => post[s].item \in Delivery
  BY RowOf DEF Sound, PostRow, PostAt
<1>4. TakenInHand(s) \subseteq Alerts
  BY <1>3, RowOf, DeliveryParts DEF TakenInHand
<1>5. interrupted' \subseteq Alerts
  BY <1>4 DEF AlertInv, AlertTypeOK
<1>6. AlertTypeOK'
  BY <1>1, <1>2, <1>5, RestIsSound, SweepTypes DEF AlertInv, AlertTypeOK
<1>7. Keeps
  BY DEF Keeps
<1>8. \A a \in Alerts : ~OnPage(s, a)'
  BY <1>1, RestIsSound DEF OnPage
<1>9. \A a \in Alerts : Accepted(a)' => Accepted(a)
  BY DEF Accepted
<1> QED
  BY <1>1, <1>2, <1>6, <1>7, <1>8, <1>9, RestIsSound, SweepMoves

LEMMA SweepEnds ==
  ASSUME AlertInv, NEW s \in Postman, FinishPost(s) \/ PostDies(s) PROVE AlertInv'
<1>1. CASE FinishPost(s)
  <2>1. \A a \in Alerts : ~InHand(s, a)
    BY <1>1, RowOf DEF FinishPost, PostIs, LoopOf, InHand, TakenInHand, Sound
  <2> QED
    BY <1>1, <2>1, SweepIsOver DEF FinishPost, AlertInv, AlertTypeOK
<1>2. CASE PostDies(s)
  <2>1. \A a \in Alerts : InHand(s, a) => a \in interrupted'
    BY <1>2 DEF PostDies, InHand
  <2>2. alertFaults' \in Nat
    BY <1>2 DEF PostDies, Faulty, AlertInv, AlertTypeOK
  <2> QED
    BY <1>2, <2>1, <2>2, SweepIsOver DEF PostDies
<1> QED
  BY <1>1, <1>2

LEMMA PostSteps ==
  ASSUME AlertInv, NEW s \in Postman, PostStep(s) \/ PostDies(s) PROVE AlertInv'
BY PendingIsRead, EmailIsSent, PushIsSent, TicketIsRead, RowIsRecorded, AddressIsSuppressed,
   AlertIsMarked, SweepEnds DEF PostStep

----------------------------------------------------------------------------
(* The notice sweep, and what the sweeps do not do *)

\* A step that touches no sweep, no row and no provider.
LEMMA PostStands ==
  ASSUME AlertInv, UNCHANGED <<record, delivered, post, accepted, interrupted, unheard>>,
         AlertTypeOK', OverFact'
  PROVE  AlertInv'
<1>1. \A s \in Postman : Sound(s)' /\ \A a \in Alerts : InHand(s, a)' <=> InHand(s, a)
  BY DEF AlertInv, Sound, InHand, TakenInHand
<1>2. HandsFact' /\ DeliveredWasTaken'
  <2>1. \A a \in Alerts : Accepted(a)' <=> Accepted(a)
    BY DEF Accepted
  <2>2. DeliveredWasTaken'
    BY DEF AlertInv, DeliveredWasTaken
  <2> QED
    BY <1>1, <2>1, <2>2 DEF AlertInv, HandsFact
<1> QED
  BY <1>1, <1>2 DEF AlertInv

LEMMA NoticesAreRead == ASSUME AlertInv, NEW w \in AlertWorkers, ReadNotices(w) PROVE AlertInv'
<1>1. Undelivered \subseteq Alerts
  BY DEF Undelivered
<1>2. AlertTypeOK'
  BY <1>1 DEF ReadNotices, AlertInv, AlertTypeOK
<1>3. \A a \in Alerts : Over(a)' => Over(a) \/ a \in Undelivered
  BY DEF Over, ReadNotices, AlertInv, AlertTypeOK
<1>4. /\ \A a \in Alerts, s \in Postman : OnPage(s, a)' <=> OnPage(s, a)
      /\ \A a \in Alerts : Accepted(a)' <=> Accepted(a)
  BY DEF OnPage, Accepted, ReadNotices
<1>5. ASSUME NEW a \in Undelivered
      PROVE  /\ age[a] = PastWindow
             /\ \A s \in Postman : OnPage(s, a) => a \in straddled'
             /\ Accepted(a) => a \in interrupted \cup straddled' \cup unheard
  <2>1. \A s \in Postman : OnPage(s, a) => a \in straddled'
    BY DEF ReadNotices, InPage, OnPage
  <2>2. \A s \in Postman : InHand(s, a) => OnPage(s, a)
    <3> SUFFICES ASSUME NEW s \in Postman, InHand(s, a) PROVE OnPage(s, a)
      OBVIOUS
    <3>1. Sound(s) /\ post[s] \in PostRow
      BY RowOf
    <3>2. CASE post[s].outcome = "sent" /\ a = post[s].item[1]
      <4>1. post[s].item \in Delivery
        BY <3>1, <3>2 DEF Sound, PostRow, PostAt
      <4> QED
        BY <3>2, <4>1 DEF OnPage
    <3>3. CASE \E d \in post[s].page \cap post[s].good : a = d[1]
      BY <3>3 DEF OnPage
    <3> QED
      BY <3>2, <3>3 DEF InHand, TakenInHand
  <2> QED
    BY <1>1, <2>1, <2>2 DEF Undelivered, AlertInv, HandsFact
<1>6. OverFact'
  <2> SUFFICES ASSUME NEW a \in Alerts, Over(a)'
               PROVE  /\ age'[a] = PastWindow
                      /\ \A s \in Postman : OnPage(s, a)' => a \in straddled'
                      /\ Accepted(a)' => a \in interrupted' \cup straddled' \cup unheard'
    BY DEF OverFact
  <2>1. /\ age' = age /\ interrupted' = interrupted /\ unheard' = unheard
        /\ straddled \subseteq straddled'
    BY DEF ReadNotices
  <2> QED
    BY <1>3, <1>4, <1>5, <2>1 DEF AlertInv, OverFact
<1> QED
  BY <1>2, <1>6, PostStands DEF ReadNotices

LEMMA NoticeIsRecorded ==
  ASSUME AlertInv, NEW w \in AlertWorkers, NEW a \in Alerts, RecordNotice(w, a) PROVE AlertInv'
<1>1. AlertTypeOK'
  BY DEF RecordNotice, Faulty, AlertInv, AlertTypeOK
<1>2. \A b \in Alerts : Over(b)' => Over(b)
  BY DEF Over, RecordNotice, AlertInv, AlertTypeOK
<1>3. /\ \A b \in Alerts, s \in Postman : OnPage(s, b)' <=> OnPage(s, b)
      /\ \A b \in Alerts : Accepted(b)' <=> Accepted(b)
  BY DEF OnPage, Accepted, RecordNotice
<1>4. OverFact'
  BY <1>2, <1>3 DEF RecordNotice, AlertInv, OverFact
<1> QED
  BY <1>1, <1>4, PostStands DEF RecordNotice

LEMMA AlertGrowsOld == ASSUME AlertInv, NEW a \in Alerts, Grow(a) PROVE AlertInv'
<1>1. age \in [Alerts -> Age] /\ age'[a] = age[a] + 1 /\ ~Over(a)
      /\ \A b \in Alerts : b # a => age'[b] = age[b]
  BY DEF Grow, AlertInv, AlertTypeOK, OverFact, PastWindow, Age
<1>2. AlertTypeOK'
  BY <1>1 DEF Grow, AlertInv, AlertTypeOK, Age, PastWindow
<1>3. /\ \A b \in Alerts, s \in Postman : OnPage(s, b)' <=> OnPage(s, b)
      /\ \A b \in Alerts : (Accepted(b)' <=> Accepted(b)) /\ (Over(b)' <=> Over(b))
  BY DEF OnPage, Accepted, Over, Grow
<1>4. OverFact'
  BY <1>1, <1>3 DEF Grow, AlertInv, OverFact
<1> QED
  BY <1>2, <1>4, PostStands DEF Grow

LEMMA AddressBounces == ASSUME AlertInv, NEW m \in Recipients, EmailEvent(m) PROVE AlertInv'
<1>1. AlertTypeOK'
  BY DEF EmailEvent, AlertInv, AlertTypeOK
<1>2. /\ \A b \in Alerts, s \in Postman : OnPage(s, b)' <=> OnPage(s, b)
      /\ \A b \in Alerts : (Accepted(b)' <=> Accepted(b)) /\ (Over(b)' <=> Over(b))
  BY DEF OnPage, Accepted, Over, EmailEvent
<1>3. OverFact'
  BY <1>2 DEF EmailEvent, AlertInv, OverFact
<1> QED
  BY <1>1, <1>3, PostStands DEF EmailEvent

LEMMA AlertSteps == AlertInv /\ [AlertNext]_alertVars => AlertInv'
<1> SUFFICES ASSUME AlertInv, [AlertNext]_alertVars PROVE AlertInv'
  OBVIOUS
<1>1. CASE UNCHANGED alertVars
  <2>1. AlertTypeOK'
    BY <1>1 DEF alertVars, AlertInv, AlertTypeOK
  <2>2. /\ \A b \in Alerts, s \in Postman : OnPage(s, b)' <=> OnPage(s, b)
        /\ \A b \in Alerts : (Accepted(b)' <=> Accepted(b)) /\ (Over(b)' <=> Over(b))
    BY <1>1 DEF alertVars, OnPage, Accepted, Over
  <2>3. OverFact'
    BY <1>1, <2>2 DEF alertVars, AlertInv, OverFact
  <2> QED
    BY <1>1, <2>1, <2>3, PostStands DEF alertVars
<1> QED
  BY <1>1, PostSteps, NoticesAreRead, NoticeIsRecorded, AlertGrowsOld, AddressBounces
     DEF AlertNext, NoticeStep

\* A notice is recorded as not given although a provider had taken it only where a
\* sweep still had it at the end of its window, died with it or lost the provider's
\* answer, for any alerts, members, processes and faults (sweepAlertEmail,
\* sweepAlertPush, sweepUndeliveredNotices).
THEOREM NotGivenMeansNotGiven == AlertSpec => []NotGivenIsTrue
<1>1. AlertInv => NotGivenIsTrue
  <2> SUFFICES ASSUME AlertInv, NEW a \in notGiven, Accepted(a)
               PROVE  a \in interrupted \cup straddled \cup unheard
    BY DEF NotGivenIsTrue, Accepted
  <2> QED
    BY DEF AlertInv, AlertTypeOK, OverFact, Over
<1> QED
  BY AlertStarts, AlertSteps, <1>1, PTL DEF AlertSpec

\* delivered_at, and a delivery row marked sent, stand for a message a provider
\* took, and an alert marked delivered has a row that says by whom
\* (recordEmailDelivery, recordPushDelivery).
THEOREM DeliveriesWereTaken == AlertSpec => []DeliveredWasTaken
<1>1. AlertInv => DeliveredWasTaken
  BY DEF AlertInv
<1> QED
  BY AlertStarts, AlertSteps, <1>1, PTL DEF AlertSpec

----------------------------------------------------------------------------
(* Provider events (BillingEvents)                                          *)

HandlerRow == [at : HandlerAt, event : Nat, writes : BOOLEAN, row : MirrorRow]

BillingTyped ==
  /\ truth \in [Object -> MirrorRow] /\ mirror \in [Object -> MirrorRow]
  /\ sent \in Seq(Event) /\ Len(sent) <= MaxEvents /\ acked \subseteq Sent
  /\ handler \in [Handlers -> HandlerRow]
  /\ applied \in [1..MaxEvents -> Nat] /\ billingFaults \in Nat

\* A request has an event in hand until it has answered, and writes at its commit only.
HandlerFacts ==
  \A h \in Handlers :
    /\ IF handler[h].at = "idle" THEN handler[h].event = 0 ELSE handler[h].event \in Sent
    /\ handler[h].writes => handler[h].at = "committing"

\* Whose change is in the tables: the ids recorded are those of the events applied,
\* one event to an id, and what is being applied has neither of the two.
IdsFacts ==
  /\ \A n \in 1..MaxEvents : applied[n] <= 1 /\ (applied[n] = 1 => n \in Sent)
  /\ \A n \in Sent : applied[n] = 1 => EventId(n) \in recorded
  /\ \A m, n \in Sent : applied[m] = 1 /\ applied[n] = 1 /\ EventId(m) = EventId(n) => m = n
  /\ \A id \in recorded : \E n \in Sent : EventId(n) = id /\ applied[n] = 1
  /\ \A n \in acked : EventId(n) \in recorded
InsideFacts ==
  /\ \A h \in Handlers : Inside(h) => EventId(handler[h].event) \notin recorded
  /\ \A g, h \in Handlers :
       Inside(g) /\ Inside(h) /\ EventId(handler[g].event) = EventId(handler[h].event) => g = h

\* Where a live row is written or about to be, no other subscription's is.
OthersAreOver(o) == \A s \in Subs \ {o} : mirror[s].status \notin LiveStatus
StagesLive(h) ==
  handler[h].writes /\ EventOf(h).of \in Subs /\ handler[h].row.status \in LiveStatus
LiveFacts ==
  /\ OneLiveSubscription
  /\ \A h \in Handlers : StagesLive(h) => OthersAreOver(EventOf(h).of)
  /\ \A g, h \in Handlers : StagesLive(g) /\ StagesLive(h) => EventOf(g).of = EventOf(h).of

BillingInv == BillingTyped /\ HandlerFacts /\ IdsFacts /\ InsideFacts /\ LiveFacts

LEMMA RowsAreTyped == NoRow \in MirrorRow /\ Unstaged \in HandlerRow
<1>1. NoRow \in MirrorRow
  BY BillingAssumption DEF NoRow, MirrorRow, Status
<1> QED
  BY <1>1 DEF Unstaged, HandlerRow, HandlerAt

LEMMA SentIsIndexed == ASSUME BillingTyped PROVE Sent = 1..Len(sent) /\ Len(sent) \in Nat
                                                 /\ \A n \in Sent : sent[n] \in Event
BY DEF BillingTyped, Sent

LEMMA BillingStarts == BillingInit => BillingInv
<1> SUFFICES ASSUME BillingInit PROVE BillingInv
  OBVIOUS
<1>1. Sent = {}
  BY DEF BillingInit, Sent
<1>2. BillingTyped
  BY RowsAreTyped, BillingAssumption DEF BillingInit, BillingTyped
<1>3. \A h \in Handlers : /\ ~Inside(h) /\ handler[h].at = "idle" /\ ~handler[h].writes
                           /\ handler[h].event = 0
  BY DEF BillingInit, Inside, Unstaged
<1>4. HandlerFacts /\ InsideFacts
  BY <1>1, <1>3 DEF HandlerFacts, InsideFacts
<1>5. IdsFacts
  BY <1>1, BillingAssumption DEF BillingInit, IdsFacts
<1>6. \A s \in Subs : mirror[s].status \notin LiveStatus
  BY DEF BillingInit, Object, NoRow, LiveStatus
<1>7. LiveFacts
  BY <1>3, <1>6 DEF LiveFacts, StagesLive, OneLiveSubscription
<1> QED
  BY <1>2, <1>4, <1>5, <1>7 DEF BillingInv

----------------------------------------------------------------------------
(* The provider *)

\* What the provider says next is said after what it has said.
LEMMA ProviderTells ==
  ASSUME BillingInv, NEW events \in Seq(Event), Tell(events), truth' \in [Object -> MirrorRow]
  PROVE  /\ BillingInv'
         /\ Sent \subseteq Sent' /\ \A n \in Sent : sent'[n] = sent[n]
<1>1. /\ sent' \in Seq(Event) /\ Len(sent') = Len(sent) + Len(events)
      /\ \A n \in 1..Len(sent) + Len(events) :
           sent'[n] = IF n <= Len(sent) THEN sent[n] ELSE events[n - Len(sent)]
  BY ConcatProperties DEF Tell, BillingInv, BillingTyped
<1>2. Len(events) \in Nat /\ Len(sent) \in Nat /\ Len(sent') <= MaxEvents
  BY <1>1 DEF Tell, BillingInv, BillingTyped
<1>3. Sent \subseteq Sent' /\ \A n \in Sent : sent'[n] = sent[n]
  BY <1>1, <1>2, SentIsIndexed DEF BillingInv, Sent
<1>4. BillingTyped'
  BY <1>1, <1>2, <1>3 DEF Tell, BillingInv, BillingTyped
<1>5. \A n \in Sent : EventId(n)' = EventId(n)
  BY <1>3 DEF EventId
<1>6. \A h \in Handlers : Inside(h)' <=> Inside(h)
  BY DEF Inside, Tell
<1>7. \A h \in Handlers : Inside(h) => handler[h].event \in Sent
  BY DEF Inside, BillingInv, HandlerFacts
<1>8. HandlerFacts'
  BY <1>3 DEF Tell, BillingInv, HandlerFacts
<1>9. \A n \in 1..MaxEvents : applied[n] = 1 => n \in Sent
  BY DEF BillingInv, IdsFacts
<1>10. IdsFacts'
  <2>1. \A id \in recorded : \E n \in Sent : EventId(n)' = id /\ applied[n] = 1
    BY <1>5 DEF BillingInv, IdsFacts
  <2>2. \A m \in Sent', n \in Sent' : applied[m] = 1 /\ applied[n] = 1 => m \in Sent /\ n \in Sent
    <3>1. Sent' \subseteq 1..MaxEvents
      BY <1>1, <1>2, BillingAssumption DEF Sent
    <3> QED
      BY <1>9, <3>1
  <2>3. \A n \in Sent' : applied[n] = 1 => EventId(n)' \in recorded
    BY <1>5, <2>2 DEF BillingInv, IdsFacts
  <2>4. \A m, n \in Sent' : applied[m] = 1 /\ applied[n] = 1 /\ EventId(m)' = EventId(n)' => m = n
    BY <1>5, <2>2 DEF BillingInv, IdsFacts
  <2>5. \A n \in acked : EventId(n)' \in recorded
    BY <1>5 DEF BillingInv, IdsFacts, BillingTyped
  <2> QED
    BY <1>3, <1>9, <2>1, <2>3, <2>4, <2>5 DEF Tell, BillingInv, IdsFacts
<1>11. InsideFacts'
  <2>1. \A h \in Handlers : Inside(h) => EventId(handler[h].event)' = EventId(handler[h].event)
    BY <1>5, <1>7 DEF Tell
  <2>2. \A h \in Handlers : Inside(h)' => EventId(handler[h].event)' \notin recorded'
    BY <1>6, <2>1 DEF Tell, BillingInv, InsideFacts
  <2>3. \A g, h \in Handlers : Inside(g)' /\ Inside(h)'
          /\ EventId(handler[g].event)' = EventId(handler[h].event)' => g = h
    BY <1>6, <2>1 DEF BillingInv, InsideFacts
  <2> QED
    BY <2>2, <2>3 DEF InsideFacts
<1>12. LiveFacts'
  <2>1. \A h \in Handlers : handler[h].writes => EventOf(h)' = EventOf(h)
    BY <1>3 DEF EventOf, Tell, BillingInv, HandlerFacts
  <2>2. \A h \in Handlers : StagesLive(h)' => StagesLive(h) /\ EventOf(h)' = EventOf(h)
    BY <2>1 DEF StagesLive, Tell
  <2> QED
    BY <2>2 DEF Tell, BillingInv, LiveFacts, OneLiveSubscription, OthersAreOver
<1> QED
  BY <1>3, <1>4, <1>8, <1>10, <1>11, <1>12 DEF BillingInv

\* The provider has changed an object and told of it.
ProviderSpoke == truth' \in [Object -> MirrorRow] /\ \E events \in Seq(Event) : Tell(events)

LEMMA ProviderSpeaks == ASSUME BillingInv, ProviderStep PROVE ProviderSpoke
<1>1. ASSUME NEW kind \in Kind, NEW o \in Object, NEW status \in SubscriptionState \cup {"none"},
             NEW amount \in 0..Price
      PROVE  /\ Says(kind, o, status, amount) \in Event
             /\ <<Says(kind, o, status, amount)>> \in Seq(Event)
  BY DEF Says, Event
<1>2. 0 \in 0..Price /\ Price \in 0..Price /\ "none" \in SubscriptionState \cup {"none"}
      /\ "active" \in SubscriptionState
  BY BillingAssumption DEF SubscriptionState
<1>3. \A o \in Object : truth[o] \in MirrorRow
  BY DEF BillingInv, BillingTyped
<1>4. ASSUME NEW o \in Object, NEW row \in MirrorRow
      PROVE  [truth EXCEPT ![o] = row] \in [Object -> MirrorRow]
  BY DEF BillingInv, BillingTyped
<1>5. ASSUME NEW o \in Object, NEW status \in Status
      PROVE  [truth EXCEPT ![o].status = status] \in [Object -> MirrorRow]
  <2>1. [truth[o] EXCEPT !.status = status] \in MirrorRow
    BY <1>3 DEF MirrorRow
  <2> QED
    BY <1>4, <2>1
<1>6. ASSUME NEW s \in Subs, Subscribe(s) PROVE ProviderSpoke
  <2>1. s \in Object /\ "active" \in Status
    BY DEF Object, Status, SubscriptionState
  <2>2. Says("checkout", s, "none", 0) \in Event /\ Says("subscription", s, "active", 0) \in Event
    BY <1>1, <1>2, <2>1 DEF Kind
  <2>3. <<Says("subscription", s, "active", 0)>> \in Seq(Event)
        /\ <<Says("checkout", s, "none", 0), Says("subscription", s, "active", 0)>> \in Seq(Event)
    BY <2>2
  <2>4. truth' \in [Object -> MirrorRow]
    BY <1>5, <1>6, <2>1 DEF Subscribe
  <2>5. PICK events \in Seq(Event) : Tell(events)
    BY <1>6, <2>3 DEF Subscribe
  <2> QED
    BY <2>4, <2>5 DEF ProviderSpoke
<1>7. ASSUME NEW s \in Subs, NEW status \in SubscriptionState, ChangeSubscription(s, status)
      PROVE  ProviderSpoke
  <2>1. s \in Object /\ status \in Status
    BY DEF Object, Status
  <2>2. truth' \in [Object -> MirrorRow]
    BY <1>5, <1>7, <2>1 DEF ChangeSubscription
  <2>3. <<Says("subscription", s, status, 0)>> \in Seq(Event)
    BY <1>1, <1>2, <2>1 DEF Kind
  <2> QED
    BY <1>7, <2>2, <2>3 DEF ProviderSpoke, ChangeSubscription
<1>8. ASSUME NEW i \in Purchases, FailPayment(i) PROVE ProviderSpoke
  <2>1. i \in Object /\ "open" \in Status
    BY DEF Object, Status
  <2>2. truth' \in [Object -> MirrorRow]
    BY <1>5, <1>8, <2>1 DEF FailPayment
  <2>3. <<Says("invoice", i, "none", 0)>> \in Seq(Event)
    BY <1>1, <1>2, <2>1 DEF Kind
  <2> QED
    BY <1>8, <2>2, <2>3 DEF ProviderSpoke, FailPayment
<1>9. ASSUME NEW i \in Purchases, Pay(i) PROVE ProviderSpoke
  <2>1. i \in Object
    BY DEF Object
  <2> DEFINE row == [truth[i] EXCEPT !.status = "paid", !.paid = Price]
  <2>2. row \in MirrorRow /\ truth' = [truth EXCEPT ![i] = row]
    BY <1>2, <1>3, <1>9, <2>1 DEF Pay, MirrorRow, Status
  <2> HIDE DEF row
  <2>3. truth' \in [Object -> MirrorRow]
    BY <1>4, <2>1, <2>2
  <2>4. <<Says("payment", i, "none", Price)>> \in Seq(Event)
    BY <1>1, <1>2, <2>1 DEF Kind
  <2> QED
    BY <1>9, <2>3, <2>4 DEF ProviderSpoke, Pay
<1>10. ASSUME NEW i \in Purchases, NEW amount \in 1..Price, GiveBack(i, amount) PROVE ProviderSpoke
  <2> DEFINE so == truth[i].refunded + amount
             status == IF so = truth[i].paid THEN "refunded" ELSE "paid"
             row == [truth[i] EXCEPT !.refunded = so, !.status = status]
  <2>1. i \in Object /\ truth[i] \in MirrorRow
    BY <1>3 DEF Object
  <2>2. so \in 0..Price /\ status \in Status
    BY <1>10, <2>1, BillingAssumption DEF GiveBack, MirrorRow, Status
  <2>3. truth' = [truth EXCEPT ![i] = row]
    BY <1>10 DEF GiveBack
  <2>4. Tell(<<Says("refund", i, "none", so)>>)
    BY <1>10 DEF GiveBack
  <2> HIDE DEF so, status
  <2>5. row \in MirrorRow
    BY <2>1, <2>2 DEF MirrorRow
  <2> HIDE DEF row
  <2>6. truth' \in [Object -> MirrorRow]
    BY <1>4, <2>1, <2>3, <2>5
  <2>7. <<Says("refund", i, "none", so)>> \in Seq(Event)
    BY <1>1, <1>2, <2>1, <2>2 DEF Kind
  <2> QED
    BY <2>4, <2>6, <2>7 DEF ProviderSpoke
<1> QED
  BY <1>6, <1>7, <1>8, <1>9, <1>10 DEF ProviderStep

\* What it has told stays told.
LEMMA ProviderSteps ==
  ASSUME BillingInv, ProviderStep
  PROVE  /\ BillingInv'
         /\ \A n \in Sent : n \in Sent' /\ sent'[n] = sent[n]
         /\ \A n \in Sent' : applied[n] = 1 => n \in Sent
         /\ UNCHANGED <<acked, recorded, mirror, handler, applied, billingFaults>>
<1>1. PICK events \in Seq(Event) : Tell(events) /\ truth' \in [Object -> MirrorRow]
  BY ProviderSpeaks DEF ProviderSpoke
<1>2. BillingInv' /\ \A n \in Sent : n \in Sent' /\ sent'[n] = sent[n]
  BY <1>1, ProviderTells
<1>3. Sent' \subseteq 1..MaxEvents
  <2>1. Sent' = 1..Len(sent') /\ Len(sent') \in Nat /\ Len(sent') <= MaxEvents
    BY <1>2 DEF BillingInv, BillingTyped, Sent
  <2> QED
    BY <2>1, BillingAssumption
<1> QED
  BY <1>1, <1>2, <1>3 DEF BillingInv, IdsFacts, Tell

----------------------------------------------------------------------------
(* The webhook *)

InsideAt == {"applying", "inserting", "committing"}

\* A request that moves on with nothing committed.
LEMMA HandlerMoves ==
  ASSUME BillingInv, NEW h \in Handlers, NEW row \in HandlerRow,
         handler' = [handler EXCEPT ![h] = row],
         UNCHANGED <<truth, sent, recorded, mirror, applied>>,
         acked' \subseteq Sent, \A n \in acked' : EventId(n) \in recorded, billingFaults' \in Nat,
         IF row.at = "idle" THEN row.event = 0 ELSE row.event \in Sent,
         row.writes => row.at = "committing",
         row.at \in InsideAt =>
           /\ EventId(row.event) \notin recorded
           /\ \A g \in Handlers \ {h} : Inside(g) => EventId(handler[g].event) # EventId(row.event),
         row.writes /\ sent[row.event].of \in Subs /\ row.row.status \in LiveStatus =>
           /\ OthersAreOver(sent[row.event].of)
           /\ \A g \in Handlers \ {h} : StagesLive(g) => EventOf(g).of = sent[row.event].of
  PROVE  BillingInv'
<1>1. handler'[h] = row /\ \A g \in Handlers \ {h} : handler'[g] = handler[g]
  BY DEF BillingInv, BillingTyped
<1>2. BillingTyped'
  BY DEF BillingInv, BillingTyped, Sent
<1>3. HandlerFacts'
  BY <1>1 DEF BillingInv, HandlerFacts, Sent
<1>4. \A n : EventId(n)' = EventId(n)
  BY DEF EventId
<1>5. IdsFacts'
  BY <1>4 DEF BillingInv, IdsFacts, Sent
<1>6. (Inside(h)' <=> row.at \in InsideAt) /\ \A g \in Handlers \ {h} : Inside(g)' <=> Inside(g)
  BY <1>1 DEF Inside, InsideAt
<1>7. InsideFacts'
  <2>1. \A g \in Handlers : Inside(g)' => EventId(handler'[g].event) \notin recorded
    BY <1>1, <1>6 DEF BillingInv, InsideFacts
  <2>2. \A f, g \in Handlers : Inside(f)' /\ Inside(g)'
          /\ EventId(handler'[f].event) = EventId(handler'[g].event) => f = g
    BY <1>1, <1>6 DEF BillingInv, InsideFacts
  <2> QED
    BY <1>4, <2>1, <2>2 DEF InsideFacts
<1>8. LiveFacts'
  <2>1. /\ StagesLive(h)' <=> /\ row.writes /\ sent[row.event].of \in Subs
                              /\ row.row.status \in LiveStatus
        /\ EventOf(h)' = sent[row.event]
    BY <1>1 DEF StagesLive, EventOf
  <2>2. \A g \in Handlers \ {h} : (StagesLive(g)' <=> StagesLive(g)) /\ EventOf(g)' = EventOf(g)
    BY <1>1 DEF StagesLive, EventOf
  <2>3. \A o : OthersAreOver(o)' <=> OthersAreOver(o)
    BY DEF OthersAreOver
  <2>4. \A g \in Handlers : StagesLive(g)' => OthersAreOver(EventOf(g).of)'
    BY <2>1, <2>2, <2>3 DEF BillingInv, LiveFacts
  <2>5. \A f, g \in Handlers : StagesLive(f)' /\ StagesLive(g)' => EventOf(f)'.of = EventOf(g)'.of
    BY <2>1, <2>2 DEF BillingInv, LiveFacts
  <2> QED
    BY <2>4, <2>5 DEF BillingInv, LiveFacts, OneLiveSubscription
<1> QED
  BY <1>2, <1>3, <1>5, <1>7, <1>8 DEF BillingInv

LEMMA HandlerOf ==
  ASSUME BillingInv, NEW h \in Handlers
  PROVE  /\ handler[h] \in HandlerRow
         /\ handler[h].at # "idle" => /\ handler[h].event \in Sent /\ EventOf(h) \in Event
                                      /\ EventOf(h).of \in Object
                                      /\ mirror[EventOf(h).of] \in MirrorRow
         /\ ~Inside(h) => ~handler[h].writes
<1>1. \A n \in Sent : sent[n] \in Event /\ sent[n].of \in Object
  BY SentIsIndexed DEF BillingInv, Event
<1> QED
  BY <1>1 DEF BillingInv, BillingTyped, HandlerFacts, EventOf, Inside

LEMMA HandlerGivesUp ==
  ASSUME BillingInv, NEW h \in Handlers, GivesUp(h),
         UNCHANGED <<truth, sent, recorded, mirror, applied>>,
         acked' \subseteq Sent, \A n \in acked' : EventId(n) \in recorded, billingFaults' \in Nat
  PROVE  BillingInv'
<1>1. Unstaged \in HandlerRow /\ Unstaged.at = "idle" /\ Unstaged.event = 0 /\ ~Unstaged.writes
  BY RowsAreTyped DEF Unstaged
<1>2. Unstaged.at \notin InsideAt
  BY <1>1 DEF InsideAt
<1> QED
  BY <1>1, <1>2, HandlerMoves DEF GivesUp

\* A statement that waits for nothing, inside the transaction.
LEMMA HandlerGoesOn ==
  ASSUME BillingInv, NEW h \in Handlers, NEW at \in {"inserting", "committing"}, Moves(h, at),
         handler[h].at \in {"applying", "inserting"},
         UNCHANGED <<truth, sent, acked, recorded, mirror, applied, billingFaults>>
  PROVE  BillingInv'
<1> DEFINE row == [handler[h] EXCEPT !.at = at]
<1>1. handler[h] \in HandlerRow /\ handler[h].event \in Sent /\ ~handler[h].writes /\ Inside(h)
  BY HandlerOf DEF BillingInv, HandlerFacts, Inside
<1>2. row \in HandlerRow /\ row.at = at /\ row.event = handler[h].event /\ ~row.writes
  BY <1>1 DEF HandlerRow, HandlerAt
<1>3. handler' = [handler EXCEPT ![h] = row]
  BY DEF Moves
<1> HIDE DEF row
<1>4. /\ EventId(row.event) \notin recorded
      /\ \A g \in Handlers \ {h} : Inside(g) => EventId(handler[g].event) # EventId(row.event)
  BY <1>1, <1>2 DEF BillingInv, InsideFacts
<1>5. acked' \subseteq Sent /\ (\A n \in acked' : EventId(n) \in recorded) /\ billingFaults' \in Nat
  BY DEF BillingInv, BillingTyped, IdsFacts
<1>6. row.at # "idle"
  BY <1>2
<1> QED
  BY <1>1, <1>2, <1>3, <1>4, <1>5, <1>6, HandlerMoves

\* The row of an object is written, or refused: an index entry or a check stands
\* against it.
LEMMA RowIsStaged ==
  ASSUME BillingInv, NEW h \in Handlers, NEW row \in MirrorRow, Stage(h, row),
         handler[h].at \in {"applying", "inserting"},
         UNCHANGED <<truth, sent, acked, recorded, mirror, applied, billingFaults>>
  PROVE  BillingInv'
<1> DEFINE o == EventOf(h).of
           staged == [at |-> "committing", event |-> handler[h].event, writes |-> TRUE, row |-> row]
<1>1. handler[h] \in HandlerRow /\ handler[h].event \in Sent /\ Inside(h)
  BY HandlerOf DEF Inside
<1>2. acked' \subseteq Sent /\ (\A n \in acked' : EventId(n) \in recorded) /\ billingFaults' \in Nat
  BY DEF BillingInv, BillingTyped, IdsFacts
<1>3. CASE GivesUp(h)
  BY <1>2, <1>3, HandlerGivesUp
<1>4. CASE /\ handler' = [handler EXCEPT ![h] = staged]
           /\ row.status \in LiveStatus => ~OtherLiveRow(o) /\ ~OtherLiveStaged(h, o)
  <2>1. /\ staged \in HandlerRow /\ staged.at = "committing" /\ staged.event = handler[h].event
        /\ staged.row = row
    BY <1>1 DEF HandlerRow, HandlerAt
  <2>2. /\ EventId(staged.event) \notin recorded
        /\ \A g \in Handlers \ {h} : Inside(g) => EventId(handler[g].event) # EventId(staged.event)
    BY <1>1, <2>1 DEF BillingInv, InsideFacts
  <2>3. sent[staged.event].of = o
    BY DEF EventOf
  <2>4. o \in Subs /\ row.status \in LiveStatus =>
          /\ OthersAreOver(o)
          /\ \A g \in Handlers \ {h} : StagesLive(g) => EventOf(g).of = o
    <3> SUFFICES ASSUME o \in Subs, row.status \in LiveStatus
                 PROVE  /\ OthersAreOver(o)
                        /\ \A g \in Handlers \ {h} : StagesLive(g) => EventOf(g).of = o
      OBVIOUS
    <3>1. OthersAreOver(o)
      BY <1>4 DEF OtherLiveRow, OthersAreOver
    <3>2. \A g \in Handlers \ {h} : StagesLive(g) => g \in Others(h)
      BY DEF StagesLive, Others, Is, BillingInv, HandlerFacts
    <3> QED
      BY <1>4, <3>1, <3>2 DEF OtherLiveStaged, StagesLive
  <2> HIDE DEF o, staged
  <2>5. staged.at # "idle"
    BY <2>1
  <2> QED
    BY <1>1, <1>2, <1>4, <2>1, <2>2, <2>3, <2>4, <2>5, HandlerMoves
<1> QED
  BY <1>3, <1>4 DEF Stage, GivesUp

LEMMA EventIsTakenUp ==
  ASSUME BillingInv, NEW h \in Handlers, (\E n \in 1..MaxEvents : Deliver(h, n)) \/ RecordNew(h)
  PROVE  BillingInv'
<1>1. acked' \subseteq Sent /\ (\A n \in acked' : EventId(n) \in recorded) /\ billingFaults' \in Nat
  BY DEF BillingInv, BillingTyped, IdsFacts, Deliver, RecordNew
<1>2. UNCHANGED <<truth, sent, recorded, mirror, applied>>
  BY DEF Deliver, RecordNew
<1>3. handler[h] \in HandlerRow
  BY HandlerOf
<1>4. ASSUME NEW n \in 1..MaxEvents, Deliver(h, n) PROVE BillingInv'
  <2> DEFINE row == [handler[h] EXCEPT !.at = "recording", !.event = n]
  <2>1. n \in Sent /\ handler[h].at = "idle" /\ ~handler[h].writes
    <3>1. handler[h].at = "idle" /\ n \in Sent
      BY <1>4 DEF Deliver, Is
    <3> QED
      BY <3>1, HandlerOf DEF Inside
  <2>2. row \in HandlerRow /\ row.at = "recording" /\ row.event = n /\ ~row.writes
    <3>1. n \in Nat
      BY <1>4
    <3>2. row \in HandlerRow /\ row.at = "recording" /\ row.event = n
      BY <1>3, <3>1 DEF HandlerRow, HandlerAt
    <3>3. row.writes <=> handler[h].writes
      BY <1>3 DEF HandlerRow
    <3> QED
      BY <2>1, <3>2, <3>3
  <2>3. handler' = [handler EXCEPT ![h] = row]
    BY <1>4 DEF Deliver
  <2> HIDE DEF row
  <2>4. row.at # "idle" /\ row.at \notin InsideAt
    BY <2>2 DEF InsideAt
  <2> QED
    BY <1>1, <1>2, <2>1, <2>2, <2>3, <2>4, HandlerMoves
<1>5. CASE RecordNew(h)
  <2> DEFINE row == [handler[h] EXCEPT !.at = "applying"]
  <2>1. /\ handler[h].at = "recording" /\ handler[h].event \in Sent /\ ~handler[h].writes
        /\ EventId(handler[h].event) \notin recorded
        /\ \A g \in Handlers \ {h} : Inside(g) => g \in Others(h)
    BY <1>5, HandlerOf DEF RecordNew, MayRecord, Is, Inside, Others, BillingInv, HandlerFacts
  <2>2. row \in HandlerRow /\ row.at = "applying" /\ row.event = handler[h].event /\ ~row.writes
    BY <1>3, <2>1 DEF HandlerRow, HandlerAt
  <2>3. handler' = [handler EXCEPT ![h] = row]
    BY <1>5 DEF RecordNew, Moves
  <2>4. \A g \in Handlers \ {h} : Inside(g) => EventId(handler[g].event) # EventId(handler[h].event)
    BY <1>5, <2>1 DEF RecordNew, MayRecord
  <2> HIDE DEF row
  <2>5. row.at # "idle"
    BY <2>2
  <2> QED
    BY <1>1, <1>2, <2>1, <2>2, <2>3, <2>4, <2>5, HandlerMoves
<1> QED
  BY <1>4, <1>5

LEMMA HandlerAnswers ==
  ASSUME BillingInv, NEW h \in Handlers, RecordDuplicate(h) \/ DeliveryFails(h) PROVE BillingInv'
<1>1. CASE RecordDuplicate(h)
  <2>1. handler[h].event \in Sent /\ EventId(handler[h].event) \in recorded
    BY <1>1, HandlerOf DEF RecordDuplicate, MayRecord, Is
  <2>2. acked' \subseteq Sent /\ (\A n \in acked' : EventId(n) \in recorded) /\ billingFaults' \in Nat
    BY <1>1, <2>1 DEF BillingInv, BillingTyped, IdsFacts, RecordDuplicate
  <2> QED
    BY <1>1, <2>2, HandlerGivesUp DEF RecordDuplicate
<1>2. CASE DeliveryFails(h)
  <2>1. acked' \subseteq Sent /\ (\A n \in acked' : EventId(n) \in recorded) /\ billingFaults' \in Nat
    BY <1>2 DEF BillingInv, BillingTyped, IdsFacts, DeliveryFails, BillingFault
  <2> QED
    BY <1>2, <2>1, HandlerGivesUp DEF DeliveryFails
<1> QED
  BY <1>1, <1>2

\* What onPaymentSettled, onSubscriptionChanged, onInvoiceSettled and
\* onRefundSettled write is a row of the mirror.
LEMMA EventIsApplied ==
  ASSUME BillingInv, NEW h \in Handlers, ApplyPayment(h) \/ ApplyUpdate(h) \/ ApplyInsert(h) \/ ApplyRefund(h)
  PROVE  BillingInv'
<1> DEFINE e == EventOf(h)
           row == mirror[e.of]
<1>1. handler[h].at \in {"applying", "inserting"} /\ e \in Event /\ row \in MirrorRow
      /\ UNCHANGED <<truth, sent, acked, recorded, mirror, applied, billingFaults>>
  BY HandlerOf DEF ApplyPayment, ApplyUpdate, ApplyInsert, ApplyRefund, Is
<1>2. e.amount \in 0..Price /\ e.status \in SubscriptionState \cup {"none"}
      /\ row.paid \in 0..Price /\ row.found \in BOOLEAN
  BY <1>1 DEF Event, MirrorRow
<1>3. ASSUME NEW settled \in MirrorRow, Stage(h, settled) PROVE BillingInv'
  BY <1>1, <1>3, RowIsStaged
<1>4. ASSUME NEW at \in {"inserting", "committing"}, Moves(h, at) PROVE BillingInv'
  BY <1>1, <1>4, HandlerGoesOn
<1>5. CASE ApplyPayment(h)
  <2>1. [NoRow EXCEPT !.status = "active"] \in MirrorRow
    BY RowsAreTyped DEF MirrorRow, Status, SubscriptionState
  <2>2. [row EXCEPT !.status = "paid", !.paid = e.amount, !.found = @ \/ row.status = "none"] \in MirrorRow
    BY <1>1, <1>2 DEF MirrorRow, Status
  <2> QED
    BY <1>3, <1>5, <2>1, <2>2 DEF ApplyPayment
<1>6. Settled(e) \in MirrorRow
  <2>1. [row EXCEPT !.status = e.status] \in MirrorRow
    BY <1>1, <1>2 DEF MirrorRow, Status
  <2>2. [row EXCEPT !.status = "open", !.paid = e.amount] \in MirrorRow
    BY <1>1, <1>2 DEF MirrorRow, Status
  <2> QED
    BY <2>1, <2>2 DEF Settled
<1>7. CASE ApplyUpdate(h)
  BY <1>3, <1>4, <1>6, <1>7 DEF ApplyUpdate
<1>8. CASE ApplyInsert(h)
  BY <1>3, <1>4, <1>6, <1>8 DEF ApplyInsert
<1>9. CASE ApplyRefund(h)
  <2> DEFINE back == Least(e.amount, row.paid)
             status == IF back >= row.paid THEN "refunded" ELSE row.status
             refunded == [row EXCEPT !.refunded = back, !.status = status]
  <2>1. back \in 0..Price /\ status \in Status
    BY <1>1, <1>2, BillingAssumption DEF Least, MirrorRow, Status
  <2>2. IF row.found THEN Stage(h, refunded) ELSE Moves(h, "committing")
    BY <1>9 DEF ApplyRefund
  <2> HIDE DEF back, status
  <2>3. refunded \in MirrorRow
    BY <1>1, <2>1 DEF MirrorRow
  <2> HIDE DEF refunded
  <2> QED
    BY <1>3, <1>4, <2>2, <2>3
<1> QED
  BY <1>5, <1>7, <1>8, <1>9

LEMMA EventIsCommitted ==
  ASSUME BillingInv, NEW h \in Handlers, CommitEvent(h) PROVE BillingInv'
<1> DEFINE n == handler[h].event
           id == EventId(n)
           o == EventOf(h).of
<1>1. /\ handler[h] \in HandlerRow /\ n \in Sent /\ Inside(h) /\ id \notin recorded
      /\ o \in Object /\ handler[h].row \in MirrorRow /\ n \in 1..MaxEvents
  <2>1. handler[h] \in HandlerRow /\ n \in Sent /\ Inside(h) /\ o \in Object
    BY HandlerOf DEF CommitEvent, Is, Inside
  <2>2. n \in 1..MaxEvents
    BY <2>1, SentIsIndexed, BillingAssumption DEF BillingInv, BillingTyped
  <2> QED
    BY <2>1, <2>2 DEF HandlerRow, BillingInv, InsideFacts
<1>2. /\ recorded' = recorded \cup {id} /\ sent' = sent /\ truth' = truth
      /\ acked' \subseteq acked \cup {n} /\ billingFaults' \in Nat
      /\ handler' = [handler EXCEPT ![h] = Unstaged]
      /\ applied' = [applied EXCEPT ![n] = @ + 1]
      /\ mirror' = IF handler[h].writes THEN [mirror EXCEPT ![o] = handler[h].row] ELSE mirror
  BY DEF CommitEvent, GivesUp, BillingFault, BillingInv, BillingTyped
<1>3. applied \in [1..MaxEvents -> Nat] /\ applied[n] = 0
  <2>1. applied \in [1..MaxEvents -> Nat] /\ applied[n] <= 1 /\ applied[n] # 1
    BY <1>1 DEF BillingInv, BillingTyped, IdsFacts
  <2> QED
    BY <1>1, <2>1
<1>4. applied' \in [1..MaxEvents -> Nat] /\ applied'[n] = 1
      /\ \A m \in 1..MaxEvents \ {n} : applied'[m] = applied[m]
  BY <1>1, <1>2, <1>3
<1>5. /\ handler'[h] = Unstaged /\ Unstaged \in HandlerRow /\ Unstaged.at = "idle"
      /\ Unstaged.event = 0 /\ ~Unstaged.writes
      /\ \A g \in Handlers \ {h} : handler'[g] = handler[g]
  BY <1>2, RowsAreTyped DEF BillingInv, BillingTyped, Unstaged
<1>6. BillingTyped' /\ HandlerFacts'
  <2>1. mirror' \in [Object -> MirrorRow] /\ Sent' = Sent /\ acked' \subseteq Sent
    BY <1>1, <1>2 DEF BillingInv, BillingTyped, Sent
  <2>2. handler' \in [Handlers -> HandlerRow]
    BY <1>2, <1>5 DEF BillingInv, BillingTyped
  <2>3. HandlerFacts'
    BY <1>5, <2>1 DEF BillingInv, HandlerFacts
  <2> QED
    BY <1>2, <1>4, <2>1, <2>2, <2>3 DEF BillingInv, BillingTyped
<1>7. Sent' = Sent /\ \A m : EventId(m)' = EventId(m)
  BY <1>2 DEF Sent, EventId
<1> HIDE DEF n, id, o
<1>8. id = EventId(n)
  BY DEF id
<1>9. IdsFacts'
  <2>1. Sent \subseteq 1..MaxEvents
    BY SentIsIndexed, BillingAssumption DEF BillingInv, BillingTyped
  <2>2. \A m \in 1..MaxEvents : applied'[m] <= 1 /\ (applied'[m] = 1 => m \in Sent)
    BY <1>1, <1>4 DEF BillingInv, IdsFacts
  <2>3. \A m \in Sent : applied'[m] = 1 => EventId(m) \in recorded'
    BY <1>2, <1>4, <1>8, <2>1 DEF BillingInv, IdsFacts
  <2>4. \A l, m \in Sent : applied'[l] = 1 /\ applied'[m] = 1 /\ EventId(l) = EventId(m) => l = m
    BY <1>1, <1>4, <1>8, <2>1 DEF BillingInv, IdsFacts
  <2>5. \A i \in recorded' : \E m \in Sent : EventId(m) = i /\ applied'[m] = 1
    <3>1. \A i \in recorded : \E m \in Sent \ {n} : EventId(m) = i /\ applied[m] = 1
      BY <1>3 DEF BillingInv, IdsFacts
    <3>2. \A i \in recorded : \E m \in Sent : EventId(m) = i /\ applied'[m] = 1
      BY <1>4, <2>1, <3>1
    <3> QED
      BY <1>1, <1>2, <1>4, <1>8, <3>2
  <2>6. \A m \in acked' : EventId(m) \in recorded'
    BY <1>2, <1>8 DEF BillingInv, IdsFacts
  <2> QED
    BY <1>7, <2>2, <2>3, <2>4, <2>5, <2>6 DEF IdsFacts
<1>10. ~Inside(h)' /\ \A g \in Handlers \ {h} : Inside(g)' <=> Inside(g)
  BY <1>5 DEF Inside
<1>11. InsideFacts'
  <2>1. \A g \in Handlers \ {h} : Inside(g) => EventId(handler[g].event) \notin recorded'
    BY <1>1, <1>2, <1>8 DEF BillingInv, InsideFacts, n
  <2>2. \A g \in Handlers : Inside(g)' => EventId(handler'[g].event) \notin recorded'
    BY <1>5, <1>10, <2>1
  <2>3. \A f, g \in Handlers : Inside(f)' /\ Inside(g)'
          /\ EventId(handler'[f].event) = EventId(handler'[g].event) => f = g
    BY <1>5, <1>10 DEF BillingInv, InsideFacts
  <2> QED
    BY <1>7, <2>2, <2>3 DEF InsideFacts
<1>12. LiveFacts'
  <2>1. ~StagesLive(h)' /\ \A g \in Handlers \ {h} :
          (StagesLive(g)' <=> StagesLive(g)) /\ EventOf(g)' = EventOf(g)
    BY <1>2, <1>5 DEF StagesLive, EventOf
  <2>2. Subs \subseteq Object
    BY DEF Object
  <2>3. \A s \in Subs : mirror'[s].status \in LiveStatus =>
          mirror[s].status \in LiveStatus \/ (StagesLive(h) /\ s = o)
    BY <1>1, <1>2, <2>2 DEF StagesLive, o, BillingInv, BillingTyped
  <2>4. StagesLive(h) => /\ OthersAreOver(o)
                         /\ \A g \in Handlers : StagesLive(g) => EventOf(g).of = o
    BY DEF o, BillingInv, LiveFacts
  <2>5. OneLiveSubscription'
    BY <2>3, <2>4 DEF BillingInv, LiveFacts, OneLiveSubscription, OthersAreOver
  <2>6. ASSUME NEW g \in Handlers \ {h}, StagesLive(g) PROVE OthersAreOver(EventOf(g).of)'
    <3>1. OthersAreOver(EventOf(g).of)
      BY <2>6 DEF BillingInv, LiveFacts
    <3> QED
      BY <2>1, <2>3, <2>4, <2>6, <3>1 DEF OthersAreOver
  <2>7. \A f, g \in Handlers : StagesLive(f)' /\ StagesLive(g)' => EventOf(f)'.of = EventOf(g)'.of
    BY <2>1 DEF BillingInv, LiveFacts
  <2> QED
    BY <2>1, <2>5, <2>6, <2>7 DEF LiveFacts
<1> QED
  BY <1>6, <1>9, <1>11, <1>12 DEF BillingInv

LEMMA BillingSteps == BillingInv /\ [BillingNext]_billingVars => BillingInv'
<1> SUFFICES ASSUME BillingInv, [BillingNext]_billingVars PROVE BillingInv'
  OBVIOUS
<1>1. CASE UNCHANGED billingVars
  <2> USE <1>1 DEF billingVars
  <2>1. BillingTyped' /\ HandlerFacts'
    BY DEF BillingInv, BillingTyped, HandlerFacts, Sent
  <2>2. IdsFacts' /\ InsideFacts'
    BY DEF BillingInv, IdsFacts, InsideFacts, Inside, EventId, Sent
  <2>3. LiveFacts'
    BY DEF BillingInv, LiveFacts, StagesLive, EventOf, OthersAreOver, OneLiveSubscription
  <2> QED
    BY <2>1, <2>2, <2>3 DEF BillingInv
<1> QED
  BY <1>1, ProviderSteps, EventIsTakenUp, HandlerAnswers, EventIsApplied, EventIsCommitted
     DEF BillingNext, HandlerStep

\* An event answered 200 has changed the tables exactly once and one that may come
\* again at most once, where the provider gives every event an id of its own, for
\* any number of requests, failures and lost answers (applyBillingEvent).
THEOREM EventsApplyOnce == Ids = "stripe" => (BillingSpec => []AppliedExactlyOnce)
<1> SUFFICES ASSUME Ids = "stripe" PROVE BillingSpec => []AppliedExactlyOnce
  OBVIOUS
<1>1. BillingInv => AppliedExactlyOnce
  <2> SUFFICES ASSUME BillingInv, NEW n \in Sent
               PROVE  applied[n] <= 1 /\ (n \in acked => applied[n] = 1)
    BY DEF AppliedExactlyOnce
  <2>1. n \in 1..MaxEvents
    BY SentIsIndexed, BillingAssumption DEF BillingInv, BillingTyped
  <2>2. ASSUME n \in acked PROVE applied[n] = 1
    <3>1. PICK m \in Sent : EventId(m) = EventId(n) /\ applied[m] = 1
      BY <2>2 DEF BillingInv, IdsFacts
    <3>2. m = n
      BY <3>1 DEF EventId
    <3> QED
      BY <3>1, <3>2
  <2> QED
    BY <2>1, <2>2 DEF BillingInv, IdsFacts
<1> QED
  BY BillingStarts, BillingSteps, <1>1, PTL DEF BillingSpec

\* However the ids are made, of the events that share one, exactly one has changed
\* the tables by the time any of them is answered 200.
EachIdAppliedOnce ==
  \A n \in acked : \E m \in Sent :
    /\ EventId(m) = EventId(n) /\ applied[m] = 1
    /\ \A l \in Sent \ {m} : EventId(l) = EventId(n) => applied[l] # 1

\* Of the events a provider's ids do not tell apart, one is applied and the rest
\* are taken for it, for either way of making ids (verifyWebhook, applyBillingEvent).
THEOREM IdsApplyOnce == BillingSpec => []EachIdAppliedOnce
<1>1. BillingInv => EachIdAppliedOnce
  BY DEF BillingInv, IdsFacts, EachIdAppliedOnce
<1> QED
  BY BillingStarts, BillingSteps, <1>1, PTL DEF BillingSpec

\* Two subscriptions of an organisation are never live in the tables, whatever
\* order the events come in and however the transactions interleave
\* (subscriptions_one_live_per_org, onSubscriptionChanged).
THEOREM OneSubscriptionIsLive == BillingSpec => []OneLiveSubscription
<1>1. BillingInv => OneLiveSubscription
  BY DEF BillingInv, LiveFacts
<1> QED
  BY BillingStarts, BillingSteps, <1>1, PTL DEF BillingSpec

----------------------------------------------------------------------------
(* What the provider tells, and what the tables say after it                *)

StatusOf(e) == IF e.kind = "checkout" THEN "active" ELSE e.status
OfSub(e) == e.kind \in {"checkout", "subscription"}
OfRefund(e) == IF e.amount = Price THEN "refunded" ELSE "paid"

\* Of its object, after the provider has sent e and no other.
TruthSays(e) ==
  /\ OfSub(e) => truth[e.of].status = StatusOf(e)
  /\ e.kind = "invoice" => truth[e.of].status = "open"
  /\ e.kind = "payment" => truth[e.of].status = "paid" /\ truth[e.of].refunded = 0
  /\ e.kind = "refund" => truth[e.of].status = OfRefund(e) /\ truth[e.of].refunded = e.amount

\* A row after e has been applied to it in its turn.
RowSays(row, e) ==
  /\ OfSub(e) => row.status = StatusOf(e) /\ row.paid = 0 /\ row.refunded = 0
  /\ e.kind = "invoice" => row = NoRow
  /\ e.kind = "payment" => row.status = "paid" /\ row.paid = Price /\ row.refunded = 0 /\ row.found
  /\ e.kind = "refund" => /\ row.status = OfRefund(e) /\ row.paid = Price
                          /\ row.refunded = e.amount /\ row.found

Comes(m, n) == m < n /\ sent[m].of = sent[n].of

\* What an event leaves true of the provider's own state for good.
Proper(e) ==
  /\ e.of \in Subs => OfSub(e)
  /\ e.of \in Purchases => e.kind \in {"invoice", "payment", "refund"}
  /\ e.kind = "subscription" => e.status # "none"
  /\ e.kind = "payment" => e.amount = Price
  /\ truth[e.of].status # "none"
  /\ e.kind \in {"payment", "refund"} => truth[e.of].status \in {"paid", "refunded"}
  /\ e.kind = "refund" /\ e.amount = Price => truth[e.of].status = "refunded"

\* What comes before what, of one object.
Ordered(m, n) ==
  Comes(m, n) =>
    /\ sent[n].kind \notin {"checkout", "invoice"}
    /\ sent[n].kind = "payment" => sent[m].kind = "invoice"
    /\ sent[n].kind = "refund" /\ sent[m].kind = "refund" => sent[m].amount # Price
Preceded(n) ==
  /\ sent[n].kind = "subscription" => \E m \in Sent : Comes(m, n) /\ sent[m].kind = "checkout"
  /\ sent[n].kind = "refund" => \E m \in Sent : Comes(m, n) /\ sent[m].kind = "payment"

LastOfIts(n) == \A m \in Sent : ~Comes(n, m)

TruthOf(o) ==
  /\ (\A n \in Sent : sent[n].of # o) => truth[o] = NoRow
  /\ o \in Subs => truth[o].paid = 0 /\ truth[o].refunded = 0
  /\ o \in Subs /\ truth[o].status # "none" =>
       \E n \in Sent : sent[n].of = o /\ sent[n].kind = "checkout"
  /\ o \in Purchases /\ truth[o].status \in {"none", "open"} =>
       truth[o].paid = 0 /\ truth[o].refunded = 0
  /\ o \in Purchases /\ truth[o].status \notin {"none", "open"} =>
       /\ truth[o].paid = Price
       /\ \E n \in Sent : sent[n].of = o /\ sent[n].kind = "payment"

ToldFacts ==
  /\ \A o \in Object : TruthOf(o)
  /\ \A n \in Sent : Proper(sent[n]) /\ Preceded(n) /\ (LastOfIts(n) => TruthSays(sent[n]))
  /\ \A m, n \in Sent : Ordered(m, n)

LEMMA ToldStarts == BillingInit => ToldFacts
<1> SUFFICES ASSUME BillingInit PROVE ToldFacts
  OBVIOUS
<1>1. Sent = {}
  BY DEF BillingInit, Sent
<1>2. \A o \in Object : truth[o] = NoRow
  BY DEF BillingInit
<1> QED
  BY <1>1, <1>2 DEF ToldFacts, TruthOf, NoRow

\* One more event is told, of an object whose state is now what it says.
LEMMA OneMoreIsTold ==
  ASSUME BillingInv, ToldFacts, NEW e \in Event, Len(sent) + 1 <= MaxEvents,
         sent' = Append(sent, e), truth' \in [Object -> MirrorRow],
         \A o \in Object \ {e.of} : truth'[o] = truth[o],
         Proper(e)', TruthSays(e)', TruthOf(e.of)',
         \A n \in Sent : sent[n].of = e.of =>
           /\ Proper(sent[n])'
           /\ e.kind \notin {"checkout", "invoice"}
           /\ e.kind = "payment" => sent[n].kind = "invoice"
           /\ e.kind = "refund" /\ sent[n].kind = "refund" => sent[n].amount # Price,
         e.kind = "subscription" => \E m \in Sent : sent[m].of = e.of /\ sent[m].kind = "checkout",
         e.kind = "refund" => \E m \in Sent : sent[m].of = e.of /\ sent[m].kind = "payment"
  PROVE  ToldFacts'
<1>0. PICK last \in Nat : last = Len(sent) + 1
  BY SentIsIndexed DEF BillingInv
<1>1. /\ Sent = 1..Len(sent) /\ Len(sent) \in Nat /\ Sent' = 1..last
      /\ sent'[last] = e /\ \A n \in Sent : sent'[n] = sent[n] /\ n < last
  <2>1. sent \in Seq(Event) /\ Len(sent') = Len(sent) + 1 /\ Sent' = 1..Len(sent')
    BY DEF BillingInv, BillingTyped, Sent
  <2> QED
    BY <1>0, <2>1, SentIsIndexed DEF BillingInv
<1>2. Sent' = Sent \cup {last} /\ last \notin Sent
  BY <1>0, <1>1
<1>3. \A n \in Sent : sent[n] \in Event /\ sent[n].of \in Object
  BY SentIsIndexed DEF BillingInv, Event
<1>4. \A m, n \in Sent : Comes(m, n)' <=> Comes(m, n)
  BY <1>1 DEF Comes
<1>5. \A n \in Sent : (Comes(n, last)' <=> sent[n].of = e.of) /\ ~Comes(last, n)'
  BY <1>1 DEF Comes
<1>6. ~Comes(last, last)'
  BY <1>1 DEF Comes
<1>7. \A o \in Object : TruthOf(o)'
  <2> SUFFICES ASSUME NEW o \in Object, o # e.of PROVE TruthOf(o)'
    OBVIOUS
  <2>1. TruthOf(o) /\ truth'[o] = truth[o]
    BY DEF ToldFacts
  <2>2. \A n \in Sent : sent'[n] = sent[n] /\ n \in Sent'
    BY <1>1, <1>2
  <2>3. (\A n \in Sent' : sent'[n].of # o) => \A n \in Sent : sent[n].of # o
    BY <2>2
  <2>4. \A kind : (\E n \in Sent : sent[n].of = o /\ sent[n].kind = kind)
                 => \E n \in Sent' : sent'[n].of = o /\ sent'[n].kind = kind
    BY <2>2
  <2>5. (\A n \in Sent : sent[n].of # o) => truth[o] = NoRow
    BY <2>1 DEF TruthOf
  <2>6. /\ o \in Subs => truth[o].paid = 0 /\ truth[o].refunded = 0
        /\ o \in Subs /\ truth[o].status # "none" =>
             \E n \in Sent : sent[n].of = o /\ sent[n].kind = "checkout"
        /\ o \in Purchases /\ truth[o].status \in {"none", "open"} =>
             truth[o].paid = 0 /\ truth[o].refunded = 0
        /\ o \in Purchases /\ truth[o].status \notin {"none", "open"} =>
             /\ truth[o].paid = Price
             /\ \E n \in Sent : sent[n].of = o /\ sent[n].kind = "payment"
    BY <2>1 DEF TruthOf
  <2>7. (\A n \in Sent' : sent'[n].of # o) => truth'[o] = NoRow
    BY <2>1, <2>3, <2>5
  <2>8. o \in Subs /\ truth'[o].status # "none" =>
          \E n \in Sent' : sent'[n].of = o /\ sent'[n].kind = "checkout"
    BY <2>1, <2>4, <2>6
  <2>9. o \in Purchases /\ truth'[o].status \notin {"none", "open"} =>
          \E n \in Sent' : sent'[n].of = o /\ sent'[n].kind = "payment"
    BY <2>1, <2>4, <2>6
  <2>10. /\ o \in Subs => truth'[o].paid = 0 /\ truth'[o].refunded = 0
         /\ o \in Purchases /\ truth'[o].status \in {"none", "open"} =>
              truth'[o].paid = 0 /\ truth'[o].refunded = 0
         /\ o \in Purchases /\ truth'[o].status \notin {"none", "open"} => truth'[o].paid = Price
    BY <2>1, <2>6
  <2> QED
    BY <2>7, <2>8, <2>9, <2>10 DEF TruthOf
<1>8. \A n \in Sent : Proper(sent[n])'
  <2> SUFFICES ASSUME NEW n \in Sent, sent[n].of # e.of PROVE Proper(sent[n])'
    OBVIOUS
  <2>1. Proper(sent[n]) /\ truth'[sent[n].of] = truth[sent[n].of] /\ sent'[n] = sent[n]
    BY <1>1, <1>3 DEF ToldFacts
  <2> QED
    BY <2>1 DEF Proper
<1>9. \A n \in Sent' : Proper(sent[n])'
  BY <1>1, <1>2, <1>8
<1>10. \A n \in Sent' : Preceded(n)'
  <2>1. \A n \in Sent : Preceded(n)'
    BY <1>1, <1>2, <1>4 DEF ToldFacts, Preceded
  <2>2. Preceded(last)'
    BY <1>1, <1>2, <1>5 DEF Preceded
  <2> QED
    BY <1>2, <2>1, <2>2
<1>11. \A n \in Sent' : LastOfIts(n)' => TruthSays(sent[n])'
  <2>1. ASSUME NEW n \in Sent, LastOfIts(n)' PROVE TruthSays(sent[n])'
    <3>1. ~Comes(n, last)' /\ LastOfIts(n)
      BY <1>2, <1>4, <2>1 DEF LastOfIts
    <3>2. truth'[sent[n].of] = truth[sent[n].of] /\ sent'[n] = sent[n]
      BY <1>1, <1>3, <1>5, <3>1
    <3>3. TruthSays(sent[n])
      BY <3>1 DEF ToldFacts
    <3> QED
      BY <3>2, <3>3 DEF TruthSays
  <2> QED
    BY <1>1, <1>2, <2>1
<1>12. \A m, n \in Sent' : Ordered(m, n)'
  <2>1. \A m, n \in Sent : Ordered(m, n)'
    BY <1>1, <1>4 DEF ToldFacts, Ordered
  <2>2. \A m \in Sent : Ordered(m, last)' /\ Ordered(last, m)'
    BY <1>1, <1>5 DEF Ordered
  <2>3. Ordered(last, last)'
    BY <1>6 DEF Ordered
  <2> QED
    BY <1>2, <2>1, <2>2, <2>3
<1> QED
  BY <1>7, <1>9, <1>10, <1>11, <1>12 DEF ToldFacts

LEMMA ToldOfItsState ==
  ASSUME BillingInv, ToldFacts, NEW o \in Object
  PROVE  /\ \A n \in Sent : sent[n].of = o => Proper(sent[n])
         /\ truth[o].status = "none" => \A n \in Sent : sent[n].of # o
         /\ truth[o] \in MirrorRow /\ TruthOf(o)
BY DEF ToldFacts, Proper, BillingInv, BillingTyped

\* Stripe tells of the checkout and of the subscription it made, at once.
LEMMA SubscriptionIsTold ==
  ASSUME BillingInv, ToldFacts, Ids = "stripe", NEW s \in Subs, Subscribe(s)
  PROVE  ToldFacts'
<1> DEFINE checkout == Says("checkout", s, "none", 0)
           created == Says("subscription", s, "active", 0)
<1>0. PICK first \in Nat : first = Len(sent) + 1
  BY SentIsIndexed DEF BillingInv
<1>1. PICK last \in Nat : last = first + 1
  OBVIOUS
<1>2. /\ s \in Object /\ s \notin Purchases
      /\ checkout \in Event /\ created \in Event
  BY BillingAssumption DEF Object, Says, Event, Kind, SubscriptionState
<1>3. /\ sent' = sent \o <<checkout, created>> /\ sent \in Seq(Event) /\ Len(sent) \in Nat
      /\ truth' = [truth EXCEPT ![s].status = "active"] /\ truth[s].status = "none"
      /\ truth \in [Object -> MirrorRow]
  BY SentIsIndexed DEF Subscribe, Tell, BillingInv, BillingTyped
<1>4. /\ checkout.kind = "checkout" /\ checkout.of = s
      /\ created.kind = "subscription" /\ created.of = s /\ created.status = "active"
  BY DEF Says
<1> HIDE DEF checkout, created
<1>5. /\ Sent = 1..Len(sent) /\ Sent' = 1..last
      /\ sent'[first] = checkout /\ sent'[last] = created
      /\ \A n \in Sent : sent'[n] = sent[n]
  <2>1. <<checkout, created>> \in Seq(Event) /\ Len(<<checkout, created>>) = 2
        /\ <<checkout, created>>[1] = checkout /\ <<checkout, created>>[2] = created
    BY <1>2
  <2>2. /\ sent' \in Seq(Event) /\ Len(sent') = Len(sent) + 2
        /\ \A n \in 1..Len(sent) + 2 :
             sent'[n] = IF n <= Len(sent) THEN sent[n] ELSE <<checkout, created>>[n - Len(sent)]
    BY <1>3, <2>1, ConcatProperties
  <2>3. Sent' = 1..Len(sent')
    BY <2>2 DEF Sent
  <2>4. first \in 1..Len(sent) + 2 /\ last \in 1..Len(sent) + 2
        /\ first - Len(sent) = 1 /\ last - Len(sent) = 2
    BY <1>0, <1>1, <1>3
  <2>5. sent'[first] = checkout /\ sent'[last] = created
    BY <1>0, <1>1, <1>3, <2>1, <2>2, <2>4
  <2>6. \A n \in Sent : sent'[n] = sent[n]
    BY <1>3, <2>2, SentIsIndexed DEF BillingInv
  <2> QED
    BY <1>0, <1>1, <1>3, <2>2, <2>3, <2>5, <2>6, SentIsIndexed DEF BillingInv
<1>6. Sent' = Sent \cup {first, last} /\ \A n \in Sent : n < first /\ n < last
  BY <1>0, <1>1, <1>3, <1>5
<1>7. \A n \in Sent : sent[n].of # s /\ sent[n].of \in Object
  BY <1>2, <1>3, ToldOfItsState, SentIsIndexed DEF BillingInv, Event
<1>8. /\ \A m, n \in Sent : Comes(m, n)' <=> Comes(m, n)
      /\ \A n \in Sent : ~Comes(n, first)' /\ ~Comes(n, last)' /\ ~Comes(first, n)' /\ ~Comes(last, n)'
      /\ ~Comes(first, first)' /\ Comes(first, last)' /\ ~Comes(last, first)' /\ ~Comes(last, last)'
  <2>1. \A m, n \in Sent : Comes(m, n)' <=> Comes(m, n)
    BY <1>5 DEF Comes
  <2>2. \A n \in Sent : ~Comes(n, first)' /\ ~Comes(n, last)' /\ ~Comes(first, n)' /\ ~Comes(last, n)'
    BY <1>4, <1>5, <1>7 DEF Comes
  <2>3. ~Comes(first, first)' /\ Comes(first, last)' /\ ~Comes(last, first)' /\ ~Comes(last, last)'
    BY <1>1, <1>4, <1>5 DEF Comes
  <2> QED
    BY <2>1, <2>2, <2>3
<1>9. truth'[s] = [truth[s] EXCEPT !.status = "active"] /\ \A o \in Object \ {s} : truth'[o] = truth[o]
      /\ truth'[s].status = "active"
  <2>1. truth[s] \in MirrorRow
    BY <1>2, <1>3
  <2> QED
    BY <1>2, <1>3, <2>1 DEF MirrorRow
<1>10. \A o \in Object : TruthOf(o)'
  <2>1. TruthOf(s)'
    <3>1. TruthOf(s) /\ truth'[s].paid = truth[s].paid /\ truth'[s].refunded = truth[s].refunded
      BY <1>2, <1>3, <1>9, ToldOfItsState DEF MirrorRow
    <3>2. sent'[first].of = s /\ sent'[first].kind = "checkout" /\ first \in Sent'
      BY <1>4, <1>5, <1>6
    <3> QED
      BY <1>2, <3>1, <3>2 DEF TruthOf
  <2>2. ASSUME NEW o \in Object \ {s} PROVE TruthOf(o)'
    <3>1. truth'[o] = truth[o] /\ \A n \in Sent : sent'[n] = sent[n] /\ n \in Sent'
      BY <1>5, <1>6, <1>9
    <3>2. TruthOf(o)
      BY DEF ToldFacts
    <3>3. (\A n \in Sent' : sent'[n].of # o) => truth'[o] = NoRow
      BY <3>1, <3>2 DEF TruthOf
    <3>4. o \in Subs /\ truth'[o].status # "none" =>
            \E n \in Sent' : sent'[n].of = o /\ sent'[n].kind = "checkout"
      BY <3>1, <3>2 DEF TruthOf
    <3>5. o \in Purchases /\ truth'[o].status \notin {"none", "open"} =>
            \E n \in Sent' : sent'[n].of = o /\ sent'[n].kind = "payment"
      BY <3>1, <3>2 DEF TruthOf
    <3>6. /\ o \in Subs => truth'[o].paid = 0 /\ truth'[o].refunded = 0
          /\ o \in Purchases /\ truth'[o].status \in {"none", "open"} =>
               truth'[o].paid = 0 /\ truth'[o].refunded = 0
          /\ o \in Purchases /\ truth'[o].status \notin {"none", "open"} => truth'[o].paid = Price
      BY <3>1, <3>2 DEF TruthOf
    <3> QED
      BY <3>3, <3>4, <3>5, <3>6 DEF TruthOf
  <2> QED
    BY <2>1, <2>2
<1>11. \A n \in Sent' : Proper(sent[n])' /\ Preceded(n)' /\ (LastOfIts(n)' => TruthSays(sent[n])')
  <2>1. ASSUME NEW n \in Sent PROVE Proper(sent[n])' /\ (LastOfIts(n)' => TruthSays(sent[n])')
    <3>1. truth'[sent[n].of] = truth[sent[n].of] /\ sent'[n] = sent[n]
      BY <1>5, <1>7, <1>9
    <3>2. Proper(sent[n]) /\ (LastOfIts(n)' => LastOfIts(n)) /\ (LastOfIts(n) => TruthSays(sent[n]))
      BY <1>6, <1>8 DEF ToldFacts, LastOfIts
    <3> QED
      BY <3>1, <3>2 DEF Proper, TruthSays
  <2>2. \A n \in Sent : Preceded(n)'
    BY <1>5, <1>6, <1>8 DEF ToldFacts, Preceded
  <2>3. Proper(sent[first])' /\ Proper(sent[last])' /\ TruthSays(sent[last])'
    <3>1. sent'[first] = checkout /\ sent'[last] = created /\ truth'[s].status = "active"
      BY <1>5, <1>9
    <3>2. Proper(sent[first])'
      BY <1>2, <1>4, <3>1 DEF Proper, OfSub
    <3>3. Proper(sent[last])'
      BY <1>2, <1>4, <3>1 DEF Proper, OfSub
    <3>4. TruthSays(sent[last])'
      BY <1>4, <3>1 DEF TruthSays, OfSub, StatusOf
    <3> QED
      BY <3>2, <3>3, <3>4
  <2>4. Preceded(first)' /\ Preceded(last)'
    BY <1>4, <1>5, <1>6, <1>8 DEF Preceded
  <2>5. ~LastOfIts(first)'
    BY <1>6, <1>8 DEF LastOfIts
  <2> QED
    BY <1>6, <2>1, <2>2, <2>3, <2>4, <2>5
<1>12. \A m, n \in Sent' : Ordered(m, n)'
  <2>1. \A m, n \in Sent : Ordered(m, n)'
    BY <1>5, <1>8 DEF ToldFacts, Ordered
  <2>2. \A m \in Sent, n \in {first, last} : Ordered(m, n)' /\ Ordered(n, m)'
    BY <1>8 DEF Ordered
  <2>3. \A m, n \in {first, last} : Ordered(m, n)'
    BY <1>4, <1>5, <1>8 DEF Ordered
  <2> QED
    BY <1>6, <2>1, <2>2, <2>3
<1> QED
  BY <1>10, <1>11, <1>12 DEF ToldFacts

\* What holds of an object still does once one more event is told of it.
LEMMA ToldStillExists ==
  ASSUME BillingInv, NEW e \in Event, sent' = Append(sent, e)
  PROVE  /\ \A n \in Sent : n \in Sent' /\ sent'[n] = sent[n]
         /\ \E n \in Sent' : sent'[n] = e
<1>1. sent \in Seq(Event) /\ Len(sent) \in Nat /\ Sent = 1..Len(sent)
  BY SentIsIndexed DEF BillingInv, BillingTyped
<1>2. Sent' = 1..Len(sent) + 1 /\ sent'[Len(sent) + 1] = e
      /\ \A n \in 1..Len(sent) : sent'[n] = sent[n]
  BY <1>1 DEF Sent
<1> QED
  BY <1>1, <1>2

\* The row of one object changes.
LEMMA TruthTurns ==
  ASSUME BillingInv, NEW o \in Object, NEW row \in MirrorRow, truth' = [truth EXCEPT ![o] = row]
  PROVE  /\ truth' \in [Object -> MirrorRow] /\ truth'[o] = row
         /\ \A p \in Object \ {o} : truth'[p] = truth[p]
BY DEF BillingInv, BillingTyped

LEMMA OneIsTold ==
  ASSUME BillingInv, NEW e \in Event, Tell(<<e>>)
  PROVE  sent' = Append(sent, e) /\ Len(sent) + 1 <= MaxEvents
<1>1. sent \in Seq(Event) /\ Len(<<e>>) = 1
  BY DEF BillingInv, BillingTyped
<1>2. sent \o <<e>> = Append(sent, e)
  BY <1>1
<1> QED
  BY <1>1, <1>2 DEF Tell

LEMMA ChangeIsTold ==
  ASSUME BillingInv, ToldFacts, NEW s \in Subs, NEW status \in SubscriptionState,
         ChangeSubscription(s, status)
  PROVE  ToldFacts'
<1> DEFINE e == Says("subscription", s, status, 0)
           row == [truth[s] EXCEPT !.status = status]
<1>1. e \in Event /\ e.kind = "subscription" /\ e.of = s /\ e.status = status
      /\ s \in Object /\ s \notin Purchases /\ status # "none"
  BY BillingAssumption DEF Object, Says, Event, Kind, SubscriptionState
<1>2. truth[s].status # "none" /\ TruthOf(s) /\ truth[s] \in MirrorRow
  BY <1>1, ToldOfItsState DEF ChangeSubscription
<1>3. row \in MirrorRow /\ row.status = status /\ row.paid = truth[s].paid /\ row.refunded = truth[s].refunded
  BY <1>2 DEF MirrorRow, Status
<1>4. truth' = [truth EXCEPT ![s] = row] /\ sent' = Append(sent, e) /\ Len(sent) + 1 <= MaxEvents
  BY <1>1, SentIsIndexed DEF ChangeSubscription, Tell, BillingInv, BillingTyped
<1> HIDE DEF e, row
<1>5. PICK first \in Sent : sent[first].of = s /\ sent[first].kind = "checkout"
  BY <1>1, <1>2 DEF TruthOf
<1>6. /\ truth' \in [Object -> MirrorRow] /\ truth'[s] = row
      /\ \A o \in Object \ {s} : truth'[o] = truth[o]
  BY <1>1, <1>3, <1>4, TruthTurns
<1>7. first \in Sent' /\ sent'[first] = sent[first]
  BY <1>1, <1>4, ToldStillExists
<1>8. TruthOf(s)'
  BY <1>1, <1>2, <1>3, <1>5, <1>6, <1>7 DEF TruthOf
<1>9. Proper(e)' /\ TruthSays(e)'
  BY <1>1, <1>3, <1>6 DEF Proper, TruthSays, OfSub, StatusOf
<1>10. \A n \in Sent : sent[n].of = s => Proper(sent[n])'
  <2> SUFFICES ASSUME NEW n \in Sent, sent[n].of = s PROVE Proper(sent[n])'
    OBVIOUS
  <2>1. Proper(sent[n]) /\ sent'[n] = sent[n]
    BY <1>1, <1>4, ToldOfItsState, ToldStillExists
  <2> QED
    BY <1>1, <1>3, <1>6, <2>1 DEF Proper, OfSub
<1> QED
  BY <1>1, <1>4, <1>5, <1>6, <1>8, <1>9, <1>10, OneMoreIsTold

LEMMA FailureIsTold ==
  ASSUME BillingInv, ToldFacts, NEW i \in Purchases, FailPayment(i) PROVE ToldFacts'
<1> DEFINE e == Says("invoice", i, "none", 0)
           row == [truth[i] EXCEPT !.status = "open"]
<1>1. e \in Event /\ e.kind = "invoice" /\ e.of = i /\ i \in Object /\ i \notin Subs
  BY BillingAssumption DEF Object, Says, Event, Kind, SubscriptionState
<1>2. truth[i].status = "none" /\ TruthOf(i) /\ truth[i] \in MirrorRow
  BY <1>1, ToldOfItsState DEF FailPayment
<1>3. row \in MirrorRow /\ row.status = "open" /\ row.paid = truth[i].paid /\ row.refunded = truth[i].refunded
  BY <1>2 DEF MirrorRow, Status
<1>4. truth' = [truth EXCEPT ![i] = row] /\ sent' = Append(sent, e) /\ Len(sent) + 1 <= MaxEvents
  BY <1>1, SentIsIndexed DEF FailPayment, Tell, BillingInv, BillingTyped
<1> HIDE DEF e, row
<1>5. \A n \in Sent : sent[n].of # i
  BY <1>1, <1>2, ToldOfItsState
<1>6. /\ truth' \in [Object -> MirrorRow] /\ truth'[i] = row
      /\ \A o \in Object \ {i} : truth'[o] = truth[o]
  BY <1>1, <1>3, <1>4, TruthTurns
<1>7. \E n \in Sent' : sent'[n].of = i
  BY <1>1, <1>4, ToldStillExists
<1>8. TruthOf(i)'
  BY <1>1, <1>2, <1>3, <1>6, <1>7 DEF TruthOf
<1>9. Proper(e)' /\ TruthSays(e)'
  BY <1>1, <1>3, <1>6 DEF Proper, TruthSays, OfSub, StatusOf
<1> QED
  BY <1>1, <1>4, <1>5, <1>6, <1>8, <1>9, OneMoreIsTold

LEMMA PaymentIsTold ==
  ASSUME BillingInv, ToldFacts, NEW i \in Purchases, Pay(i) PROVE ToldFacts'
<1> DEFINE e == Says("payment", i, "none", Price)
           row == [truth[i] EXCEPT !.status = "paid", !.paid = Price]
<1>1. /\ e \in Event /\ e.kind = "payment" /\ e.of = i /\ e.amount = Price
      /\ i \in Object /\ i \notin Subs
  BY BillingAssumption DEF Object, Says, Event, Kind, SubscriptionState
<1>2. truth[i].status \in {"none", "open"} /\ TruthOf(i) /\ truth[i] \in MirrorRow
  BY <1>1, ToldOfItsState DEF Pay
<1>3. row \in MirrorRow /\ row.status = "paid" /\ row.paid = Price /\ row.refunded = truth[i].refunded
      /\ truth[i].refunded = 0
  <2>1. Price \in 0..Price
    BY BillingAssumption
  <2> QED
    BY <1>2, <2>1 DEF MirrorRow, Status, TruthOf
<1>4. truth' = [truth EXCEPT ![i] = row] /\ sent' = Append(sent, e) /\ Len(sent) + 1 <= MaxEvents
  BY <1>1, OneIsTold DEF Pay
<1> HIDE DEF e, row
<1>5. \A n \in Sent : sent[n].of = i => sent[n].kind = "invoice" /\ Proper(sent[n])
  BY <1>1, <1>2, ToldOfItsState DEF Proper
<1>6. /\ truth' \in [Object -> MirrorRow] /\ truth'[i] = row
      /\ \A o \in Object \ {i} : truth'[o] = truth[o]
  BY <1>1, <1>3, <1>4, TruthTurns
<1>7. \E n \in Sent' : sent'[n] = e
  BY <1>1, <1>4, ToldStillExists
<1>8. TruthOf(i)'
  <2>1. \E n \in Sent' : sent'[n].of = i /\ sent'[n].kind = "payment"
    BY <1>1, <1>7
  <2> QED
    BY <1>1, <1>3, <1>6, <2>1 DEF TruthOf
<1>9. Proper(e)' /\ TruthSays(e)'
  BY <1>1, <1>3, <1>6 DEF Proper, TruthSays, OfSub, StatusOf
<1>10. \A n \in Sent : sent[n].of = i => Proper(sent[n])'
  <2> SUFFICES ASSUME NEW n \in Sent, sent[n].of = i PROVE Proper(sent[n])'
    OBVIOUS
  <2>1. Proper(sent[n]) /\ sent'[n] = sent[n] /\ sent[n].kind = "invoice"
    BY <1>1, <1>4, <1>5, ToldStillExists
  <2> QED
    BY <1>1, <1>3, <1>6, <2>1 DEF Proper, OfSub
<1> QED
  BY <1>1, <1>4, <1>5, <1>6, <1>8, <1>9, <1>10, OneMoreIsTold

LEMMA RefundIsTold ==
  ASSUME BillingInv, ToldFacts, NEW i \in Purchases, NEW amount \in 1..Price, GiveBack(i, amount)
  PROVE  ToldFacts'
<1>0. PICK so : so = truth[i].refunded + amount
  OBVIOUS
<1> DEFINE e == Says("refund", i, "none", so)
           row == [truth[i] EXCEPT !.refunded = so,
                                   !.status = IF so = truth[i].paid THEN "refunded" ELSE "paid"]
<1>1. i \in Object /\ i \notin Subs
  BY BillingAssumption DEF Object
<1>2. truth[i].status = "paid" /\ TruthOf(i) /\ truth[i] \in MirrorRow /\ truth[i].paid = Price
  BY <1>1, ToldOfItsState DEF GiveBack, TruthOf
<1>3. so \in 0..Price
  BY <1>0, <1>2, BillingAssumption DEF GiveBack, MirrorRow
<1>4. /\ e \in Event /\ e.kind = "refund" /\ e.of = i /\ e.amount = so
  BY <1>1, <1>3 DEF Says, Event, Kind
<1>5. truth' = [truth EXCEPT ![i] = row] /\ sent' = Append(sent, e) /\ Len(sent) + 1 <= MaxEvents
  <2>1. truth' = [truth EXCEPT ![i] = row] /\ Tell(<<e>>)
    BY <1>0 DEF GiveBack
  <2> QED
    BY <1>4, <2>1, OneIsTold
<1>6. /\ row \in MirrorRow /\ row.paid = Price /\ row.refunded = so
      /\ row.status = IF so = Price THEN "refunded" ELSE "paid"
  BY <1>2, <1>3 DEF MirrorRow, Status
<1> HIDE DEF e, row
<1>7. \A n \in Sent : sent[n].of = i => Proper(sent[n]) /\ sent[n].kind \in {"invoice", "payment", "refund"}
  BY <1>1, ToldOfItsState DEF Proper
<1>8. \A n \in Sent : sent[n].of = i /\ sent[n].kind = "refund" => sent[n].amount # Price
  BY <1>2, <1>7 DEF Proper
<1>9. /\ truth' \in [Object -> MirrorRow] /\ truth'[i] = row
      /\ \A o \in Object \ {i} : truth'[o] = truth[o]
  BY <1>1, <1>5, <1>6, TruthTurns
<1>10. PICK first \in Sent : sent[first].of = i /\ sent[first].kind = "payment"
  BY <1>2 DEF TruthOf
<1>11. TruthOf(i)'
  <2>1. first \in Sent' /\ sent'[first] = sent[first]
    BY <1>4, <1>5, ToldStillExists
  <2> QED
    BY <1>1, <1>6, <1>9, <1>10, <2>1 DEF TruthOf
<1>12. Proper(e)' /\ TruthSays(e)'
  BY <1>1, <1>4, <1>6, <1>9 DEF Proper, TruthSays, OfSub, StatusOf, OfRefund
<1>13. \A n \in Sent : sent[n].of = i => Proper(sent[n])'
  <2> SUFFICES ASSUME NEW n \in Sent, sent[n].of = i PROVE Proper(sent[n])'
    OBVIOUS
  <2>1. sent'[n] = sent[n]
    BY <1>4, <1>5, ToldStillExists
  <2> QED
    BY <1>1, <1>6, <1>7, <1>8, <1>9, <2>1 DEF Proper, OfSub
<1> QED
  BY <1>4, <1>5, <1>7, <1>8, <1>9, <1>10, <1>11, <1>12, <1>13, OneMoreIsTold

LEMMA ToldSteps ==
  ASSUME BillingInv, ToldFacts, Ids = "stripe", ProviderStep PROVE ToldFacts'
BY SubscriptionIsTold, ChangeIsTold, FailureIsTold, PaymentIsTold, RefundIsTold DEF ProviderStep

----------------------------------------------------------------------------
(* The tables of an object whose events come in order                       *)

MirrorOf(o) ==
  /\ (\A n \in Sent : sent[n].of = o => applied[n] # 1) => mirror[o] = NoRow
  /\ o \in Subs => mirror[o].paid = 0 /\ mirror[o].refunded = 0
  /\ o \in Purchases =>
       /\ (\A n \in Sent : sent[n].of = o /\ sent[n].kind = "payment" => applied[n] # 1)
            => mirror[o] = NoRow
       /\ mirror[o].status = "refunded" => \E n \in Sent :
            sent[n].of = o /\ applied[n] = 1 /\ sent[n].kind = "refund" /\ sent[n].amount = Price

\* What an event that has been applied leaves behind.
EarlierAnswered(n) == \A m \in Sent : Comes(m, n) => m \in acked
LastSays(n) ==
  (\A m \in Sent : Comes(n, m) => applied[m] # 1) => RowSays(mirror[sent[n].of], sent[n])
RowStands(row, e) ==
  /\ e.of \in Subs => row.status # "none"
  /\ e.kind = "payment" => row.paid = Price /\ row.found /\ row.status \in {"paid", "refunded"}
LeftBehind(n) == EarlierAnswered(n) /\ LastSays(n) /\ RowStands(mirror[sent[n].of], sent[n])

\* A request with an event of such an object in hand has its turn.
StagedSays(h) ==
  /\ handler[h].at # "inserting"
  /\ handler[h].writes => RowSays(handler[h].row, EventOf(h))
  /\ handler[h].at = "committing" /\ ~handler[h].writes => EventOf(h).kind = "invoice"
HasItsTurn(h) ==
  handler[h].at # "idle" /\ EventOf(h).of \in InOrder =>
    EarlierAnswered(handler[h].event) /\ StagedSays(h)

OrderFacts ==
  /\ \A o \in InOrder : MirrorOf(o)
  /\ \A n \in Sent : sent[n].of \in InOrder /\ applied[n] = 1 => LeftBehind(n)
  /\ \A h \in Handlers : HasItsTurn(h)

InTurn == BillingInv /\ ToldFacts /\ OrderFacts

LEMMA OrderStarts == BillingInit => OrderFacts
<1> SUFFICES ASSUME BillingInit PROVE OrderFacts
  OBVIOUS
<1>1. Sent = {}
  BY DEF BillingInit, Sent
<1>2. \A h \in Handlers : HasItsTurn(h)
  BY DEF BillingInit, HasItsTurn, Unstaged
<1>3. ASSUME NEW o \in InOrder PROVE MirrorOf(o)
  <2>1. mirror[o] = NoRow
    BY BillingAssumption DEF BillingInit, Object
  <2> QED
    BY <2>1 DEF MirrorOf, NoRow
<1> QED
  BY <1>1, <1>2, <1>3 DEF OrderFacts

\* With ids of their own, events answered are events applied, and one is in hand
\* once at most.
LEMMA AnsweredIsApplied ==
  ASSUME BillingInv, Ids = "stripe"
  PROVE  /\ \A n \in acked : n \in Sent /\ applied[n] = 1
         /\ \A h \in Handlers : Inside(h) => applied[handler[h].event] # 1 /\ handler[h].event \notin acked
<1>1. \A m, n : EventId(m) = EventId(n) => m = n
  BY DEF EventId
<1>2. \A n \in acked : n \in Sent /\ applied[n] = 1
  BY <1>1 DEF BillingInv, BillingTyped, IdsFacts
<1>3. ASSUME NEW h \in Handlers, Inside(h)
      PROVE  applied[handler[h].event] # 1 /\ handler[h].event \notin acked
  <2>1. handler[h].event \in Sent /\ EventId(handler[h].event) \notin recorded
    BY <1>3 DEF Inside, BillingInv, HandlerFacts, InsideFacts
  <2> QED
    BY <2>1 DEF BillingInv, IdsFacts
<1> QED
  BY <1>2, <1>3

\* Before an event in hand every earlier one has been applied, and none that is later.
LEMMA TurnIsNext ==
  ASSUME InTurn, Ids = "stripe", NEW h \in Handlers, Inside(h), EventOf(h).of \in InOrder
  PROVE  /\ \A m \in Sent : Comes(m, handler[h].event) => applied[m] = 1
         /\ \A m \in Sent : Comes(handler[h].event, m) => applied[m] # 1
         /\ applied[handler[h].event] # 1
<1> DEFINE n == handler[h].event
<1>1. n \in Sent /\ EventOf(h) = sent[n]
  BY HandlerOf DEF Inside, InTurn, EventOf
<1>2. \A m \in Sent : Comes(m, n) => m \in acked
  BY DEF InTurn, OrderFacts, HasItsTurn, EarlierAnswered, Inside
<1>3. ASSUME NEW m \in Sent, Comes(n, m), applied[m] = 1 PROVE FALSE
  <2>1. sent[m].of \in InOrder
    BY <1>1, <1>3 DEF Comes
  <2>2. n \in acked
    BY <1>1, <1>3, <2>1 DEF InTurn, OrderFacts, LeftBehind, EarlierAnswered
  <2> QED
    BY <2>2, AnsweredIsApplied DEF InTurn
<1> QED
  BY <1>2, <1>3, AnsweredIsApplied DEF InTurn

\* The provider tells of what has yet to be applied.
LEMMA TellingKeepsOrder == ASSUME InTurn, ProviderStep PROVE OrderFacts'
<1>1. /\ \A n \in Sent : n \in Sent' /\ sent'[n] = sent[n]
      /\ \A n \in Sent' : applied[n] = 1 => n \in Sent
      /\ UNCHANGED <<acked, recorded, mirror, handler, applied, billingFaults>>
  BY ProviderSteps DEF InTurn
<1>2. \A m, n \in Sent : Comes(m, n)' <=> Comes(m, n)
  BY <1>1 DEF Comes
<1>3. \A m \in Sent', n \in Sent : Comes(m, n)' => m \in Sent
  <2>1. Sent = 1..Len(sent) /\ Len(sent) \in Nat /\ Sent' \subseteq Nat \ {0}
    BY ProviderSteps, SentIsIndexed DEF InTurn, BillingInv, BillingTyped, Sent
  <2> QED
    BY <2>1 DEF Comes
<1>4. ASSUME NEW o \in InOrder PROVE MirrorOf(o)'
  <2>1. MirrorOf(o)
    BY DEF InTurn, OrderFacts
  <2>2. (\A n \in Sent' : sent'[n].of = o => applied'[n] # 1) => mirror'[o] = NoRow
    BY <1>1, <2>1 DEF MirrorOf
  <2>3. o \in Subs => mirror'[o].paid = 0 /\ mirror'[o].refunded = 0
    BY <1>1, <2>1 DEF MirrorOf
  <2>4. o \in Purchases =>
          ((\A n \in Sent' : sent'[n].of = o /\ sent'[n].kind = "payment" => applied'[n] # 1)
            => mirror'[o] = NoRow)
    BY <1>1, <2>1 DEF MirrorOf
  <2>5. o \in Purchases /\ mirror'[o].status = "refunded" => \E n \in Sent' :
          sent'[n].of = o /\ applied'[n] = 1 /\ sent'[n].kind = "refund" /\ sent'[n].amount = Price
    BY <1>1, <2>1 DEF MirrorOf
  <2> QED
    BY <2>2, <2>3, <2>4, <2>5 DEF MirrorOf
<1>5. ASSUME NEW n \in Sent', sent'[n].of \in InOrder, applied'[n] = 1 PROVE LeftBehind(n)'
  <2>1. n \in Sent /\ LeftBehind(n) /\ sent'[n] = sent[n]
    BY <1>1, <1>5 DEF InTurn, OrderFacts
  <2>2. EarlierAnswered(n)'
    BY <1>1, <1>2, <1>3, <2>1 DEF LeftBehind, EarlierAnswered
  <2>3. (\A m \in Sent' : Comes(n, m)' => applied'[m] # 1) => \A m \in Sent : Comes(n, m) => applied[m] # 1
    BY <1>1, <1>2, <2>1
  <2>4. /\ RowSays(mirror[sent[n].of], sent[n])' <=> RowSays(mirror[sent[n].of], sent[n])
        /\ RowStands(mirror[sent[n].of], sent[n])' <=> RowStands(mirror[sent[n].of], sent[n])
    BY <1>1, <2>1 DEF RowSays, RowStands, OfSub, StatusOf, OfRefund
  <2>5. LastSays(n)'
    BY <2>1, <2>3, <2>4 DEF LeftBehind, LastSays
  <2> QED
    BY <2>1, <2>2, <2>4, <2>5 DEF LeftBehind
<1>6. ASSUME NEW h \in Handlers PROVE HasItsTurn(h)'
  <2> SUFFICES ASSUME handler[h].at # "idle", EventOf(h)'.of \in InOrder
               PROVE  EarlierAnswered(handler[h].event)' /\ StagedSays(h)'
    BY <1>1 DEF HasItsTurn
  <2>1. handler[h].event \in Sent /\ EventOf(h)' = EventOf(h)
    BY <1>1, HandlerOf DEF EventOf, InTurn
  <2>2. EarlierAnswered(handler[h].event) /\ StagedSays(h)
    BY <2>1 DEF InTurn, OrderFacts, HasItsTurn
  <2>3. EarlierAnswered(handler[h].event)'
    BY <1>1, <1>2, <1>3, <2>1, <2>2 DEF EarlierAnswered
  <2>4. RowSays(handler[h].row, EventOf(h))' <=> RowSays(handler[h].row, EventOf(h))
    BY <1>1, <2>1 DEF RowSays, OfSub, StatusOf, OfRefund
  <2> QED
    BY <1>1, <2>1, <2>2, <2>3, <2>4 DEF StagedSays
<1> QED
  BY <1>4, <1>5, <1>6 DEF OrderFacts

\* A request that moves on with nothing committed.
LEMMA MovingKeepsOrder ==
  ASSUME InTurn, NEW h \in Handlers, NEW row, handler' = [handler EXCEPT ![h] = row],
         UNCHANGED <<truth, sent, recorded, mirror, applied>>, acked \subseteq acked',
         HasItsTurn(h)'
  PROVE  OrderFacts'
<1>1. \A g \in Handlers \ {h} : handler'[g] = handler[g]
  BY DEF InTurn, BillingInv, BillingTyped
<1>2. \A m, n : Comes(m, n)' <=> Comes(m, n)
  BY DEF Comes
<1>3. \A o \in InOrder : MirrorOf(o)'
  BY DEF InTurn, OrderFacts, MirrorOf, Sent
<1>4. \A n : EarlierAnswered(n) => EarlierAnswered(n)'
  BY <1>2 DEF EarlierAnswered, Sent
<1>5. \A n \in Sent : LeftBehind(n) => LeftBehind(n)'
  BY <1>2, <1>4 DEF LeftBehind, LastSays, RowStands, RowSays, Sent, OfSub, StatusOf, OfRefund
<1>6. \A g \in Handlers \ {h} : HasItsTurn(g)'
  <2> SUFFICES ASSUME NEW g \in Handlers \ {h}, handler[g].at # "idle", EventOf(g).of \in InOrder
               PROVE  EarlierAnswered(handler[g].event)' /\ StagedSays(g)'
    BY <1>1 DEF HasItsTurn, EventOf
  <2>1. EarlierAnswered(handler[g].event) /\ StagedSays(g)
    BY DEF InTurn, OrderFacts, HasItsTurn
  <2>2. StagedSays(g)'
    BY <1>1, <2>1 DEF StagedSays, EventOf, RowSays, OfSub, StatusOf, OfRefund
  <2>3. EarlierAnswered(handler[g].event)'
    BY <1>1, <1>4, <2>1 DEF EarlierAnswered, Comes
  <2> QED
    BY <2>2, <2>3
<1> QED
  BY <1>3, <1>5, <1>6 DEF InTurn, OrderFacts, Sent

LEMMA EventIsTakenInTurn ==
  ASSUME InTurn, NEW h \in Handlers,
         \/ \E n \in 1..MaxEvents : Deliver(h, n)
         \/ RecordNew(h) \/ RecordDuplicate(h) \/ DeliveryFails(h)
  PROVE  OrderFacts'
<1>1. handler \in [Handlers -> HandlerRow] /\ handler[h] \in HandlerRow
  BY DEF InTurn, BillingInv, BillingTyped
<1>2. ASSUME NEW n \in 1..MaxEvents, Deliver(h, n) PROVE OrderFacts'
  <2>1. n \in Sent /\ sent' = sent /\ acked' = acked
    BY <1>2 DEF Deliver
  <2>2. handler[h].at = "idle" /\ ~handler[h].writes
    BY <1>2, HandlerOf DEF Deliver, Is, Inside, InTurn
  <2> DEFINE row == [handler[h] EXCEPT !.at = "recording", !.event = n]
  <2>3. handler' = [handler EXCEPT ![h] = row] /\ handler'[h] = row
    BY <1>1, <1>2 DEF Deliver
  <2>4. row.at = "recording" /\ row.event = n /\ (row.writes <=> handler[h].writes)
    BY <1>1 DEF HandlerRow
  <2> HIDE DEF row
  <2>5. sent[n].of \in InOrder => EarlierAnswered(n)'
    <3>1. \A m \in Sent : Comes(m, n) => m \in Nat /\ n \in Nat /\ ~(n <= m) /\ sent[m].of = sent[n].of
      BY <2>1, SentIsIndexed DEF Comes, InTurn, BillingInv
    <3>2. \A m \in Sent : sent[n].of \in InOrder /\ Comes(m, n) => m \in acked
      BY <1>2, <3>1 DEF Deliver
    <3> QED
      BY <2>1, <3>2 DEF EarlierAnswered, Sent, Comes
  <2>6. HasItsTurn(h)'
    BY <2>1, <2>2, <2>3, <2>4, <2>5 DEF HasItsTurn, StagedSays, EventOf
  <2> QED
    BY <1>2, <2>3, <2>6, MovingKeepsOrder DEF Deliver
<1>3. CASE RecordNew(h)
  <2>1. handler[h].at = "recording" /\ ~handler[h].writes
    BY <1>3, HandlerOf DEF RecordNew, MayRecord, Is, Inside, InTurn
  <2> DEFINE row == [handler[h] EXCEPT !.at = "applying"]
  <2>2. handler' = [handler EXCEPT ![h] = row] /\ handler'[h] = row
    BY <1>1, <1>3 DEF RecordNew, Moves
  <2>3. row.at = "applying" /\ row.event = handler[h].event /\ (row.writes <=> handler[h].writes)
    BY <1>1 DEF HandlerRow
  <2> HIDE DEF row
  <2>4. sent' = sent /\ acked' = acked
    BY <1>3 DEF RecordNew
  <2>5. EventOf(h)' = EventOf(h)
    BY <2>2, <2>3, <2>4 DEF EventOf
  <2>6. EarlierAnswered(handler[h].event)' <=> EarlierAnswered(handler[h].event)
    BY <2>2, <2>3, <2>4 DEF EarlierAnswered, Comes, Sent
  <2>7. HasItsTurn(h)'
    BY <2>1, <2>2, <2>3, <2>5, <2>6 DEF HasItsTurn, StagedSays, InTurn, OrderFacts
  <2> QED
    BY <1>3, <2>2, <2>7, MovingKeepsOrder DEF RecordNew
<1>4. CASE RecordDuplicate(h) \/ DeliveryFails(h)
  <2>1. handler' = [handler EXCEPT ![h] = Unstaged] /\ handler'[h] = Unstaged
    BY <1>1, <1>4 DEF RecordDuplicate, DeliveryFails, GivesUp
  <2>2. HasItsTurn(h)'
    BY <2>1 DEF HasItsTurn, Unstaged
  <2> QED
    BY <1>4, <2>1, <2>2, MovingKeepsOrder DEF RecordDuplicate, DeliveryFails
<1> QED
  BY <1>2, <1>3, <1>4

\* What is staged, or left, says what the event does.
LEMMA StagingKeepsOrder ==
  ASSUME InTurn, NEW h \in Handlers, handler[h].at \in {"applying", "inserting"},
         UNCHANGED <<truth, sent, acked, recorded, mirror, applied, billingFaults>>,
         \/ \E row \in MirrorRow :
              Stage(h, row) /\ (EventOf(h).of \in InOrder => RowSays(row, EventOf(h)))
         \/ \E at \in {"inserting", "committing"} :
              Moves(h, at) /\ (EventOf(h).of \in InOrder => at # "inserting" /\ EventOf(h).kind = "invoice")
  PROVE  OrderFacts'
<1>1. handler \in [Handlers -> HandlerRow] /\ handler[h] \in HandlerRow /\ ~handler[h].writes
  BY DEF InTurn, BillingInv, BillingTyped, HandlerFacts
<1>3. EventOf(h).of \in InOrder => EarlierAnswered(handler[h].event)
  BY DEF InTurn, OrderFacts, HasItsTurn
<1>4. ASSUME NEW row, handler' = [handler EXCEPT ![h] = row], row.event = handler[h].event,
             EventOf(h).of \in InOrder =>
               /\ row.at # "inserting" /\ (row.writes => RowSays(row.row, EventOf(h)))
               /\ (row.at = "committing" /\ ~row.writes => EventOf(h).kind = "invoice")
      PROVE  OrderFacts'
  <2>1. handler'[h] = row /\ EventOf(h)' = EventOf(h)
    BY <1>1, <1>4 DEF EventOf
  <2>2. EarlierAnswered(handler[h].event)' <=> EarlierAnswered(handler[h].event)
    BY <1>4, <2>1 DEF EarlierAnswered, Comes, Sent
  <2>3. RowSays(handler[h].row, EventOf(h))' <=> RowSays(row.row, EventOf(h))
    BY <2>1 DEF RowSays, OfSub, StatusOf, OfRefund
  <2>4. HasItsTurn(h)'
    BY <1>3, <1>4, <2>1, <2>2, <2>3 DEF HasItsTurn, StagedSays
  <2> QED
    BY <1>4, <2>4, MovingKeepsOrder
<1>5. ASSUME NEW row \in MirrorRow, Stage(h, row), EventOf(h).of \in InOrder => RowSays(row, EventOf(h))
      PROVE  OrderFacts'
  <2>1. CASE handler' = [handler EXCEPT ![h] = Unstaged]
    <3>1. HasItsTurn(h)'
      BY <1>1, <2>1 DEF HasItsTurn, Unstaged
    <3> QED
      BY <2>1, <3>1, MovingKeepsOrder
  <2> DEFINE staged == [at |-> "committing", event |-> handler[h].event, writes |-> TRUE, row |-> row]
  <2>2. CASE handler' = [handler EXCEPT ![h] = staged]
    <3>1. staged.at = "committing" /\ staged.event = handler[h].event /\ staged.writes /\ staged.row = row
      OBVIOUS
    <3> HIDE DEF staged
    <3> QED
      BY <1>4, <1>5, <2>2, <3>1
  <2> QED
    BY <1>5, <2>1, <2>2 DEF Stage
<1>6. ASSUME NEW at \in {"inserting", "committing"}, Moves(h, at),
             EventOf(h).of \in InOrder => at # "inserting" /\ EventOf(h).kind = "invoice"
      PROVE  OrderFacts'
  <2> DEFINE row == [handler[h] EXCEPT !.at = at]
  <2>1. handler' = [handler EXCEPT ![h] = row]
    BY <1>6 DEF Moves
  <2>2. row.at = at /\ row.event = handler[h].event /\ (row.writes <=> handler[h].writes)
    BY <1>1 DEF HandlerRow
  <2> HIDE DEF row
  <2> QED
    BY <1>1, <1>4, <1>6, <2>1, <2>2
<1> QED
  BY <1>5, <1>6

\* The tables hold no row of a purchase none of whose payments has been applied, and
\* the applied events of a row are those before the one in hand.
LEMMA RowInHand ==
  ASSUME InTurn, Ids = "stripe", NEW h \in Handlers, Inside(h), EventOf(h).of \in InOrder
  PROVE  LET e == EventOf(h)
             row == mirror[e.of] IN
         /\ e \in Event /\ row \in MirrorRow
         /\ OfSub(e) => e.of \in Subs /\ row.paid = 0 /\ row.refunded = 0
         /\ e.kind \in {"payment", "invoice"} => row = NoRow
         /\ e.kind = "payment" => e.amount = Price
         /\ e.kind = "subscription" => row.status # "none"
         /\ e.kind = "refund" => row.status = "paid" /\ row.paid = Price /\ row.found
<1> DEFINE n == handler[h].event
           e == EventOf(h)
           o == e.of
           row == mirror[o]
<1>1. /\ n \in Sent /\ e = sent[n] /\ e \in Event /\ o \in Object /\ row \in MirrorRow
      /\ Proper(e) /\ Preceded(n) /\ MirrorOf(o) /\ n \in Nat
  BY HandlerOf, SentIsIndexed
     DEF Inside, InTurn, EventOf, ToldFacts, OrderFacts, BillingInv
<1>2. /\ OfSub(e) <=> e.kind \in {"checkout", "subscription"}
      /\ OfSub(e) => o \in Subs /\ o \notin Purchases
      /\ ~OfSub(e) => o \in Purchases
      /\ e.kind = "payment" => e.amount = Price
  BY <1>1, BillingAssumption DEF Proper, Object, OfSub, Event, Kind
<1>3. \A m \in Sent : sent[m].of = o /\ applied[m] = 1 => Comes(m, n) /\ Ordered(m, n)
  <2>1. \A m \in Sent : Comes(n, m) => applied[m] # 1
    BY TurnIsNext
  <2>2. applied[n] # 1
    BY TurnIsNext
  <2>3. \A m \in Sent : m \in Nat
    BY SentIsIndexed DEF InTurn, BillingInv
  <2> QED
    BY <1>1, <2>1, <2>2, <2>3 DEF Comes, InTurn, ToldFacts
<1>4. \A m \in Sent : Comes(m, n) => applied[m] = 1 /\ LeftBehind(m) /\ Proper(sent[m])
  <2>1. \A m \in Sent : Comes(m, n) => applied[m] = 1 /\ sent[m].of \in InOrder
    BY <1>1, TurnIsNext DEF Comes
  <2> QED
    BY <2>1 DEF InTurn, OrderFacts, ToldFacts
<1>5. e.kind \in {"payment", "invoice"} => row = NoRow
  <2>1. e.kind \in {"payment", "invoice"} =>
          \A m \in Sent : sent[m].of = o /\ sent[m].kind = "payment" => applied[m] # 1
    BY <1>1, <1>3 DEF Ordered
  <2> QED
    BY <1>1, <1>2, <2>1 DEF MirrorOf
<1>6. e.kind = "subscription" => row.status # "none"
  <2> SUFFICES ASSUME e.kind = "subscription" PROVE row.status # "none"
    OBVIOUS
  <2>1. PICK m \in Sent : Comes(m, n) /\ sent[m].kind = "checkout"
    BY <1>1 DEF Preceded
  <2>2. sent[m].of = o /\ RowStands(mirror[sent[m].of], sent[m])
    BY <1>1, <1>4, <2>1 DEF LeftBehind, Comes
  <2> QED
    BY <1>2, <2>2 DEF RowStands
<1>7. e.kind = "refund" => row.status = "paid" /\ row.paid = Price /\ row.found
  <2> SUFFICES ASSUME e.kind = "refund" PROVE row.status = "paid" /\ row.paid = Price /\ row.found
    OBVIOUS
  <2>1. PICK m \in Sent : Comes(m, n) /\ sent[m].kind = "payment"
    BY <1>1 DEF Preceded
  <2>2. row.paid = Price /\ row.found /\ row.status \in {"paid", "refunded"}
    BY <1>1, <1>4, <2>1 DEF LeftBehind, Comes, RowStands
  <2>3. ASSUME row.status = "refunded" PROVE FALSE
    <3>1. PICK k \in Sent : /\ sent[k].of = o /\ applied[k] = 1
                            /\ sent[k].kind = "refund" /\ sent[k].amount = Price
      BY <1>1, <1>2, <2>3 DEF MirrorOf
    <3> QED
      BY <1>1, <1>3, <3>1 DEF Ordered
  <2> QED
    BY <2>2, <2>3
<1> QED
  BY <1>1, <1>2, <1>5, <1>6, <1>7 DEF MirrorOf

LEMMA ApplyingKeepsOrder ==
  ASSUME InTurn, Ids = "stripe", "invoice" \notin Named, NEW h \in Handlers,
         ApplyPayment(h) \/ ApplyUpdate(h) \/ ApplyInsert(h) \/ ApplyRefund(h)
  PROVE  OrderFacts'
<1> DEFINE e == EventOf(h)
           row == mirror[e.of]
           InTheirTurn == e.of \in InOrder
<1>1. handler[h].at \in {"applying", "inserting"} /\ e \in Event /\ row \in MirrorRow
      /\ Inside(h)
      /\ UNCHANGED <<truth, sent, acked, recorded, mirror, applied, billingFaults>>
  BY HandlerOf DEF ApplyPayment, ApplyUpdate, ApplyInsert, ApplyRefund, Is, Inside, InTurn
<1>2. e.amount \in 0..Price /\ e.status \in SubscriptionState \cup {"none"}
      /\ row.paid \in 0..Price /\ row.refunded \in 0..Price /\ row.found \in BOOLEAN /\ row.status \in Status
      /\ Price \in Nat \ {0}
  BY <1>1, BillingAssumption DEF Event, MirrorRow
<1>3. ASSUME NEW settled \in MirrorRow, Stage(h, settled), InTheirTurn => RowSays(settled, e)
      PROVE  OrderFacts'
  BY <1>1, <1>3, StagingKeepsOrder
<1>4. ASSUME NEW at \in {"inserting", "committing"}, Moves(h, at),
             InTheirTurn => at # "inserting" /\ e.kind = "invoice"
      PROVE  OrderFacts'
  BY <1>1, <1>4, StagingKeepsOrder
<1>5. InTheirTurn =>
         /\ OfSub(e) => e.of \in Subs /\ row.paid = 0 /\ row.refunded = 0
         /\ e.kind \in {"payment", "invoice"} => row = NoRow
         /\ e.kind = "payment" => e.amount = Price
         /\ e.kind = "subscription" => row.status # "none"
         /\ e.kind = "refund" => row.status = "paid" /\ row.paid = Price /\ row.found
  BY <1>1, RowInHand
<1>6. CASE ApplyPayment(h)
  <2>1. [NoRow EXCEPT !.status = "active"] \in MirrorRow
    BY RowsAreTyped DEF MirrorRow, Status, SubscriptionState
  <2>2. e.kind = "checkout" => RowSays([NoRow EXCEPT !.status = "active"], e)
    BY DEF RowSays, OfSub, StatusOf, NoRow
  <2> DEFINE paid == [row EXCEPT !.status = "paid", !.paid = e.amount, !.found = @ \/ row.status = "none"]
  <2>3. paid \in MirrorRow
    BY <1>1, <1>2 DEF MirrorRow, Status
  <2>4. InTheirTurn /\ e.kind = "payment" => RowSays(paid, e)
    <3> SUFFICES ASSUME InTheirTurn, e.kind = "payment" PROVE RowSays(paid, e)
      OBVIOUS
    <3>1. row = NoRow /\ e.amount = Price
      BY <1>5
    <3>2. row.status = "none" /\ row.refunded = 0
      BY <3>1 DEF NoRow
    <3>3. paid.status = "paid" /\ paid.paid = e.amount /\ paid.refunded = row.refunded
      BY <1>1 DEF MirrorRow
    <3>4. paid.found <=> row.found \/ row.status = "none"
      BY <1>1 DEF MirrorRow
    <3> QED
      BY <3>1, <3>2, <3>3, <3>4 DEF RowSays, OfSub
  <2>5. ApplyPayment(h) => \/ e.kind = "checkout" /\ Stage(h, [NoRow EXCEPT !.status = "active"])
                           \/ e.kind = "payment" /\ Stage(h, paid)
    BY DEF ApplyPayment
  <2> HIDE DEF paid
  <2> QED
    BY <1>3, <1>6, <2>1, <2>2, <2>3, <2>4, <2>5
<1>7. Settled(e) \in MirrorRow
  <2>1. [row EXCEPT !.status = e.status] \in MirrorRow
    BY <1>1, <1>2 DEF MirrorRow, Status
  <2>2. [row EXCEPT !.status = "open", !.paid = e.amount] \in MirrorRow
    BY <1>1, <1>2 DEF MirrorRow, Status
  <2> QED
    BY <2>1, <2>2 DEF Settled
<1>8. CASE ApplyUpdate(h)
  <2>1. InTheirTurn /\ e.kind = "invoice" => ~Mirrored(e.of)
    BY <1>5 DEF Mirrored, NoRow
  <2>2. InTheirTurn /\ e.kind = "subscription" => Mirrored(e.of)
    BY <1>5 DEF Mirrored
  <2>3. InTheirTurn /\ e.kind = "subscription" => RowSays(Settled(e), e)
    <3> SUFFICES ASSUME InTheirTurn, e.kind = "subscription" PROVE RowSays(Settled(e), e)
      OBVIOUS
    <3>1. row.paid = 0 /\ row.refunded = 0 /\ Settled(e) = [row EXCEPT !.status = e.status]
      BY <1>5 DEF OfSub, Settled
    <3>2. Settled(e).status = e.status /\ Settled(e).paid = 0 /\ Settled(e).refunded = 0
      BY <1>1, <3>1 DEF MirrorRow
    <3> QED
      BY <3>2 DEF RowSays, OfSub, StatusOf
  <2>4. e.kind \in {"subscription", "invoice"}
        /\ IF Mirrored(e.of) THEN Stage(h, Settled(e))
           ELSE Moves(h, IF e.kind \in Named THEN "inserting" ELSE "committing")
    BY <1>8 DEF ApplyUpdate
  <2>5. CASE Mirrored(e.of)
    BY <1>3, <1>7, <2>1, <2>3, <2>4, <2>5
  <2>6. CASE ~Mirrored(e.of) /\ e.kind \in Named
    BY <1>4, <2>2, <2>4, <2>6
  <2>7. CASE ~Mirrored(e.of) /\ e.kind \notin Named
    BY <1>4, <2>2, <2>4, <2>7
  <2> QED
    BY <2>5, <2>6, <2>7
<1>9. CASE ApplyInsert(h)
  <2>1. ~InTheirTurn
    BY <1>9 DEF ApplyInsert, Is, InTurn, OrderFacts, HasItsTurn, StagedSays
  <2> QED
    BY <1>3, <1>4, <1>7, <1>9, <2>1 DEF ApplyInsert
<1>10. CASE ApplyRefund(h)
  <2> DEFINE back == Least(e.amount, row.paid)
             status == IF back >= row.paid THEN "refunded" ELSE row.status
             refunded == [row EXCEPT !.refunded = back, !.status = status]
  <2>1. back \in 0..Price /\ status \in Status
    BY <1>1, <1>2 DEF Least, Status
  <2>2. e.kind = "refund" /\ IF row.found THEN Stage(h, refunded) ELSE Moves(h, "committing")
    BY <1>10 DEF ApplyRefund
  <2>3. InTheirTurn => back = e.amount /\ status = OfRefund(e)
    BY <1>2, <1>5, <2>2 DEF Least, OfRefund
  <2> HIDE DEF back, status
  <2>4. refunded \in MirrorRow
    BY <1>1, <2>1 DEF MirrorRow
  <2>5. InTheirTurn => RowSays(refunded, e)
    <3>1. refunded.refunded = back /\ refunded.status = status /\ refunded.paid = row.paid
          /\ (refunded.found <=> row.found)
      BY <1>1 DEF MirrorRow
    <3> QED
      BY <1>5, <2>2, <2>3, <3>1 DEF RowSays, OfSub
  <2> HIDE DEF refunded
  <2> QED
    BY <1>3, <1>4, <1>5, <2>2, <2>4, <2>5
<1> QED
  BY <1>6, <1>8, <1>9, <1>10

\* What the event in hand is committed to: its row says what the event does.
LEMMA CommitSays ==
  ASSUME InTurn, Ids = "stripe", NEW h \in Handlers, CommitEvent(h), EventOf(h).of \in InOrder
  PROVE  LET e == EventOf(h) IN
         /\ RowSays(mirror'[e.of], e)
         /\ OfSub(e) => mirror'[e.of].status # "none"
<1> DEFINE e == EventOf(h)
           o == e.of
<1>1. /\ Inside(h) /\ handler[h].at = "committing" /\ StagedSays(h) /\ o \in Object
      /\ mirror \in [Object -> MirrorRow]
      /\ mirror' = IF handler[h].writes THEN [mirror EXCEPT ![o] = handler[h].row] ELSE mirror
  BY HandlerOf DEF CommitEvent, Is, Inside, InTurn, OrderFacts, HasItsTurn, BillingInv, BillingTyped
<1>2. RowSays(mirror'[o], e)
  <2>1. CASE handler[h].writes
    BY <1>1, <2>1 DEF StagedSays
  <2>2. CASE ~handler[h].writes
    <3>1. e.kind = "invoice" /\ mirror[o] = NoRow
      BY <1>1, <2>2, RowInHand DEF StagedSays
    <3> QED
      BY <1>1, <2>2, <3>1 DEF RowSays, OfSub
  <2> QED
    BY <2>1, <2>2
<1>3. e.kind = "subscription" => e.status # "none"
  BY HandlerOf, <1>1 DEF InTurn, ToldFacts, Proper, EventOf
<1> QED
  BY <1>2, <1>3 DEF RowSays, StatusOf, OfSub

LEMMA CommitKeepsOrder ==
  ASSUME InTurn, Ids = "stripe", NEW h \in Handlers, CommitEvent(h)
  PROVE  OrderFacts'
<1> DEFINE n == handler[h].event
           e == EventOf(h)
           o == e.of
<1>1. /\ n \in Sent /\ e = sent[n] /\ Inside(h) /\ o \in Object /\ Proper(e) /\ Preceded(n)
      /\ e \in Event /\ n \in Nat
      /\ \A m \in Sent : m \in 1..MaxEvents /\ sent[m].of \in Object /\ Proper(sent[m]) /\ m \in Nat
  <2>1. Sent \subseteq 1..MaxEvents
    BY SentIsIndexed, BillingAssumption DEF InTurn, BillingInv, BillingTyped
  <2> QED
    BY <2>1, HandlerOf, SentIsIndexed
       DEF CommitEvent, Is, Inside, EventOf, InTurn, ToldFacts, BillingInv, Event
<1>2. /\ sent' = sent /\ truth' = truth /\ acked \subseteq acked' /\ Sent' = Sent
      /\ handler' = [handler EXCEPT ![h] = Unstaged] /\ applied' = [applied EXCEPT ![n] = @ + 1]
      /\ mirror' = IF handler[h].writes THEN [mirror EXCEPT ![o] = handler[h].row] ELSE mirror
      /\ mirror \in [Object -> MirrorRow] /\ applied \in [1..MaxEvents -> Nat]
      /\ handler \in [Handlers -> HandlerRow]
  BY DEF CommitEvent, GivesUp, BillingFault, InTurn, BillingInv, BillingTyped, Sent
<1>3. applied[n] = 0
  <2>1. applied[n] <= 1 /\ applied[n] # 1
    BY <1>1, AnsweredIsApplied DEF InTurn, BillingInv, IdsFacts
  <2> QED
    BY <1>1, <1>2, <2>1
<1>4. applied'[n] = 1 /\ \A m \in Sent \ {n} : applied'[m] = applied[m]
  BY <1>1, <1>2, <1>3
<1>5. \A p \in Object \ {o} : mirror'[p] = mirror[p]
  BY <1>1, <1>2
<1>6. InOrder \subseteq Object /\ Subs \cap Purchases = {} /\ Object = Subs \cup Purchases
  BY BillingAssumption DEF Object
<1>7. \A l, m : Comes(l, m)' <=> Comes(l, m)
  BY <1>2 DEF Comes
<1>8. \A m \in Sent : EarlierAnswered(m) => EarlierAnswered(m)'
  BY <1>2, <1>7 DEF EarlierAnswered
<1>9. o \in InOrder =>
        /\ RowSays(mirror'[o], e) /\ (OfSub(e) => mirror'[o].status # "none")
        /\ \A m \in Sent : Comes(m, n) => applied[m] = 1
        /\ \A m \in Sent : Comes(n, m) => applied[m] # 1
  BY <1>1, CommitSays, TurnIsNext
<1>10. /\ OfSub(e) <=> e.kind \in {"checkout", "subscription"}
       /\ o \in Subs <=> OfSub(e)
       /\ e.kind \in {"checkout", "subscription", "invoice", "payment", "refund"}
  BY <1>1, <1>6 DEF Proper, OfSub, Event, Kind
<1> HIDE DEF n, e, o
<1>11. ASSUME NEW p \in InOrder PROVE MirrorOf(p)'
  <2>1. MirrorOf(p)
    BY DEF InTurn, OrderFacts
  <2>2. CASE p # o
    <3>1. mirror'[p] = mirror[p] /\ \A m \in Sent : sent[m].of = p => applied'[m] = applied[m]
      BY <1>1, <1>4, <1>5, <1>6, <2>2 DEF o
    <3>2. (\A m \in Sent : sent[m].of = p => applied'[m] # 1) => mirror'[p] = NoRow
      BY <2>1, <3>1 DEF MirrorOf
    <3>3. p \in Subs => mirror'[p].paid = 0 /\ mirror'[p].refunded = 0
      BY <2>1, <3>1 DEF MirrorOf
    <3>4. p \in Purchases =>
            ((\A m \in Sent : sent[m].of = p /\ sent[m].kind = "payment" => applied'[m] # 1)
              => mirror'[p] = NoRow)
      BY <2>1, <3>1 DEF MirrorOf
    <3>5. p \in Purchases /\ mirror'[p].status = "refunded" => \E m \in Sent :
            sent[m].of = p /\ applied'[m] = 1 /\ sent[m].kind = "refund" /\ sent[m].amount = Price
      BY <2>1, <3>1 DEF MirrorOf
    <3> QED
      BY <1>2, <3>2, <3>3, <3>4, <3>5 DEF MirrorOf
  <2>3. CASE p = o
    <3>1. RowSays(mirror'[o], e)
      BY <1>9, <2>3
    <3>2. p \in Subs => mirror'[p].paid = 0 /\ mirror'[p].refunded = 0
      BY <1>10, <2>3, <3>1 DEF RowSays
    <3>3. ASSUME p \in Purchases,
                 \A m \in Sent : sent[m].of = p /\ sent[m].kind = "payment" => applied'[m] # 1
          PROVE  mirror'[p] = NoRow
      <4>1. e.kind # "payment"
        BY <1>1, <1>4, <2>3, <3>3 DEF o
      <4>2. e.kind # "refund"
        <5>1. ASSUME e.kind = "refund" PROVE FALSE
          <6>1. PICK m \in Sent : Comes(m, n) /\ sent[m].kind = "payment"
            BY <1>1, <5>1 DEF Preceded
          <6>2. sent[m].of = o /\ applied[m] = 1 /\ m # n
            BY <1>1, <1>9, <2>3, <6>1 DEF Comes, o
          <6> QED
            BY <1>4, <2>3, <3>3, <6>1, <6>2
        <5> QED
          BY <5>1
      <4>3. e.kind = "invoice"
        BY <1>6, <1>10, <2>3, <3>3, <4>1, <4>2
      <4> QED
        BY <2>3, <3>1, <4>3 DEF RowSays
    <3>4. ASSUME p \in Purchases, mirror'[p].status = "refunded"
          PROVE  \E m \in Sent : /\ sent[m].of = p /\ applied'[m] = 1
                                 /\ sent[m].kind = "refund" /\ sent[m].amount = Price
      <4>1. e.kind = "refund" /\ e.amount = Price
        BY <1>6, <1>10, <2>3, <3>1, <3>4 DEF RowSays, OfRefund, NoRow
      <4> QED
        BY <1>1, <1>4, <2>3, <4>1 DEF o
    <3>5. ~\A m \in Sent : sent[m].of = p => applied'[m] # 1
      BY <1>1, <1>4, <2>3 DEF o
    <3> QED
      BY <1>2, <3>2, <3>3, <3>4, <3>5 DEF MirrorOf
  <2> QED
    BY <2>2, <2>3
<1>12. ASSUME NEW k \in Sent, sent[k].of \in InOrder, applied'[k] = 1 PROVE LeftBehind(k)'
  <2>1. CASE sent[k].of # o
    <3>1. k # n /\ applied[k] = 1
      BY <1>1, <1>4, <1>12, <2>1 DEF o
    <3>2. mirror'[sent[k].of] = mirror[sent[k].of] /\ LeftBehind(k)
      BY <1>1, <1>5, <1>12, <2>1, <3>1 DEF InTurn, OrderFacts
    <3>3. \A m \in Sent : Comes(k, m) => applied'[m] = applied[m]
      BY <1>1, <1>4, <2>1 DEF Comes, o
    <3>4. LastSays(k)'
      BY <1>2, <1>7, <3>2, <3>3 DEF LeftBehind, LastSays, RowSays, OfSub, StatusOf, OfRefund
    <3>5. RowStands(mirror[sent[k].of], sent[k])'
      BY <1>2, <3>2 DEF LeftBehind, RowStands
    <3> QED
      BY <1>8, <3>2, <3>4, <3>5 DEF LeftBehind
  <2>2. CASE k = n
    <3>1. o \in InOrder /\ sent[k] = e
      BY <1>1, <1>12, <2>2 DEF o
    <3>2. EarlierAnswered(k)
      BY <1>1, <2>2, <3>1 DEF n, e, o, InTurn, OrderFacts, HasItsTurn, Inside
    <3>3. LastSays(k)'
      BY <1>2, <1>9, <3>1 DEF LastSays, RowSays, OfSub, StatusOf, OfRefund, o
    <3>4. RowStands(mirror[sent[k].of], sent[k])'
      BY <1>2, <1>9, <1>10, <3>1 DEF RowStands, RowSays, OfSub, o
    <3> QED
      BY <1>8, <3>2, <3>3, <3>4 DEF LeftBehind
  <2>3. CASE sent[k].of = o /\ k # n
    <3>1. applied[k] = 1 /\ LeftBehind(k) /\ o \in InOrder
      BY <1>4, <1>12, <2>3 DEF InTurn, OrderFacts
    <3>2. Comes(k, n)
      <4>1. Comes(k, n) \/ Comes(n, k)
        BY <1>1, <2>3 DEF Comes, o
      <4> QED
        BY <1>9, <3>1, <4>1
    <3>3. LastSays(k)'
      BY <1>1, <1>2, <1>4, <1>7, <3>2 DEF LastSays
    <3>4. sent[k].kind = "payment" => e.kind = "refund"
      <4>1. sent[k].kind = "payment" => o \notin Subs
        BY <1>1, <2>3 DEF Proper, OfSub
      <4>2. Ordered(k, n)
        BY <1>1 DEF InTurn, ToldFacts
      <4> QED
        BY <1>1, <1>10, <3>2, <4>1, <4>2 DEF Ordered
    <3>5. RowStands(mirror'[o], sent[k])
      <4>1. o \in Subs => mirror'[o].status # "none"
        BY <1>9, <1>10, <3>1
      <4>2. e.kind = "refund" =>
              mirror'[o].paid = Price /\ mirror'[o].found /\ mirror'[o].status \in {"paid", "refunded"}
        BY <1>9, <3>1 DEF RowSays, OfRefund
      <4> QED
        BY <2>3, <3>4, <4>1, <4>2 DEF RowStands
    <3>6. RowStands(mirror[sent[k].of], sent[k])'
      BY <1>2, <2>3, <3>5 DEF RowStands
    <3> QED
      BY <1>8, <3>1, <3>3, <3>6 DEF LeftBehind
  <2> QED
    BY <2>1, <2>2, <2>3
<1>13. ASSUME NEW g \in Handlers PROVE HasItsTurn(g)'
  <2>1. CASE g = h
    BY <1>2, <2>1 DEF HasItsTurn, Unstaged
  <2>2. CASE g # h
    <3>1. handler'[g] = handler[g] /\ EventOf(g)' = EventOf(g)
      BY <1>2, <2>2 DEF EventOf
    <3> SUFFICES ASSUME handler[g].at # "idle", EventOf(g).of \in InOrder
                 PROVE  EarlierAnswered(handler[g].event)' /\ StagedSays(g)'
      BY <3>1 DEF HasItsTurn
    <3>2. EarlierAnswered(handler[g].event) /\ StagedSays(g) /\ handler[g].event \in Sent
      BY HandlerOf DEF InTurn, OrderFacts, HasItsTurn
    <3>3. StagedSays(g)'
      BY <3>1, <3>2 DEF StagedSays, RowSays, OfSub, StatusOf, OfRefund
    <3>4. EarlierAnswered(handler[g].event)'
      BY <1>2, <1>7, <3>1, <3>2 DEF EarlierAnswered
    <3> QED
      BY <3>3, <3>4
  <2> QED
    BY <2>1, <2>2
<1> QED
  BY <1>2, <1>11, <1>12, <1>13 DEF OrderFacts

LEMMA InTurnSteps ==
  ASSUME Ids = "stripe", "invoice" \notin Named
  PROVE  InTurn /\ [BillingNext]_billingVars => InTurn'
<1> SUFFICES ASSUME InTurn, [BillingNext]_billingVars PROVE InTurn'
  OBVIOUS
<1>1. BillingInv'
  BY BillingSteps DEF InTurn
<1>2. UNCHANGED <<truth, sent>> => ToldFacts'
  BY DEF InTurn, ToldFacts, TruthOf, Proper, Preceded, LastOfIts, TruthSays, Ordered, Comes,
         OfSub, StatusOf, OfRefund, Sent
<1>3. CASE UNCHANGED billingVars
  <2> USE <1>3 DEF billingVars
  <2>1. ToldFacts'
    BY <1>2
  <2>2. \A m, n : Comes(m, n)' <=> Comes(m, n)
    BY DEF Comes
  <2>3. \A o \in InOrder : MirrorOf(o)'
    BY DEF InTurn, OrderFacts, MirrorOf, Sent
  <2>4. \A n : EarlierAnswered(n)' <=> EarlierAnswered(n)
    BY <2>2 DEF EarlierAnswered, Sent
  <2>5. \A n \in Sent : LeftBehind(n) => LeftBehind(n)'
    BY <2>2, <2>4 DEF LeftBehind, LastSays, RowStands, RowSays, Sent, OfSub, StatusOf, OfRefund
  <2>6. \A h \in Handlers : HasItsTurn(h)'
    BY <2>4 DEF InTurn, OrderFacts, HasItsTurn, StagedSays, EventOf, EarlierAnswered, Comes,
                RowSays, OfSub, StatusOf, OfRefund, Sent
  <2>7. OrderFacts'
    BY <2>3, <2>5, <2>6 DEF InTurn, OrderFacts, Sent
  <2> QED
    BY <1>1, <2>1, <2>7 DEF InTurn
<1>4. CASE ProviderStep
  BY <1>1, <1>4, ToldSteps, TellingKeepsOrder DEF InTurn
<1>5. ASSUME NEW h \in Handlers,
             \/ HandlerStep(h) \/ DeliveryFails(h) \/ \E n \in 1..MaxEvents : Deliver(h, n)
      PROVE  InTurn'
  <2>1. UNCHANGED <<truth, sent>>
    BY <1>5 DEF HandlerStep, DeliveryFails, Deliver, RecordNew, RecordDuplicate, ApplyPayment,
                ApplyUpdate, ApplyInsert, ApplyRefund, CommitEvent
  <2>2. OrderFacts'
    BY <1>5, EventIsTakenInTurn, ApplyingKeepsOrder, CommitKeepsOrder DEF HandlerStep
  <2> QED
    BY <1>1, <1>2, <2>1, <2>2 DEF InTurn
<1> QED
  BY <1>3, <1>4, <1>5 DEF BillingNext

\* The latest of a set of events.
LEMMA LatestExists ==
  ASSUME BillingInv, NEW T \in SUBSET Sent, T # {}
  PROVE  \E n \in T : \A m \in T : m <= n
<1> DEFINE Back == {Len(sent) - n : n \in T}
<1>1. Sent = 1..Len(sent) /\ Len(sent) \in Nat
  BY SentIsIndexed DEF BillingInv
<1>2. Back \in SUBSET Nat /\ Back # {}
  <2>1. \A n \in T : Len(sent) - n \in Nat
    BY <1>1
  <2>2. PICK n \in T : TRUE
    OBVIOUS
  <2>3. Len(sent) - n \in Back
    OBVIOUS
  <2> QED
    BY <2>1, <2>3
<1>3. PICK b \in Back : \A a \in Back : <<a, b>> \notin OpToRel(<, Nat)
  BY <1>2, NatLessThanWellFounded, WFMin
<1>4. PICK n \in T : b = Len(sent) - n
  OBVIOUS
<1>5. ASSUME NEW m \in T PROVE m <= n
  <2>1. Len(sent) - m \in Back /\ Len(sent) - m \in Nat /\ b \in Nat
    BY <1>2
  <2>2. ~(Len(sent) - m < b)
    BY <1>3, <2>1 DEF OpToRel
  <2> QED
    BY <1>1, <1>4, <2>2
<1> QED
  BY <1>5

\* Told in order and answered, the tables say of a subscription or a purchase what
\* the provider says: its status, what is paid, refunded and bought, for any number
\* of requests, failures and lost answers (onPaymentSettled, onSubscriptionChanged,
\* onRefundSettled), where every event has an id of its own and an invoice that
\* failed names no organisation, as Stripe's do.
THEOREM MirrorAgreesInOrder ==
  Ids = "stripe" /\ "invoice" \notin Named => (BillingSpec => []MirrorAgrees)
<1> SUFFICES ASSUME Ids = "stripe", "invoice" \notin Named PROVE BillingSpec => []MirrorAgrees
  OBVIOUS
<1>1. InTurn => MirrorAgrees
  <2> SUFFICES ASSUME InTurn, NEW o \in InOrder, InStep(o)
               PROVE  /\ mirror[o].paid = truth[o].paid /\ mirror[o].refunded = truth[o].refunded
                      /\ o \in Subs => mirror[o].status = truth[o].status
                      /\ o \in Purchases => (Buys(mirror[o]) <=> Buys(truth[o]))
    BY DEF MirrorAgrees
  <2> DEFINE T == {n \in Sent : sent[n].of = o}
  <2>1. o \in Object /\ MirrorOf(o) /\ TruthOf(o)
    BY BillingAssumption DEF Object, InTurn, ToldFacts, OrderFacts
  <2>2. CASE T = {}
    <3>1. mirror[o] = NoRow /\ truth[o] = NoRow
      BY <2>1, <2>2 DEF MirrorOf, TruthOf
    <3> QED
      BY <3>1
  <2>3. CASE T # {}
    <3>1. PICK n \in T : \A m \in T : m <= n
      BY <2>3, LatestExists DEF InTurn
    <3>2. n \in Sent /\ sent[n].of = o /\ \A m \in Sent : m \in Nat
      BY SentIsIndexed DEF InTurn, BillingInv
    <3>3. \A m \in Sent : ~Comes(n, m)
      <4>1. ASSUME NEW m \in Sent, Comes(n, m) PROVE FALSE
        <5>1. m \in T /\ n < m
          BY <3>2, <4>1 DEF Comes
        <5> QED
          BY <3>1, <3>2, <5>1
      <4> QED
        BY <4>1
    <3>4. TruthSays(sent[n]) /\ Proper(sent[n])
      BY <3>2, <3>3 DEF InTurn, ToldFacts, LastOfIts
    <3>5. applied[n] = 1
      BY <3>2, AnsweredIsApplied DEF InStep, InTurn
    <3>6. RowSays(mirror[o], sent[n])
      BY <3>2, <3>3, <3>5 DEF InTurn, OrderFacts, LeftBehind, LastSays
    <3>7. /\ o \in Subs => OfSub(sent[n]) /\ o \notin Purchases
          /\ o \in Purchases => sent[n].kind \in {"invoice", "payment", "refund"}
      BY <3>2, <3>4, BillingAssumption DEF Proper
    <3>8. CASE o \in Subs
      BY <2>1, <3>2, <3>4, <3>6, <3>7, <3>8 DEF RowSays, TruthSays, TruthOf
    <3>9. CASE o \in Purchases /\ sent[n].kind = "invoice"
      <4>1. mirror[o] = NoRow /\ truth[o].status = "open" /\ truth[o].paid = 0 /\ truth[o].refunded = 0
        BY <2>1, <3>2, <3>4, <3>6, <3>9 DEF RowSays, TruthSays, TruthOf
      <4> QED
        BY <3>7, <3>9, <4>1, BillingAssumption DEF Buys, NoRow
    <3>10. CASE o \in Purchases /\ sent[n].kind \in {"payment", "refund"}
      <4>1. /\ truth[o].status = mirror[o].status /\ truth[o].status \notin {"none", "open"}
            /\ truth[o].refunded = mirror[o].refunded /\ mirror[o].paid = Price
        BY <3>2, <3>4, <3>6, <3>10 DEF RowSays, TruthSays, OfRefund
      <4>2. truth[o].paid = Price
        BY <2>1, <3>10, <4>1 DEF TruthOf
      <4> QED
        BY <4>1, <4>2, <3>10 DEF Buys
    <3> QED
      BY <2>1, <3>7, <3>8, <3>9, <3>10 DEF Object
  <2> QED
    BY <2>2, <2>3
<1>2. BillingInit => InTurn
  BY BillingStarts, ToldStarts, OrderStarts DEF InTurn
<1> QED
  BY <1>1, <1>2, InTurnSteps, PTL DEF BillingSpec

-----------------------------------------------------------------------------
\* The types of alert delivery and of billing.

\* Records, pages in hand and suppressions keep to their kinds, and no bound is overrun.
THEOREM AlertTypeCorrect == AlertSpec => []AlertTypeOK
<1>1. AlertInv => AlertTypeOK
  BY DEF AlertInv
<1> QED
  BY AlertStarts, AlertSteps, <1>1, PTL DEF AlertSpec

\* Events, staged writes and the mirror keep to their kinds, for any events told.
THEOREM BillingTypeCorrect == BillingSpec => []BillingTypeOK
<1>1. BillingInv => BillingTypeOK
  <2> SUFFICES ASSUME BillingInv PROVE BillingTypeOK
    OBVIOUS
  <2>1. 0 \notin Sent
    BY SentIsIndexed DEF BillingInv
  <2>2. \A h \in Handlers : handler[h].event \in Sent <=> handler[h].at # "idle"
    BY <2>1 DEF BillingInv, HandlerFacts
  <2> QED
    BY <2>2 DEF BillingInv, BillingTyped, BillingTypeOK, HandlerRow
<1> QED
  BY BillingStarts, BillingSteps, <1>1, PTL DEF BillingSpec

=============================================================================
