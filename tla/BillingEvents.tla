--------------------------- MODULE BillingEvents ---------------------------
(***************************************************************************)
(* The mirror of a payment provider: what the provider knows of one        *)
(* organisation, the webhook events it sends and sends again, and the      *)
(* transaction in which applyBillingEvent records an event, applies it to  *)
(* public.subscriptions or public.invoices, and marks it handled.          *)
(*                                                                         *)
(* One action is one statement, so that two deliveries interleave inside   *)
(* their transactions: an insert of a key another transaction is inserting *)
(* waits for it, an update does not see it.  A transaction's own writes    *)
(* are staged, and become the tables' at its commit.                       *)
(*                                                                         *)
(* Abstracted: signatures, tax, currency, plans and periods, the id of the *)
(* customer, and events nothing handles.  invoice.paid is such an event    *)
(* here: the checkout of a purchase asks for no invoice, and of a renewal  *)
(* public.invoices has no row to update and the event no organisation to   *)
(* insert one for, so onInvoiceSettled writes nothing.                     *)
(* The provider is external: its events are those of these two objects.    *)
(***************************************************************************)
EXTENDS Naturals, Sequences, FiniteSets

CONSTANTS
  Subs,        \* subscriptions the organisation may hold, one after another
  Purchases,   \* one-off purchases: the invoices, found by payment reference
  Price,       \* of a purchase
  Ids,         \* whose event ids: "stripe" sends one, "paystack" does not
  Named,       \* kinds of event that name the organisation they are of
  InOrder,     \* objects of which the provider sends an event when the one before
               \* it has been answered
  Handlers,    \* webhook requests in flight at a time
  MaxEvents,   \* bound: events the provider sends
  MaxBillingFaults  \* bound: deliveries that fail, answers that are lost

ASSUME BillingAssumption ==
  /\ Price \in Nat \ {0} /\ MaxEvents \in Nat /\ MaxBillingFaults \in Nat
  /\ Ids \in {"stripe", "paystack"}
  /\ Named \subseteq {"subscription", "invoice"}
  /\ Subs \cap Purchases = {} /\ InOrder \subseteq Subs \cup Purchases

VARIABLES
  truth,     \* the provider's own state of each object
  sent,      \* the events it has sent, in the order they happened
  acked,     \* those answered 200: it stops sending them
  recorded,  \* public.billing_events, by provider_event_id
  mirror,    \* public.subscriptions and public.invoices
  handler,   \* the webhook requests
  applied,   \* history: how often each event's change was committed
  billingFaults

billingVars == <<truth, sent, acked, recorded, mirror, handler, applied, billingFaults>>

----------------------------------------------------------------------------

Object == Subs \cup Purchases
SubscriptionState == {"active", "past_due", "cancelled"}
LiveStatus == {"active", "past_due"}
Status == {"none", "open", "paid", "refunded"} \cup SubscriptionState
\* found: provider_payment_reference is set, by which a refund finds the invoice.
MirrorRow == [status: Status, paid: 0..Price, refunded: 0..Price, found: BOOLEAN]
NoRow == [status |-> "none", paid |-> 0, refunded |-> 0, found |-> FALSE]

Kind == {"checkout", "subscription", "payment", "invoice", "refund"}
Event == [kind: Kind, of: Object, status: SubscriptionState \cup {"none"}, amount: 0..Price]
Sent == DOMAIN sent

HandlerAt == {"idle", "recording", "applying", "inserting", "committing"}
Unstaged == [at |-> "idle", event |-> 0, writes |-> FALSE, row |-> NoRow]

BillingTypeOK ==
  /\ truth \in [Object -> MirrorRow]
  /\ sent \in Seq(Event)
  /\ acked \subseteq Sent
  /\ mirror \in [Object -> MirrorRow]
  /\ handler \in [Handlers -> [at: HandlerAt, event: Nat, writes: BOOLEAN, row: MirrorRow]]
  /\ \A h \in Handlers : handler[h].event \in Sent <=> handler[h].at # "idle"
  /\ applied \in [1..MaxEvents -> Nat]
  /\ billingFaults \in Nat

BillingInit ==
  /\ truth = [o \in Object |-> NoRow]
  /\ sent = <<>> /\ acked = {} /\ recorded = {}
  /\ mirror = [o \in Object |-> NoRow]
  /\ handler = [h \in Handlers |-> Unstaged]
  /\ applied = [n \in 1..MaxEvents |-> 0]
  /\ billingFaults = 0

Says(kind, o, status, amount) == [kind |-> kind, of |-> o, status |-> status, amount |-> amount]

\* Paystack sends no id: verifyWebhook makes one of the event's name and the
\* first of reference, subscription_code and id that is a string.  A refund has
\* none of the three.
Name(e) ==
  CASE e.kind = "subscription" -> IF e.status = "cancelled" THEN "disable" ELSE "enable"
    [] OTHER -> e.kind
Subject(e) == IF e.kind = "refund" THEN "unknown" ELSE e.of
EventId(n) == IF Ids = "stripe" THEN <<n>> ELSE <<Name(sent[n]), Subject(sent[n])>>

----------------------------------------------------------------------------
(* The provider *)

Tell(events) ==
  /\ Len(sent) + Len(events) <= MaxEvents
  /\ sent' = sent \o events
  /\ UNCHANGED <<acked, recorded, mirror, handler, applied, billingFaults>>

\* Stripe tells of the checkout and of the subscription, Paystack of the latter.
Subscribe(s) ==
  /\ truth[s].status = "none" /\ \A o \in Subs : truth[o].status \notin LiveStatus
  /\ truth' = [truth EXCEPT ![s].status = "active"]
  /\ LET created == Says("subscription", s, "active", 0) IN
       Tell(IF Ids = "stripe" THEN <<Says("checkout", s, "none", 0), created>> ELSE <<created>>)

ChangeSubscription(s, status) ==
  /\ truth[s].status \notin {"none", status}
  /\ IF Ids = "stripe" THEN truth[s].status # "cancelled" ELSE status # "past_due"
  /\ status \in LiveStatus => \A o \in Subs \ {s} : truth[o].status \notin LiveStatus
  /\ truth' = [truth EXCEPT ![s].status = status]
  /\ Tell(<<Says("subscription", s, status, 0)>>)

\* invoice.payment_failed, before the payment that succeeds.
FailPayment(i) ==
  /\ truth[i].status = "none"
  /\ truth' = [truth EXCEPT ![i].status = "open"]
  /\ Tell(<<Says("invoice", i, "none", 0)>>)

Pay(i) ==
  /\ truth[i].status \in {"none", "open"}
  /\ truth' = [truth EXCEPT ![i].status = "paid", ![i].paid = Price]
  /\ Tell(<<Says("payment", i, "none", Price)>>)

\* A charge says how much of it has been refunded so far.
GiveBack(i, amount) ==
  LET so == truth[i].refunded + amount IN
  /\ truth[i].status = "paid" /\ amount > 0 /\ so <= truth[i].paid
  /\ truth' = [truth EXCEPT ![i].refunded = so,
                            ![i].status = IF so = truth[i].paid THEN "refunded" ELSE "paid"]
  /\ Tell(<<Says("refund", i, "none", so)>>)

ProviderStep ==
  \/ \E s \in Subs : Subscribe(s) \/ \E status \in SubscriptionState : ChangeSubscription(s, status)
  \/ \E i \in Purchases : FailPayment(i) \/ Pay(i) \/ \E amount \in 1..Price : GiveBack(i, amount)

----------------------------------------------------------------------------
(* The webhook: writeAsService around applyBillingEvent *)

Is(h, at) == handler[h].at = at
EventOf(h) == sent[handler[h].event]
Others(h) == {g \in Handlers \ {h} : ~Is(g, "idle")}
Inside(g) == handler[g].at \in {"applying", "inserting", "committing"}

\* A key that another transaction has written and not committed.
Locked(h, o) == \E g \in Others(h) : handler[g].writes /\ EventOf(g).of = o

\* Mistake: the index is on the active ones only.
OtherActiveRow(o) == o \in Subs /\ \E s \in Subs \ {o} : mirror[s].status = "active"

\* subscriptions_one_live_per_org, seen from a write of a live status.
OtherLiveRow(o) == o \in Subs /\ \E s \in Subs \ {o} : mirror[s].status \in LiveStatus
OtherLiveStaged(h, o) ==
  o \in Subs /\ \E g \in Others(h) :
    handler[g].writes /\ EventOf(g).of \in Subs \ {o} /\ handler[g].row.status \in LiveStatus

Moves(h, at) == handler' = [handler EXCEPT ![h].at = at]
GivesUp(h) == handler' = [handler EXCEPT ![h] = Unstaged]

\* Whatever is not answered 200 is sent again, also while it is being handled.
Deliver(h, n) ==
  /\ Is(h, "idle") /\ n \in Sent \ acked
  /\ sent[n].of \in InOrder => \A m \in Sent \ acked : sent[m].of = sent[n].of => n <= m
  /\ handler' = [handler EXCEPT ![h].at = "recording", ![h].event = n]
  /\ UNCHANGED <<truth, sent, acked, recorded, mirror, applied, billingFaults>>

\* Mistake: the table has no unique key, and only a committed event is seen.
MayRecordAtOnce(h) == Is(h, "recording")

\* The insert of the event waits for a transaction inserting the same id.
MayRecord(h) ==
  /\ Is(h, "recording")
  /\ \A g \in Others(h) : Inside(g) => EventId(handler[g].event) # EventId(handler[h].event)

RecordNew(h) ==
  /\ MayRecord(h) /\ EventId(handler[h].event) \notin recorded
  /\ Moves(h, "applying")
  /\ UNCHANGED <<truth, sent, acked, recorded, mirror, applied, billingFaults>>

\* Mistake: a duplicate is answered with an error.
RefuseDuplicate(h) ==
  /\ MayRecord(h) /\ EventId(handler[h].event) \in recorded
  /\ GivesUp(h)
  /\ UNCHANGED <<truth, sent, acked, recorded, mirror, applied, billingFaults>>

\* "Already processed": answered 200, so that the provider stops.
RecordDuplicate(h) ==
  /\ MayRecord(h) /\ EventId(handler[h].event) \in recorded
  /\ acked' = acked \cup {handler[h].event}
  /\ GivesUp(h)
  /\ UNCHANGED <<truth, sent, recorded, mirror, applied, billingFaults>>

\* The statement waits for the key and for an index entry in doubt; an index
\* entry or a check that stands against it makes the whole delivery a 500.
Stage(h, row) ==
  LET o == EventOf(h).of
      refused == \/ row.status \in LiveStatus /\ OtherLiveRow(o)
                 \/ row.refunded > row.paid IN
  /\ ~Locked(h, o)
  /\ row.status \in LiveStatus => ~OtherLiveStaged(h, o)
  /\ handler' = [handler EXCEPT ![h] =
       IF refused THEN Unstaged
       ELSE [at |-> "committing", event |-> @.event, writes |-> TRUE, row |-> row]]

Mirrored(o) == mirror[o].status # "none"

\* onPaymentSettled: one statement, insert on conflict update.  The update leaves
\* the payment reference as it is.
ApplyPayment(h) ==
  LET e == EventOf(h) IN
  /\ Is(h, "applying")
  /\ \/ e.kind = "checkout" /\ Stage(h, [NoRow EXCEPT !.status = "active"])
     \/ e.kind = "payment" /\ Stage(h, [mirror[e.of] EXCEPT !.status = "paid", !.paid = e.amount,
                                       !.found = @ \/ mirror[e.of].status = "none"])
  /\ UNCHANGED <<truth, sent, acked, recorded, mirror, applied, billingFaults>>

\* Mistake: whatever is not cancelled is written down as active.
SettledActive(e) ==
  IF e.kind = "subscription"
  THEN [mirror[e.of] EXCEPT !.status = IF e.status = "cancelled" THEN @ ELSE "active"]
  ELSE [mirror[e.of] EXCEPT !.status = "open", !.paid = e.amount]

\* What onSubscriptionChanged and onInvoiceSettled write.
Settled(e) ==
  IF e.kind = "subscription" THEN [mirror[e.of] EXCEPT !.status = e.status]
  ELSE [mirror[e.of] EXCEPT !.status = "open", !.paid = e.amount]

\* Their update, which sees committed rows only ...
ApplyUpdate(h) ==
  LET e == EventOf(h) IN
  /\ Is(h, "applying") /\ e.kind \in {"subscription", "invoice"}
  /\ IF Mirrored(e.of) THEN Stage(h, Settled(e))
     ELSE Moves(h, IF e.kind \in Named THEN "inserting" ELSE "committing")
  /\ UNCHANGED <<truth, sent, acked, recorded, mirror, applied, billingFaults>>

\* ... and, having found none, their insert for the organisation the event names,
\* on conflict do nothing.
ApplyInsert(h) ==
  LET e == EventOf(h) IN
  /\ Is(h, "inserting") /\ ~Locked(h, e.of)
  /\ IF Mirrored(e.of) THEN Moves(h, "committing") ELSE Stage(h, Settled(e))
  /\ UNCHANGED <<truth, sent, acked, recorded, mirror, applied, billingFaults>>

Least(a, b) == IF a < b THEN a ELSE b

\* onRefundSettled: without an invoice the refund is an event and no more.
ApplyRefund(h) ==
  LET e == EventOf(h)
      back == Least(e.amount, mirror[e.of].paid) IN
  /\ Is(h, "applying") /\ e.kind = "refund"
  /\ IF mirror[e.of].found
     THEN Stage(h, [mirror[e.of] EXCEPT !.refunded = back,
                      !.status = IF back >= mirror[e.of].paid THEN "refunded" ELSE @])
     ELSE Moves(h, "committing")
  /\ UNCHANGED <<truth, sent, acked, recorded, mirror, applied, billingFaults>>

BillingFault == billingFaults < MaxBillingFaults /\ billingFaults' = billingFaults + 1

\* The event, its change and the mark become visible together, and then the
\* answer arrives or is lost.
CommitEvent(h) ==
  /\ Is(h, "committing")
  /\ recorded' = recorded \cup {EventId(handler[h].event)}
  /\ mirror' = IF handler[h].writes THEN [mirror EXCEPT ![EventOf(h).of] = handler[h].row]
               ELSE mirror
  /\ applied' = [applied EXCEPT ![handler[h].event] = @ + 1]
  /\ \/ acked' = acked \cup {handler[h].event} /\ UNCHANGED billingFaults
     \/ BillingFault /\ UNCHANGED acked
  /\ GivesUp(h)
  /\ UNCHANGED <<truth, sent>>

\* The process dies or the database refuses: rolled back, a 500 or no answer.
DeliveryFails(h) ==
  /\ ~Is(h, "idle") /\ BillingFault
  /\ GivesUp(h)
  /\ UNCHANGED <<truth, sent, acked, recorded, mirror, applied>>

----------------------------------------------------------------------------

HandlerStep(h) ==
  \/ RecordNew(h) \/ RecordDuplicate(h) \/ ApplyPayment(h) \/ ApplyUpdate(h)
  \/ ApplyInsert(h) \/ ApplyRefund(h) \/ CommitEvent(h)

BillingNext ==
  \/ ProviderStep
  \/ \E h \in Handlers : HandlerStep(h) \/ DeliveryFails(h)
  \/ \E h \in Handlers, n \in 1..MaxEvents : Deliver(h, n)

BillingSpec == BillingInit /\ [][BillingNext]_billingVars

----------------------------------------------------------------------------
(* Properties *)

\* An event the provider was told to stop sending has changed the tables exactly
\* once, and one it may send again at most once: however many deliveries of it
\* overlap, fail half way, or lose their answer after the commit.
AppliedExactlyOnce ==
  \A n \in Sent : applied[n] <= 1 /\ (n \in acked => applied[n] = 1)

Buys(row) == row.status = "paid" /\ row.paid > row.refunded

InStep(o) == \A n \in Sent : sent[n].of = o => n \in acked

\* Told in order, the tables say of each object what the provider says, as soon
\* as it has heard the answers: the subscription's status, and what is paid,
\* refunded and therefore bought.
MirrorAgrees ==
  \A o \in InOrder : InStep(o) =>
    /\ mirror[o].paid = truth[o].paid /\ mirror[o].refunded = truth[o].refunded
    /\ o \in Subs => mirror[o].status = truth[o].status
    /\ o \in Purchases => (Buys(mirror[o]) <=> Buys(truth[o]))

\* Never two live subscriptions of one organisation, whatever order the events
\* come in and however two transactions interleave.
OneLiveSubscription ==
  \A s, t \in Subs : mirror[s].status \in LiveStatus /\ mirror[t].status \in LiveStatus => s = t

\* What the provider sends in order is answered 200 in the end, or is refused for
\* as long as another subscription is live: the checkout of one that is over by now
\* can come after the row of the next, and the index refuses it every time.
EveryEventIsAcknowledged ==
  \A n \in 1..MaxEvents :
    []<>(n \in Sent /\ sent[n].of \in InOrder => n \in acked \/ OtherLiveRow(sent[n].of))
============================================================================
