--------------------------- MODULE AlertDelivery ---------------------------
(***************************************************************************)
(* How an alert reaches somebody outside the console: sweepAlertEmail and  *)
(* sweepAlertPush send what has no delivery row and write one down,        *)
(* applyEmailEvent suppresses an address whose mail came back later, and   *)
(* sweepUndeliveredNotices records the notices that reached nobody.        *)
(*                                                                         *)
(* None of the sweeps opens a transaction: one action is one statement or  *)
(* one call of a provider.  In one process the sweeps of one kind never    *)
(* overlap, those of different kinds do.                                   *)
(*                                                                         *)
(* Abstracted: the text of a message, the limit of 200 rows to a sweep,    *)
(* the alerts below the severity floor or a member's own level (those this *)
(* module speaks of are critical), members who come and go, and the        *)
(* signature and clock checks of the webhook.                              *)
(***************************************************************************)
EXTENDS Naturals, FiniteSets

CONSTANTS
  Alerts,         \* alerts of one organisation
  Recipients,     \* its members: each an address and a device
  AlertWorkers,   \* processes that sweep for notices not given
  Postman,        \* their sweeps that send: <<process, channel>>
  MaxAlertFaults  \* bound: how often a sweep dies or a statement fails

Channel == {"email", "push"}

ASSUME AlertAssumption ==
  /\ Postman \subseteq AlertWorkers \X Channel
  /\ MaxAlertFaults \in Nat

VARIABLES
  age,          \* of each alert
  record,       \* public.alert_deliveries, by channel and recipient
  suppressed,   \* public.email_suppressions
  disabled,     \* device_tokens with disabled_at
  delivered,    \* alerts with delivered_at
  notGiven,     \* audit rows alert.notice_not_given
  post,         \* where each process's email and push sweeps are
  notices,      \* what each process's notice sweep has read and not yet recorded
  accepted,     \* history: the messages a provider took, by channel
  interrupted,  \* history: alerts a sweep died with, taken and not yet marked
  straddled,    \* history: alerts in some sweep's hands when a notice sweep read them
  unheard,      \* history: alerts a provider took without the sweep hearing so
  alertFaults

alertVars == <<age, record, suppressed, disabled, delivered, notGiven, post, notices,
               accepted, interrupted, straddled, unheard, alertFaults>>

----------------------------------------------------------------------------

Delivery == Alerts \X Recipients

\* Unraised, under six days old, in its seventh day, older than seven days.
Age == 0..3
LastDay == 2
PastWindow == 3

PostAt == {"idle", "sending", "ticketing", "recording", "suppressing", "marking"}
Outcome == {"none", "sent", "bounced", "refused"}
AtRest == [at |-> "idle", page |-> {}, late |-> {}, good |-> {}, dead |-> {},
           item |-> <<>>, outcome |-> "none"]

AlertTypeOK ==
  /\ age \in [Alerts -> Age]
  /\ record \in [Channel \X Delivery -> {"none", "sent", "failed"}]
  /\ suppressed \subseteq Recipients /\ disabled \subseteq Recipients
  /\ delivered \subseteq Alerts /\ notGiven \subseteq Alerts
  /\ post \in [Postman ->
       [at: PostAt, page: SUBSET Delivery, late: SUBSET Alerts, good: SUBSET Delivery,
        dead: SUBSET Delivery, item: Delivery \cup {<<>>}, outcome: Outcome]]
  /\ \A s \in Postman :
       post[s].item \in Delivery <=> post[s].at \in {"recording", "suppressing", "marking"}
  /\ notices \in [AlertWorkers -> SUBSET Alerts]
  /\ accepted \subseteq Channel \X Delivery
  /\ interrupted \subseteq Alerts /\ straddled \subseteq Alerts /\ unheard \subseteq Alerts
  /\ alertFaults \in Nat

AlertInit ==
  /\ age = [a \in Alerts |-> 0]
  /\ record = [d \in Channel \X Delivery |-> "none"]
  /\ suppressed = {} /\ disabled = {} /\ delivered = {} /\ notGiven = {}
  /\ post = [s \in Postman |-> AtRest]
  /\ notices = [w \in AlertWorkers |-> {}]
  /\ accepted = {}
  /\ interrupted = {} /\ straddled = {} /\ unheard = {}
  /\ alertFaults = 0

PostIs(s, at) == post[s].at = at
Faulty == alertFaults < MaxAlertFaults /\ alertFaults' = alertFaults + 1

----------------------------------------------------------------------------
(* An alert is raised, and grows old *)

Grow(a) ==
  /\ age[a] < PastWindow
  /\ age' = [age EXCEPT ![a] = @ + 1]
  /\ UNCHANGED <<record, suppressed, disabled, delivered, notGiven, post, notices,
                 accepted, interrupted, straddled, unheard, alertFaults>>

----------------------------------------------------------------------------
(* sweepAlertEmail and sweepAlertPush *)

Reachable(channel, m) ==
  IF channel = "email" THEN m \notin suppressed ELSE m \notin disabled

\* findPendingEmails, findPendingPushes: the seven-day window.
PendingOn(channel) ==
  {d \in Delivery : /\ age[d[1]] \in 1..LastDay
                    /\ Reachable(channel, d[2])
                    /\ record[<<channel, d>>] = "none"}

\* The list is read once.  Whether to give up on an alert is judged by the time
\* the sweep began, not by the time it comes to it.
ReadPending(s) ==
  /\ PostIs(s, "idle") /\ PendingOn(s[2]) # {}
  /\ post' = [post EXCEPT ![s].at = "sending", ![s].page = PendingOn(s[2]),
                          ![s].late = {a \in Alerts : age[a] = LastDay}]
  /\ UNCHANGED <<age, record, suppressed, disabled, delivered, notGiven, notices,
                 accepted, interrupted, straddled, unheard, alertFaults>>

Taken(channel, taken) == accepted' = accepted \cup ({channel} \X taken)

TakeUp(s, d, outcome) ==
  post' = [post EXCEPT ![s].at = "recording", ![s].page = @ \ {d}, ![s].item = d,
                       ![s].outcome = outcome]

\* What the provider did with messages whose answer the sweep never got: it may
\* have taken any of them.
Unanswered(channel, asked) ==
  \E T \in SUBSET asked : Taken(channel, T) /\ unheard' = unheard \cup {d[1] : d \in T}

\* provider.send for the next row: accepted, a hard bounce, a refusal, or an outage
\* (a network failure, a 429 or a 5xx), which is worth another try until the last
\* day, when it is written down as a failure.
SendEmail(s, d) ==
  /\ s[2] = "email" /\ PostIs(s, "sending") /\ d \in post[s].page
  /\ \/ TakeUp(s, d, "sent") /\ Taken("email", {d}) /\ UNCHANGED unheard
     \/ /\ \E outcome \in {"bounced", "refused"} : TakeUp(s, d, outcome)
        /\ UNCHANGED <<accepted, unheard>>
     \/ /\ IF d[1] \in post[s].late THEN TakeUp(s, d, "refused")
           ELSE post' = [post EXCEPT ![s].page = @ \ {d}]
        /\ Unanswered("email", {d})
  /\ UNCHANGED <<age, record, suppressed, disabled, delivered, notGiven, notices,
                 interrupted, straddled, alertFaults>>

\* One request for the batch.  It throws or answers short, and nothing is known
\* of any message in it; or there is a ticket for each.
SendPush(s) ==
  /\ s[2] = "push" /\ PostIs(s, "sending")
  /\ \/ /\ post' = [post EXCEPT ![s].at = "ticketing",
                                ![s].page = {d \in @ : d[1] \in post[s].late}]
        /\ Unanswered("push", post[s].page)
     \/ \E good \in SUBSET post[s].page : \E dead \in SUBSET (post[s].page \ good) :
          /\ post' = [post EXCEPT ![s].at = "ticketing", ![s].good = good, ![s].dead = dead]
          /\ Taken("push", good) /\ UNCHANGED unheard
  /\ UNCHANGED <<age, record, suppressed, disabled, delivered, notGiven, notices,
                 interrupted, straddled, alertFaults>>

\* interpretTicket
ReadTicket(s, d) ==
  /\ PostIs(s, "ticketing") /\ d \in post[s].page
  /\ TakeUp(s, d, IF d \in post[s].good THEN "sent"
                  ELSE IF d \in post[s].dead THEN "bounced" ELSE "refused")
  /\ UNCHANGED <<age, record, suppressed, disabled, delivered, notGiven, notices,
                 accepted, interrupted, straddled, unheard, alertFaults>>

LoopOf(s) == IF s[2] = "email" THEN "sending" ELSE "ticketing"
ToNext(s) == post' = [post EXCEPT ![s].at = LoopOf(s), ![s].item = <<>>, ![s].outcome = "none"]

Afterwards(s) == IF post[s].outcome = "sent" THEN "marking" ELSE "suppressing"

\* Mistake: the row is given the provider's word for the outcome.
RecordDeliveryVerbatim(s) ==
  /\ PostIs(s, "recording")
  /\ record' = [record EXCEPT ![<<s[2], post[s].item>>] = post[s].outcome]
  /\ IF post[s].outcome = "refused" THEN ToNext(s)
     ELSE post' = [post EXCEPT ![s].at = Afterwards(s)]
  /\ UNCHANGED <<age, suppressed, disabled, delivered, notGiven, notices,
                 accepted, interrupted, straddled, unheard, alertFaults>>

\* The delivery row: on conflict, the row already there stands.
RecordDelivery(s) ==
  /\ PostIs(s, "recording")
  /\ LET d == <<s[2], post[s].item>> IN
       IF record[d] # "none" THEN UNCHANGED record
       ELSE record' = [record EXCEPT ![d] = IF post[s].outcome = "sent" THEN "sent" ELSE "failed"]
  /\ IF post[s].outcome = "refused" THEN ToNext(s)
     ELSE post' = [post EXCEPT ![s].at = Afterwards(s)]
  /\ UNCHANGED <<age, suppressed, disabled, delivered, notGiven, notices,
                 accepted, interrupted, straddled, unheard, alertFaults>>

\* A hard bounce suppresses the address, a dead token is disabled.
Suppress(s) ==
  /\ PostIs(s, "suppressing")
  /\ IF s[2] = "email"
     THEN suppressed' = suppressed \cup {post[s].item[2]} /\ UNCHANGED disabled
     ELSE disabled' = disabled \cup {post[s].item[2]} /\ UNCHANGED suppressed
  /\ ToNext(s)
  /\ UNCHANGED <<age, record, delivered, notGiven, notices,
                 accepted, interrupted, straddled, unheard, alertFaults>>

\* alerts.delivered_at
Mark(s) ==
  /\ PostIs(s, "marking")
  /\ delivered' = delivered \cup {post[s].item[1]}
  /\ ToNext(s)
  /\ UNCHANGED <<age, record, suppressed, disabled, notGiven, notices,
                 accepted, interrupted, straddled, unheard, alertFaults>>

FinishPost(s) ==
  /\ PostIs(s, LoopOf(s)) /\ post[s].page = {}
  /\ post' = [post EXCEPT ![s] = AtRest]
  /\ UNCHANGED <<age, record, suppressed, disabled, delivered, notGiven, notices,
                 accepted, interrupted, straddled, unheard, alertFaults>>

TakenInHand(s) ==
  (IF post[s].outcome = "sent" THEN {post[s].item[1]} ELSE {})
    \cup {d[1] : d \in post[s].page \cap post[s].good}

\* The process dies, or a statement or the body of an answer throws out of the sweep.
PostDies(s) ==
  /\ ~PostIs(s, "idle") /\ Faulty
  /\ interrupted' = interrupted \cup TakenInHand(s)
  /\ post' = [post EXCEPT ![s] = AtRest]
  /\ UNCHANGED <<age, record, suppressed, disabled, delivered, notGiven, notices,
                 accepted, straddled, unheard>>

\* applyEmailEvent: a permanent bounce or a complaint, hours after the provider
\* took the message.  A second delivery of the event changes nothing.
EmailEvent(m) ==
  /\ \E a \in Alerts : <<"email", <<a, m>>>> \in accepted
  /\ suppressed' = suppressed \cup {m}
  /\ UNCHANGED <<age, record, disabled, delivered, notGiven, post, notices,
                 accepted, interrupted, straddled, unheard, alertFaults>>

----------------------------------------------------------------------------
(* sweepUndeliveredNotices *)

InPage(a) ==
  \E s \in Postman : \E d \in post[s].page \cup ({post[s].item} \cap Delivery) : d[1] = a

\* Mistake: a notice is given up on while a sweep may still send it.
UndeliveredTooSoon == {a \in Alerts : age[a] >= LastDay /\ a \notin delivered /\ a \notin notGiven}

\* Mistake: only what somebody tried to send is looked at.
UndeliveredAttempted ==
  {a \in Alerts : /\ age[a] = PastWindow /\ a \notin delivered /\ a \notin notGiven
                  /\ \E c \in Channel, m \in Recipients : record[<<c, <<a, m>>>>] # "none"}

\* findUndeliveredNotices
Undelivered == {a \in Alerts : age[a] = PastWindow /\ a \notin delivered /\ a \notin notGiven}

ReadNotices(w) ==
  /\ notices[w] = {} /\ Undelivered # {}
  /\ notices' = [notices EXCEPT ![w] = Undelivered]
  /\ straddled' = straddled \cup {a \in Undelivered : InPage(a)}
  /\ UNCHANGED <<age, record, suppressed, disabled, delivered, notGiven, post,
                 accepted, interrupted, unheard, alertFaults>>

\* The audit row; a failure to write it is logged and the next sweep tries again.
RecordNotice(w, a) ==
  /\ a \in notices[w]
  /\ notices' = [notices EXCEPT ![w] = @ \ {a}]
  /\ \/ notGiven' = notGiven \cup {a} /\ UNCHANGED alertFaults
     \/ Faulty /\ UNCHANGED notGiven
  /\ UNCHANGED <<age, record, suppressed, disabled, delivered, post,
                 accepted, interrupted, straddled, unheard>>

----------------------------------------------------------------------------

PostStep(s) ==
  \/ ReadPending(s) \/ SendPush(s) \/ RecordDelivery(s) \/ Suppress(s) \/ Mark(s)
  \/ FinishPost(s) \/ \E d \in Delivery : SendEmail(s, d) \/ ReadTicket(s, d)

NoticeStep(w) == ReadNotices(w) \/ \E a \in Alerts : RecordNotice(w, a)

AlertNext ==
  \/ \E s \in Postman : PostStep(s) \/ PostDies(s)
  \/ \E w \in AlertWorkers : NoticeStep(w)
  \/ \E a \in Alerts : Grow(a)
  \/ \E m \in Recipients : EmailEvent(m)

AlertSpec == AlertInit /\ [][AlertNext]_alertVars

----------------------------------------------------------------------------
(* Properties *)

\* A notice is recorded as not given while a provider had taken it only where a
\* sweep still held it when the seven days ended, died before delivered_at, or never
\* got the provider's answer.
NotGivenIsTrue ==
  \A a \in notGiven :
    (\E c \in Channel, m \in Recipients : <<c, <<a, m>>>> \in accepted)
      => a \in interrupted \cup straddled \cup unheard

\* delivered_at and a delivery row marked sent each stand for a message some
\* provider took, and an alert marked delivered has the row that says by whom.
DeliveredWasTaken ==
  /\ \A d \in Channel \X Delivery : record[d] = "sent" => d \in accepted
  /\ \A a \in delivered : \E c \in Channel, m \in Recipients :
       <<c, <<a, m>>>> \in accepted /\ record[<<c, <<a, m>>>>] # "none"

\* Every critical alert is delivered outside the console or recorded as not given.
EveryNoticeIsAnswered ==
  \A a \in Alerts : (age[a] > 0) ~> (a \in delivered \/ a \in notGiven)

============================================================================
