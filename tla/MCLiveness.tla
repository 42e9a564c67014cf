----------------------------- MODULE MCLiveness -----------------------------
(***************************************************************************)
(* What the services around the badge must do in the end, under the        *)
(* fairness of their intervals and retries.  As in MCServices a behaviour  *)
(* is one instance of one of them; these are small.                        *)
(*                                                                         *)
(*   evidence       one run with one artefact, two processes that sweep    *)
(*   alerts         one alert, one process that sends by email and by push *)
(*   subscriptions  two subscriptions, two webhooks                        *)
(*   purchase       one purchase, two webhooks                             *)
(*   report         two assessments, one of which cannot be rendered       *)
(***************************************************************************)
EXTENDS EvidenceStore, AlertDelivery, BillingEvents, ReportRelease

CONSTANT Subjects
VARIABLE subject

livenessVars == <<subject, evidenceVars, alertVars, billingVars, reportVars>>

TwoChannels == {<<"w1", "email">>, <<"w1", "push">>}

LiveInit ==
  /\ subject \in Subjects
  /\ EvidenceInit /\ AlertInit /\ BillingInit /\ ReportInit
  /\ subject # "report" => paidFor = {}

NoPurchase == \A i \in Purchases : truth'[i] = NoRow
NoSubscription == \A s \in Subs : truth'[s] = NoRow

LiveNext ==
  \/ /\ subject = "evidence" /\ EvidenceNext
     /\ UNCHANGED <<subject, alertVars, billingVars, reportVars>>
  \/ /\ subject = "alerts" /\ AlertNext
     /\ UNCHANGED <<subject, evidenceVars, billingVars, reportVars>>
  \/ /\ \/ subject = "subscriptions" /\ BillingNext /\ NoPurchase
        \/ subject = "purchase" /\ BillingNext /\ NoSubscription
     /\ UNCHANGED <<subject, evidenceVars, alertVars, reportVars>>
  \/ /\ subject = "report" /\ ReportNext
     /\ UNCHANGED <<subject, evidenceVars, alertVars, billingVars>>

(***************************************************************************)
(* The intervals run each sweep again; what a process has begun it goes on *)
(* with; the provider sends again what was not answered, so that the first *)
(* event of an object is delivered again and again; and the store, asked   *)
(* again and again, accepts a removal in the end.  A fault, a new event, a *)
(* click and a refusal are never owed.                                     *)
(***************************************************************************)

ArtefactAgain == \E s \in Sweepers, a \in Artefact : RetryAccepted(s, a)
ObjectAgain(o) == \E h \in Handlers, n \in Sent : sent[n].of = o /\ Deliver(h, n)

\* One strong fairness for whichever subject it is.
Again(object) ==
  \/ /\ subject = "evidence" /\ ArtefactAgain
     /\ UNCHANGED <<subject, alertVars, billingVars, reportVars>>
  \/ /\ subject \in {"subscriptions", "purchase"} /\ ObjectAgain(object)
     /\ UNCHANGED <<subject, evidenceVars, alertVars, reportVars>>

LiveFairness ==
  /\ \A s \in Sweepers : WF_evidenceVars(subject = "evidence" /\ SweepStep(s))
  /\ \A s \in Postman : WF_alertVars(subject = "alerts" /\ PostStep(s))
  /\ \A w \in AlertWorkers : WF_alertVars(subject = "alerts" /\ NoticeStep(w))
  /\ \A a \in Alerts : WF_alertVars(subject = "alerts" /\ Grow(a))
  /\ \A h \in Handlers :
       WF_billingVars(subject \in {"subscriptions", "purchase"} /\ HandlerStep(h))
  /\ \A o \in InOrder : SF_livenessVars(Again(o))
  /\ \A w \in Renderers : WF_reportVars(subject = "report" /\ RenderStep(w))

LiveSpec == LiveInit /\ [][LiveNext]_livenessVars /\ LiveFairness
============================================================================
