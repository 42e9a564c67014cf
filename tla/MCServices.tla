----------------------------- MODULE MCServices -----------------------------
(***************************************************************************)
(* The services around the badge, side by side in one run: each behaviour  *)
(* is one instance of one of them, the subject, and the others stay as     *)
(* they began.  They share no table, so nothing is lost by it.             *)
(*                                                                         *)
(*   evidence       one run with two artefacts, two processes that sweep   *)
(*   channels       one alert, one process that sends by email and by push *)
(*   processes      one alert, two processes that send by email            *)
(*   subscriptions  two subscriptions, told of in order; two webhooks      *)
(*   purchases      one purchase, told of in any order; two webhooks       *)
(*   purchase       the same, told of in order                             *)
(*   workspace      three accounts, two invitations, two requests at once  *)
(*   run            three applications, a ceiling of one call that costs   *)
(*   intake         one submission, two processes that screen it           *)
(*   authority      one application's authorisations, two requests, a run  *)
(*   entitlement    its plan and its runs, two requests, a clock           *)
(*   report         one assessment, two processes that render its report   *)
(*   repository     one clone, walked and checked; a tree of three entries *)
(*   game           one game measured, four polls                          *)
(*   exit           one site of five pages, walked to its way out          *)
(*   spending       two processes, a ceiling of two runs a day             *)
(*   session        one model stage under one of three authorisations      *)
(*   drift          three assessments of one application, compared         *)
(*   cadence        its re-assessments, queued by two processes            *)
(*   desk           one data request, one appeal, one sweep over four days *)
(*   public         one badge, two keys, one reader of one of seven routes *)
(*   verdict        one run of at most three findings, scored and answered *)
(***************************************************************************)
EXTENDS EvidenceStore, AlertDelivery, BillingEvents, Workspace, AssessmentRun,
        Admission, ReportRelease, RepositoryScan, GameSurvey, ExitSurvey,
        SpendCeiling, ScopedSession, Reassessment, PrivacyDesk, PublicBadge,
        PublishedVerdict, TLC

CONSTANT Subjects
VARIABLE subject

aroundVars == <<evidenceVars, alertVars, billingVars, workspaceVars>>
surveyVars == <<scanVars, gameVars, exitVars>>
verdictSideVars == <<publicVars, verdictVars>>
deskSideVars == <<spendVars, reassessmentVars, deskVars>>
serviceVars == <<subject, aroundVars, runVars, admissionVars, reportVars, surveyVars,
                 sessionVars, deskSideVars, verdictSideVars>>

TwoChannels == {<<"w1", "email">>, <<"w1", "push">>, <<"w2", "email">>}

Applications ==
  {[url |-> TRUE, repository |-> "none", isGame |-> FALSE, limited |-> TRUE,
    intendedForAppStore |-> FALSE, noTestAccount |-> FALSE, hasPayments |-> TRUE],
   [url |-> FALSE, repository |-> "fetched", isGame |-> FALSE, limited |-> FALSE,
    intendedForAppStore |-> TRUE, noTestAccount |-> TRUE, hasPayments |-> FALSE],
   [url |-> TRUE, repository |-> "unreadable", isGame |-> TRUE, limited |-> TRUE,
    intendedForAppStore |-> FALSE, noTestAccount |-> TRUE, hasPayments |-> FALSE]}

PageShowing(contact, ok) ==
  [ok |-> ok, https |-> TRUE, has |-> {"title"}, headers |-> {},
   shows |-> [c \in CheckId |-> IF c = "telephone" THEN contact ELSE "nothing"]]
SurveyedPages ==
  {[holds |-> {"processor"}, page |-> PageShowing("plainly", TRUE)],
   [holds |-> {"card field", "long script"}, page |-> PageShowing("half", TRUE)],
   [holds |-> {"miner"}, page |-> PageShowing("nothing", TRUE)],
   [holds |-> {"long script"}, page |-> PageShowing("illegible", TRUE)]}

File(kind, name, opens) ==
  [kind |-> kind, name |-> name, secret |-> TRUE, opens |-> opens, declares |-> Undeclared]
Manifest(opens, parses, pinned, version, named, depth) ==
  [kind |-> "text", name |-> "manifest", secret |-> FALSE, opens |-> opens,
   declares |-> [pinned |-> pinned, version |-> version, named |-> named, parses |-> parses,
                 depth |-> depth]]

RepositoryEntries ==
  {File(k, "ordinary", TRUE) : k \in {"text", "typed", "gone", "closed directory"}}
  \cup {File("text", "example", TRUE), File("text", "env", FALSE)}
  \cup {Manifest(TRUE, TRUE, TRUE, <<0, 1>>, <<0, 1>>, 1), Manifest(TRUE, TRUE, FALSE, <<1, 0>>, <<1, 0>>, 2),
        Manifest(TRUE, FALSE, TRUE, <<0, 2>>, <<0, 2>>, 2), Manifest(TRUE, TRUE, FALSE, <<0, 1>>, Illegible, 1),
        Manifest(TRUE, TRUE, FALSE, <<0, 1>>, <<1, 0>>, 2)}
RootLockfiles == {<<>>, <<<<1, 0>>, <<0, 1>>>>, <<<<0, 2>>>>, <<Illegible, <<0, 1>>>>}
AffectedBefore == <<1, 0>>

GameOf(loop, touch, pauses, keeps, start, reloads) ==
  [loop |-> loop, touch |-> touch, pauses |-> pauses, keeps |-> keeps, start |-> start,
   throws |-> ~touch, reloads |-> reloads]
MeasuredGames ==
  {GameOf("frames", TRUE, TRUE, "device", "quick", FALSE),
   GameOf("frames", FALSE, FALSE, "tab", "slow", FALSE),
   GameOf("frames", FALSE, FALSE, "tab", "heavy", TRUE),
   GameOf("timer", FALSE, FALSE, "nothing", "quick", FALSE),
   GameOf("nothing", FALSE, TRUE, "nothing", "quick", FALSE)}

To(url, name) == [to |-> url, name |-> name]
SiteOf(ofA, ofB, ofC, byC, byD, joins, refused) ==
  [links |-> ("f" :> <<To("a", "other"), To("b", "euphemism")>> @@ "a" :> ofA
              @@ "b" :> ofB @@ "c" :> ofC @@ "d" :> <<>>),
   offers |-> ("f" :> "nothing" @@ "a" :> "nothing" @@ "b" :> "nothing"
               @@ "c" :> byC @@ "d" :> byD),
   joins |-> joins, refused |-> refused]
WalkedSites ==
  {SiteOf(ofA, ofB, ofC, byC, byD, joins, refused) :
     ofA \in {<<To("c", "plain")>>, <<To("c", "other"), To("d", "other")>>},
     ofB \in {<<To("d", "plain")>>, <<To("c", "euphemism"), To("a", "other")>>},
     ofC \in {<<To("d", "plain")>>, <<To("f", "other")>>},
     byC \in {"nothing", "a person", "oneself"}, byD \in {"nothing", "oneself"},
     joins \in {{"a", "c"}, {"f"}}, refused \in {{}, {"a"}}}

AuthorisedCeilings ==
  {"total" :> 3 @@ "rate" :> 1 @@ "seconds" :> 2, "rate" :> 2 @@ "seconds" :> 1,
   "total" :> 2 @@ "seconds" :> 0}
CeilingByDefault == [c \in CeilingKey |-> 2]

Look(score, dimension, rubric, notTested, findings) ==
  [score |-> score, dimension |-> dimension, rubric |-> rubric, notTested |-> notTested,
   findings |-> findings]
Found(key, severity, published) == [key |-> key, severity |-> severity, published |-> published]
FirstLook == Look(80, 80, 1, 0, {})
RecordedLooks ==
  {FirstLook, Look(69, 60, 1, 0, {Found("security", 2, TRUE)}),
   Look(80, 80, 1, 0, {Found("security", 1, TRUE), Found("security", 3, TRUE)}),
   Look(80, 80, 1, 1, {Found("experience", 4, TRUE), Found("privacy", 4, FALSE)}),
   Look(80, 80, 2, 0, {Found("security", 4, TRUE)})}

PastedKeys ==
  {Garbled, <<>>, <<KeyEntry("k1", "public")>>,
   <<KeyEntry("k2", "private"), KeyEntry("k1", "public")>>,
   <<KeyEntry("k1", "unreadable")>>, <<KeyEntry("k1", "malformed"), KeyEntry("k2", "public")>>}

Filing(rule, named, dimension, severity, confidence) ==
  [rule |-> rule, named |-> named, dimension |-> dimension, severity |-> severity,
   confidence |-> confidence]
FiledFindings ==
  {Filing(<<"SEC", 4>>, "otherwise", "security", "critical", "high"),
   Filing(<<"SEC", 12>>, "otherwise", "security", "high", "medium"),
   Filing(<<"PRI", 2>>, "as published", "privacy", "critical", "low"),
   Filing(<<"UX", 3>>, "as published", "practicality", "info", "high"),
   Filing(<<"FI", 1>>, "as published", "functional", "high", "high")}
RunAs(rubric, depth, declared) == [rubric |-> rubric, depth |-> depth, declared |-> declared]
AssignedRuns ==
  {RunAs("1.0.0", "full", {"payments"}), RunAs("1.1.0", "full", {"authentication"}),
   RunAs("1.1.0", "limited", {"authentication", "payments"})}
MissedCriteria == {<<"SEC", 12>>}

\* The operators of PublicLook and PageSurvey over small inputs; Survey_proofs has them
\* for all.
ShownPages ==
  {PageShowing(contact, ok) : contact \in {"plainly", "half", "nothing", "illegible"}, ok \in BOOLEAN}
Replies ==
  {reply \in [is: {"page", "redirect", "fails"}, page: ShownPages, fault: {"theirs", "ours"},
              to: {"public", "private", "garbled"}] :
     /\ reply.is = "redirect" => reply.page = PageShowing("plainly", TRUE)
     /\ reply.is # "fails" => reply.fault = "ours"
     /\ reply.is # "redirect" => reply.to = "public"
     /\ reply.is = "fails" => reply.page = PageShowing("half", FALSE)}
ASSUME LooksChecked == \A chain \in [0..MAX_REDIRECTS -> Replies] : LooksAreFair(chain)
ASSUME NearMissesChecked == \A counts \in [{0, 3, 8, 21, 32} -> 1..3] : NoneAccuseEachOther(counts)
ASSUME TicksChecked ==
  \A survey \in SurveyedPages, hasPayments \in BOOLEAN : TicksAreEarned(survey, hasPayments)

Init ==
  /\ subject \in Subjects
  /\ subject # "run" => target = CHOOSE t \in Targets : TRUE
  /\ subject # "intake" => words = "plain"
  /\ subject # "report" => paidFor = {}
  /\ subject # "repository" => lockfile = <<>>
  /\ subject # "game" => game = CHOOSE g \in Games : TRUE
  /\ subject # "exit" => site = CHOOSE s \in Sites : TRUE
  /\ subject # "session" => stated = CHOOSE c \in Ceilings : TRUE
  /\ subject # "public" => route = CHOOSE r \in Routes : TRUE
  /\ subject # "verdict" => assignment = CHOOSE a \in Assignments : TRUE
  /\ EvidenceInit /\ AlertInit /\ BillingInit /\ WorkspaceInit /\ RunInit
  /\ AdmissionInit /\ ReportInit /\ ScanInit
  /\ GameInit /\ ExitInit /\ SpendInit
  /\ SessionInit /\ ReassessmentInit /\ DeskInit /\ PublicInit /\ VerdictInit

\* What each subject leaves out of its module's constants.
SecondProcessRests == post'[<<"w2", "email">>] = AtRest /\ notices'["w2"] = {}
NoPush == post'[<<"w1", "push">>] = AtRest
SubscriptionsOnly == \A i \in Purchases : truth'[i] = NoRow
PurchaseOnly(i) == (\A o \in Object \ {i} : truth'[o] = NoRow) /\ Len(sent') <= 4

\* A game's probes and its survey of trust answer together or not at all.
RunOnly ==
  target.isGame => \A these \in {ProbedCriteria, TrustSurveyCriteria} :
                     draft'.notTested \cap these \in {{}, these}
IntakeOnly == UNCHANGED <<grants, tab, subscription, purchase, ticket, kept, month>>
Screening == UNCHANGED <<words, intake, screener>> /\ screening'.status # "refused"
AuthorityOnly ==
  /\ Screening /\ UNCHANGED <<subscription, purchase, month>> /\ Len(kept') <= 1
  /\ \A n \in DOMAIN grants' : grants'[n].status = "pending" => grants'[n].covers
  /\ Len(grants') = 5 => grants'[3].status = "revoked" /\ grants'[5].status = "verified"
EntitlementOnly ==
  /\ Screening /\ Len(grants') <= 2 /\ \A t \in Tabs : tab'[t].at # "revoking"
  /\ Len(grants') > 0 => grants'[1].covers
  /\ \A t \in Tabs : tab'[t].at \in {"asking", "deciding"} => Len(grants') = 2
  /\ subscription' # subscription => ticket.at = "none" /\ \A t \in Tabs : tab[t].at = "idle"
  /\ purchase' # "none" => kept = <<>> /\ month = 0 /\ subscription' = "none"

\* Three assessments, then the sweeps: the second process over the first comparison only.
DriftOnly ==
  /\ schedule'.monitored /\ UNCHANGED <<queuer, monitorDay>>
  /\ schedule'.live = "none" => assessed' # assessed \/ schedule.live = "none"
  /\ Len(assessed) = MaxLooks => schedule'.live = "none"
  /\ Len(assessed) < MaxLooks => reviewed' = reviewed
  /\ assessed # assessed' => Len(assessed') > 0 /\ assessed'[1].look = FirstLook
  /\ \A n \in DOMAIN assessed' : assessed'[n].eligible \/ assessed'[n].status # "approved" \/ n = 3
  /\ Len(assessed') = MaxLooks => assessed'[2].look.notTested = 0 /\ assessed'[2].look.rubric = 1
  /\ comparer'["b"] # comparer["b"] =>
       /\ comparer["a"].at = "compared" /\ DOMAIN reports = {} /\ UNCHANGED driftFaults
       /\ reviewed = 2
CadenceOnly ==
  /\ UNCHANGED comparer /\ Len(assessed') <= 1 /\ Len(queuedRows') <= 3
  /\ assessed' # assessed => assessed'[1].look = FirstLook
  /\ assessed' # assessed => assessed'[1].score = 80

\* Both arrive on the first day, and an export is followed to its end.
DeskOnly ==
  /\ \A r \in DataRequests : entry'[r].kind \in {"none", "access", "deletion"}
  /\ day > 1 => \A o \in Owed : entry[o] = Unmade => entry'[o] = Unmade
  /\ deskRole' # deskRole => day = 1
  /\ export' # export => day = 1 /\ \A w \in Watchers : watcher[w].at = "idle"
  /\ \A s \in Staff : export[s].at # "idle" => UNCHANGED <<entry, watcher, day>>

\* Keys and signer change for the readers of signatures, the row for the others.
PublicOnly ==
  /\ route \notin {"offline", "verify"} => UNCHANGED <<announced, retired, signer>>
  /\ Issued => UNCHANGED signer
  /\ route \in {"offline", "verify"} => UNCHANGED mark \/ ~Issued
  /\ mark'.listed => route \in {"list", "extension"}
  /\ ~Issued /\ mark' # mark => clock = 1 \/ (clock = 2 /\ route # "offline")
  /\ clock' > 4 => route = "extension"
\* A reviewer sees runs that missed nothing, is advised once and adjusts what is approved.
VerdictOnly ==
  /\ phase = "running" /\ phase' # phase => gaps = {} /\ exploration # "unreached"
  /\ advice' # advice => advice = {} /\ phase = "awaiting review"
  /\ phase # "running" /\ outcome'.score # outcome.score => phase = "approved"

SurveysRest ==
  UNCHANGED <<runVars, admissionVars, reportVars, surveyVars, sessionVars, verdictSideVars>>
ServiceEvidence ==
  /\ subject = "evidence" /\ EvidenceNext
  /\ SurveysRest /\ UNCHANGED <<subject, alertVars, billingVars, workspaceVars, deskSideVars>>
ServiceAlerts ==
  /\ \/ subject = "channels" /\ AlertNext /\ SecondProcessRests
     \/ subject = "processes" /\ AlertNext /\ NoPush
  /\ SurveysRest /\ UNCHANGED <<subject, evidenceVars, billingVars, workspaceVars, deskSideVars>>
ServiceBilling ==
  /\ \/ subject = "subscriptions" /\ BillingNext /\ SubscriptionsOnly
     \/ subject = "purchases" /\ BillingNext /\ PurchaseOnly("i")
     \/ subject = "purchase" /\ BillingNext /\ PurchaseOnly("j")
  /\ SurveysRest /\ UNCHANGED <<subject, evidenceVars, alertVars, workspaceVars, deskSideVars>>
ServiceWorkspace ==
  /\ subject = "workspace" /\ WorkspaceNext
  /\ SurveysRest /\ UNCHANGED <<subject, evidenceVars, alertVars, billingVars, deskSideVars>>
ServiceSpending ==
  /\ subject = "spending" /\ SpendNext
  /\ SurveysRest /\ UNCHANGED <<subject, aroundVars, reassessmentVars, deskVars>>
ServiceMonitoring ==
  /\ \/ subject = "drift" /\ ReassessmentNext /\ DriftOnly
     \/ subject = "cadence" /\ ReassessmentNext /\ CadenceOnly
  /\ SurveysRest /\ UNCHANGED <<subject, aroundVars, spendVars, deskVars>>
ServiceDesk ==
  /\ subject = "desk" /\ DeskNext /\ DeskOnly
  /\ SurveysRest /\ UNCHANGED <<subject, aroundVars, spendVars, reassessmentVars>>

ServiceVerdicts ==
  /\ \/ subject = "public" /\ PublicNext /\ PublicOnly /\ UNCHANGED verdictVars
     \/ subject = "verdict" /\ VerdictNext /\ VerdictOnly /\ UNCHANGED publicVars
  /\ UNCHANGED <<subject, aroundVars, runVars, admissionVars, reportVars, surveyVars,
                 sessionVars, deskSideVars>>

ServicesRest == UNCHANGED <<subject, aroundVars, deskSideVars, verdictSideVars>>
ServiceRun ==
  /\ subject = "run" /\ RunNext /\ RunOnly
  /\ ServicesRest /\ UNCHANGED <<admissionVars, reportVars, surveyVars, sessionVars>>
ServiceAdmission ==
  /\ \/ subject = "intake" /\ AdmissionNext /\ IntakeOnly
     \/ subject = "authority" /\ AdmissionNext /\ AuthorityOnly
     \/ subject = "entitlement" /\ AdmissionNext /\ EntitlementOnly
  /\ ServicesRest /\ UNCHANGED <<runVars, reportVars, surveyVars, sessionVars>>
ServiceReports ==
  /\ subject = "report" /\ ReportNext
  /\ ServicesRest /\ UNCHANGED <<runVars, admissionVars, surveyVars, sessionVars>>
ServiceSession ==
  /\ subject = "session" /\ SessionNext
  /\ ServicesRest /\ UNCHANGED <<runVars, admissionVars, reportVars, surveyVars>>
ServiceSurveys ==
  /\ \/ subject = "repository" /\ ScanNext /\ UNCHANGED <<gameVars, exitVars>>
     \/ subject = "game" /\ GameNext /\ UNCHANGED <<scanVars, exitVars>>
     \/ subject = "exit" /\ ExitNext /\ UNCHANGED <<scanVars, gameVars>>
  /\ ServicesRest /\ UNCHANGED <<runVars, admissionVars, reportVars, sessionVars>>

Next == ServiceEvidence \/ ServiceAlerts \/ ServiceBilling \/ ServiceWorkspace \/ ServiceRun
        \/ ServiceAdmission \/ ServiceReports \/ ServiceSurveys \/ ServiceSpending
        \/ ServiceSession \/ ServiceMonitoring \/ ServiceDesk \/ ServiceVerdicts

Spec == Init /\ [][Next]_serviceVars

ServicesTypeOK ==
  /\ subject = "evidence" => EvidenceTypeOK
  /\ subject \in {"channels", "processes"} => AlertTypeOK
  /\ subject \in {"subscriptions", "purchases", "purchase"} => BillingTypeOK
  /\ subject = "workspace" => WorkspaceTypeOK
  /\ subject = "run" => RunTypeOK
  /\ subject \in {"intake", "authority", "entitlement"} => AdmissionTypeOK
  /\ subject = "report" => ReportTypeOK
  /\ subject = "repository" => ScanTypeOK
  /\ subject = "game" => GameTypeOK
  /\ subject = "exit" => ExitTypeOK
  /\ subject = "spending" => SpendTypeOK
  /\ subject = "session" => SessionTypeOK
  /\ subject \in {"drift", "cadence"} => ReassessmentTypeOK
  /\ subject = "desk" => DeskTypeOK
  /\ subject = "public" => PublicTypeOK
  /\ subject = "verdict" => VerdictTypeOK
============================================================================
