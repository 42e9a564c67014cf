-------------------------- MODULE MCBadgeRegression --------------------------
(* BadgeLifecycle with one more variable: the standing badges of which a       *)
(* drift report has said "material", until a reviewer next acts on them.       *)
EXTENDS MCBadge

VARIABLE regressed

\* The applications a step records a material drift report for.
FoundMaterial == {AppOf[a] : a \in {x \in Assessments : drift[x] = "none" /\ drift'[x] = "material"}}

RegressionInit == Init /\ regressed = {}
RegressionNext ==
  \/ \E b \in Badges : /\ RevokeBadge(b) \/ SuspendBadge(b) \/ ReinstateBadge(b)
                       /\ regressed' = regressed \ {b}
  \/ /\ Issuance \/ Reviewing \/ Lifecycle \/ DriftSweep \/ Liveness \/ World
     /\ regressed' = regressed \cup UNION {StandingOf(p) : p \in FoundMaterial}
RegressionSpec == RegressionInit /\ [][RegressionNext]_<<vars, regressed>>

\* apps/web/app/console/apps/[id]/page.tsx tells the owner of every material
\* report "so the badge was suspended": no badge that stood at the time is up
\* again until a reviewer has acted on it.
RegressionStaysDown == \A b \in regressed : badge[b].status # "active"
=============================================================================
