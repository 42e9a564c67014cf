----------------------------- MODULE Workspace -----------------------------
(***************************************************************************)
(* Who is in a workspace: memberships, invitations and the seats that were *)
(* bought, as the console's actions change them.  A request is one         *)
(* statement or one call of accept_invitation in a transaction of its own, *)
(* so it is two actions here: what it reads and the triggers decide, by    *)
(* what is committed; and the commit that lets others see it.  A row it    *)
(* writes is locked in between.                                            *)
(*                                                                         *)
(* Abstracted: the token and its hash, the email that carries it, the      *)
(* second step (every session here has passed it), and the other           *)
(* workspaces an account is in.                                            *)
(***************************************************************************)
EXTENDS Naturals, FiniteSets

CONSTANTS
  Users,        \* accounts, each with its address
  Founder,      \* the one who created the workspace
  Invitations,  \* rows of public.invitations there may come to be
  ConsoleRequests,  \* requests in flight at a time
  MaxSeats,     \* bound: seats of the largest subscription
  MaxLosses     \* bound: requests whose connection is lost

ASSUME WorkspaceAssumption ==
  /\ Founder \in Users /\ MaxSeats \in Nat \ {0} /\ MaxLosses \in Nat
  /\ IsFiniteSet(Users) /\ IsFiniteSet(Invitations) /\ IsFiniteSet(ConsoleRequests)
  /\ ConsoleRequests # {} /\ "none" \notin Invitations

VARIABLES
  role,     \* public.memberships
  invited,  \* public.invitations
  seats,    \* seats_for_organisation: of the active subscription, or 1
  asked,    \* what each request in flight has decided and not yet committed
  joined,   \* history: how often each invitation let somebody in
  peak,     \* history: the most seats there have been
  overlapped,  \* history: two requests that each take an owner away were in flight together
  losses

workspaceVars == <<role, invited, seats, asked, joined, peak, overlapped, losses>>

----------------------------------------------------------------------------

Role == {"owner", "admin", "member"}
InvitationState == {"none", "pending", "accepted", "revoked"}
Invitation == [state: InvitationState, to: Users, role: Role, expired: BOOLEAN]

NoRequest == [does |-> "nothing", by |-> Founder, of |-> Founder, role |-> "none", link |-> "none"]
Does == {"nothing", "invite", "revoke", "join", "mark", "set role", "remove"}

WorkspaceTypeOK ==
  /\ role \in [Users -> Role \cup {"none"}]
  /\ invited \in [Invitations -> Invitation]
  /\ seats \in 1..MaxSeats /\ peak \in 1..MaxSeats
  /\ asked \in [ConsoleRequests -> [does: Does, by: Users, of: Users, role: Role \cup {"none"},
                               link: Invitations \cup {"none"}]]
  /\ joined \in [Invitations -> Nat]
  /\ overlapped \in BOOLEAN /\ losses \in Nat

\* create_workspace: the organisation and its owner in one transaction.
WorkspaceInit ==
  /\ role = [u \in Users |-> IF u = Founder THEN "owner" ELSE "none"]
  /\ invited = [i \in Invitations |->
                  [state |-> "none", to |-> Founder, role |-> "member", expired |-> FALSE]]
  /\ seats = 1 /\ peak = 1
  /\ asked = [q \in ConsoleRequests |-> NoRequest]
  /\ joined = [i \in Invitations |-> 0]
  /\ overlapped = FALSE /\ losses = 0

----------------------------------------------------------------------------

Members == {u \in Users : role[u] # "none"}
Owners == {u \in Users : role[u] = "owner"}
Manages(u) == role[u] \in {"owner", "admin"}
Pending == {i \in Invitations : invited[i].state = "pending"}

\* seats_used: an invitation that has expired is among them until it is revoked.
SeatsUsed == Cardinality(Members) + Cardinality(Pending)

\* Mistake: the new row is not counted.
SeatAvailableBefore == SeatsUsed <= seats

\* assert_seat_available, after the insert: its own row counts.
SeatAvailable == SeatsUsed + 1 <= seats

\* Mistake: the row's own is counted.
SomeOwner(u) == Owners # {}

\* assert_organisation_keeps_an_owner: the owners it sees but for the row's own.
OwnerWithout(u) == Owners \ {u} # {}

InFlight(q) == asked[q].does # "nothing"
LocksLink(i) == \E q \in ConsoleRequests : InFlight(q) /\ asked[q].link = i
LocksMember(u) ==
  \E q \in ConsoleRequests : asked[q].does \in {"join", "set role", "remove"} /\ asked[q].of = u

TakesAnOwner(does, of, newRole) ==
  role[of] = "owner" /\ (does = "remove" \/ (does = "set role" /\ newRole # "owner"))
TakingAnOwner(q) == TakesAnOwner(asked[q].does, asked[q].of, asked[q].role)

Ask(q, does, by, of, newRole, link) ==
  /\ ~InFlight(q)
  /\ asked' = [asked EXCEPT ![q] =
       [does |-> does, by |-> by, of |-> of, role |-> newRole, link |-> link]]
  /\ overlapped' = (overlapped \/ (/\ TakesAnOwner(does, of, newRole)
                                  /\ \E p \in ConsoleRequests : TakingAnOwner(p)))
  /\ UNCHANGED <<role, invited, seats, joined, peak, losses>>

----------------------------------------------------------------------------
(* The statements *)

\* The unique index makes an insert for an address wait for the one in doubt.
AddressFree(v) ==
  /\ \A i \in Pending : invited[i].to # v
  /\ \A q \in ConsoleRequests : asked[q].does = "invite" => asked[q].of # v

\* inviteMember.  Nothing asks whether the address is a member's already.
Invite(q, u, v, r, i) ==
  /\ Manages(u) /\ r # "owner"
  /\ invited[i].state = "none" /\ ~LocksLink(i)
  /\ AddressFree(v) /\ SeatAvailable
  /\ Ask(q, "invite", u, v, r, i)

\* revokeInvitation: accepted_at is null, and no more.
Revoke(q, u, i) ==
  /\ Manages(u)
  /\ invited[i].state \in {"pending", "revoked"} /\ ~LocksLink(i)
  /\ Ask(q, "revoke", u, invited[i].to, "none", i)

\* Mistake: whether the link was used or withdrawn is not asked.
MayJoinAgain(i) == ~invited[i].expired /\ role[invited[i].to] = "none"

\* accept_invitation, as far as the three refusals.
MayJoin(i) ==
  /\ invited[i].state = "pending" /\ ~invited[i].expired
  /\ role[invited[i].to] = "none"

\* The membership is inserted while the invitation still counts as pending.
Accept(q, i) ==
  LET u == invited[i].to IN
  /\ invited[i].state # "none" /\ ~LocksLink(i)
  /\ ~LocksMember(u)
  /\ MayJoin(i) /\ SeatAvailable
  /\ Ask(q, "join", u, u, invited[i].role, i)

\* A member's second click marks the invitation; a check refuses it when revoked.
AcceptAgain(q, i) ==
  /\ invited[i].state \in {"pending", "accepted"} /\ ~LocksLink(i)
  /\ role[invited[i].to] # "none"
  /\ Ask(q, "mark", invited[i].to, invited[i].to, "none", i)

\* changeRole: only an owner makes an owner.
ChangeRole(q, u, v, r) ==
  /\ Manages(u) /\ v \in Members /\ ~LocksMember(v)
  /\ r = "owner" => role[u] = "owner"
  /\ r = "owner" \/ OwnerWithout(v)
  /\ Ask(q, "set role", u, v, r, "none")

\* removeMember: anybody themselves, an owner or an admin anybody.
RemoveMember(q, u, v) ==
  /\ u = v \/ Manages(u)
  /\ v \in Members /\ ~LocksMember(v)
  /\ OwnerWithout(v)
  /\ Ask(q, "remove", u, v, "none", "none")

----------------------------------------------------------------------------
(* The commit *)

RoleAfter(q) ==
  CASE asked[q].does \in {"join", "set role"} -> [role EXCEPT ![asked[q].of] = asked[q].role]
    [] asked[q].does = "remove" -> [role EXCEPT ![asked[q].of] = "none"]
    [] OTHER -> role

InvitedAfter(q) ==
  LET i == asked[q].link IN
  CASE asked[q].does = "invite" ->
         [invited EXCEPT ![i] = [state |-> "pending", to |-> asked[q].of,
                                 role |-> asked[q].role, expired |-> FALSE]]
    [] asked[q].does = "revoke" -> [invited EXCEPT ![i].state = "revoked"]
    [] asked[q].does \in {"join", "mark"} -> [invited EXCEPT ![i].state = "accepted"]
    [] OTHER -> invited

CommitRequest(q) ==
  /\ InFlight(q)
  /\ role' = RoleAfter(q)
  /\ invited' = InvitedAfter(q)
  /\ joined' = IF asked[q].does = "join"
               THEN [joined EXCEPT ![asked[q].link] = @ + 1] ELSE joined
  /\ asked' = [asked EXCEPT ![q] = NoRequest]
  /\ UNCHANGED <<seats, peak, overlapped, losses>>

LoseRequest(q) ==
  /\ InFlight(q) /\ losses < MaxLosses
  /\ losses' = losses + 1
  /\ asked' = [asked EXCEPT ![q] = NoRequest]
  /\ UNCHANGED <<role, invited, seats, joined, peak, overlapped>>

InvitationExpires(i) ==
  /\ invited[i].state = "pending" /\ ~invited[i].expired
  /\ invited' = [invited EXCEPT ![i].expired = TRUE]
  /\ UNCHANGED <<role, seats, asked, joined, peak, overlapped, losses>>

\* onSubscriptionChanged: seats are bought, given up, or lapse with the plan.
SeatsChange(n) ==
  /\ n # seats
  /\ seats' = n
  /\ peak' = IF n > peak THEN n ELSE peak
  /\ UNCHANGED <<role, invited, asked, joined, overlapped, losses>>

----------------------------------------------------------------------------

Statement(q) ==
  \/ \E i \in Invitations : Accept(q, i) \/ AcceptAgain(q, i)
  \/ \E u \in Users :
       \/ \E i \in Invitations :
            Revoke(q, u, i) \/ \E v \in Users, r \in Role : Invite(q, u, v, r, i)
       \/ \E v \in Users : RemoveMember(q, u, v) \/ \E r \in Role : ChangeRole(q, u, v, r)

WorkspaceNext ==
  \/ \E q \in ConsoleRequests : Statement(q) \/ CommitRequest(q) \/ LoseRequest(q)
  \/ \E i \in Invitations : InvitationExpires(i)
  \/ \E n \in 1..MaxSeats : SeatsChange(n)

WorkspaceSpec == WorkspaceInit /\ [][WorkspaceNext]_workspaceVars

----------------------------------------------------------------------------
(* Properties *)

\* ConsoleRequests in flight that will take up a seat.
Adding == {q \in ConsoleRequests : asked[q].does = "invite"}

\* "An organisation must never be left without an owner", unless two requests that each
\* take one away were in flight together: the trigger does not see what the other did.
AnOwnerRemains == overlapped \/ Owners # {}

\* Members and invitations never outnumber the most seats that were bought by
\* more than the requests that can overlap: the triggers read what is committed
\* and lock nothing, so each request beside another can pass on the same seat.
SeatsAreNotOversold == SeatsUsed + Cardinality(Adding) < peak + Cardinality(ConsoleRequests)

\* What the two triggers on the memberships are for, and as far as they go.
TriggersKeep == SeatsAreNotOversold /\ AnOwnerRemains

\* One link lets one person in, once: not when it is clicked twice at a time,
\* not after it was withdrawn, and not when who it let in was removed later.
LinkLetsInOnce ==
  \A i \in Invitations : joined[i] <= 1 /\ (joined[i] = 1 => invited[i].state = "accepted")
============================================================================
