-------------------------- MODULE Workspace_proofs --------------------------
(***************************************************************************)
(* Seats, links and owners of a workspace, for any accounts, invitations,  *)
(* seats and any number of requests in flight.  The invariant says what a  *)
(* request that has decided and not yet committed may still count on: the  *)
(* rows it wrote are locked, so nobody else's commit moves them.           *)
(***************************************************************************)
EXTENDS Workspace, FiniteSetTheorems, TLAPS

\* What the request's own row looks like until its commit.
StillSo(q) ==
  LET a == asked[q] IN
  /\ a.does \in {"invite", "revoke", "join", "mark"} => a.link \in Invitations
  /\ a.does \in {"set role", "remove"} => a.link = "none"
  /\ a.does = "invite" => invited[a.link].state = "none"
  /\ a.does = "revoke" => invited[a.link].state \in {"pending", "revoked"}
  /\ a.does = "join" => invited[a.link].state = "pending" /\ role[a.of] = "none"
  /\ a.does = "mark" => invited[a.link].state \in {"pending", "accepted"}
  /\ a.does \in {"set role", "remove"} => role[a.of] # "none"
  /\ a.does \in {"invite", "join", "set role"} => a.role # "none"

Moving == {"join", "set role", "remove"}

\* Two requests never hold one invitation, nor one member.
Apart(p, q) ==
  /\ InFlight(p) /\ InFlight(q) /\ asked[p].link = asked[q].link => asked[p].link = "none"
  /\ asked[p].does \in Moving /\ asked[q].does \in Moving => asked[p].of # asked[q].of

\* At most one request takes an owner away, and it leaves another behind.
OwnersKept ==
  overlapped \/
    /\ Owners # {}
    /\ \A q \in ConsoleRequests : TakingAnOwner(q) => Owners \ {asked[q].of} # {}
    /\ \A p, q \in ConsoleRequests : TakingAnOwner(p) /\ TakingAnOwner(q) => p = q

LinkFacts(i) == joined[i] <= 1 /\ (joined[i] = 1 => invited[i].state = "accepted")

Inv ==
  /\ WorkspaceTypeOK
  /\ seats <= peak
  /\ \A q \in ConsoleRequests : InFlight(q) => StillSo(q)
  /\ \A p, q \in ConsoleRequests : p # q => Apart(p, q)
  /\ \A i \in Invitations : LinkFacts(i)
  /\ SeatsAreNotOversold
  /\ OwnersKept

----------------------------------------------------------------------------
(* Types *)

LEMMA InitTyped ==
  WorkspaceInit => WorkspaceTypeOK
<1> SUFFICES ASSUME WorkspaceInit
             PROVE  WorkspaceTypeOK
  OBVIOUS
<1>1. NoRequest \in [does: Does, by: Users, of: Users, role: Role \cup {"none"},
                     link: Invitations \cup {"none"}]
  BY WorkspaceAssumption DEF NoRequest, Does
<1>2. overlapped \in BOOLEAN
  BY Zenon DEF WorkspaceInit
<1>3. invited \in [Invitations -> Invitation]
  BY WorkspaceAssumption DEF WorkspaceInit, Invitation, InvitationState, Role
<1>4. losses \in Nat /\ seats \in 1..MaxSeats /\ peak \in 1..MaxSeats
  BY WorkspaceAssumption DEF WorkspaceInit
<1>5. /\ role \in [Users -> Role \cup {"none"}] /\ joined \in [Invitations -> Nat]
      /\ asked \in [ConsoleRequests -> [does: Does, by: Users, of: Users, role: Role \cup {"none"},
                                        link: Invitations \cup {"none"}]]
  BY <1>1 DEF WorkspaceInit, Role
<1> QED BY <1>2, <1>3, <1>4, <1>5 DEF WorkspaceTypeOK

\* What every statement writes is a request of the type.
LEMMA AskTyped ==
  ASSUME WorkspaceTypeOK, NEW q \in ConsoleRequests, NEW does \in Does,
         NEW by \in Users, NEW of \in Users, NEW newRole \in Role \cup {"none"},
         NEW link \in Invitations \cup {"none"}, Ask(q, does, by, of, newRole, link)
  PROVE  WorkspaceTypeOK'
BY DEF WorkspaceTypeOK, Ask

LEMMA CommitTyped ==
  ASSUME WorkspaceTypeOK, NEW q \in ConsoleRequests, StillSo(q), CommitRequest(q)
  PROVE  WorkspaceTypeOK'
<1> DEFINE a == asked[q]
<1>0. /\ a.does \in Does /\ a.does # "nothing" /\ a.of \in Users
      /\ a.role \in Role \cup {"none"} /\ a.link \in Invitations \cup {"none"}
      /\ seats' = seats /\ peak' = peak /\ losses' = losses /\ overlapped' \in BOOLEAN
  BY DEF WorkspaceTypeOK, CommitRequest, InFlight
<1>1. role' \in [Users -> Role \cup {"none"}]
  BY <1>0 DEF WorkspaceTypeOK, CommitRequest, RoleAfter
<1>2. invited' \in [Invitations -> Invitation]
  <2>1. /\ invited \in [Invitations -> Invitation]
        /\ invited' = InvitedAfter(q)
    BY DEF WorkspaceTypeOK, CommitRequest
  <2>2. CASE a.does = "invite"
    <3>1. a.link \in Invitations /\ a.role \in Role
      BY <1>0, <2>2 DEF StillSo
    <3>2. [state |-> "pending", to |-> a.of, role |-> a.role, expired |-> FALSE] \in Invitation
      BY <1>0, <3>1 DEF Invitation, InvitationState
    <3> QED BY <2>1, <2>2, <3>1, <3>2 DEF InvitedAfter
  <2>3. CASE a.does = "revoke"
    BY <2>1, <2>3 DEF InvitedAfter, Invitation, InvitationState
  <2>4. CASE a.does \in {"join", "mark"}
    BY <2>1, <2>4 DEF InvitedAfter, Invitation, InvitationState
  <2>5. CASE a.does \notin {"invite", "revoke", "join", "mark"}
    BY <2>1, <2>5 DEF InvitedAfter
  <2> QED BY <2>2, <2>3, <2>4, <2>5
<1>3. joined' \in [Invitations -> Nat]
  <2>1. /\ joined \in [Invitations -> Nat]
        /\ joined' = IF a.does = "join" THEN [joined EXCEPT ![a.link] = @ + 1] ELSE joined
    BY DEF WorkspaceTypeOK, CommitRequest
  <2>2. a.does = "join" => a.link \in Invitations
    BY DEF StillSo
  <2> QED BY <2>1, <2>2
<1>4. asked' \in [ConsoleRequests -> [does: Does, by: Users, of: Users, role: Role \cup {"none"},
                                      link: Invitations \cup {"none"}]]
  <2>1. NoRequest \in [does: Does, by: Users, of: Users, role: Role \cup {"none"},
                       link: Invitations \cup {"none"}]
    BY WorkspaceAssumption DEF NoRequest, Does
  <2> QED BY <2>1 DEF WorkspaceTypeOK, CommitRequest
<1> QED BY <1>0, <1>1, <1>2, <1>3, <1>4 DEF WorkspaceTypeOK

----------------------------------------------------------------------------
(* Locks *)

\* A statement that took no row in anybody's hands keeps every request apart.
LEMMA AskedApart ==
  ASSUME Inv, NEW q \in ConsoleRequests, NEW does \in Does \ {"nothing"},
         NEW by \in Users, NEW of \in Users, NEW newRole \in Role \cup {"none"},
         NEW link \in Invitations \cup {"none"}, Ask(q, does, by, of, newRole, link),
         link # "none" => ~LocksLink(link),
         does \in Moving => ~LocksMember(of)
  PROVE  \A p, r \in ConsoleRequests : p # r => Apart(p, r)'
<1> SUFFICES ASSUME NEW p \in ConsoleRequests, NEW r \in ConsoleRequests, p # r
             PROVE  Apart(p, r)'
  OBVIOUS
<1>1. asked \in [ConsoleRequests -> [does: Does, by: Users, of: Users, role: Role \cup {"none"},
                                     link: Invitations \cup {"none"}]]
  BY DEF Inv, WorkspaceTypeOK
<1>2. asked'[q] = [does |-> does, by |-> by, of |-> of, role |-> newRole, link |-> link]
  BY <1>1 DEF Ask
<1>3. \A x \in ConsoleRequests \ {q} : asked'[x] = asked[x]
  BY <1>1 DEF Ask
<1>4. Apart(p, r)
  BY DEF Inv
<1>5. CASE p # q /\ r # q
  BY <1>3, <1>4, <1>5 DEF Apart, InFlight
<1>6. \A x \in ConsoleRequests \ {q} : Apart(q, x)' /\ Apart(x, q)'
  <2> SUFFICES ASSUME NEW x \in ConsoleRequests \ {q}
               PROVE  Apart(q, x)' /\ Apart(x, q)'
    OBVIOUS
  <2>1. asked'[x] = asked[x] /\ asked'[q].does = does /\ asked'[q].link = link /\ asked'[q].of = of
    BY <1>2, <1>3
  <2>2. asked[x].does # "nothing" /\ asked[x].link = link => link = "none"
    BY DEF LocksLink, InFlight
  <2>3. asked[x].does \in Moving /\ does \in Moving => asked[x].of # of
    BY DEF LocksMember, Moving
  <2> QED BY <2>1, <2>2, <2>3 DEF Apart, InFlight
<1> QED BY <1>5, <1>6

\* The others' rows are as they were: a statement writes its own request only.
LEMMA AskedStillSo ==
  ASSUME Inv, NEW q \in ConsoleRequests, NEW does, NEW by, NEW of, NEW newRole, NEW link,
         Ask(q, does, by, of, newRole, link), StillSo(q)'
  PROVE  \A p \in ConsoleRequests : InFlight(p)' => StillSo(p)'
<1> SUFFICES ASSUME NEW p \in ConsoleRequests, InFlight(p)', p # q
             PROVE  StillSo(p)'
  OBVIOUS
<1>1. asked'[p] = asked[p] /\ role' = role /\ invited' = invited
  BY DEF Ask, Inv, WorkspaceTypeOK
<1>2. StillSo(p)
  BY <1>1 DEF InFlight, Inv
<1> QED BY <1>1, <1>2 DEF StillSo

----------------------------------------------------------------------------
(* Commits *)

\* A commit moves the member and the invitation it has locked, and no other.
LEMMA CommitLeavesOthers ==
  ASSUME Inv, NEW q \in ConsoleRequests, CommitRequest(q)
  PROVE  /\ \A u \in Users : asked[q].does \notin Moving \/ u # asked[q].of => role'[u] = role[u]
         /\ \A i \in Invitations : i # asked[q].link =>
              invited'[i] = invited[i] /\ joined'[i] = joined[i]
         /\ asked[q].link \notin Invitations => invited' = invited /\ joined' = joined
         /\ \A p \in ConsoleRequests \ {q} : asked'[p] = asked[p]
         /\ asked'[q].does = "nothing"
         /\ StillSo(q)
<1>1. StillSo(q)
  BY DEF Inv, CommitRequest
<1>2. \A u \in Users : asked[q].does \notin Moving \/ u # asked[q].of => role'[u] = role[u]
  BY DEF Inv, WorkspaceTypeOK, CommitRequest, RoleAfter, Moving
<1>3. \A i \in Invitations : i # asked[q].link => invited'[i] = invited[i]
  BY DEF Inv, WorkspaceTypeOK, CommitRequest, InvitedAfter
<1>4. \A i \in Invitations : i # asked[q].link => joined'[i] = joined[i]
  BY DEF Inv, WorkspaceTypeOK, CommitRequest
<1>5. asked[q].link \notin Invitations => invited' = invited /\ joined' = joined
  BY <1>1 DEF StillSo, CommitRequest, InvitedAfter
<1>6. \A p \in ConsoleRequests \ {q} : asked'[p] = asked[p]
  BY DEF Inv, WorkspaceTypeOK, CommitRequest
<1>7. asked'[q].does = "nothing"
  BY DEF Inv, WorkspaceTypeOK, CommitRequest, NoRequest
<1> QED BY <1>1, <1>2, <1>3, <1>4, <1>5, <1>6, <1>7

\* What the others count on survives a commit, since their rows are locked.
LEMMA CommitStillSo ==
  ASSUME Inv, NEW q \in ConsoleRequests, CommitRequest(q)
  PROVE  \A p \in ConsoleRequests : InFlight(p)' => StillSo(p)'
<1> SUFFICES ASSUME NEW p \in ConsoleRequests, InFlight(p)'
             PROVE  StillSo(p)'
  OBVIOUS
<1>1. p # q /\ asked'[p] = asked[p]
  BY CommitLeavesOthers DEF InFlight
<1>2. StillSo(p) /\ Apart(p, q) /\ InFlight(p) /\ InFlight(q)
  BY <1>1 DEF Inv, InFlight, CommitRequest
<1>3. asked[p].of \in Users
  BY DEF Inv, WorkspaceTypeOK
<1>4. asked[p].does \in Moving => role'[asked[p].of] = role[asked[p].of]
  BY <1>2, <1>3, CommitLeavesOthers DEF Apart
<1>5. asked[p].link \in Invitations => invited'[asked[p].link] = invited[asked[p].link]
  BY <1>2, CommitLeavesOthers, WorkspaceAssumption DEF Apart
<1>6. asked[p].does \in {"join", "set role", "remove"} => asked[p].does \in Moving
  BY DEF Moving
<1> QED BY <1>1, <1>2, <1>4, <1>5, <1>6 DEF StillSo

LEMMA CommitApart ==
  ASSUME Inv, NEW q \in ConsoleRequests, CommitRequest(q)
  PROVE  \A p, r \in ConsoleRequests : p # r => Apart(p, r)'
<1> SUFFICES ASSUME NEW p \in ConsoleRequests, NEW r \in ConsoleRequests, p # r
             PROVE  Apart(p, r)'
  OBVIOUS
<1>1. Apart(p, r)
  BY DEF Inv
<1>2. CASE p = q \/ r = q
  BY <1>2, CommitLeavesOthers DEF Apart, InFlight, Moving
<1>3. CASE p # q /\ r # q
  BY <1>1, <1>3, CommitLeavesOthers DEF Apart, InFlight
<1> QED BY <1>2, <1>3

\* The commit of a join finds the invitation pending, so nobody had used it.
LEMMA CommitLinks ==
  ASSUME Inv, NEW q \in ConsoleRequests, CommitRequest(q)
  PROVE  \A i \in Invitations : LinkFacts(i)'
<1> DEFINE l == asked[q].link
<1> SUFFICES ASSUME NEW i \in Invitations
             PROVE  LinkFacts(i)'
  OBVIOUS
<1>1. LinkFacts(i) /\ joined[i] \in Nat /\ StillSo(q)
  BY CommitLeavesOthers DEF Inv, WorkspaceTypeOK
<1>2. CASE i # l
  BY <1>1, <1>2, CommitLeavesOthers DEF LinkFacts
<1>3. CASE i = l
  <2>1. invited \in [Invitations -> Invitation] /\ joined \in [Invitations -> Nat]
    BY DEF Inv, WorkspaceTypeOK
  <2>2. joined'[i] = IF asked[q].does = "join" THEN joined[i] + 1 ELSE joined[i]
    BY <1>3, <2>1 DEF CommitRequest
  <2>3. CASE asked[q].does = "join"
    <3>1. invited'[i].state = "accepted"
      BY <1>3, <2>1, <2>3 DEF CommitRequest, InvitedAfter, Invitation
    <3>2. joined[i] = 0
      BY <1>1, <1>3, <2>3 DEF LinkFacts, StillSo
    <3> QED BY <2>2, <2>3, <3>1, <3>2 DEF LinkFacts
  <2>4. CASE asked[q].does = "mark"
    <3>1. invited'[i].state = "accepted"
      BY <1>3, <2>1, <2>4 DEF CommitRequest, InvitedAfter, Invitation
    <3> QED BY <1>1, <2>2, <2>4, <3>1 DEF LinkFacts
  <2>5. CASE asked[q].does \in {"invite", "revoke"}
    <3>1. joined[i] # 1
      BY <1>1, <1>3, <2>5 DEF LinkFacts, StillSo
    <3> QED BY <1>1, <2>2, <2>5, <3>1 DEF LinkFacts
  <2>6. CASE asked[q].does \notin {"join", "mark", "invite", "revoke"}
    <3>1. invited' = invited
      BY <2>6 DEF CommitRequest, InvitedAfter
    <3> QED BY <1>1, <2>2, <2>6, <3>1 DEF LinkFacts
  <2> QED BY <2>3, <2>4, <2>5, <2>6
<1> QED BY <1>2, <1>3

----------------------------------------------------------------------------
(* Seats *)

\* Every count of the seats is of a finite set.
LEMMA Countable ==
  ASSUME WorkspaceTypeOK
  PROVE  /\ IsFiniteSet(Members) /\ IsFiniteSet(Pending) /\ IsFiniteSet(Adding)
         /\ Cardinality(Members) \in Nat /\ Cardinality(Pending) \in Nat
         /\ Cardinality(Adding) \in Nat /\ Cardinality(ConsoleRequests) \in Nat
         /\ Cardinality(Adding) <= Cardinality(ConsoleRequests)
         /\ seats \in Nat /\ peak \in Nat
<1>1. Members \in SUBSET Users /\ Pending \in SUBSET Invitations /\ Adding \in SUBSET ConsoleRequests
  BY DEF Members, Pending, Adding
<1>2. /\ IsFiniteSet(Members) /\ IsFiniteSet(Pending) /\ IsFiniteSet(Adding)
      /\ Cardinality(Adding) <= Cardinality(ConsoleRequests)
  BY <1>1, FS_Subset, WorkspaceAssumption
<1>3. seats \in Nat /\ peak \in Nat
  BY WorkspaceAssumption DEF WorkspaceTypeOK
<1> QED BY <1>2, <1>3, FS_CardinalityType, WorkspaceAssumption

\* An insert that counts itself may pass beside every other request in flight,
\* and beside no more: that is the bound.
LEMMA AskKeepsSeats ==
  ASSUME Inv, WorkspaceTypeOK', NEW q \in ConsoleRequests, NEW does, NEW by, NEW of,
         NEW newRole, NEW link, Ask(q, does, by, of, newRole, link),
         does = "invite" => SeatAvailable
  PROVE  SeatsAreNotOversold'
<1>1. Members' = Members /\ Pending' = Pending /\ peak' = peak
  BY DEF Ask, Members, Pending
<1>2. WorkspaceTypeOK /\ seats <= peak /\ SeatsAreNotOversold
  BY DEF Inv
<1>3. /\ Cardinality(Members) \in Nat /\ Cardinality(Pending) \in Nat
      /\ Cardinality(ConsoleRequests) \in Nat /\ seats \in Nat /\ peak \in Nat
  BY <1>2, Countable
<1>4. Cardinality(Adding') \in Nat /\ Cardinality(Adding') <= Cardinality(ConsoleRequests)
  <2>1. Adding' \in SUBSET ConsoleRequests
    BY DEF Adding
  <2> QED BY <2>1, FS_Subset, FS_CardinalityType, WorkspaceAssumption
<1>5. CASE does = "invite"
  <2>1. Cardinality(Members) + Cardinality(Pending) + 1 <= seats
    BY <1>5 DEF SeatAvailable, SeatsUsed
  <2> QED BY <1>1, <1>2, <1>3, <1>4, <2>1 DEF SeatsAreNotOversold, SeatsUsed
<1>6. CASE does # "invite"
  <2>1. Adding' = Adding
    BY <1>2, <1>6 DEF Ask, Adding, InFlight, WorkspaceTypeOK
  <2> QED BY <1>1, <1>2, <2>1 DEF SeatsAreNotOversold, SeatsUsed
<1> QED BY <1>5, <1>6

\* A commit takes up what its statement was counted for: an invitation leaves
\* the requests for the pending ones, and a join swaps its link for a member.
LEMMA CommitKeepsSeats ==
  ASSUME Inv, NEW q \in ConsoleRequests, CommitRequest(q)
  PROVE  SeatsAreNotOversold'
<1> DEFINE l == asked[q].link
           v == asked[q].of
<1>1. WorkspaceTypeOK /\ SeatsAreNotOversold /\ StillSo(q) /\ peak' = peak
  BY CommitLeavesOthers DEF Inv, CommitRequest
<1>2. /\ IsFiniteSet(Members) /\ IsFiniteSet(Pending) /\ IsFiniteSet(Adding)
      /\ Cardinality(Members) \in Nat /\ Cardinality(Pending) \in Nat
      /\ Cardinality(Adding) \in Nat /\ Cardinality(ConsoleRequests) \in Nat /\ peak \in Nat
  BY <1>1, Countable
<1>3. /\ role \in [Users -> Role \cup {"none"}] /\ invited \in [Invitations -> Invitation]
      /\ v \in Users /\ role' = RoleAfter(q) /\ invited' = InvitedAfter(q)
      /\ asked[q].does \in Does \ {"nothing"}
  BY <1>1 DEF WorkspaceTypeOK, CommitRequest, InFlight
<1>4. Adding' = Adding \ {q}
  BY CommitLeavesOthers DEF Adding
<1>5. Cardinality(Adding') = IF q \in Adding THEN Cardinality(Adding) - 1 ELSE Cardinality(Adding)
  BY <1>2, <1>4, FS_RemoveElement
<1>6. CASE asked[q].does = "invite"
  <2>1. Members' = Members
    BY <1>3, <1>6 DEF RoleAfter, Members
  <2>2. l \in Invitations /\ l \notin Pending /\ q \in Adding
    BY <1>1, <1>6 DEF StillSo, Pending, Adding
  <2>3. Pending' = Pending \cup {l}
    BY <1>3, <1>6, <2>2 DEF InvitedAfter, Pending
  <2>4. Cardinality(Pending') = Cardinality(Pending) + 1
    BY <1>2, <2>2, <2>3, FS_AddElement
  <2> QED BY <1>1, <1>2, <1>5, <2>1, <2>2, <2>4 DEF SeatsAreNotOversold, SeatsUsed
<1>7. CASE asked[q].does # "invite"
  <2>1. Cardinality(Adding') = Cardinality(Adding)
    BY <1>5, <1>7 DEF Adding
  <2>2. CASE asked[q].does = "join"
    <3>1. l \in Pending /\ v \notin Members
      BY <1>1, <2>2 DEF StillSo, Pending, Members
    <3>2. Members' = Members \cup {v}
      BY <1>1, <1>3, <2>2 DEF RoleAfter, Members, StillSo
    <3>3. Pending' = Pending \ {l}
      BY <1>3, <2>2, <3>1 DEF InvitedAfter, Pending, Invitation
    <3>4. Cardinality(Members') = Cardinality(Members) + 1
      BY <1>2, <3>1, <3>2, FS_AddElement
    <3>5. Cardinality(Pending') = Cardinality(Pending) - 1
      BY <1>2, <3>1, <3>3, FS_RemoveElement
    <3> QED BY <1>1, <1>2, <2>1, <3>4, <3>5 DEF SeatsAreNotOversold, SeatsUsed
  <2>3. CASE asked[q].does \in {"revoke", "mark"}
    <3>1. Members' = Members
      BY <1>3, <2>3 DEF RoleAfter, Members
    <3>2. Pending' = Pending \ {l}
      BY <1>3, <2>3 DEF InvitedAfter, Pending, Invitation
    <3>3. Cardinality(Pending') <= Cardinality(Pending) /\ Cardinality(Pending') \in Nat
      <4>1. Pending' \in SUBSET Pending
        BY <3>2
      <4> QED BY <1>2, <4>1, FS_Subset, FS_CardinalityType
    <3> QED BY <1>1, <1>2, <2>1, <3>1, <3>3 DEF SeatsAreNotOversold, SeatsUsed
  <2>4. CASE asked[q].does = "set role"
    <3>1. Members' = Members
      BY <1>1, <1>3, <2>4 DEF RoleAfter, Members, StillSo
    <3>2. Pending' = Pending
      BY <1>3, <2>4 DEF InvitedAfter, Pending
    <3> QED BY <1>1, <2>1, <3>1, <3>2 DEF SeatsAreNotOversold, SeatsUsed
  <2>5. CASE asked[q].does = "remove"
    <3>1. Members' = Members \ {v}
      BY <1>3, <2>5 DEF RoleAfter, Members
    <3>2. Pending' = Pending
      BY <1>3, <2>5 DEF InvitedAfter, Pending
    <3>3. Cardinality(Members') <= Cardinality(Members) /\ Cardinality(Members') \in Nat
      <4>1. Members' \in SUBSET Members
        BY <3>1
      <4> QED BY <1>2, <4>1, FS_Subset, FS_CardinalityType
    <3> QED BY <1>1, <1>2, <2>1, <3>2, <3>3 DEF SeatsAreNotOversold, SeatsUsed
  <2> QED BY <1>3, <1>7, <2>2, <2>3, <2>4, <2>5 DEF Does
<1> QED BY <1>6, <1>7

----------------------------------------------------------------------------
(* Owners *)

\* A step that adds owners at most, and no request that takes one, keeps them.
LEMMA OwnersFramed ==
  ASSUME OwnersKept, overlapped' = overlapped,
         \A u \in Users : role[u] = "owner" => role'[u] = "owner",
         \A p \in ConsoleRequests : TakingAnOwner(p)' => TakingAnOwner(p) /\ asked'[p].of = asked[p].of
  PROVE  OwnersKept'
<1>1. \A u \in Owners : u \in Owners'
  BY DEF Owners
<1> QED BY <1>1 DEF OwnersKept

\* A statement that takes an owner finds another, which nobody is taking: or the
\* two of them overlap.
LEMMA AskKeepsOwners ==
  ASSUME Inv, NEW q \in ConsoleRequests, NEW does, NEW by, NEW of \in Users, NEW newRole, NEW link,
         Ask(q, does, by, of, newRole, link),
         TakesAnOwner(does, of, newRole) => OwnerWithout(of)
  PROVE  OwnersKept'
<1>1. /\ asked'[q].does = does /\ asked'[q].of = of /\ asked'[q].role = newRole
      /\ \A p \in ConsoleRequests \ {q} : asked'[p] = asked[p]
      /\ role' = role
  BY DEF Ask, Inv, WorkspaceTypeOK
<1>2. TakingAnOwner(q)' <=> TakesAnOwner(does, of, newRole)
  BY <1>1 DEF TakingAnOwner, TakesAnOwner
<1>3. \A p \in ConsoleRequests \ {q} : TakingAnOwner(p)' <=> TakingAnOwner(p)
  BY <1>1 DEF TakingAnOwner, TakesAnOwner
<1>4. Owners' = Owners
  BY <1>1 DEF Owners
<1>5. CASE TakesAnOwner(does, of, newRole)
  <2>1. Owners \ {of} # {}
    BY <1>5 DEF OwnerWithout
  <2>2. overlapped' \/ \A p \in ConsoleRequests : ~TakingAnOwner(p)
    BY <1>5 DEF Ask
  <2>3. \A p \in ConsoleRequests \ {q} : overlapped' \/ ~TakingAnOwner(p)'
    BY <1>3, <2>2
  <2> QED BY <1>1, <1>4, <2>1, <2>3 DEF OwnersKept
<1>6. CASE ~TakesAnOwner(does, of, newRole)
  <2>1. overlapped' <=> overlapped
    BY <1>6 DEF Ask
  <2>2. \A p \in ConsoleRequests : TakingAnOwner(p)' => TakingAnOwner(p) /\ asked'[p].of = asked[p].of
    BY <1>1, <1>2, <1>3, <1>6
  <2> QED BY <1>4, <2>1, <2>2 DEF Inv, OwnersKept
<1> QED BY <1>5, <1>6

\* Only a request that takes an owner commits to one owner less, and then no
\* other takes one: the row of whom it takes is its own.
LEMMA CommitKeepsOwners ==
  ASSUME Inv, NEW q \in ConsoleRequests, CommitRequest(q)
  PROVE  OwnersKept'
<1> DEFINE v == asked[q].of
<1>1. /\ role \in [Users -> Role \cup {"none"}] /\ v \in Users /\ role' = RoleAfter(q)
      /\ asked[q].does \in Does /\ overlapped' = overlapped /\ OwnersKept
      /\ \A p \in ConsoleRequests : asked[p].of \in Users
  BY DEF Inv, WorkspaceTypeOK, CommitRequest
<1>2. \A p \in ConsoleRequests : TakingAnOwner(p)' =>
        p # q /\ TakingAnOwner(p) /\ asked'[p].of = asked[p].of
  <2> SUFFICES ASSUME NEW p \in ConsoleRequests, TakingAnOwner(p)'
               PROVE  p # q /\ TakingAnOwner(p) /\ asked'[p].of = asked[p].of
    OBVIOUS
  <2>1. asked'[p].does \in Moving /\ role'[asked'[p].of] = "owner"
    BY DEF TakingAnOwner, TakesAnOwner, Moving
  <2>2. p # q /\ asked'[p] = asked[p]
    BY <2>1, CommitLeavesOthers DEF Moving
  <2>3. asked[q].does \notin Moving \/ asked[p].of # v
    BY <2>1, <2>2 DEF Inv, Apart
  <2>4. role[asked[p].of] = role'[asked[p].of]
    BY <1>1, <2>3, CommitLeavesOthers
  <2> QED BY <2>2, <2>4 DEF TakingAnOwner, TakesAnOwner
<1>3. CASE TakingAnOwner(q)
  <2>1. \A u \in Users : u # v => role'[u] = role[u]
    BY CommitLeavesOthers
  <2>2. \A u \in Owners \ {v} : u \in Owners'
    BY <2>1 DEF Owners
  <2>3. overlapped \/ (Owners \ {v} # {} /\ \A p \in ConsoleRequests : TakingAnOwner(p) => p = q)
    BY <1>1, <1>3 DEF OwnersKept
  <2> QED BY <1>1, <1>2, <2>2, <2>3 DEF OwnersKept
<1>4. CASE ~TakingAnOwner(q)
  <2>1. StillSo(q)
    BY CommitLeavesOthers
  <2>2. role[v] = "owner" => role'[v] = "owner"
    <3>1. CASE asked[q].does = "join"
      BY <2>1, <3>1 DEF StillSo
    <3>2. CASE asked[q].does = "remove"
      BY <1>4, <3>2 DEF TakingAnOwner, TakesAnOwner
    <3>3. CASE asked[q].does = "set role"
      <4>1. role'[v] = asked[q].role
        BY <1>1, <3>3 DEF RoleAfter
      <4> QED BY <1>4, <3>3, <4>1 DEF TakingAnOwner, TakesAnOwner
    <3>4. CASE asked[q].does \notin {"join", "remove", "set role"}
      BY <1>1, <3>4 DEF RoleAfter
    <3> QED BY <3>1, <3>2, <3>3, <3>4
  <2>3. \A u \in Users : role[u] = "owner" => role'[u] = "owner"
    BY <2>2, CommitLeavesOthers
  <2> QED BY <1>1, <1>2, <2>3, OwnersFramed
<1> QED BY <1>3, <1>4

----------------------------------------------------------------------------
(* The steps *)

LEMMA InitHolds ==
  WorkspaceInit => Inv
<1> SUFFICES ASSUME WorkspaceInit
             PROVE  Inv
  OBVIOUS
<1>1. WorkspaceTypeOK
  BY InitTyped
<1>2. \A q \in ConsoleRequests : asked[q].does = "nothing"
  BY DEF WorkspaceInit, NoRequest
<1>3. SeatsAreNotOversold
  <2>1. Members = {Founder} /\ Pending = {} /\ Adding = {}
    BY <1>2, WorkspaceAssumption DEF WorkspaceInit, Members, Pending, Adding
  <2>2. Cardinality(Members) = 1 /\ Cardinality(Pending) = 0 /\ Cardinality(Adding) = 0
    BY <2>1, FS_EmptySet, FS_Singleton
  <2>3. Cardinality(ConsoleRequests) \in Nat /\ Cardinality(ConsoleRequests) # 0
    BY FS_CardinalityType, FS_EmptySet, WorkspaceAssumption
  <2> QED BY <2>2, <2>3 DEF WorkspaceInit, SeatsAreNotOversold, SeatsUsed
<1>4. \A i \in Invitations : LinkFacts(i)
  BY DEF WorkspaceInit, LinkFacts
<1>5. \A p, q \in ConsoleRequests : p # q => Apart(p, q)
  BY <1>2 DEF Apart, InFlight, Moving
<1>6. OwnersKept
  <2>1. Founder \in Owners
    BY WorkspaceAssumption DEF WorkspaceInit, Owners
  <2> QED BY <1>2, <2>1 DEF OwnersKept, TakingAnOwner, TakesAnOwner
<1> QED BY <1>1, <1>2, <1>3, <1>4, <1>5, <1>6 DEF Inv, WorkspaceInit, InFlight

\* One statement: what it decided holds of its own rows, and they were free.
LEMMA AskKeeps ==
  ASSUME Inv, NEW q \in ConsoleRequests, NEW does \in Does \ {"nothing"},
         NEW by \in Users, NEW of \in Users, NEW newRole \in Role \cup {"none"},
         NEW link \in Invitations \cup {"none"}, Ask(q, does, by, of, newRole, link),
         link # "none" => ~LocksLink(link),
         does \in Moving => ~LocksMember(of),
         does = "invite" => SeatAvailable,
         TakesAnOwner(does, of, newRole) => OwnerWithout(of),
         StillSo(q)'
  PROVE  Inv'
<1>1. WorkspaceTypeOK'
  BY AskTyped DEF Inv
<1>2. SeatsAreNotOversold'
  BY <1>1, AskKeepsSeats
<1>3. \A p, r \in ConsoleRequests : p # r => Apart(p, r)'
  BY AskedApart
<1>4. \A p \in ConsoleRequests : InFlight(p)' => StillSo(p)'
  BY AskedStillSo
<1>5. \A i \in Invitations : LinkFacts(i)'
  BY DEF Ask, Inv, LinkFacts
<1>6. seats' <= peak'
  BY DEF Ask, Inv
<1>7. OwnersKept'
  BY AskKeepsOwners
<1> QED BY <1>1, <1>2, <1>3, <1>4, <1>5, <1>6, <1>7 DEF Inv

LEMMA StatementKeeps ==
  ASSUME Inv, NEW q \in ConsoleRequests, Statement(q)
  PROVE  Inv'
<1>0. WorkspaceTypeOK /\ "none" \notin Role
  BY DEF Inv, Role
<1>1. ASSUME NEW i \in Invitations, Accept(q, i)
      PROVE  Inv'
  <2>1. Ask(q, "join", invited[i].to, invited[i].to, invited[i].role, i) /\ ~LocksLink(i)
        /\ ~LocksMember(invited[i].to)
    BY <1>1 DEF Accept
  <2>2. invited[i].to \in Users /\ invited[i].role \in Role \cup {"none"} /\ "join" \in Does \ {"nothing"}
    BY <1>0 DEF WorkspaceTypeOK, Invitation, Does
  <2>3. /\ asked'[q].does = "join" /\ asked'[q].of = invited[i].to /\ asked'[q].role = invited[i].role
        /\ asked'[q].link = i /\ role' = role /\ invited' = invited
    BY <1>0, <2>1 DEF WorkspaceTypeOK, Ask
  <2>4. /\ invited[i].state = "pending" /\ role[invited[i].to] = "none"
        /\ invited[i].role # "none"
    BY <1>0, <1>1 DEF WorkspaceTypeOK, Invitation, Accept, MayJoin
  <2>5. StillSo(q)'
    BY <2>3, <2>4 DEF StillSo
  <2> QED BY <2>1, <2>2, <2>5, AskKeeps DEF Moving, TakesAnOwner
<1>2. ASSUME NEW i \in Invitations, AcceptAgain(q, i)
      PROVE  Inv'
  <2>1. Ask(q, "mark", invited[i].to, invited[i].to, "none", i) /\ ~LocksLink(i)
    BY <1>2 DEF AcceptAgain
  <2>2. invited[i].to \in Users /\ "none" \in Role \cup {"none"} /\ "mark" \in Does \ {"nothing"}
    BY <1>0 DEF WorkspaceTypeOK, Invitation, Does
  <2>3. /\ asked'[q].does = "mark" /\ asked'[q].of = invited[i].to /\ asked'[q].role = "none"
        /\ asked'[q].link = i /\ role' = role /\ invited' = invited
    BY <1>0, <2>1 DEF WorkspaceTypeOK, Ask
  <2>4. invited[i].state \in {"pending", "accepted"}
    BY <1>0, <1>2 DEF AcceptAgain
  <2>5. StillSo(q)'
    BY <2>3, <2>4 DEF StillSo
  <2> QED BY <2>1, <2>2, <2>5, AskKeeps DEF Moving, TakesAnOwner
<1>3. ASSUME NEW u \in Users, NEW i \in Invitations, Revoke(q, u, i)
      PROVE  Inv'
  <2>1. Ask(q, "revoke", u, invited[i].to, "none", i) /\ ~LocksLink(i)
    BY <1>3 DEF Revoke
  <2>2. invited[i].to \in Users /\ "none" \in Role \cup {"none"} /\ "revoke" \in Does \ {"nothing"}
    BY <1>0 DEF WorkspaceTypeOK, Invitation, Does
  <2>3. /\ asked'[q].does = "revoke" /\ asked'[q].of = invited[i].to /\ asked'[q].role = "none"
        /\ asked'[q].link = i /\ role' = role /\ invited' = invited
    BY <1>0, <2>1 DEF WorkspaceTypeOK, Ask
  <2>4. invited[i].state \in {"pending", "revoked"}
    BY <1>0, <1>3 DEF Revoke
  <2>5. StillSo(q)'
    BY <2>3, <2>4 DEF StillSo
  <2> QED BY <2>1, <2>2, <2>5, AskKeeps DEF Moving, TakesAnOwner
<1>4. ASSUME NEW u \in Users, NEW i \in Invitations, NEW v \in Users, NEW r \in Role, Invite(q, u, v, r, i)
      PROVE  Inv'
  <2>1. Ask(q, "invite", u, v, r, i) /\ ~LocksLink(i) /\ SeatAvailable
    BY <1>4 DEF Invite
  <2>2. v \in Users /\ r \in Role \cup {"none"} /\ "invite" \in Does \ {"nothing"}
    BY <1>0 DEF WorkspaceTypeOK, Invitation, Does
  <2>3. /\ asked'[q].does = "invite" /\ asked'[q].of = v /\ asked'[q].role = r
        /\ asked'[q].link = i /\ role' = role /\ invited' = invited
    BY <1>0, <2>1 DEF WorkspaceTypeOK, Ask
  <2>4. invited[i].state = "none" /\ r # "none"
    BY <1>0, <1>4 DEF Invite
  <2>5. StillSo(q)'
    BY <2>3, <2>4 DEF StillSo
  <2> QED BY <2>1, <2>2, <2>5, AskKeeps DEF Moving, TakesAnOwner
<1>5. ASSUME NEW u \in Users, NEW v \in Users, RemoveMember(q, u, v)
      PROVE  Inv'
  <2>1. Ask(q, "remove", u, v, "none", "none") /\ ~LocksMember(v)
    BY <1>5 DEF RemoveMember
  <2>2. v \in Users /\ "none" \in Role \cup {"none"} /\ "remove" \in Does \ {"nothing"}
    BY <1>0 DEF WorkspaceTypeOK, Invitation, Does
  <2>3. /\ asked'[q].does = "remove" /\ asked'[q].of = v /\ asked'[q].role = "none"
        /\ asked'[q].link = "none" /\ role' = role /\ invited' = invited
    BY <1>0, <2>1 DEF WorkspaceTypeOK, Ask
  <2>4. role[v] # "none"
    BY <1>0, <1>5 DEF RemoveMember, Members
  <2>5. StillSo(q)'
    BY <2>3, <2>4 DEF StillSo
  <2>6. OwnerWithout(v)
    BY <1>5 DEF RemoveMember
  <2> QED BY <2>1, <2>2, <2>5, <2>6, AskKeeps DEF Moving
<1>6. ASSUME NEW u \in Users, NEW v \in Users, NEW r \in Role, ChangeRole(q, u, v, r)
      PROVE  Inv'
  <2>1. Ask(q, "set role", u, v, r, "none") /\ ~LocksMember(v)
    BY <1>6 DEF ChangeRole
  <2>2. v \in Users /\ r \in Role \cup {"none"} /\ "set role" \in Does \ {"nothing"}
    BY <1>0 DEF WorkspaceTypeOK, Invitation, Does
  <2>3. /\ asked'[q].does = "set role" /\ asked'[q].of = v /\ asked'[q].role = r
        /\ asked'[q].link = "none" /\ role' = role /\ invited' = invited
    BY <1>0, <2>1 DEF WorkspaceTypeOK, Ask
  <2>4. role[v] # "none" /\ r # "none"
    BY <1>0, <1>6 DEF ChangeRole, Members
  <2>5. StillSo(q)'
    BY <2>3, <2>4 DEF StillSo
  <2>6. TakesAnOwner("set role", v, r) => OwnerWithout(v)
    BY <1>6 DEF ChangeRole, TakesAnOwner
  <2> QED BY <2>1, <2>2, <2>5, <2>6, AskKeeps DEF Moving
<1> QED BY <1>1, <1>2, <1>3, <1>4, <1>5, <1>6 DEF Statement

LEMMA CommitKeeps ==
  ASSUME Inv, NEW q \in ConsoleRequests, CommitRequest(q)
  PROVE  Inv'
<1>1. WorkspaceTypeOK'
  BY CommitTyped, CommitLeavesOthers DEF Inv
<1>2. seats' <= peak'
  BY DEF CommitRequest, Inv
<1> QED BY <1>1, <1>2, CommitStillSo, CommitApart, CommitLinks, CommitKeepsSeats, CommitKeepsOwners
   DEF Inv

LEMMA LoseKeeps ==
  ASSUME Inv, NEW q \in ConsoleRequests, LoseRequest(q)
  PROVE  Inv'
<1>1. WorkspaceTypeOK'
  <2>1. NoRequest \in [does: Does, by: Users, of: Users, role: Role \cup {"none"},
                       link: Invitations \cup {"none"}]
    BY WorkspaceAssumption DEF NoRequest, Does
  <2> QED BY <2>1, WorkspaceAssumption DEF Inv, WorkspaceTypeOK, LoseRequest
<1>2. /\ asked'[q].does = "nothing"
      /\ \A p \in ConsoleRequests \ {q} : asked'[p] = asked[p]
  <2>1. DOMAIN asked = ConsoleRequests /\ asked' = [asked EXCEPT ![q] = NoRequest]
    BY DEF Inv, WorkspaceTypeOK, LoseRequest
  <2>2. NoRequest.does = "nothing"
    BY DEF NoRequest
  <2> QED BY <2>1, <2>2
<1>3. \A p \in ConsoleRequests : InFlight(p)' => StillSo(p)'
  <2> SUFFICES ASSUME NEW p \in ConsoleRequests, InFlight(p)' PROVE StillSo(p)'
    OBVIOUS
  <2>1. asked'[p] = asked[p] /\ InFlight(p) /\ UNCHANGED <<role, invited>>
    BY <1>2 DEF LoseRequest, InFlight
  <2>2. StillSo(p)
    BY <2>1 DEF Inv
  <2> QED BY <2>1, <2>2 DEF StillSo
<1>4. \A p, r \in ConsoleRequests : p # r => Apart(p, r)'
  <2> SUFFICES ASSUME NEW p \in ConsoleRequests, NEW r \in ConsoleRequests, p # r
               PROVE  Apart(p, r)'
    OBVIOUS
  <2>1. Apart(p, r)
    BY DEF Inv
  <2>2. CASE p = q \/ r = q
    BY <1>2, <2>2 DEF Apart, InFlight, Moving
  <2>3. CASE p # q /\ r # q
    BY <1>2, <2>1, <2>3 DEF Apart, InFlight
  <2> QED BY <2>2, <2>3
<1>5. \A i \in Invitations : LinkFacts(i)'
  BY DEF Inv, LoseRequest, LinkFacts
<1>6. SeatsAreNotOversold'
  <2>1. Members' = Members /\ Pending' = Pending /\ peak' = peak
    BY DEF LoseRequest, Members, Pending
  <2>2. Adding' \in SUBSET Adding
    BY <1>2 DEF Adding
  <2>3. /\ IsFiniteSet(Adding) /\ Cardinality(Members) \in Nat /\ Cardinality(Pending) \in Nat
        /\ Cardinality(Adding) \in Nat /\ Cardinality(ConsoleRequests) \in Nat /\ peak \in Nat
    BY Countable DEF Inv
  <2>4. Cardinality(Adding') <= Cardinality(Adding) /\ Cardinality(Adding') \in Nat
    BY <2>2, <2>3, FS_Subset, FS_CardinalityType
  <2> QED BY <2>1, <2>3, <2>4 DEF Inv, SeatsAreNotOversold, SeatsUsed
<1>7. seats' <= peak'
  BY DEF LoseRequest, Inv
<1>8. OwnersKept'
  <2>1. role' = role /\ overlapped' = overlapped /\ OwnersKept
    BY DEF LoseRequest, Inv
  <2>2. \A p \in ConsoleRequests : TakingAnOwner(p)' => TakingAnOwner(p) /\ asked'[p].of = asked[p].of
    BY <1>2, <2>1 DEF TakingAnOwner, TakesAnOwner
  <2> QED BY <2>1, <2>2, OwnersFramed
<1> QED BY <1>1, <1>3, <1>4, <1>5, <1>6, <1>7, <1>8 DEF Inv

LEMMA ExpiryKeeps ==
  ASSUME Inv, NEW i \in Invitations, InvitationExpires(i)
  PROVE  Inv'
<1>1. WorkspaceTypeOK' /\ \A j \in Invitations : invited'[j].state = invited[j].state
  <2>1. PICK row \in Invitation : row = [invited[i] EXCEPT !.expired = TRUE] /\ row.state = invited[i].state
    <3>1. \A old \in Invitation : /\ [old EXCEPT !.expired = TRUE] \in Invitation
                                  /\ [old EXCEPT !.expired = TRUE].state = old.state
      BY DEF Invitation
    <3>2. invited[i] \in Invitation
      BY DEF Inv, WorkspaceTypeOK
    <3> QED BY <3>1, <3>2
  <2>2. invited \in [Invitations -> Invitation] /\ invited' = [invited EXCEPT ![i] = row]
    BY <2>1 DEF Inv, WorkspaceTypeOK, InvitationExpires
  <2>3. /\ invited' \in [Invitations -> Invitation]
        /\ \A j \in Invitations : invited'[j].state = invited[j].state
    BY <2>1, <2>2
  <2> QED BY <2>3 DEF Inv, WorkspaceTypeOK, InvitationExpires
<1>2. \A j \in Invitations : invited'[j].state = invited[j].state
  BY <1>1
<1>3. \A p \in ConsoleRequests : InFlight(p)' => StillSo(p)'
  <2> SUFFICES ASSUME NEW p \in ConsoleRequests, InFlight(p)' PROVE StillSo(p)'
    OBVIOUS
  <2>1. asked' = asked /\ role' = role /\ InFlight(p)
    BY DEF InvitationExpires, InFlight
  <2>2. StillSo(p)
    BY <2>1 DEF Inv
  <2> QED BY <1>2, <2>1, <2>2 DEF StillSo
<1>4. \A p, r \in ConsoleRequests : p # r => Apart(p, r)'
  BY DEF Inv, InvitationExpires, InFlight, Apart
<1>5. \A j \in Invitations : LinkFacts(j)'
  BY <1>2 DEF Inv, InvitationExpires, LinkFacts
<1>6. Members' = Members /\ Pending' = Pending /\ Adding' = Adding /\ peak' = peak
  BY <1>2 DEF InvitationExpires, Members, Pending, Adding
<1>7. OwnersKept'
  BY DEF Inv, InvitationExpires, OwnersKept, Owners, TakingAnOwner, TakesAnOwner
<1> QED BY <1>1, <1>3, <1>4, <1>5, <1>6, <1>7 DEF Inv, InvitationExpires, SeatsAreNotOversold, SeatsUsed

LEMMA SeatsChangeKeeps ==
  ASSUME Inv, NEW n \in 1..MaxSeats, SeatsChange(n)
  PROVE  Inv'
<1>1. WorkspaceTypeOK' /\ peak' \in Nat /\ peak \in Nat /\ peak <= peak' /\ seats' <= peak'
  BY WorkspaceAssumption DEF Inv, WorkspaceTypeOK, SeatsChange
<1>2. \A p \in ConsoleRequests : InFlight(p)' => StillSo(p)'
  BY DEF Inv, SeatsChange, InFlight, StillSo
<1>3. \A p, r \in ConsoleRequests : p # r => Apart(p, r)'
  BY DEF Inv, SeatsChange, InFlight, Apart
<1>4. \A j \in Invitations : LinkFacts(j)'
  BY DEF Inv, SeatsChange, LinkFacts
<1>5. SeatsAreNotOversold'
  <2>1. Members' = Members /\ Pending' = Pending /\ Adding' = Adding
    BY DEF SeatsChange, Members, Pending, Adding
  <2>2. /\ Cardinality(Members) \in Nat /\ Cardinality(Pending) \in Nat
        /\ Cardinality(Adding) \in Nat /\ Cardinality(ConsoleRequests) \in Nat
    BY Countable DEF Inv
  <2> QED BY <1>1, <2>1, <2>2 DEF Inv, SeatsAreNotOversold, SeatsUsed
<1>6. OwnersKept'
  BY DEF Inv, SeatsChange, OwnersKept, Owners, TakingAnOwner, TakesAnOwner
<1> QED BY <1>1, <1>2, <1>3, <1>4, <1>5, <1>6 DEF Inv

LEMMA StepKeeps ==
  Inv /\ [WorkspaceNext]_workspaceVars => Inv'
<1> SUFFICES ASSUME Inv, [WorkspaceNext]_workspaceVars
             PROVE  Inv'
  OBVIOUS
<1>1. CASE WorkspaceNext
  BY <1>1, StatementKeeps, CommitKeeps, LoseKeeps, ExpiryKeeps, SeatsChangeKeeps DEF WorkspaceNext
<1>2. CASE UNCHANGED workspaceVars
  <2>1. /\ role' = role /\ invited' = invited /\ seats' = seats /\ asked' = asked
        /\ joined' = joined /\ peak' = peak /\ (overlapped' <=> overlapped)
        /\ losses' = losses
    BY <1>2 DEF workspaceVars
  <2>2. WorkspaceTypeOK' /\ seats' <= peak'
    <3>1. WorkspaceTypeOK'
      BY <1>2 DEF Inv, WorkspaceTypeOK, workspaceVars
    <3> QED
      BY <2>1, <3>1 DEF Inv
  <2>3. \A q \in ConsoleRequests : InFlight(q)' => StillSo(q)'
    BY <2>1 DEF Inv, InFlight, StillSo
  <2>4. \A p, q \in ConsoleRequests : p # q => Apart(p, q)'
    BY <2>1 DEF Inv, InFlight, Apart
  <2>5. \A i \in Invitations : LinkFacts(i)'
    BY <2>1 DEF Inv, LinkFacts
  <2>6. SeatsAreNotOversold'
    BY <2>1 DEF Inv, SeatsAreNotOversold, SeatsUsed, Members, Pending, Adding
  <2>7. OwnersKept'
    BY <2>1 DEF Inv, OwnersKept, Owners, TakingAnOwner, TakesAnOwner, InFlight
  <2> QED
    BY <2>2, <2>3, <2>4, <2>5, <2>6, <2>7 DEF Inv
<1> QED BY <1>1, <1>2

LEMMA Invariance ==
  WorkspaceSpec => []Inv
BY InitHolds, StepKeeps, PTL DEF WorkspaceSpec

----------------------------------------------------------------------------
(* Theorems *)

\* Memberships, invitations, seats and the requests in flight keep their types.
THEOREM WorkspaceTypeCorrect ==
  WorkspaceSpec => []WorkspaceTypeOK
<1>1. Inv => WorkspaceTypeOK
  BY DEF Inv
<1> QED BY <1>1, Invariance, PTL

\* However many requests overlap, and whatever the subscription does meanwhile,
\* a workspace has at most so many members and invitations more than the seats
\* it ever bought as requests that passed the trigger beside each other; and it
\* has an owner, unless two requests took one away beside each other.
THEOREM BrokenByOverlapOnly ==
  WorkspaceSpec => []TriggersKeep
<1>1. Inv => TriggersKeep
  BY DEF Inv, TriggersKeep, AnOwnerRemains, OwnersKept
<1> QED BY <1>1, Invariance, PTL

\* A link lets one person in once, for any number of clicks and withdrawals.
THEOREM OneEntryPerLink ==
  WorkspaceSpec => []LinkLetsInOnce
<1>1. Inv => LinkLetsInOnce
  BY DEF Inv, LinkFacts, LinkLetsInOnce
<1> QED BY <1>1, Invariance, PTL
============================================================================
