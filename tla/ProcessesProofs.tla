---------------------------- MODULE ProcessesProofs ----------------------------
(* The requests that race each other, for any number of them: the workspaces of *)
(* new users, the delegation of a work item, the registration of phones, the    *)
(* settings and API keys of a project, and the pool of connections. With the     *)
(* module OriginsProofs these are the parts of MCProcesses: the last section     *)
(* proves that each of them moves there as it moves alone.                       *)
EXTENDS MCProcesses, OriginsProofs, SequenceTheorems

(* ---- Workspaces ---- *)

\* A workspace's first member is its owner, and the owner of Team is not removed.
OwnersInv ==
  /\ [team |-> Team, person |-> Boss, role |-> "owner"] \in members
  /\ \A m \in members : m.team = Team \/ m.role = "owner"
  /\ \A r \in Removals : removing[r].member # Nothing => MayRemove(removing[r].member)
\* An invite that was not sent yet has no row, and nobody found one.
UnsentInv ==
  /\ \A i \in InviteIds : sending[i] # "new" => invites[i].person \in People
  /\ \A i \in InviteIds : sending[i] = "new" => invites[i].status = "none"
  /\ \A r \in Removals : removing[r].invite # Nothing => sending[removing[r].invite] # "new"
\* A bootstrap has its person's invites in hand, which keep their person.
BootInv(b) ==
  /\ boot[b].pc # "new" => boot[b].person \in People
  /\ boot[b].pc \in {"new", "check", "team", "owner", "list"} => boot[b].left = {}
  /\ \A i \in boot[b].left : sending[i] # "new" /\ invites[i].person = boot[b].person
  /\ boot[b].pc \in {"join", "accept"} =>
       /\ boot[b].invite \in InviteIds /\ sending[boot[b].invite] # "new"
       /\ invites[boot[b].invite].person = boot[b].person
  /\ boot[b].pc = "accept" => <<Team, boot[b].person>> \in joined
MembersJoined == \A m \in members : <<m.team, m.person>> \in joined
WorkspacesInv ==
  /\ WorkspacesTypeOK /\ OwnersInv /\ UnsentInv /\ MembersJoined /\ AcceptedMeansJoined
  /\ \A b \in Boots : BootInv(b)

LEMMA FoundType ==
  ASSUME WorkspacesTypeOK, NEW r \in Removals
  PROVE  removing[r].invite \in InviteIds \cup {Nothing} /\ removing[r].member \in Rows \cup {Nothing}
  BY DEF WorkspacesTypeOK

LEMMA WorkspacesInitially == WorkspacesInit => WorkspacesInv
<1> USE WorkspacesAssumption
<1> SUFFICES ASSUME WorkspacesInit PROVE WorkspacesInv
  OBVIOUS
<1>1. WorkspacesTypeOK
  BY DEF WorkspacesInit, WorkspacesTypeOK, Rows, MemberRoles
<1>2. OwnersInv /\ MembersJoined
  BY DEF WorkspacesInit, OwnersInv, MembersJoined
<1>3. UnsentInv /\ AcceptedMeansJoined
  BY DEF WorkspacesInit, UnsentInv, AcceptedMeansJoined
<1>4. \A b \in Boots : BootInv(b)
  BY DEF WorkspacesInit, BootInv
<1>5. QED
  BY <1>1, <1>2, <1>3, <1>4 DEF WorkspacesInv

LEMMA IsMemberJoined ==
  ASSUME MembersJoined, NEW t, NEW p, IsMember(t, p)
  PROVE  <<t, p>> \in joined
  BY DEF IsMember, TeamsOf, MembersJoined


\* What a bootstrap's record may hold, and what a step makes of it.
BootPcs == {"new", "check", "team", "owner", "list", "each", "join", "accept", "done", "dead"}
SomePeople == People \cup {Nothing}
SomeInvites == SUBSET InviteIds
AnInvite == InviteIds \cup {Nothing}
BootFun == [Boots -> [pc : BootPcs, person : SomePeople, left : SomeInvites, invite : AnInvite]]
BootIs(b, pc, person, left, invite) ==
  /\ boot' \in BootFun /\ \A c \in Boots \ {b} : boot'[c] = boot[c]
  /\ boot'[b].pc = pc /\ boot'[b].person = person /\ boot'[b].left = left /\ boot'[b].invite = invite

LEMMA BootType == WorkspacesTypeOK => boot \in BootFun
  BY DEF WorkspacesTypeOK, BootFun, BootPcs, SomePeople, SomeInvites, AnInvite

LEMMA SetBootPc ==
  ASSUME boot \in BootFun, NEW b \in Boots, NEW v \in BootPcs, boot' = [boot EXCEPT ![b].pc = v]
  PROVE  BootIs(b, v, boot[b].person, boot[b].left, boot[b].invite)
  BY DEF BootFun, BootIs
LEMMA SetPerson ==
  ASSUME boot \in BootFun, NEW b \in Boots, NEW v \in BootPcs, NEW p \in SomePeople,
         boot' = [boot EXCEPT ![b].pc = v, ![b].person = p]
  PROVE  BootIs(b, v, p, boot[b].left, boot[b].invite)
  BY DEF BootFun, BootIs
LEMMA SetLeft ==
  ASSUME boot \in BootFun, NEW b \in Boots, NEW v \in BootPcs, NEW l \in SomeInvites,
         boot' = [boot EXCEPT ![b].pc = v, ![b].left = l]
  PROVE  BootIs(b, v, boot[b].person, l, boot[b].invite)
  BY DEF BootFun, BootIs
LEMMA SetInvite ==
  ASSUME boot \in BootFun, NEW b \in Boots, NEW v \in BootPcs, NEW l \in SomeInvites, NEW i \in AnInvite,
         boot' = [boot EXCEPT ![b].left = l, ![b].invite = i, ![b].pc = v]
  PROVE  BootIs(b, v, boot[b].person, l, i)
  BY DEF BootFun, BootIs

\* The steps of a bootstrap, by what they make of its record.
LEMMA BootSteps ==
  ASSUME WorkspacesTypeOK, NEW b \in Boots
  PROVE  /\ SignUp(b) => boot[b].pc = "new" /\ \E p \in People : BootIs(b, "check", p, boot[b].left, boot[b].invite)
         /\ FirstPage(b) => boot[b].pc = "new" /\ \E p \in accounts : BootIs(b, "check", p, boot[b].left, boot[b].invite)
         /\ CheckNone(b) => boot[b].pc = "check" /\ \E v \in {"team", "list"} :
              BootIs(b, v, boot[b].person, boot[b].left, boot[b].invite)
         /\ MakeTeam(b) => boot[b].pc = "team" /\ BootIs(b, "owner", boot[b].person, boot[b].left, boot[b].invite)
         /\ MakeOwner(b) => boot[b].pc = "owner" /\ BootIs(b, "list", boot[b].person, boot[b].left, boot[b].invite)
         /\ BootDies(b) => boot[b].pc # "new" /\ BootIs(b, "dead", boot[b].person, boot[b].left, boot[b].invite)
         /\ AcceptInvite(b) => boot[b].pc = "accept" /\ BootIs(b, "each", boot[b].person, boot[b].left, boot[b].invite)
         /\ JoinTeam(b) => boot[b].pc = "join" /\ \E v \in {"dead", "accept"} :
              BootIs(b, v, boot[b].person, boot[b].left, boot[b].invite)
<1>1. boot \in BootFun /\ {"check", "team", "list", "owner", "dead", "each", "accept"} \subseteq BootPcs
      /\ People \subseteq SomePeople /\ accounts \subseteq SomePeople
  BY BootType DEF BootPcs, SomePeople, WorkspacesTypeOK
<1>2. SignUp(b) => boot[b].pc = "new" /\ \E p \in People : BootIs(b, "check", p, boot[b].left, boot[b].invite)
  <2>1. SUFFICES ASSUME SignUp(b) PROVE \E p \in People : BootIs(b, "check", p, boot[b].left, boot[b].invite)
    BY DEF SignUp
  <2>2. PICK p \in People : boot' = [boot EXCEPT ![b].pc = "check", ![b].person = p]
    BY <2>1, Zenon DEF SignUp
  <2>3. QED
    BY <1>1, <2>2, SetPerson
<1>3. FirstPage(b) => boot[b].pc = "new" /\ \E p \in accounts : BootIs(b, "check", p, boot[b].left, boot[b].invite)
  <2>1. SUFFICES ASSUME FirstPage(b) PROVE \E p \in accounts : BootIs(b, "check", p, boot[b].left, boot[b].invite)
    BY DEF FirstPage
  <2>2. PICK p \in accounts : boot' = [boot EXCEPT ![b].pc = "check", ![b].person = p]
    BY <2>1, Zenon DEF FirstPage
  <2>3. QED
    BY <1>1, <2>2, SetPerson
<1>4. CheckNone(b) => boot[b].pc = "check" /\ \E v \in {"team", "list"} :
        BootIs(b, v, boot[b].person, boot[b].left, boot[b].invite)
  <2>1. SUFFICES ASSUME CheckNone(b)
                 PROVE  \E v \in {"team", "list"} : BootIs(b, v, boot[b].person, boot[b].left, boot[b].invite)
    BY DEF CheckNone
  <2>2. PICK v \in {"team", "list"} : boot' = [boot EXCEPT ![b].pc = v]
    BY <2>1, Zenon DEF CheckNone
  <2>3. QED
    BY <1>1, <2>2, SetBootPc
<1>5. MakeTeam(b) => boot[b].pc = "team" /\ BootIs(b, "owner", boot[b].person, boot[b].left, boot[b].invite)
  BY <1>1, SetBootPc DEF MakeTeam
<1>6. MakeOwner(b) => boot[b].pc = "owner" /\ BootIs(b, "list", boot[b].person, boot[b].left, boot[b].invite)
  BY <1>1, SetBootPc DEF MakeOwner
<1>7. BootDies(b) => boot[b].pc # "new" /\ BootIs(b, "dead", boot[b].person, boot[b].left, boot[b].invite)
  BY <1>1, SetBootPc DEF BootDies
<1>8. AcceptInvite(b) => boot[b].pc = "accept" /\ BootIs(b, "each", boot[b].person, boot[b].left, boot[b].invite)
  BY <1>1, SetBootPc DEF AcceptInvite
<1>9. JoinTeam(b) => boot[b].pc = "join" /\ \E v \in {"dead", "accept"} :
        BootIs(b, v, boot[b].person, boot[b].left, boot[b].invite)
  <2>1. SUFFICES ASSUME JoinTeam(b)
                 PROVE  \E v \in {"dead", "accept"} : BootIs(b, v, boot[b].person, boot[b].left, boot[b].invite)
    BY DEF JoinTeam
  <2>2. PICK v \in {"dead", "accept"} : boot' = [boot EXCEPT ![b].pc = v]
    BY <2>1, Zenon DEF JoinTeam
  <2>3. QED
    BY <1>1, <2>2, SetBootPc
<1>10. QED
  BY <1>2, <1>3, <1>4, <1>5, <1>6, <1>7, <1>8, <1>9

LEMMA BootTypeStays ==
  ASSUME WorkspacesTypeOK, boot' \in BootFun, accounts' \subseteq People, teams' \subseteq Boots \cup {Team},
         failures' \in Nat, UNCHANGED <<members, joined, invites, sending, removing>>
  PROVE  WorkspacesTypeOK'
  BY DEF WorkspacesTypeOK, BootFun, BootPcs, SomePeople, SomeInvites, AnInvite

\* The other bootstraps are not touched by a step of one, as long as invites that
\* were sent keep their person and members stay on record.
LEMMA OtherBoots ==
  ASSUME \A c \in Boots : BootInv(c), NEW b \in Boots, \A c \in Boots \ {b} : boot'[c] = boot[c], BootInv(b)',
         joined \subseteq joined',
         \A i \in InviteIds : sending[i] # "new" => sending'[i] # "new" /\ invites'[i].person = invites[i].person,
         \A c \in Boots : boot[c].left \subseteq InviteIds
  PROVE  \A c \in Boots : BootInv(c)'
<1>1. SUFFICES ASSUME NEW c \in Boots \ {b} PROVE BootInv(c)'
  OBVIOUS
<1>2. BootInv(c) /\ boot'[c] = boot[c]
  OBVIOUS
<1>3. QED
  BY <1>2 DEF BootInv

LEMMA LeftType == WorkspacesTypeOK => \A c \in Boots : boot[c].left \subseteq InviteIds
  BY DEF WorkspacesTypeOK

\* A step of a bootstrap that leaves members and invites alone.
LEMMA BootMoves ==
  ASSUME WorkspacesInv, NEW b \in Boots,
         SignUp(b) \/ FirstPage(b) \/ CheckNone(b) \/ MakeTeam(b) \/ ListInvites(b) \/ NextInvite(b) \/ BootDies(b)
  PROVE  WorkspacesInv'
<1> USE WorkspacesAssumption
<1>1. UNCHANGED <<members, joined, invites, sending, removing>>
  BY DEF SignUp, FirstPage, CheckNone, MakeTeam, ListInvites, NextInvite, BootDies
<1>2. WorkspacesTypeOK /\ BootInv(b) /\ UnsentInv /\ MembersJoined
  BY DEF WorkspacesInv
<1>3. accounts' \subseteq People /\ teams' \subseteq Boots \cup {Team} /\ failures' \in Nat
  <2>1. accounts \subseteq People /\ teams \subseteq Boots \cup {Team} /\ failures \in Nat
    BY <1>2 DEF WorkspacesTypeOK
  <2>2. accounts' \subseteq People
    <3>1. CASE SignUp(b)
      <4>1. \E p \in People : accounts' = accounts \cup {p}
        BY <3>1, Zenon DEF SignUp
      <4>2. QED
        BY <2>1, <4>1
    <3>2. CASE ~SignUp(b)
      BY <2>1, <3>2 DEF FirstPage, CheckNone, MakeTeam, ListInvites, NextInvite, BootDies
    <3>3. QED
      BY <3>1, <3>2
  <2>3. teams' \subseteq Boots \cup {Team}
    BY <2>1 DEF SignUp, FirstPage, CheckNone, MakeTeam, ListInvites, NextInvite, BootDies
  <2>4. failures' \in Nat
    <3>1. CASE BootDies(b)
      BY <2>1, <3>1 DEF BootDies
    <3>2. CASE SignUp(b)
      BY <2>1, <3>2 DEF SignUp
    <3>3. CASE ~SignUp(b) /\ ~BootDies(b)
      BY <2>1, <3>3 DEF FirstPage, CheckNone, MakeTeam, ListInvites, NextInvite
    <3>4. QED
      BY <3>1, <3>2, <3>3
  <2>5. QED
    BY <2>2, <2>3, <2>4
<1>4. boot' \in BootFun /\ (\A c \in Boots \ {b} : boot'[c] = boot[c]) /\ BootInv(b)'
  <2>1. CASE SignUp(b)
    BY <1>1, <1>2, <2>1, BootSteps DEF BootIs, BootInv
  <2>2. CASE FirstPage(b)
    <3>1. accounts \subseteq People
      BY <1>2 DEF WorkspacesTypeOK
    <3>2. QED
      BY <1>1, <1>2, <2>2, <3>1, BootSteps DEF BootIs, BootInv
  <2>3. CASE CheckNone(b)
    BY <1>1, <1>2, <2>3, BootSteps DEF BootIs, BootInv
  <2>4. CASE MakeTeam(b)
    BY <1>1, <1>2, <2>4, BootSteps DEF BootIs, BootInv
  <2>5. CASE BootDies(b)
    BY <1>1, <1>2, <2>5, BootSteps DEF BootIs, BootInv
  <2>6. CASE ListInvites(b)
    <3> DEFINE mine == {i \in InviteIds : invites[i].person = boot[b].person /\ invites[i].status = "pending"}
    <3>1. boot' = [boot EXCEPT ![b].pc = "each", ![b].left = mine]
      BY <2>6 DEF ListInvites
    <3>2. BootIs(b, "each", boot[b].person, mine, boot[b].invite)
      <4>1. "each" \in BootPcs /\ mine \in SomeInvites /\ boot \in BootFun
        BY <1>2, BootType DEF BootPcs, SomeInvites
      <4>2. QED
        BY <3>1, <4>1, SetLeft
    <3>3. \A i \in mine : sending[i] # "new" /\ invites[i].person = boot[b].person
      BY <1>2 DEF UnsentInv
    <3> HIDE DEF mine
    <3>4. boot[b].person \in People
      BY <1>2, <2>6 DEF ListInvites, BootInv
    <3>5. QED
      BY <1>1, <3>2, <3>3, <3>4 DEF BootIs, BootInv
  <2>7. CASE NextInvite(b) /\ boot[b].left = {}
    <3>1. boot' = [boot EXCEPT ![b].pc = "done"]
      BY <2>7 DEF NextInvite
    <3>2. BootIs(b, "done", boot[b].person, boot[b].left, boot[b].invite)
      BY <1>2, <3>1, BootType, SetBootPc DEF BootPcs
    <3>3. boot[b].pc = "each"
      BY <2>7 DEF NextInvite
    <3>4. QED
      BY <1>1, <1>2, <3>2, <3>3 DEF BootIs, BootInv
  <2>8. CASE NextInvite(b) /\ boot[b].left # {}
    <3>1. boot[b].pc = "each" /\ \E i \in boot[b].left : \E v \in {"each", "accept", "join"} :
            /\ v = "accept" => IsMember(Team, boot[b].person)
            /\ boot' = [boot EXCEPT ![b].left = boot[b].left \ {i}, ![b].invite = i, ![b].pc = v]
      <4>1. boot[b].pc = "each"
        BY <2>8 DEF NextInvite
      <4>2. PICK i \in boot[b].left :
              boot' = [boot EXCEPT ![b].left = boot[b].left \ {i}, ![b].invite = i,
                         ![b].pc = IF invites[i].status = "expired" THEN "each"
                                    ELSE IF IsMember(Team, boot[b].person) THEN "accept" ELSE "join"]
        BY <2>8, Zenon DEF NextInvite
      <4> DEFINE v == IF invites[i].status = "expired" THEN "each"
                      ELSE IF IsMember(Team, boot[b].person) THEN "accept" ELSE "join"
      <4>3. v \in {"each", "accept", "join"} /\ (v = "accept" => IsMember(Team, boot[b].person))
        OBVIOUS
      <4>4. boot' = [boot EXCEPT ![b].left = boot[b].left \ {i}, ![b].invite = i, ![b].pc = v]
        BY <4>2
      <4> HIDE DEF v
      <4>5. QED
        BY <4>1, <4>3, <4>4, Zenon
    <3>2. PICK i \in boot[b].left, v \in {"each", "accept", "join"} :
            /\ v = "accept" => IsMember(Team, boot[b].person)
            /\ boot' = [boot EXCEPT ![b].left = boot[b].left \ {i}, ![b].invite = i, ![b].pc = v]
      BY <3>1, Zenon
    <3>3. boot[b].left \subseteq InviteIds
      BY <1>2, LeftType
    <3>4. BootIs(b, v, boot[b].person, boot[b].left \ {i}, i)
      <4>1. v \in BootPcs /\ boot[b].left \ {i} \in SomeInvites /\ i \in AnInvite /\ boot \in BootFun
        BY <1>2, <3>3, BootType DEF BootPcs, SomeInvites, AnInvite
      <4>2. QED
        BY <3>2, <4>1, SetInvite
    <3>5. v = "accept" => <<Team, boot[b].person>> \in joined
      BY <1>2, <3>2, IsMemberJoined
    <3>6. i \in InviteIds /\ sending[i] # "new" /\ invites[i].person = boot[b].person
      BY <1>2, <3>3 DEF BootInv
    <3>7. \A j \in boot[b].left : sending[j] # "new" /\ invites[j].person = boot[b].person
      BY <1>2 DEF BootInv
    <3>8. BootInv(b)'
      <4>1. boot'[b].pc = v /\ boot'[b].person = boot[b].person /\ boot'[b].left = boot[b].left \ {i}
            /\ boot'[b].invite = i
        BY <3>4 DEF BootIs
      <4>2. v \notin {"new", "check", "team", "owner", "list"}
        BY <3>2
      <4>3. boot[b].person \in People
        BY <1>2, <3>1 DEF BootInv
      <4>4. QED
        BY <1>1, <3>5, <3>6, <3>7, <4>1, <4>2, <4>3 DEF BootInv
    <3>9. QED
      BY <3>4, <3>8 DEF BootIs
  <2>9. QED
    BY <2>1, <2>2, <2>3, <2>4, <2>5, <2>6, <2>7, <2>8
<1>5. WorkspacesTypeOK'
  BY <1>1, <1>2, <1>3, <1>4, BootTypeStays
<1>6. \A c \in Boots : BootInv(c)'
  BY <1>1, <1>2, <1>4, LeftType, OtherBoots DEF WorkspacesInv
<1>7. OwnersInv' /\ UnsentInv' /\ MembersJoined' /\ AcceptedMeansJoined'
  BY <1>1 DEF WorkspacesInv, OwnersInv, UnsentInv, MembersJoined, AcceptedMeansJoined
<1>8. QED
  BY <1>5, <1>6, <1>7 DEF WorkspacesInv

\* The owner of a workspace that was just made is its first member.
LEMMA OwnerKeeps ==
  ASSUME WorkspacesInv, NEW b \in Boots, MakeOwner(b)
  PROVE  WorkspacesInv'
<1> USE WorkspacesAssumption
<1>1. /\ members' = members \cup {[team |-> b, person |-> boot[b].person, role |-> "owner"]}
      /\ joined' = joined \cup {<<b, boot[b].person>>}
      /\ UNCHANGED <<accounts, teams, invites, sending, removing, failures>>
  BY DEF MakeOwner, Join
<1>2. WorkspacesTypeOK /\ BootInv(b) /\ boot[b].pc = "owner"
  BY DEF WorkspacesInv, MakeOwner
<1>3. BootIs(b, "list", boot[b].person, boot[b].left, boot[b].invite)
  BY <1>2, BootSteps
<1>4. BootInv(b)'
  BY <1>1, <1>2, <1>3 DEF BootIs, BootInv
<1>5. \A c \in Boots : BootInv(c)'
  BY <1>1, <1>2, <1>3, <1>4, LeftType, OtherBoots DEF WorkspacesInv, BootIs
<1>6. OwnersInv' /\ UnsentInv' /\ MembersJoined' /\ AcceptedMeansJoined'
  BY <1>1 DEF WorkspacesInv, OwnersInv, UnsentInv, MembersJoined, AcceptedMeansJoined
<1>7. WorkspacesTypeOK'
  <2>1. boot[b].person \in People
    BY <1>2 DEF BootInv
  <2>2. [team |-> b, person |-> boot[b].person, role |-> "owner"] \in Rows
    BY <2>1 DEF Rows, MemberRoles
  <2>3. members' \subseteq Rows /\ joined' \subseteq (Boots \cup {Team}) \X (People \cup {Boss})
    BY <1>1, <1>2, <2>1, <2>2 DEF WorkspacesTypeOK
  <2>4. boot' \in BootFun
    BY <1>3 DEF BootIs
  <2>5. QED
    BY <1>1, <1>2, <2>3, <2>4 DEF WorkspacesTypeOK, BootFun, BootPcs, SomePeople, SomeInvites, AnInvite
<1>8. QED
  BY <1>5, <1>6, <1>7 DEF WorkspacesInv

\* A bootstrap makes its person a member of Team, unless somebody has meanwhile.
LEMMA JoinKeeps ==
  ASSUME WorkspacesInv, NEW b \in Boots, JoinTeam(b)
  PROVE  WorkspacesInv'
<1> USE WorkspacesAssumption
<1>1. WorkspacesTypeOK /\ BootInv(b) /\ boot[b].pc = "join" /\ UNCHANGED <<accounts, teams, invites, sending, removing, failures>>
  BY DEF WorkspacesInv, JoinTeam
<1>2. CASE IsMember(Team, boot[b].person)
  <2>1. boot' = [boot EXCEPT ![b].pc = "dead"] /\ UNCHANGED <<members, joined>>
    BY <1>2 DEF JoinTeam
  <2>2. BootIs(b, "dead", boot[b].person, boot[b].left, boot[b].invite)
    BY <1>1, <2>1, BootType, SetBootPc DEF BootPcs
  <2>3. BootInv(b)'
    BY <1>1, <2>1, <2>2 DEF BootIs, BootInv
  <2>4. \A c \in Boots : BootInv(c)'
    BY <1>1, <2>1, <2>2, <2>3, LeftType, OtherBoots DEF WorkspacesInv, BootIs
  <2>5. OwnersInv' /\ UnsentInv' /\ MembersJoined' /\ AcceptedMeansJoined'
    BY <1>1, <2>1 DEF WorkspacesInv, OwnersInv, UnsentInv, MembersJoined, AcceptedMeansJoined
  <2>6. WorkspacesTypeOK'
    BY <1>1, <2>1, <2>2 DEF BootIs, WorkspacesTypeOK, BootFun, BootPcs, SomePeople, SomeInvites, AnInvite
  <2>7. QED
    BY <2>4, <2>5, <2>6 DEF WorkspacesInv
<1>3. CASE ~IsMember(Team, boot[b].person)
  <2> DEFINE r == invites[boot[b].invite].role
  <2>1. /\ boot' = [boot EXCEPT ![b].pc = "accept"]
        /\ members' = members \cup {[team |-> Team, person |-> boot[b].person, role |-> r]}
        /\ joined' = joined \cup {<<Team, boot[b].person>>}
    BY <1>3 DEF JoinTeam, Join
  <2>2. boot[b].person \in People /\ boot[b].invite \in InviteIds
    BY <1>1 DEF BootInv
  <2>3. r \in {"admin", "member"}
    BY <1>1, <2>2 DEF WorkspacesTypeOK
  <2> HIDE DEF r
  <2>4. BootIs(b, "accept", boot[b].person, boot[b].left, boot[b].invite)
    BY <1>1, <2>1, BootType, SetBootPc DEF BootPcs
  <2>5. BootInv(b)'
    BY <1>1, <2>1, <2>4 DEF BootIs, BootInv
  <2>6. \A c \in Boots : BootInv(c)'
    BY <1>1, <2>1, <2>4, <2>5, LeftType, OtherBoots DEF WorkspacesInv, BootIs
  <2>7. OwnersInv' /\ UnsentInv' /\ MembersJoined' /\ AcceptedMeansJoined'
    BY <1>1, <2>1 DEF WorkspacesInv, OwnersInv, UnsentInv, MembersJoined, AcceptedMeansJoined
  <2>8. [team |-> Team, person |-> boot[b].person, role |-> r] \in Rows
    BY <2>2, <2>3 DEF Rows, MemberRoles
  <2>9. members' \subseteq Rows /\ joined' \subseteq (Boots \cup {Team}) \X (People \cup {Boss})
    BY <1>1, <2>1, <2>2, <2>8 DEF WorkspacesTypeOK
  <2>10. WorkspacesTypeOK'
    BY <1>1, <2>4, <2>9 DEF BootIs, WorkspacesTypeOK, BootFun, BootPcs, SomePeople, SomeInvites, AnInvite
  <2>11. QED
    BY <2>6, <2>7, <2>10 DEF WorkspacesInv
<1>4. QED
  BY <1>2, <1>3

\* What a step makes of an invite.
InviteStatus == {"none", "pending", "expired", "accepted", "cancelled"}
InviteRoles == {"admin", "member"}
InviteFun == [InviteIds -> [person : SomePeople, role : InviteRoles, status : InviteStatus]]
InviteIs(i, person, status) ==
  /\ invites' \in InviteFun /\ \A j \in InviteIds \ {i} : invites'[j] = invites[j]
  /\ invites'[i].person = person /\ invites'[i].status = status

LEMMA InviteType == WorkspacesTypeOK => invites \in InviteFun
  BY DEF WorkspacesTypeOK, InviteFun, SomePeople, InviteRoles, InviteStatus
LEMMA SetInviteStatus ==
  ASSUME invites \in InviteFun, NEW i \in InviteIds, NEW v \in InviteStatus, invites' = [invites EXCEPT ![i].status = v]
  PROVE  InviteIs(i, invites[i].person, v)
  BY DEF InviteFun, InviteIs
LEMMA SetInvited ==
  ASSUME invites \in InviteFun, NEW i \in InviteIds, NEW p \in SomePeople, NEW r \in InviteRoles,
         invites' = [invites EXCEPT ![i].person = p, ![i].role = r]
  PROVE  InviteIs(i, p, invites[i].status)
  BY DEF InviteFun, InviteIs

\* The invite is accepted after its person became a member.
LEMMA AcceptKeeps ==
  ASSUME WorkspacesInv, NEW b \in Boots, AcceptInvite(b)
  PROVE  WorkspacesInv'
<1> USE WorkspacesAssumption
<1>1. WorkspacesTypeOK /\ BootInv(b) /\ boot[b].pc = "accept" /\ UNCHANGED <<accounts, teams, members, joined, sending, removing, failures>>
  BY DEF WorkspacesInv, AcceptInvite
<1> DEFINE i == boot[b].invite
           v == IF invites[i].status = "cancelled" THEN "cancelled" ELSE "accepted"
<1>2. i \in InviteIds /\ sending[i] # "new" /\ invites[i].person = boot[b].person /\ <<Team, boot[b].person>> \in joined
  BY <1>1 DEF BootInv
<1>3. invites' = [invites EXCEPT ![i].status = v]
  BY DEF AcceptInvite
<1>4. v \in InviteStatus /\ v \in {"cancelled", "accepted"}
  BY DEF InviteStatus
<1> HIDE DEF v
<1>5. InviteIs(i, invites[i].person, v)
  BY <1>1, <1>2, <1>3, <1>4, InviteType, SetInviteStatus
<1>6. BootIs(b, "each", boot[b].person, boot[b].left, boot[b].invite)
  BY <1>1, BootSteps
<1>7. \A j \in InviteIds : invites'[j].person = invites[j].person
  BY <1>5 DEF InviteIs
<1>8. BootInv(b)'
  <2>1. \A j \in boot[b].left : j \in InviteIds
    BY <1>1, LeftType
  <2>2. QED
    BY <1>1, <1>6, <1>7, <2>1 DEF BootIs, BootInv
<1>9. \A c \in Boots : BootInv(c)'
  BY <1>1, <1>6, <1>7, <1>8, LeftType, OtherBoots DEF WorkspacesInv, BootIs
<1>10. UnsentInv'
  BY <1>1, <1>2, <1>5 DEF WorkspacesInv, UnsentInv, InviteIs
<1>11. AcceptedMeansJoined'
  BY <1>1, <1>2, <1>5 DEF WorkspacesInv, AcceptedMeansJoined, InviteIs
<1>12. OwnersInv' /\ MembersJoined'
  BY <1>1 DEF WorkspacesInv, OwnersInv, MembersJoined
<1>13. WorkspacesTypeOK'
  BY <1>1, <1>5, <1>6 DEF InviteIs, InviteFun, InviteRoles, InviteStatus, BootIs, WorkspacesTypeOK,
     BootFun, BootPcs, SomePeople, SomeInvites, AnInvite
<1>14. QED
  BY <1>9, <1>10, <1>11, <1>12, <1>13 DEF WorkspacesInv

\* What the admins do leaves the bootstraps their invites and their memberships.
LEMMA BootsStay ==
  ASSUME WorkspacesInv, boot' = boot, joined \subseteq joined',
         \A i \in InviteIds : sending[i] # "new" => sending'[i] # "new" /\ invites'[i].person = invites[i].person
  PROVE  \A b \in Boots : BootInv(b)'
<1>1. SUFFICES ASSUME NEW b \in Boots PROVE BootInv(b)'
  OBVIOUS
<1>2. BootInv(b) /\ boot[b].left \subseteq InviteIds
  BY LeftType DEF WorkspacesInv
<1>3. QED
  BY <1>2 DEF BootInv

LEMMA LookUpKeeps ==
  ASSUME WorkspacesInv, NEW i \in InviteIds, LookUp(i)
  PROVE  WorkspacesInv'
<1>1. sending[i] = "new" /\ UNCHANGED <<bootVars, members, joined, removing, failures>>
  BY DEF LookUp
<1>2. PICK p \in People, role0 \in {"admin", "member"} :
        /\ invites' = [invites EXCEPT ![i].person = p, ![i].role = role0]
        /\ sending' = [sending EXCEPT ![i] = IF p \in accounts THEN "known" ELSE "unknown"]
  BY Zenon DEF LookUp
<1>3. WorkspacesTypeOK /\ UnsentInv
  BY DEF WorkspacesInv
<1>4. InviteIs(i, p, invites[i].status)
  BY <1>2, <1>3, InviteType, SetInvited DEF SomePeople, InviteRoles
<1>5. sending' \in [InviteIds -> {"new", "known", "unknown", "done"}] /\ sending'[i] # "new"
      /\ \A j \in InviteIds \ {i} : sending'[j] = sending[j]
  BY <1>2, <1>3 DEF WorkspacesTypeOK
<1>6. \A b \in Boots : BootInv(b)'
  BY <1>1, <1>4, <1>5, BootsStay DEF InviteIs, bootVars
<1>7. UnsentInv'
  BY <1>1, <1>3, <1>4, <1>5, FoundType DEF UnsentInv, InviteIs
<1>8. AcceptedMeansJoined'
  <2>1. invites[i].status = "none"
    BY <1>1, <1>3 DEF UnsentInv
  <2>2. QED
    BY <1>1, <1>4, <2>1 DEF WorkspacesInv, AcceptedMeansJoined, InviteIs
<1>9. OwnersInv' /\ MembersJoined'
  BY <1>1 DEF WorkspacesInv, OwnersInv, MembersJoined
<1>10. WorkspacesTypeOK'
  BY <1>1, <1>3, <1>4, <1>5 DEF bootVars, InviteIs, InviteFun, SomePeople, InviteRoles, InviteStatus, WorkspacesTypeOK
<1>11. QED
  BY <1>6, <1>7, <1>8, <1>9, <1>10 DEF WorkspacesInv

LEMMA AddMemberKeeps ==
  ASSUME WorkspacesInv, NEW i \in InviteIds, AddMember(i)
  PROVE  WorkspacesInv'
<1> USE WorkspacesAssumption
<1>1. /\ sending[i] = "known" /\ sending' = [sending EXCEPT ![i] = "done"]
      /\ UNCHANGED <<bootVars, invites, removing, failures>>
  BY DEF AddMember
<1>2. WorkspacesTypeOK /\ UnsentInv
  BY DEF WorkspacesInv
<1>3. sending' \in [InviteIds -> {"new", "known", "unknown", "done"}]
      /\ \A j \in InviteIds : sending[j] # "new" <=> sending'[j] # "new"
  BY <1>1, <1>2 DEF WorkspacesTypeOK
<1> DEFINE m == [team |-> Team, person |-> invites[i].person, role |-> invites[i].role]
<1>4. m \in Rows /\ m.team = Team /\ m.person = invites[i].person /\ m.person \in People
  BY <1>1, <1>2 DEF UnsentInv, WorkspacesTypeOK, Rows, MemberRoles
<1>5. \/ UNCHANGED <<members, joined>>
      \/ members' = members \cup {m} /\ joined' = joined \cup {<<Team, m.person>>}
  BY DEF AddMember, Join
<1> HIDE DEF m
<1>6. \A b \in Boots : BootInv(b)'
  BY <1>1, <1>3, <1>5, BootsStay DEF bootVars
<1>7. UnsentInv' /\ AcceptedMeansJoined'
  BY <1>1, <1>2, <1>3, <1>5 DEF UnsentInv, WorkspacesInv, AcceptedMeansJoined
<1>8. OwnersInv' /\ MembersJoined'
  BY <1>1, <1>4, <1>5 DEF WorkspacesInv, OwnersInv, MembersJoined
<1>9. WorkspacesTypeOK'
  BY <1>1, <1>2, <1>3, <1>4, <1>5 DEF bootVars, WorkspacesTypeOK
<1>10. QED
  BY <1>6, <1>7, <1>8, <1>9 DEF WorkspacesInv

LEMMA InviteKeeps ==
  ASSUME WorkspacesInv, NEW i \in InviteIds, AddInvite(i) \/ InviteExpires(i)
  PROVE  WorkspacesInv'
<1>1. UNCHANGED <<bootVars, members, joined, removing, failures>> /\ WorkspacesTypeOK /\ UnsentInv
  BY DEF AddInvite, InviteExpires, WorkspacesInv
<1>2. PICK v \in {"pending", "expired"} : invites' = [invites EXCEPT ![i].status = v]
  BY DEF AddInvite, InviteExpires
<1>3. sending[i] # "new"
  BY <1>1 DEF AddInvite, InviteExpires, UnsentInv
<1>4. sending' \in [InviteIds -> {"new", "known", "unknown", "done"}]
      /\ \A j \in InviteIds : sending[j] # "new" <=> sending'[j] # "new"
  BY <1>1 DEF AddInvite, InviteExpires, WorkspacesTypeOK
<1>5. InviteIs(i, invites[i].person, v)
  BY <1>1, <1>2, InviteType, SetInviteStatus DEF InviteStatus
<1>6. \A b \in Boots : BootInv(b)'
  BY <1>1, <1>4, <1>5, BootsStay DEF bootVars, InviteIs
<1>7. UnsentInv' /\ AcceptedMeansJoined'
  BY <1>1, <1>3, <1>4, <1>5, FoundType DEF UnsentInv, WorkspacesInv, AcceptedMeansJoined, InviteIs
<1>8. OwnersInv' /\ MembersJoined'
  BY <1>1 DEF WorkspacesInv, OwnersInv, MembersJoined
<1>9. WorkspacesTypeOK'
  BY <1>1, <1>4, <1>5 DEF bootVars, InviteIs, InviteFun, SomePeople, InviteRoles, InviteStatus, WorkspacesTypeOK
<1>10. QED
  BY <1>6, <1>7, <1>8, <1>9 DEF WorkspacesInv

\* What a removal's form has found.
RemovePcs == {"new", "found", "done"}
ARow == Rows \cup {Nothing}
RemoveFun == [Removals -> [pc : RemovePcs, member : ARow, invite : AnInvite]]
RemoveIs(r, member, invite) ==
  /\ removing' \in RemoveFun /\ \A q \in Removals \ {r} : removing'[q] = removing[q]
  /\ removing'[r].member = member /\ removing'[r].invite = invite
LEMMA RemoveType == WorkspacesTypeOK => removing \in RemoveFun
  BY DEF WorkspacesTypeOK, RemoveFun, RemovePcs, ARow, AnInvite
LEMMA SetFoundMember ==
  ASSUME removing \in RemoveFun, NEW r \in Removals, NEW v \in RemovePcs, NEW m \in ARow,
         removing' = [removing EXCEPT ![r].pc = v, ![r].member = m]
  PROVE  RemoveIs(r, m, removing[r].invite)
  BY DEF RemoveFun, RemoveIs
LEMMA SetFoundInvite ==
  ASSUME removing \in RemoveFun, NEW r \in Removals, NEW v \in RemovePcs, NEW i \in AnInvite,
         removing' = [removing EXCEPT ![r].pc = v, ![r].invite = i]
  PROVE  RemoveIs(r, removing[r].member, i)
  BY DEF RemoveFun, RemoveIs

LEMMA FindKeeps ==
  ASSUME WorkspacesInv, NEW r \in Removals, FindRow(r)
  PROVE  WorkspacesInv'
<1> USE WorkspacesAssumption
<1>1. WorkspacesTypeOK /\ UnsentInv /\ OwnersInv /\ UNCHANGED <<bootVars, members, joined, invites, sending, failures>>
  BY DEF WorkspacesInv, FindRow
<1>2. removing' \in RemoveFun /\ OwnersInv' /\ UnsentInv'
  <2>1. CASE \E m \in members : MayRemove(m) /\ removing' = [removing EXCEPT ![r].pc = "found", ![r].member = m]
    <3>1. PICK m \in members : MayRemove(m) /\ removing' = [removing EXCEPT ![r].pc = "found", ![r].member = m]
      BY <2>1
    <3>2. m \in ARow /\ "found" \in RemovePcs
      BY <1>1 DEF WorkspacesTypeOK, ARow, RemovePcs
    <3>3. RemoveIs(r, m, removing[r].invite)
      BY <1>1, <3>1, <3>2, RemoveType, SetFoundMember
    <3>4. QED
      BY <1>1, <3>1, <3>3 DEF RemoveIs, OwnersInv, UnsentInv
  <2>2. CASE \E i \in InviteIds : invites[i].status \in {"pending", "expired", "accepted"}
               /\ removing' = [removing EXCEPT ![r].pc = "found", ![r].invite = i]
    <3>1. PICK i \in InviteIds : invites[i].status \in {"pending", "expired", "accepted"}
               /\ removing' = [removing EXCEPT ![r].pc = "found", ![r].invite = i]
      BY <2>2
    <3>2. i \in AnInvite /\ "found" \in RemovePcs
      BY DEF AnInvite, RemovePcs
    <3>3. RemoveIs(r, removing[r].member, i)
      BY <1>1, <3>1, <3>2, RemoveType, SetFoundInvite
    <3>4. sending[i] # "new"
      BY <1>1, <3>1 DEF UnsentInv
    <3>5. QED
      BY <1>1, <3>3, <3>4 DEF RemoveIs, OwnersInv, UnsentInv
  <2>3. QED
    BY <2>1, <2>2 DEF FindRow
<1>3. \A b \in Boots : BootInv(b)'
  BY <1>1, BootsStay DEF bootVars
<1>4. MembersJoined' /\ AcceptedMeansJoined'
  BY <1>1 DEF WorkspacesInv, MembersJoined, AcceptedMeansJoined
<1>5. WorkspacesTypeOK'
  BY <1>1, <1>2 DEF bootVars, RemoveFun, RemovePcs, ARow, AnInvite, WorkspacesTypeOK
<1>6. QED
  BY <1>2, <1>3, <1>4, <1>5 DEF WorkspacesInv

\* Nobody removes the owner of Team, and no invite loses its person.
LEMMA DeleteKeeps ==
  ASSUME WorkspacesInv, NEW r \in Removals, DeleteRow(r)
  PROVE  WorkspacesInv'
<1> USE WorkspacesAssumption
<1>1. /\ members' = members \ {removing[r].member}
      /\ removing' = [removing EXCEPT ![r].pc = "done", ![r].member = Nothing]
      /\ UNCHANGED <<bootVars, joined, sending, failures>>
  BY DEF DeleteRow
<1>2. invites' = [i \in InviteIds |-> IF i = removing[r].invite
                                      THEN [invites[i] EXCEPT !.status = "cancelled"] ELSE invites[i]]
  BY DEF DeleteRow
<1>3. WorkspacesTypeOK /\ UnsentInv /\ OwnersInv /\ invites \in InviteFun
  BY InviteType DEF WorkspacesInv
<1>4. RemoveIs(r, Nothing, removing[r].invite)
  BY <1>1, <1>3, RemoveType, SetFoundMember DEF RemovePcs, ARow
<1>5. invites' \in InviteFun /\ \A i \in InviteIds :
        /\ invites'[i].person = invites[i].person
        /\ invites'[i].status # "accepted" \/ invites'[i].status = invites[i].status
        /\ i # removing[r].invite => invites'[i] = invites[i]
  <2>1. SUFFICES ASSUME NEW i \in InviteIds
                 PROVE  /\ invites'[i] \in [person : SomePeople, role : InviteRoles, status : InviteStatus]
                        /\ invites'[i].person = invites[i].person
                        /\ invites'[i].status # "accepted" \/ invites'[i].status = invites[i].status
                        /\ i # removing[r].invite => invites'[i] = invites[i]
    BY <1>2 DEF InviteFun
  <2>2. invites[i] \in [person : SomePeople, role : InviteRoles, status : InviteStatus] /\ "cancelled" \in InviteStatus
    BY <1>3 DEF InviteFun, InviteStatus
  <2>3. CASE i = removing[r].invite
    <3>1. invites'[i] = [invites[i] EXCEPT !.status = "cancelled"]
      BY <1>2, <2>3
    <3>2. QED
      BY <2>2, <2>3, <3>1
  <2>4. CASE i # removing[r].invite
    <3>1. invites'[i] = invites[i]
      BY <1>2, <2>4
    <3>2. QED
      BY <2>2, <3>1
  <2>5. QED
    BY <2>3, <2>4
<1>6. OwnersInv'
  <2>1. removing[r].member # [team |-> Team, person |-> Boss, role |-> "owner"]
    <3>1. [team |-> Team, person |-> Boss, role |-> "owner"] \in Rows
      BY DEF Rows, MemberRoles
    <3>2. QED
      BY <1>3, <3>1 DEF OwnersInv, MayRemove
  <2>2. \A q \in Removals : removing'[q].member # Nothing => removing'[q].member = removing[q].member
    BY <1>4 DEF RemoveIs
  <2>3. QED
    BY <1>1, <1>3, <2>1, <2>2 DEF OwnersInv
<1>7. UnsentInv'
  <2>1. \A q \in Removals : removing'[q].invite = removing[q].invite
    BY <1>4 DEF RemoveIs
  <2>2. \A i \in InviteIds : sending[i] = "new" => invites'[i] = invites[i]
    BY <1>3, <1>5, FoundType DEF UnsentInv
  <2>3. QED
    BY <1>1, <1>3, <1>5, <2>1, <2>2 DEF UnsentInv
<1>8. MembersJoined' /\ AcceptedMeansJoined'
  BY <1>1, <1>5 DEF WorkspacesInv, MembersJoined, AcceptedMeansJoined
<1>9. \A b \in Boots : BootInv(b)'
  BY <1>1, <1>5, BootsStay DEF bootVars
<1>10. WorkspacesTypeOK'
  BY <1>1, <1>3, <1>4, <1>5 DEF bootVars, RemoveIs, RemoveFun, RemovePcs, ARow, AnInvite,
     InviteFun, SomePeople, InviteRoles, InviteStatus, WorkspacesTypeOK
<1>11. QED
  BY <1>6, <1>7, <1>8, <1>9, <1>10 DEF WorkspacesInv

LEMMA WorkspacesKeeps == WorkspacesInv /\ [WorkspacesNext]_workspacesVars => WorkspacesInv'
<1> SUFFICES ASSUME WorkspacesInv, [WorkspacesNext]_workspacesVars PROVE WorkspacesInv'
  OBVIOUS
<1>1. CASE \E b \in Boots : SignUp(b) \/ FirstPage(b) \/ BootStep(b) \/ BootDies(b)
  BY <1>1, BootMoves, OwnerKeeps, JoinKeeps, AcceptKeeps DEF BootStep
<1>2. CASE \E i \in InviteIds : LookUp(i) \/ AddMember(i) \/ AddInvite(i) \/ InviteExpires(i)
  BY <1>2, LookUpKeeps, AddMemberKeeps, InviteKeeps
<1>3. CASE \E r \in Removals : FindRow(r) \/ DeleteRow(r)
  BY <1>3, FindKeeps, DeleteKeeps
<1>4. CASE UNCHANGED workspacesVars
  BY <1>4 DEF workspacesVars, WorkspacesInv, WorkspacesTypeOK, OwnersInv, UnsentInv, BootInv,
              MembersJoined, AcceptedMeansJoined
<1>5. QED
  BY <1>1, <1>2, <1>3, <1>4 DEF WorkspacesNext

\* An invite is accepted only after its person became a member, wherever a
\* bootstrap dies (bootstrapUserWorkspaces, acceptPendingInvites).
THEOREM AcceptedTheorem == WorkspacesSpec => []AcceptedMeansJoined
<1>1. WorkspacesInv => AcceptedMeansJoined
  BY DEF WorkspacesInv
<1>2. QED
  BY <1>1, WorkspacesInitially, WorkspacesKeeps, PTL DEF WorkspacesSpec

\* A workspace that has members has its owner, whatever the order of bootstraps,
\* invites and removals (removeWorkspaceMember keeps the owner).
THEOREM OwnerTheorem == WorkspacesSpec => []OwnerStays
<1>1. ASSUME WorkspacesInv PROVE OwnerStays
  <2>1. SUFFICES ASSUME NEW t \in teams, NEW m \in members, m.team = t
                 PROVE  \E n \in members : n.team = t /\ n.role = "owner"
    BY DEF OwnerStays
  <2>2. CASE t = Team
    BY <1>1, <2>2 DEF WorkspacesInv, OwnersInv
  <2>3. CASE t # Team
    BY <1>1, <2>1, <2>3 DEF WorkspacesInv, OwnersInv
  <2>4. QED
    BY <2>2, <2>3
<1>2. QED
  BY <1>1, WorkspacesInitially, WorkspacesKeeps, PTL DEF WorkspacesSpec

-----------------------------------------------------------------------------
(* ---- Assignment ---- *)

\* What a delegation's record may hold, and what a step makes of it.
DelegationPcs == {"new", "read", "member", "updated", "listed", "told", "done"}
Assignees == Members \cup {NoPerson}
DelegationFun == [Delegations -> [pc : DelegationPcs, to : Assignees, base : WorkItems]]
DelegationIs(d, pc, to) ==
  /\ delegation' \in DelegationFun /\ \A e \in Delegations \ {d} : delegation'[e] = delegation[e]
  /\ delegation'[d].pc = pc /\ delegation'[d].to = to

LEMMA SetDelegationPc ==
  ASSUME delegation \in DelegationFun, NEW d \in Delegations, NEW v \in DelegationPcs,
         delegation' = [delegation EXCEPT ![d].pc = v]
  PROVE  DelegationIs(d, v, delegation[d].to)
  BY DEF DelegationFun, DelegationIs
LEMMA SetDelegation ==
  ASSUME delegation \in DelegationFun, NEW d \in Delegations, NEW v \in DelegationPcs, NEW m \in Assignees,
         item \in WorkItems,
         delegation' = [delegation EXCEPT ![d].pc = v, ![d].to = m, ![d].base = item]
  PROVE  DelegationIs(d, v, m)
  BY DEF DelegationFun, DelegationIs

\* The item and the delegations' records are what they may be.
WorkItemInv == item \in WorkItems /\ delegation \in DelegationFun

LEMMA ItemChanges ==
  ASSUME item \in WorkItems
  PROVE  /\ \A m \in Assignees : [item EXCEPT !.assigned = m] \in WorkItems
                                 /\ [item EXCEPT !.assigned = m].assigned = m
                                 /\ [item EXCEPT !.assigned = m].status = item.status
         /\ [item EXCEPT !.status = "closed"] \in WorkItems
         /\ [item EXCEPT !.status = "closed"].assigned = item.assigned
         /\ [item EXCEPT !.status = "closed"].status = "closed"
<1> DEFINE S == OpenStatus \cup {"closed"}
<1>1. item \in [status : S, assigned : Assignees] /\ "closed" \in S
  BY DEF WorkItems, Assignees
<1> HIDE DEF S
<1>2. /\ \A m \in Assignees : [item EXCEPT !.assigned = m] \in [status : S, assigned : Assignees]
                              /\ [item EXCEPT !.assigned = m].assigned = m
                              /\ [item EXCEPT !.assigned = m].status = item.status
      /\ [item EXCEPT !.status = "closed"] \in [status : S, assigned : Assignees]
      /\ [item EXCEPT !.status = "closed"].assigned = item.assigned
      /\ [item EXCEPT !.status = "closed"].status = "closed"
  BY <1>1
<1>3. QED
  BY <1>2 DEF S, WorkItems, Assignees

LEMMA WorkItemInitially == AssignmentInit => WorkItemInv
<1> SUFFICES ASSUME AssignmentInit PROVE WorkItemInv
  OBVIOUS
<1>1. PICK s \in OpenStatus : item = [status |-> s, assigned |-> NoPerson]
  BY DEF AssignmentInit
<1>2. item \in WorkItems
  BY <1>1 DEF WorkItems
<1>3. delegation \in DelegationFun /\ \A d \in Delegations : delegation[d].pc = "new"
  BY <1>2 DEF AssignmentInit, DelegationFun, DelegationPcs, Assignees
<1>4. QED
  BY <1>1, <1>2, <1>3 DEF WorkItemInv

LEMMA DelegationKeeps ==
  ASSUME WorkItemInv, NEW d \in Delegations, ReadItem(d) \/ DelegationStep(d) \/ RollbackDelegation(d)
  PROVE  WorkItemInv' /\ (item.status = "closed" => item'.status = "closed")
<1> USE AssignmentAssumption
<1>1. item \in WorkItems /\ delegation \in DelegationFun /\ delegation[d].to \in Assignees
      /\ {"read", "member", "updated", "listed", "told", "done"} \subseteq DelegationPcs
  BY DEF WorkItemInv, DelegationFun, DelegationPcs
<1>2. CASE ReadItem(d)
  <2>1. PICK to \in Members \ {item.assigned} :
          delegation' = [delegation EXCEPT ![d].pc = "read", ![d].to = to, ![d].base = item]
    BY <1>2, Zenon DEF ReadItem
  <2>2. DelegationIs(d, "read", to)
    BY <1>1, <2>1, SetDelegation DEF Assignees
  <2>3. item' = item
    BY <1>2 DEF ReadItem
  <2>4. QED
    BY <1>1, <2>2, <2>3 DEF WorkItemInv, DelegationIs
<1>3. CASE ReadMember(d)
  <2>1. PICK v \in {"member", "done"} : delegation' = [delegation EXCEPT ![d].pc = v]
    BY <1>3, Zenon DEF ReadMember
  <2>2. DelegationIs(d, v, delegation[d].to)
    BY <1>1, <2>1, SetDelegationPc
  <2>3. item' = item
    BY <1>3 DEF ReadMember
  <2>4. QED
    BY <1>1, <2>2, <2>3 DEF WorkItemInv, DelegationIs
<1>4. CASE UpdateItem(d)
  <2>1. DelegationIs(d, "updated", delegation[d].to) /\ item' = item
    BY <1>1, <1>4, SetDelegationPc DEF UpdateItem
  <2>2. QED
    BY <1>1, <2>1 DEF WorkItemInv, DelegationIs
<1>5. ASSUME NEW v \in DelegationPcs, delegation' = [delegation EXCEPT ![d].pc = v], item' = item
      PROVE  WorkItemInv' /\ (item.status = "closed" => item'.status = "closed")
  BY <1>1, <1>5, SetDelegationPc DEF WorkItemInv, DelegationIs
<1>6. CASE CommitDelegation(d)
  <2>1. delegation[d].pc = "told" /\ item' = [item EXCEPT !.assigned = delegation[d].to]
        /\ DelegationIs(d, "done", delegation[d].to)
    BY <1>1, <1>6, SetDelegationPc DEF CommitDelegation, Delegated
  <2>2. item' \in WorkItems /\ item'.assigned = delegation[d].to /\ item'.status = item.status
    BY <1>1, <2>1, ItemChanges
  <2>3. QED
    BY <1>1, <2>1, <2>2 DEF WorkItemInv, DelegationIs
<1>7. CASE RollbackDelegation(d)
  <2>1. DelegationIs(d, "done", delegation[d].to) /\ item' = item
    BY <1>1, <1>7, SetDelegationPc DEF RollbackDelegation
  <2>2. QED
    BY <1>1, <2>1 DEF WorkItemInv, DelegationIs
<1>8. ListTokens(d) \/ SendPush(d) \/ TellNobody(d)
      => WorkItemInv' /\ (item.status = "closed" => item'.status = "closed")
  BY <1>1, <1>5 DEF ListTokens, SendPush, TellNobody
<1>9. QED
  BY <1>2, <1>3, <1>4, <1>6, <1>7, <1>8 DEF DelegationStep

LEMMA WorkItemKeeps ==
  ASSUME WorkItemInv, [AssignmentNext]_assignmentVars
  PROVE  WorkItemInv' /\ (item.status = "closed" => item'.status = "closed")
<1>1. CASE \E d \in Delegations : ReadItem(d) \/ DelegationStep(d) \/ RollbackDelegation(d)
  BY <1>1, DelegationKeeps
<1>2. CASE CloseItem
  <2>1. item' = [item EXCEPT !.status = "closed"] /\ delegation' = delegation
    BY <1>2 DEF CloseItem
  <2>2. QED
    BY <2>1, ItemChanges DEF WorkItemInv
<1>3. CASE UNCHANGED <<item, delegation>>
  BY <1>3 DEF WorkItemInv
<1>4. QED
  <2>1. ASSUME NEW m \in Members, SetRole(m) PROVE UNCHANGED <<item, delegation>>
    BY <2>1 DEF SetRole
  <2>2. ASSUME NEW m \in Members, NEW p \in Handsets, Unregister(m, p) PROVE UNCHANGED <<item, delegation>>
    BY <2>2 DEF Unregister, rest
  <2>3. ASSUME NEW r \in Registrations, LookUpPhone(r) \/ StorePhone(r) PROVE UNCHANGED <<item, delegation>>
    BY <2>3 DEF LookUpPhone, StorePhone, rest
  <2>4. UNCHANGED assignmentVars => UNCHANGED <<item, delegation>>
    BY DEF assignmentVars
  <2>5. QED
    BY <1>1, <1>2, <1>3, <2>1, <2>2, <2>3, <2>4 DEF AssignmentNext

\* No delegation opens an item again that was closed while it waited.
THEOREM ClosedItemTheorem == AssignmentSpec => ClosedItemStays
<1>1. WorkItemInv /\ [AssignmentNext]_assignmentVars => WorkItemInv'
  BY WorkItemKeeps
<1>2. WorkItemInv /\ [AssignmentNext]_assignmentVars
        => [item.status = "closed" => item'.status = "closed"]_assignmentVars
  BY WorkItemKeeps
<1>3. QED
  BY <1>1, <1>2, WorkItemInitially, PTL DEF AssignmentSpec, ClosedItemStays

\* What a registration's record may hold, and what a step makes of it.
RegisterPcs == {"new", "looked", "done"}
AFoundRow == DeviceRows \cup {NoRow}
RegisterFun == [Registrations -> [pc : RegisterPcs, phone : Handsets, person : Members, found : AFoundRow]]
RegisterIs(r, pc, found) ==
  /\ register' \in RegisterFun /\ \A q \in Registrations \ {r} : register'[q] = register[q]
  /\ register'[r].pc = pc /\ register'[r].found = found
  /\ register'[r].phone = register[r].phone /\ register'[r].person = register[r].person
LEMMA SetRegisterPc ==
  ASSUME register \in RegisterFun, NEW r \in Registrations, NEW v \in RegisterPcs,
         register' = [register EXCEPT ![r].pc = v]
  PROVE  RegisterIs(r, v, register[r].found)
  BY DEF RegisterFun, RegisterIs
LEMMA SetFound ==
  ASSUME register \in RegisterFun, NEW r \in Registrations, NEW v \in RegisterPcs, NEW f \in AFoundRow,
         register' = [register EXCEPT ![r].pc = v, ![r].found = f]
  PROVE  RegisterIs(r, v, f)
  BY DEF RegisterFun, RegisterIs

\* A row is for the phone of the registration that made it, names the person who
\* registered last, and is the only one for its phone.
RowInv(q) == q \in DeviceRows /\ register[q.id].phone = q.phone /\ lastUser[q.phone] = q.person
FoundInv(r) ==
  register[r].pc = "looked" /\ register[r].found # NoRow =>
    /\ register[r].found \in DeviceRows
    /\ register[register[r].found.id].phone = register[r].phone
DevicesInv ==
  /\ register \in RegisterFun /\ lastUser \in [Handsets -> Assignees]
  /\ \A q \in devices : RowInv(q)
  /\ \A q, r \in devices : q.phone = r.phone => q = r
  /\ \A r \in Registrations : FoundInv(r)

LEMMA DevicesInitially == AssignmentInit => DevicesInv
<1> SUFFICES ASSUME AssignmentInit PROVE DevicesInv
  OBVIOUS
<1>1. register \in RegisterFun /\ \A r \in Registrations : register[r].pc = "new"
  BY DEF AssignmentInit, RegisterFun, RegisterPcs, AFoundRow
<1>2. devices = {} /\ lastUser \in [Handsets -> Assignees]
  BY DEF AssignmentInit, Assignees
<1>3. QED
  BY <1>1, <1>2 DEF DevicesInv, FoundInv

LEMMA LookUpPhoneKeeps ==
  ASSUME DevicesInv, NEW r \in Registrations, LookUpPhone(r)
  PROVE  DevicesInv'
<1> DEFINE f == IF \E q \in devices : q.phone = register[r].phone
                THEN CHOOSE q \in devices : q.phone = register[r].phone ELSE NoRow
<1>1. register' = [register EXCEPT ![r].pc = "looked", ![r].found = f] /\ UNCHANGED <<devices, lastUser>>
  BY DEF LookUpPhone
<1>2. f # NoRow => f \in devices /\ f.phone = register[r].phone
  BY Zenon
<1> HIDE DEF f
<1>3. register \in RegisterFun /\ (\A q \in devices : RowInv(q))
  BY DEF DevicesInv
<1>4. f # NoRow => f \in DeviceRows /\ register[f.id].phone = register[r].phone
  BY <1>2, <1>3 DEF RowInv
<1>5. RegisterIs(r, "looked", f)
  BY <1>1, <1>3, <1>4, SetFound DEF RegisterPcs, AFoundRow
<1>6. \A q \in Registrations : register'[q].phone = register[q].phone
  BY <1>5 DEF RegisterIs
<1>7. \A d \in DeviceRows : d.id \in Registrations
  BY DEF DeviceRows
<1>8. \A q \in devices' : RowInv(q)'
  BY <1>1, <1>3, <1>6, <1>7 DEF RowInv
<1>9. \A q \in Registrations : FoundInv(q)'
  <2>1. FoundInv(r)'
    BY <1>4, <1>5, <1>6, <1>7 DEF FoundInv, RegisterIs
  <2>2. ASSUME NEW q \in Registrations \ {r} PROVE FoundInv(q)'
    <3>1. FoundInv(q) /\ register'[q] = register[q]
      BY <1>5 DEF DevicesInv, RegisterIs
    <3>2. QED
      BY <1>6, <1>7, <3>1 DEF FoundInv
  <2>3. QED
    BY <2>1, <2>2
<1>10. QED
  BY <1>1, <1>5, <1>8, <1>9 DEF DevicesInv, RegisterIs

LEMMA StorePhoneKeeps ==
  ASSUME DevicesInv, NEW r \in Registrations, StorePhone(r)
  PROVE  DevicesInv'
<1> DEFINE found == register[r].found
           phone == register[r].phone
           person == register[r].person
           mine == {q \in devices : found # NoRow /\ q.id = found.id}
<1>1. register' = [register EXCEPT ![r].pc = "done"] /\ register[r].pc = "looked"
  BY DEF StorePhone
<1>2. lastUser' = IF devices' = devices THEN lastUser ELSE [lastUser EXCEPT ![phone] = person]
  BY DEF StorePhone
<1>3. \/ devices' = devices
      \/ /\ \A q \in devices : q.phone # phone
         /\ devices' = devices \cup {[id |-> r, phone |-> phone, person |-> person]}
      \/ found # NoRow /\ devices' = (devices \ mine) \cup {[q EXCEPT !.person = person] : q \in mine}
  BY Zenon DEF StorePhone, Row
<1>4. /\ register \in RegisterFun /\ lastUser \in [Handsets -> Assignees] /\ FoundInv(r)
      /\ \A q \in devices : RowInv(q)
      /\ \A q, t \in devices : q.phone = t.phone => q = t
      /\ phone \in Handsets /\ person \in Members
  BY DEF DevicesInv, RegisterFun
<1>5. RegisterIs(r, "done", found)
  BY <1>1, <1>4, SetRegisterPc DEF RegisterPcs
<1>6. \A q \in Registrations : register'[q].phone = register[q].phone
  BY <1>5 DEF RegisterIs
<1>7. \A d \in DeviceRows : d.id \in Registrations /\ d.phone \in Handsets /\ d.person \in Members
  BY DEF DeviceRows
<1>8. \A q \in Registrations : FoundInv(q)'
  <2>1. SUFFICES ASSUME NEW q \in Registrations PROVE FoundInv(q)'
    OBVIOUS
  <2>2. CASE q = r
    BY <1>5, <2>2 DEF FoundInv, RegisterIs
  <2>3. CASE q # r
    <3>1. FoundInv(q) /\ register'[q] = register[q]
      BY <1>5, <2>3 DEF DevicesInv, RegisterIs
    <3>2. QED
      BY <1>6, <1>7, <3>1 DEF FoundInv
  <2>4. QED
    BY <2>2, <2>3
<1>9. lastUser' \in [Handsets -> Assignees]
  BY <1>2, <1>4 DEF Assignees
<1>10. (\A q \in devices' : RowInv(q)') /\ \A q, t \in devices' : q.phone = t.phone => q = t
  <2>1. CASE devices' = devices
    BY <1>2, <1>4, <1>6, <1>7, <2>1 DEF RowInv
  <2>2. ASSUME devices' # devices,
               NEW new \in DeviceRows, new.phone = phone, new.person = person, register[new.id].phone = phone,
               NEW old, old \subseteq devices, devices' = old \cup {new},
               \A q \in old : q.phone # phone
        PROVE  (\A q \in devices' : RowInv(q)') /\ \A q, t \in devices' : q.phone = t.phone => q = t
    <3>1. \A q \in Handsets : lastUser'[q] = IF q = phone THEN person ELSE lastUser[q]
      BY <1>2, <1>4, <2>2
    <3>2. RowInv(new)'
      BY <1>6, <1>7, <2>2, <3>1 DEF RowInv
    <3>3. \A q \in old : RowInv(q)'
      BY <1>4, <1>6, <1>7, <2>2, <3>1 DEF RowInv
    <3>4. \A q, t \in devices' : q.phone = t.phone => q = t
      BY <1>4, <2>2
    <3>5. QED
      BY <2>2, <3>2, <3>3, <3>4
  <2>3. CASE devices' # devices /\ (\A q \in devices : q.phone # phone)
             /\ devices' = devices \cup {[id |-> r, phone |-> phone, person |-> person]}
    <3> DEFINE new == [id |-> r, phone |-> phone, person |-> person]
    <3>1. new \in DeviceRows /\ new.phone = phone /\ new.person = person /\ new.id = r
      BY <1>4 DEF DeviceRows
    <3> HIDE DEF new
    <3>2. devices' = devices \cup {new}
      BY <2>3 DEF new
    <3>3. QED
      BY <2>2, <2>3, <3>1, <3>2
  <2>4. CASE devices' # devices /\ found # NoRow
             /\ devices' = (devices \ mine) \cup {[q EXCEPT !.person = person] : q \in mine}
    <3>1. found \in DeviceRows /\ register[found.id].phone = phone
      BY <1>1, <1>4, <2>4 DEF FoundInv
    <3>2. \A q \in mine : q.phone = phone
      BY <1>4, <3>1 DEF RowInv
    <3>3. PICK q \in mine : TRUE
      BY <2>4
    <3>4. mine = {q} /\ q \in devices /\ q \in DeviceRows /\ RowInv(q)
      BY <1>4, <3>2, <3>3 DEF RowInv
    <3> DEFINE new == [q EXCEPT !.person = person]
    <3>5. new \in DeviceRows /\ new.phone = phone /\ new.person = person /\ new.id = q.id
      BY <1>4, <3>2, <3>4 DEF DeviceRows
    <3>6. register[new.id].phone = phone
      BY <3>2, <3>4, <3>5 DEF RowInv
    <3> DEFINE old == devices \ {q}
    <3>7. devices' = old \cup {new}
      BY <2>4, <3>4
    <3>8. old \subseteq devices /\ \A t \in old : t.phone # phone
      BY <1>4, <3>2, <3>4
    <3> HIDE DEF new, old
    <3>9. QED
      BY <2>2, <2>4, <3>5, <3>6, <3>7, <3>8
  <2>5. QED
    BY <1>3, <2>1, <2>3, <2>4
<1>11. QED
  BY <1>5, <1>8, <1>9, <1>10 DEF DevicesInv, RegisterIs

LEMMA DevicesKeep == DevicesInv /\ [AssignmentNext]_assignmentVars => DevicesInv'
<1> SUFFICES ASSUME DevicesInv, [AssignmentNext]_assignmentVars PROVE DevicesInv'
  OBVIOUS
<1>1. CASE UNCHANGED <<devices, lastUser, register>>
  BY <1>1 DEF DevicesInv, RowInv, FoundInv
<1>2. ASSUME NEW d \in Delegations, ReadItem(d) \/ DelegationStep(d) \/ RollbackDelegation(d)
      PROVE  UNCHANGED <<devices, lastUser, register>>
  BY <1>2 DEF ReadItem, DelegationStep, ReadMember, UpdateItem, ListTokens, SendPush,
                 TellNobody, CommitDelegation, RollbackDelegation, people
<1>3. CloseItem => UNCHANGED <<devices, lastUser, register>>
  BY DEF CloseItem, people
<1>4. ASSUME NEW m \in Members, SetRole(m) PROVE UNCHANGED <<devices, lastUser, register>>
  BY <1>4 DEF SetRole
<1>5. ASSUME NEW m \in Members, NEW p \in Handsets, Unregister(m, p) PROVE DevicesInv'
  <2>1. devices' \subseteq devices /\ UNCHANGED <<lastUser, register>>
    BY <1>5 DEF Unregister
  <2>2. QED
    BY <2>1 DEF DevicesInv, RowInv, FoundInv
<1>6. UNCHANGED assignmentVars => UNCHANGED <<devices, lastUser, register>>
  BY DEF assignmentVars
<1>7. QED
  BY <1>1, <1>2, <1>3, <1>4, <1>5, <1>6, LookUpPhoneKeeps, StorePhoneKeeps DEF AssignmentNext

\* A token that a delegation listed is a phone of the person it assigns the item
\* to, or the phone was handed on since.
PhoneSets == [tokens : SUBSET Handsets, handedOn : SUBSET Handsets]
SendingFun == [Delegations -> PhoneSets]
ListedInv(d) ==
  delegation[d].pc = "listed" =>
    \A p \in pushing[d].tokens : lastUser[p] = delegation[d].to \/ p \in pushing[d].handedOn
SendingInv == pushing \in SendingFun /\ \A d \in Delegations : ListedInv(d)

LEMMA SendingInitially == AssignmentInit => SendingInv
  BY DEF AssignmentInit, SendingInv, SendingFun, PhoneSets, ListedInv

LEMMA DelegationSends ==
  ASSUME WorkItemInv, DevicesInv, SendingInv,
         NEW d \in Delegations, ReadItem(d) \/ DelegationStep(d) \/ RollbackDelegation(d)
  PROVE  SendingInv'
<1>1. /\ item \in WorkItems /\ delegation \in DelegationFun /\ delegation[d].to \in Assignees
      /\ {"read", "member", "updated", "listed", "told", "done"} \subseteq DelegationPcs
  BY DEF WorkItemInv, DelegationFun, DelegationPcs
<1>2. ASSUME NEW v \in DelegationPcs, NEW m, v # "listed", DelegationIs(d, v, m), UNCHANGED <<pushing, lastUser>>
      PROVE  SendingInv'
  BY <1>2 DEF SendingInv, ListedInv, DelegationIs
<1>3. CASE ReadItem(d)
  <2>1. PICK to \in Members \ {item.assigned} :
          delegation' = [delegation EXCEPT ![d].pc = "read", ![d].to = to, ![d].base = item]
    BY <1>3, Zenon DEF ReadItem
  <2>2. DelegationIs(d, "read", to) /\ UNCHANGED <<pushing, lastUser>>
    BY <1>1, <1>3, <2>1, SetDelegation DEF Assignees, ReadItem, people
  <2>3. QED
    BY <1>1, <1>2, <2>2
<1>4. CASE ReadMember(d)
  <2>1. PICK v \in {"member", "done"} : delegation' = [delegation EXCEPT ![d].pc = v]
    BY <1>4, Zenon DEF ReadMember
  <2>2. DelegationIs(d, v, delegation[d].to) /\ UNCHANGED <<pushing, lastUser>>
    BY <1>1, <1>4, <2>1, SetDelegationPc DEF ReadMember, people
  <2>3. QED
    BY <1>1, <1>2, <2>2
<1>5. ASSUME NEW v \in {"updated", "told", "done"}, delegation' = [delegation EXCEPT ![d].pc = v],
             UNCHANGED <<pushing, lastUser>>
      PROVE  SendingInv'
  <2>1. DelegationIs(d, v, delegation[d].to)
    BY <1>1, <1>5, SetDelegationPc
  <2>2. QED
    BY <1>1, <1>2, <1>5, <2>1
<1>6. CASE ListTokens(d)
  <2> DEFINE now == [tokens |-> PhonesOf(delegation[d].to), handedOn |-> {}]
  <2>1. /\ DelegationIs(d, "listed", delegation[d].to) /\ UNCHANGED lastUser
        /\ pushing' = [pushing EXCEPT ![d] = now]
    BY <1>1, <1>6, SetDelegationPc DEF ListTokens, people
  <2>2. now \in PhoneSets /\ \A p \in now.tokens : lastUser[p] = delegation[d].to
    BY DEF PhonesOf, PhoneSets, DevicesInv, RowInv, DeviceRows
  <2> HIDE DEF now
  <2>3. pushing' \in SendingFun /\ pushing'[d] = now /\ \A e \in Delegations \ {d} : pushing'[e] = pushing[e]
    BY <2>1, <2>2 DEF SendingInv, SendingFun
  <2>4. QED
    BY <2>1, <2>2, <2>3 DEF SendingInv, ListedInv, DelegationIs
<1>7. QED
  BY <1>3, <1>4, <1>5, <1>6
     DEF DelegationStep, UpdateItem, SendPush, TellNobody, CommitDelegation, RollbackDelegation, people

LEMMA HandOnKeeps ==
  ASSUME SendingInv, NEW p \in Handsets, NEW m, lastUser \in [Handsets -> Assignees],
         HandOn(p), lastUser' = [lastUser EXCEPT ![p] = m], delegation' = delegation
  PROVE  SendingInv'
<1>1. \A d \in Delegations : pushing[d] \in PhoneSets
  BY DEF SendingInv, SendingFun
<1>2. \A d \in Delegations : /\ pushing'[d] \in PhoneSets /\ pushing'[d].tokens = pushing[d].tokens
                             /\ pushing'[d].handedOn = pushing[d].handedOn \cup {p}
  BY <1>1 DEF HandOn, PhoneSets
<1>3. pushing' \in SendingFun
  BY <1>2 DEF HandOn, SendingFun
<1>4. \A q \in Handsets : q # p => lastUser'[q] = lastUser[q]
  OBVIOUS
<1>5. QED
  BY <1>1, <1>2, <1>3, <1>4 DEF SendingInv, ListedInv, PhoneSets

LEMMA SendingKeeps ==
  ASSUME WorkItemInv, DevicesInv, SendingInv, [AssignmentNext]_assignmentVars
  PROVE  SendingInv'
<1>1. UNCHANGED <<pushing, delegation, lastUser>> => SendingInv'
  BY DEF SendingInv, ListedInv
<1>2. ASSUME NEW m \in Members, SetRole(m) PROVE SendingInv'
  BY <1>1, <1>2 DEF SetRole
<1>3. ASSUME NEW m \in Members, NEW p \in Handsets, Unregister(m, p) PROVE SendingInv'
  BY <1>1, <1>3 DEF Unregister, rest
<1>4. ASSUME NEW r \in Registrations, LookUpPhone(r) \/ StorePhone(r) PROVE SendingInv'
  <2>1. CASE LookUpPhone(r)
    BY <1>1, <2>1 DEF LookUpPhone, rest
  <2>2. CASE StorePhone(r)
    <3>1. /\ delegation' = delegation
          /\ \/ UNCHANGED <<lastUser, pushing>>
             \/ /\ HandOn(register[r].phone)
                /\ lastUser' = [lastUser EXCEPT ![register[r].phone] = register[r].person]
      BY <2>2 DEF StorePhone, rest
    <3>2. register[r].phone \in Handsets /\ lastUser \in [Handsets -> Assignees]
      BY DEF DevicesInv, RegisterFun
    <3>3. QED
      BY <1>1, <3>1, <3>2, HandOnKeeps
  <2>3. QED
    BY <1>4, <2>1, <2>2
<1>5. CloseItem => SendingInv'
  BY <1>1 DEF CloseItem, people
<1>6. UNCHANGED assignmentVars => SendingInv'
  BY <1>1 DEF assignmentVars
<1>7. QED
  BY <1>2, <1>3, <1>4, <1>5, <1>6, DelegationSends DEF AssignmentNext

\* A push reaches somebody else's phone only when the phone was handed on between
\* the look-up of the tokens and the push, for any number of people, phones,
\* delegations and registrations (notifyAssigneePush, registerUserDevice).
THEOREM PushTheorem == AssignmentSpec => PushReachesItsPerson
<1> DEFINE I == WorkItemInv /\ DevicesInv /\ SendingInv
           Reaches == \A p \in Handsets, m \in Members :
                        <<p, m>> \in reached' \ reached => lastUser[p] = m \/ HandedOnMeanwhile(p, m)
<1>1. AssignmentInit => I
  BY WorkItemInitially, DevicesInitially, SendingInitially
<1>2. I /\ [AssignmentNext]_assignmentVars => I'
  BY WorkItemKeeps, DevicesKeep, SendingKeeps
<1>3. I /\ [AssignmentNext]_assignmentVars => [Reaches]_assignmentVars
  <2>1. SUFFICES ASSUME I, AssignmentNext PROVE Reaches
    OBVIOUS
  <2>2. ASSUME NEW d \in Delegations, SendPush(d) PROVE Reaches
    <3>1. PICK taken \in SUBSET pushing[d].tokens : reached' = reached \cup (taken \X {delegation[d].to})
      BY <2>2 DEF SendPush
    <3>2. \A p \in taken : lastUser[p] = delegation[d].to \/ p \in pushing[d].handedOn
      BY <2>1, <2>2, <3>1 DEF SendPush, SendingInv, ListedInv
    <3>3. QED
      BY <2>2, <3>1, <3>2 DEF SendPush, HandedOnMeanwhile
  <2>3. ASSUME NEW d \in Delegations,
               \/ ReadItem(d) \/ ReadMember(d) \/ UpdateItem(d) \/ ListTokens(d) \/ TellNobody(d)
               \/ CommitDelegation(d) \/ RollbackDelegation(d)
        PROVE  reached' = reached
    BY <2>3 DEF ReadItem, ReadMember, UpdateItem, ListTokens, TellNobody, CommitDelegation, RollbackDelegation
  <2>4. CloseItem => reached' = reached
    BY DEF CloseItem
  <2>5. ASSUME NEW m \in Members, SetRole(m) PROVE reached' = reached
    BY <2>5 DEF SetRole
  <2>6. ASSUME NEW m \in Members, NEW p \in Handsets, Unregister(m, p) PROVE reached' = reached
    BY <2>6 DEF Unregister, rest
  <2>7. ASSUME NEW r \in Registrations, LookUpPhone(r) \/ StorePhone(r) PROVE reached' = reached
    BY <2>7 DEF LookUpPhone, StorePhone, rest
  <2>8. QED
    BY <2>1, <2>2, <2>3, <2>4, <2>5, <2>6, <2>7 DEF AssignmentNext, DelegationStep
<1> HIDE DEF I
<1>4. QED
  BY <1>1, <1>2, <1>3, PTL DEF AssignmentSpec, PushReachesItsPerson

-----------------------------------------------------------------------------
(* ---- Project settings ---- *)

\* What a visit's record may hold, and what a step makes of it.
VisitPcs == {"new", "read", "staged", "open", "done"}
VisitKinds == {"ensure", "rotate", "save"}
VisitFun == [Actors -> [pc : VisitPcs, kind : VisitKinds, base : ProjectRows, seen : Nat,
                        draft : ProjectRows, form : Forms]]
VisitIs(a, pc, kind, base, seen, draft, form) ==
  /\ visit' \in VisitFun /\ \A b \in Actors \ {a} : visit'[b] = visit[b]
  /\ visit'[a].pc = pc /\ visit'[a].kind = kind /\ visit'[a].base = base /\ visit'[a].seen = seen
  /\ visit'[a].draft = draft /\ visit'[a].form = form
\* A step that only moves the request on.
VisitMoves(a, pc) == VisitIs(a, pc, visit[a].kind, visit[a].base, visit[a].seen, visit[a].draft, visit[a].form)
LEMMA SetVisitPc ==
  ASSUME visit \in VisitFun, NEW a \in Actors, NEW v \in VisitPcs, visit' = [visit EXCEPT ![a].pc = v]
  PROVE  VisitMoves(a, v)
  BY DEF VisitFun, VisitIs, VisitMoves
LEMMA SetDraft ==
  ASSUME visit \in VisitFun, NEW a \in Actors, NEW v \in VisitPcs, NEW d \in ProjectRows,
         visit' = [visit EXCEPT ![a].pc = v, ![a].draft = d]
  PROVE  VisitIs(a, v, visit[a].kind, visit[a].base, visit[a].seen, d, visit[a].form)
  BY DEF VisitFun, VisitIs
LEMMA SetRead ==
  ASSUME visit \in VisitFun, NEW a \in Actors, NEW v \in VisitPcs, NEW k \in VisitKinds, NEW f \in Forms,
         NEW b \in ProjectRows, NEW n \in Nat,
         visit' = [visit EXCEPT ![a].pc = v, ![a].kind = k, ![a].form = f, ![a].base = b, ![a].seen = n]
  PROVE  VisitIs(a, v, k, b, n, visit[a].draft, f)
  BY DEF VisitFun, VisitIs

\* What a request stages has a secret and changes only what its read allows.
AskedOnly(v) ==
  /\ v.draft.credentials.secret # v.base.credentials.secret /\ HasSecret(v.base) => v.kind = "rotate"
  /\ v.draft.credentials.token # v.base.credentials.token => v.kind = "save" /\ v.form.token
  /\ v.draft.sinkUrl # v.base.sinkUrl => v.kind = "save" /\ v.form.sinkUrl
VisitInv(a) ==
  /\ visit[a].pc \in {"read", "staged"} =>
       visit[a].seen <= version /\ (visit[a].seen = version => visit[a].base = row)
  /\ visit[a].pc = "staged" =>
       /\ rowLock = a /\ HasSecret(visit[a].draft)
       /\ visit[a].seen = version => AskedOnly(visit[a])
SettingsInv ==
  /\ visit \in VisitFun /\ row \in ProjectRows /\ version \in Nat /\ fresh \in Nat
  /\ \A a \in Actors : VisitInv(a)

LEMMA SettingsInitially == SettingsInit => SettingsInv
<1> SUFFICES ASSUME SettingsInit PROVE SettingsInv
  OBVIOUS
<1>1. row \in ProjectRows
  <2>1. PICK s \in {0, Unset}, t \in SinkTypes :
          row = [credentials |-> [secret |-> s, token |-> 1],
                 sinkType |-> t, sinkUrl |-> IF t = "http" THEN 2 ELSE Unset]
    BY DEF SettingsInit
  <2>2. [secret |-> s, token |-> 1] \in Credentials
    BY DEF Credentials
  <2>3. QED
    BY <2>1, <2>2 DEF ProjectRows
<1>2. version = 0 /\ fresh = 4 /\ rowLock = Nobody /\ \A a \in Actors : visit[a].pc = "new"
  BY DEF SettingsInit
<1>3. visit \in VisitFun
  <2>1. [sinkType |-> "none", token |-> FALSE, sinkUrl |-> FALSE] \in Forms
    BY DEF Forms, SinkTypes
  <2>2. QED
    BY <1>1, <2>1 DEF SettingsInit, VisitFun, VisitPcs, VisitKinds
<1>4. QED
  BY <1>1, <1>2, <1>3 DEF SettingsInv, VisitInv

LEMMA UpdatedIs ==
  ASSUME SettingsInv, NEW a \in Actors
  PROVE  LET v == visit[a] u == Updated(v) IN
    /\ u \in ProjectRows /\ HasSecret(u)
    /\ row = v.base /\ (v.kind = "ensure" => ~HasSecret(v.base)) =>
         /\ u.credentials.secret # v.base.credentials.secret /\ HasSecret(v.base) => v.kind = "rotate"
         /\ u.credentials.token # v.base.credentials.token => v.kind = "save" /\ v.form.token
         /\ u.sinkUrl # v.base.sinkUrl => v.kind = "save" /\ v.form.sinkUrl
<1> USE SettingsAssumption
<1> DEFINE v == visit[a]
           u == Updated(v)
<1>1. v.base \in ProjectRows /\ v.form \in Forms /\ v.kind \in VisitKinds /\ row \in ProjectRows /\ fresh \in Nat
  BY DEF SettingsInv, VisitFun
<1>2. v.base.credentials \in Credentials /\ row.credentials \in Credentials
      /\ v.base.sinkUrl \in Nat \cup {Unset} /\ v.form.sinkType \in SinkTypes
  BY <1>1 DEF ProjectRows, Forms
<1> DEFINE b == v.base
           f == v.form
<1> HIDE DEF v
<1>3. CASE v.kind = "save"
  <2>1. u = [credentials |-> SavedCredentials(b, f), sinkType |-> f.sinkType, sinkUrl |-> SavedUrl(b, f)]
    BY <1>3 DEF Updated, NewCredentials
  <2>2. SavedUrl(b, f) \in Nat \cup {Unset} /\ (SavedUrl(b, f) # b.sinkUrl => f.sinkUrl)
    BY <1>1, <1>2 DEF SavedUrl
  <2> DEFINE c == SavedCredentials(b, f)
  <2>3. /\ c \in Credentials /\ c.secret # Unset
        /\ b.credentials.secret # Unset => c.secret = b.credentials.secret
        /\ c.token # b.credentials.token => f.token
    <3>1. b.credentials.secret \in Nat \cup {Unset} /\ b.credentials.token \in Nat \cup {Unset}
      BY <1>2 DEF Credentials
    <3>2. QED
      BY <1>1, <3>1 DEF SavedCredentials, Credentials
  <2> HIDE DEF c
  <2>4. u \in ProjectRows /\ u.credentials = c /\ u.sinkUrl = SavedUrl(b, f)
    BY <1>2, <2>1, <2>2, <2>3 DEF ProjectRows, c
  <2> HIDE DEF u, b, f
  <2>5. QED
    BY <1>3, <2>2, <2>3, <2>4 DEF HasSecret, u, b, f, v
<1>4. CASE v.kind # "save"
  <2> DEFINE c == [b.credentials EXCEPT !.secret = fresh]
  <2>1. u = [row EXCEPT !.credentials = c]
    BY <1>4, Zenon DEF Updated, NewCredentials
  <2>2. c \in Credentials /\ c.secret = fresh /\ c.token = b.credentials.token
    <3>1. fresh \in Nat \cup {Unset}
      BY <1>1
    <3> DEFINE NU == Nat \cup {Unset}
    <3>2. b.credentials \in [secret : NU, token : NU] /\ fresh \in NU
      BY <1>2, <3>1 DEF Credentials
    <3> HIDE DEF NU
    <3>3. c \in [secret : NU, token : NU] /\ c.secret = fresh /\ c.token = b.credentials.token
      BY <3>2
    <3>4. QED
      BY <3>3 DEF NU, Credentials
  <2> HIDE DEF c
  <2>3. u \in ProjectRows /\ u.credentials = c /\ u.sinkUrl = row.sinkUrl
    <3> DEFINE NU == Nat \cup {Unset}
    <3>1. row \in [credentials : Credentials, sinkType : SinkTypes, sinkUrl : NU]
      BY <1>1 DEF ProjectRows
    <3> HIDE DEF NU
    <3>2. [row EXCEPT !.credentials = c] \in [credentials : Credentials, sinkType : SinkTypes, sinkUrl : NU]
          /\ [row EXCEPT !.credentials = c].credentials = c /\ [row EXCEPT !.credentials = c].sinkUrl = row.sinkUrl
      BY <2>2, <3>1
    <3>3. QED
      BY <2>1, <3>2 DEF NU, ProjectRows
  <2> HIDE DEF u, b
  <2>4. QED
    BY <1>1, <1>4, <2>2, <2>3 DEF HasSecret, VisitKinds, u, b, v
<1>5. QED
  BY <1>3, <1>4
LEMMA ReadKeeps ==
  ASSUME SettingsInv, NEW a \in Actors, NEW k \in VisitKinds, NEW f \in Forms, Read(a, k, f)
  PROVE  SettingsInv'
<1>1. row \in ProjectRows /\ version \in Nat /\ visit \in VisitFun
  BY DEF SettingsInv
<1>2. UNCHANGED <<row, version, rowLock, fresh>>
  BY DEF Read
<1>3. VisitIs(a, "read", k, row, version, visit[a].draft, f)
  <2>1. "read" \in VisitPcs
    BY DEF VisitPcs
  <2>2. visit' = [visit EXCEPT ![a].pc = "read", ![a].kind = k, ![a].form = f,
                               ![a].base = row, ![a].seen = version]
    BY DEF Read
  <2>3. QED
    BY <1>1, <2>1, <2>2, SetRead
<1>4. ASSUME NEW b \in Actors PROVE VisitInv(b)'
  <2>1. CASE b = a
    BY <1>1, <1>2, <1>3, <2>1 DEF VisitIs, VisitInv
  <2>2. CASE b # a
    BY <1>2, <1>3, <2>2 DEF SettingsInv, VisitIs, VisitInv, AskedOnly
  <2>3. QED
    BY <2>1, <2>2
<1>5. QED
  BY <1>1, <1>2, <1>3, <1>4 DEF SettingsInv, VisitIs

\* A request that only moves on, or gives up, and leaves the row.
LEMMA MoveKeeps ==
  ASSUME SettingsInv, NEW a \in Actors, NEW pc \in {"open", "done"}, VisitMoves(a, pc),
         UNCHANGED <<row, version, fresh>>, visit[a].pc = "staged" \/ rowLock' = rowLock,
         rowLock' \in {rowLock, Nobody}, rowLock' # rowLock => rowLock = a
  PROVE  SettingsInv'
<1>1. ASSUME NEW b \in Actors PROVE VisitInv(b)'
  <2>1. CASE b = a
    BY <2>1 DEF VisitMoves, VisitIs, VisitInv
  <2>2. CASE b # a
    <3>1. visit'[b] = visit[b] /\ VisitInv(b)
      BY <2>2 DEF VisitMoves, VisitIs, SettingsInv
    <3>2. QED
      BY <2>2, <3>1 DEF VisitInv, AskedOnly
  <2>3. QED
    BY <2>1, <2>2
<1>2. QED
  BY <1>1 DEF SettingsInv, VisitMoves, VisitIs

LEMMA StageKeeps ==
  ASSUME SettingsInv, NEW a \in Actors, Stage(a)
  PROVE  SettingsInv'
<1> USE SettingsAssumption
<1> DEFINE v == visit[a]
           u == Updated(v)
<1>1. visit \in VisitFun /\ v.kind \in VisitKinds /\ VisitInv(a) /\ version \in Nat /\ fresh \in Nat
  BY DEF SettingsInv, VisitFun
<1>2. /\ u \in ProjectRows /\ HasSecret(u)
      /\ row = v.base /\ (v.kind = "ensure" => ~HasSecret(v.base)) =>
           /\ u.credentials.secret # v.base.credentials.secret /\ HasSecret(v.base) => v.kind = "rotate"
           /\ u.credentials.token # v.base.credentials.token => v.kind = "save" /\ v.form.token
           /\ u.sinkUrl # v.base.sinkUrl => v.kind = "save" /\ v.form.sinkUrl
  BY UpdatedIs
<1>3. /\ v.pc = "read" /\ rowLock = Nobody /\ (v.kind = "ensure" => ~HasSecret(v.base))
      /\ rowLock' = a /\ fresh' = fresh + 3 /\ UNCHANGED <<row, version>>
  BY DEF Stage
<1>4. VisitIs(a, "staged", v.kind, v.base, v.seen, u, v.form)
  <2>1. "staged" \in VisitPcs
    BY DEF VisitPcs
  <2>2. visit' = [visit EXCEPT ![a].pc = "staged", ![a].draft = u]
    BY DEF Stage
  <2>3. QED
    BY <1>1, <1>2, <2>1, <2>2, SetDraft
<1>5. ASSUME NEW b \in Actors PROVE VisitInv(b)'
  <2>1. CASE b = a
    <3>1. v.seen <= version /\ (v.seen = version => v.base = row)
      BY <1>1, <1>3 DEF VisitInv
    <3> HIDE DEF u
    <3>2. v.seen = version => AskedOnly(visit'[a])
      BY <1>2, <1>3, <1>4, <3>1 DEF VisitIs, AskedOnly
    <3>3. QED
      BY <1>2, <1>3, <1>4, <2>1, <3>1, <3>2 DEF VisitIs, VisitInv, AskedOnly, HasSecret
  <2>2. CASE b # a
    <3>1. visit'[b] = visit[b] /\ VisitInv(b) /\ rowLock # b
      BY <1>3, <1>4, <2>2 DEF VisitIs, SettingsInv
    <3>2. visit[b].pc # "staged"
      BY <3>1 DEF VisitInv
    <3>3. QED
      BY <1>3, <3>1, <3>2 DEF VisitInv
  <2>3. QED
    BY <2>1, <2>2
<1>6. row' \in ProjectRows /\ version' \in Nat /\ fresh' \in Nat
  BY <1>1, <1>3 DEF SettingsInv
<1>7. QED
  BY <1>4, <1>5, <1>6 DEF SettingsInv, VisitIs

LEMMA CommitKeeps ==
  ASSUME SettingsInv, NEW a \in Actors, Commit(a)
  PROVE  SettingsInv'
<1> USE SettingsAssumption
<1>1. visit \in VisitFun /\ version \in Nat /\ fresh \in Nat /\ visit[a].draft \in ProjectRows /\ VisitInv(a)
  BY DEF SettingsInv, VisitFun
<1>2. /\ visit[a].pc = "staged" /\ row' = visit[a].draft /\ version' = version + 1 /\ rowLock' = Nobody
      /\ fresh' = fresh
  BY DEF Commit
<1>3. PICK pc \in {"open", "done"} : VisitMoves(a, pc)
  <2>1. visit' = [visit EXCEPT ![a].pc = IF a \in Pages /\ visit[a].kind = "ensure" THEN "open" ELSE "done"]
    BY DEF Commit
  <2>2. "open" \in VisitPcs /\ "done" \in VisitPcs
    BY DEF VisitPcs
  <2>3. QED
    BY <1>1, <2>1, <2>2, SetVisitPc
<1>4. ASSUME NEW b \in Actors PROVE VisitInv(b)'
  <2>1. CASE b = a
    BY <1>3, <2>1 DEF VisitMoves, VisitIs, VisitInv
  <2>2. CASE b # a
    <3>1. visit'[b] = visit[b] /\ VisitInv(b) /\ visit[b].seen \in Nat
      BY <1>1, <1>3, <2>2 DEF VisitMoves, VisitIs, SettingsInv, VisitFun
    <3>2. visit[b].pc # "staged"
      BY <1>1, <1>2, <2>2, <3>1 DEF VisitInv
    <3>3. QED
      BY <1>1, <1>2, <3>1, <3>2 DEF VisitInv
  <2>3. QED
    BY <2>1, <2>2
<1>5. QED
  BY <1>1, <1>2, <1>3, <1>4 DEF SettingsInv, VisitMoves, VisitIs

LEMMA SettingsKeep == SettingsInv /\ [SettingsNext]_settingsVars => SettingsInv'
<1> SUFFICES ASSUME SettingsInv, [SettingsNext]_settingsVars PROVE SettingsInv'
  OBVIOUS
<1> USE SettingsAssumption
<1>1. ASSUME UNCHANGED <<row, version, rowLock, visit>>, fresh' \in Nat PROVE SettingsInv'
  BY <1>1 DEF SettingsInv, VisitInv, AskedOnly
<1>2. CASE UNCHANGED settingsVars
  BY <1>1, <1>2 DEF SettingsInv, settingsVars
<1>3. CASE KeyWork
  <2>1. PICK o \in KeyOps : FindKey(o) \/ StageKey(o) \/ CommitKey(o)
    BY <1>3 DEF KeyWork
  <2>2. UNCHANGED settings /\ (fresh' = fresh \/ fresh' = fresh + 1)
    BY <2>1 DEF FindKey, StageKey, CommitKey
  <2>3. fresh' \in Nat
    BY <2>2 DEF SettingsInv
  <2>4. QED
    BY <1>1, <2>2, <2>3 DEF settings
<1>4. ASSUME NEW a \in Actors,
             \/ Visit(a) \/ EnsureFound(a) \/ Press(a) \/ PhoneSave(a)
             \/ Stage(a) \/ Commit(a) \/ Rollback(a)
      PROVE  SettingsInv'
  <2>1. visit \in VisitFun /\ visit[a].form \in Forms /\ VisitInv(a)
    BY DEF SettingsInv, VisitFun
  <2>2. CASE Visit(a)
    <3>1. Read(a, "ensure", visit[a].form) /\ "ensure" \in VisitKinds
      BY <2>2 DEF Visit, VisitKinds
    <3>2. QED
      BY <2>1, <3>1, ReadKeeps
  <2>3. CASE Press(a)
    <3>1. "rotate" \in VisitKinds /\ "save" \in VisitKinds /\ PageForms \subseteq Forms
      BY DEF VisitKinds, Forms
    <3>2. CASE Read(a, "rotate", visit[a].form)
      BY <2>1, <3>1, <3>2, ReadKeeps
    <3>3. CASE \E form \in PageForms : Read(a, "save", form)
      <4>1. PICK form \in PageForms : Read(a, "save", form)
        BY <3>3
      <4>2. QED
        BY <3>1, <4>1, ReadKeeps
    <3>4. QED
      BY <2>3, <3>2, <3>3 DEF Press
  <2>4. CASE PhoneSave(a)
    <3>1. PICK typed \in BOOLEAN : Read(a, "save", PhoneForm(typed))
      BY <2>4 DEF PhoneSave
    <3>2. "save" \in VisitKinds /\ PhoneForm(typed) \in Forms
      BY DEF VisitKinds, Forms, SinkTypes, PhoneForm
    <3>3. QED
      BY <3>1, <3>2, ReadKeeps
  <2>5. CASE EnsureFound(a)
    <3>1. UNCHANGED <<row, version, rowLock, fresh>>
      BY <2>5 DEF EnsureFound
    <3>2. PICK pc \in {"open", "done"} : VisitMoves(a, pc)
      <4>1. visit' = [visit EXCEPT ![a].pc = IF a \in Pages THEN "open" ELSE "done"]
        BY <2>5 DEF EnsureFound
      <4>2. "open" \in VisitPcs /\ "done" \in VisitPcs
        BY DEF VisitPcs
      <4>3. QED
        BY <2>1, <4>1, <4>2, SetVisitPc
    <3>3. QED
      BY <3>1, <3>2, MoveKeeps
  <2>6. CASE Stage(a)
    BY <2>6, StageKeeps
  <2>7. CASE Commit(a)
    BY <2>7, CommitKeeps
  <2>8. CASE Rollback(a)
    <3>1. /\ UNCHANGED <<row, version, fresh>> /\ rowLock' = IF rowLock = a THEN Nobody ELSE rowLock
          /\ visit[a].pc \in {"read", "staged"}
      BY <2>8 DEF Rollback
    <3>2. VisitMoves(a, "done")
      <4>1. visit' = [visit EXCEPT ![a].pc = "done"] /\ "done" \in VisitPcs
        BY <2>8 DEF Rollback, VisitPcs
      <4>2. QED
        BY <2>1, <4>1, SetVisitPc
    <3>3. ASSUME NEW b \in Actors PROVE VisitInv(b)'
      <4>1. CASE b = a
        BY <3>2, <4>1 DEF VisitMoves, VisitIs, VisitInv
      <4>2. CASE b # a
        <5>1. visit'[b] = visit[b] /\ VisitInv(b)
          BY <3>2, <4>2 DEF VisitMoves, VisitIs, SettingsInv
        <5>2. QED
          BY <3>1, <4>2, <5>1 DEF VisitInv, AskedOnly
      <4>3. QED
        BY <4>1, <4>2
    <3>4. QED
      BY <3>1, <3>2, <3>3 DEF SettingsInv, VisitMoves, VisitIs
  <2>9. QED
    BY <1>4, <2>2, <2>3, <2>4, <2>5, <2>6, <2>7, <2>8
<1>5. QED
  BY <1>2, <1>3, <1>4 DEF SettingsNext, Visits

\* The row changes in a commit only, and then to what the request staged.
LEMMA RowChanges ==
  ASSUME SettingsInv, [SettingsNext]_settingsVars, version' # version \/ row' # row
  PROVE  \E a \in Actors : rowLock = a /\ Commit(a)
<1>1. ~UNCHANGED settingsVars
  BY DEF settingsVars
<1>2. ~KeyWork
  BY DEF KeyWork, FindKey, StageKey, CommitKey, settings
<1>3. PICK a \in Actors :
        \/ Visit(a) \/ EnsureFound(a) \/ Press(a) \/ PhoneSave(a)
        \/ Stage(a) \/ Commit(a) \/ Rollback(a)
  BY <1>1, <1>2 DEF SettingsNext, Visits
<1>4. Commit(a)
  BY <1>3 DEF Visit, EnsureFound, Press, PhoneSave, Stage, Rollback, Read
<1>5. visit[a].pc = "staged" /\ VisitInv(a)
  BY <1>4 DEF Commit, SettingsInv
<1>6. QED
  BY <1>4, <1>5 DEF VisitInv

\* Whatever a page, a phone and a decision read before each other's commits
\* (saveProjectConfig, ensureProjectResumeSecret), a project keeps a secret.
THEOREM SecretTheorem == SettingsSpec => SecretStays
<1>1. SettingsInv /\ [SettingsNext]_settingsVars => [HasSecret(row) => HasSecret(row')]_settingsVars
  <2> SUFFICES ASSUME SettingsInv, [SettingsNext]_settingsVars, HasSecret(row)
               PROVE  HasSecret(row')
    OBVIOUS
  <2>1. CASE row' = row
    BY <2>1
  <2>2. CASE row' # row
    <3>1. PICK a \in Actors : Commit(a)
      BY <2>2, RowChanges
    <3>2. visit[a].pc = "staged" /\ row' = visit[a].draft /\ VisitInv(a)
      BY <3>1 DEF Commit, SettingsInv
    <3>3. QED
      BY <3>2 DEF VisitInv
  <2>3. QED
    BY <2>1, <2>2
<1>2. QED
  BY <1>1, SettingsInitially, SettingsKeep, PTL DEF SettingsSpec, SecretStays

\* A commit changes a value nobody asked it to change only when the row was
\* updated between its read and its update: without such a race no secret, token
\* or address of a project is lost.
THEOREM RacesTheorem == SettingsSpec => OnlyRacesUndo
<1>1. SettingsInv /\ [SettingsNext]_settingsVars =>
        [\A a \in Actors : version' # version /\ rowLock = a /\ Unasked(visit[a])
                             => visit[a].seen < version]_settingsVars
  <2> SUFFICES ASSUME SettingsInv, [SettingsNext]_settingsVars, NEW a \in Actors,
                      version' # version, rowLock = a, Unasked(visit[a]), ~(visit[a].seen < version)
               PROVE  FALSE
    OBVIOUS
  <2>1. PICK b \in Actors : rowLock = b /\ Commit(b)
    BY RowChanges
  <2>2. visit[a].pc = "staged" /\ row' = visit[a].draft
    BY <2>1 DEF Commit
  <2>3. VisitInv(a) /\ version \in Nat /\ visit[a].seen \in Nat
    BY DEF SettingsInv, VisitFun
  <2>4. visit[a].seen = version /\ visit[a].base = row /\ AskedOnly(visit[a])
    BY <2>2, <2>3 DEF VisitInv
  <2>5. QED
    BY <2>2, <2>4 DEF AskedOnly, Unasked
<1>2. QED
  BY <1>1, SettingsInitially, SettingsKeep, PTL DEF SettingsSpec, OnlyRacesUndo

-----------------------------------------------------------------------------
(* ---- API keys ---- *)

KeyPcs == {"new", "found", "staged", "done"}
KeyKinds == {"regenerate", "delete"}
RawKeys == Nat \cup {Unset}
KeyFun == [KeyOps -> [pc : KeyPcs, kind : KeyKinds, key : KeyIds, raw : RawKeys]]
KeyOpIs(o, pc, raw) ==
  /\ keyOp' \in KeyFun /\ \A p \in KeyOps \ {o} : keyOp'[p] = keyOp[p]
  /\ keyOp'[o].pc = pc /\ keyOp'[o].key = keyOp[o].key /\ keyOp'[o].raw = raw
LEMMA SetKeyPc ==
  ASSUME keyOp \in KeyFun, NEW o \in KeyOps, NEW v \in KeyPcs, keyOp' = [keyOp EXCEPT ![o].pc = v]
  PROVE  KeyOpIs(o, v, keyOp[o].raw)
  BY DEF KeyFun, KeyOpIs
LEMMA SetRaw ==
  ASSUME keyOp \in KeyFun, NEW o \in KeyOps, NEW v \in KeyPcs, NEW x \in RawKeys,
         keyOp' = [keyOp EXCEPT ![o].pc = v, ![o].raw = x]
  PROVE  KeyOpIs(o, v, x)
  BY DEF KeyFun, KeyOpIs

\* A raw key that is staged is held by one request, which has the lock of its
\* row; it is stored nowhere yet, was not revoked, and no other request has it.
StagedInv(o) ==
  keyOp[o].pc = "staged" =>
    /\ keyLock[keyOp[o].key] = o
    /\ keyOp[o].raw # Unset =>
         /\ keyOp[o].raw < fresh /\ keyOp[o].raw \notin revoked
         /\ \A k \in KeyIds : keys[k] # keyOp[o].raw
         /\ \A p \in KeyOps \ {o} : keyOp[p].pc = "staged" => keyOp[p].raw # keyOp[o].raw
KeysInv ==
  /\ keyOp \in KeyFun /\ keys \in [KeyIds -> RawKeys] /\ fresh \in Nat
  /\ keyLock \in [KeyIds -> KeyOps \cup {Nobody}] /\ revoked \subseteq Nat
  /\ \A k \in KeyIds : keys[k] # Unset => keys[k] < fresh
  /\ \A r \in revoked : r < fresh
  /\ \A o \in KeyOps : StagedInv(o)

LEMMA KeysInitially == SettingsInit => KeysInv
<1> SUFFICES ASSUME SettingsInit PROVE KeysInv
  OBVIOUS
<1>1. keyOp \in KeyFun /\ \A o \in KeyOps : keyOp[o].pc = "new"
  BY DEF SettingsInit, KeyFun, KeyPcs, KeyKinds, RawKeys
<1>2. keys = [k \in KeyIds |-> 3] /\ keyLock = [k \in KeyIds |-> Nobody] /\ fresh = 4 /\ revoked = {}
  BY DEF SettingsInit
<1>3. QED
  BY <1>1, <1>2 DEF KeysInv, StagedInv, RawKeys

LEMMA FindKeyKeeps ==
  ASSUME KeysInv, NEW o \in KeyOps, FindKey(o)
  PROVE  KeysInv'
<1>1. UNCHANGED <<keys, keyLock, revoked, fresh>>
  BY DEF FindKey
<1>2. PICK pc \in {"found", "done"} : KeyOpIs(o, pc, keyOp[o].raw)
  <2>1. keyOp' = [keyOp EXCEPT ![o].pc = IF keys[keyOp[o].key] = Unset THEN "done" ELSE "found"]
    BY DEF FindKey
  <2>2. "found" \in KeyPcs /\ "done" \in KeyPcs
    BY DEF KeyPcs
  <2>3. QED
    BY <2>1, <2>2, SetKeyPc DEF KeysInv
<1>3. ASSUME NEW p \in KeyOps PROVE StagedInv(p)'
  <2>1. \A q \in KeyOps : keyOp'[q].pc = "staged" => q # o /\ keyOp'[q] = keyOp[q]
    BY <1>2 DEF KeyOpIs
  <2>2. StagedInv(p)
    BY DEF KeysInv
  <2>3. QED
    BY <1>1, <2>1, <2>2 DEF StagedInv
<1>4. QED
  BY <1>1, <1>2, <1>3 DEF KeysInv, KeyOpIs

LEMMA StageKeyKeeps ==
  ASSUME KeysInv, NEW o \in KeyOps, StageKey(o)
  PROVE  KeysInv'
<1> USE SettingsAssumption
<1>1. /\ keyOp[o].pc = "found" /\ keyLock[keyOp[o].key] = Nobody
      /\ keyLock' = [keyLock EXCEPT ![keyOp[o].key] = o]
      /\ fresh' = fresh + 1 /\ UNCHANGED <<keys, revoked>>
  BY DEF StageKey
<1>2. fresh \in Nat /\ keyOp \in KeyFun /\ keyOp[o].key \in KeyIds
      /\ keyLock \in [KeyIds -> KeyOps \cup {Nobody}]
  BY DEF KeysInv, KeyFun
<1>3. PICK x \in {fresh, Unset} : KeyOpIs(o, "staged", x)
  <2>1. keyOp' = [keyOp EXCEPT ![o].pc = "staged",
                               ![o].raw = IF keyOp[o].kind = "regenerate" THEN fresh ELSE Unset]
    BY DEF StageKey
  <2>2. "staged" \in KeyPcs /\ fresh \in RawKeys /\ Unset \in RawKeys
    BY <1>2 DEF KeyPcs, RawKeys
  <2>3. QED
    BY <1>2, <2>1, <2>2, SetRaw
<1>4. ASSUME NEW p \in KeyOps, p # o PROVE keyOp'[p] = keyOp[p] /\ StagedInv(p) /\ keyOp[p].key \in KeyIds
  BY <1>3, <1>4 DEF KeyOpIs, KeysInv, KeyFun
<1>5. \A p \in KeyOps \ {o} : keyOp[p].pc = "staged" /\ keyOp[p].raw # Unset => keyOp[p].raw < fresh
  BY <1>4 DEF StagedInv
<1>6. \A k \in KeyIds : keys[k] # Unset => keys[k] \in Nat /\ keys[k] < fresh
  BY DEF KeysInv, RawKeys
<1>7. \A r \in revoked : r \in Nat /\ r < fresh
  BY DEF KeysInv
<1>8. keyOp'[o].pc = "staged" /\ keyOp'[o].raw = x /\ keyOp'[o].key = keyOp[o].key
  BY <1>3 DEF KeyOpIs
<1>9. StagedInv(o)'
  <2>1. keyLock'[keyOp'[o].key] = o
    BY <1>1, <1>2, <1>8
  <2>2. CASE x = Unset
    BY <1>8, <2>1, <2>2 DEF StagedInv
  <2>3. CASE x = fresh
    <3>1. x < fresh' /\ x \notin revoked' /\ x \in Nat
      BY <1>1, <1>2, <1>7, <2>3
    <3>2. \A k \in KeyIds : keys'[k] # x
      BY <1>1, <1>2, <1>6, <2>3
    <3>3. \A p \in KeyOps \ {o} : keyOp'[p].pc = "staged" => keyOp'[p].raw # x
      BY <1>2, <1>4, <1>5, <2>3
    <3>4. QED
      BY <1>8, <2>1, <3>1, <3>2, <3>3 DEF StagedInv
  <2>4. QED
    BY <2>2, <2>3
<1>10. ASSUME NEW p \in KeyOps, p # o PROVE StagedInv(p)'
  <2>1. CASE keyOp[p].pc = "staged"
    <3>1. keyLock[keyOp[p].key] = p
      BY <1>4, <1>10, <2>1 DEF StagedInv
    <3>2. keyOp[p].key # keyOp[o].key /\ keyLock'[keyOp[p].key] = p
      BY <1>1, <1>2, <1>4, <1>10, <3>1
    <3>3. keyOp[p].raw \in RawKeys
      BY <1>2 DEF KeyFun
    <3>4. keyOp[p].raw # Unset => keyOp[p].raw < fresh' /\ keyOp[p].raw # x
      BY <1>1, <1>2, <1>5, <1>10, <2>1, <3>3 DEF RawKeys
    <3>5. \A q \in KeyOps \ {p} : keyOp[p].raw # Unset /\ keyOp'[q].pc = "staged" => keyOp'[q].raw # keyOp[p].raw
      <4>1. TAKE q \in KeyOps \ {p}
      <4>2. CASE q = o
        BY <1>8, <3>4, <4>2
      <4>3. CASE q # o
        BY <1>4, <1>10, <2>1, <4>3 DEF StagedInv
      <4>4. QED
        BY <4>2, <4>3
    <3>6. QED
      BY <1>1, <1>4, <1>10, <2>1, <3>2, <3>4, <3>5 DEF StagedInv
  <2>2. CASE keyOp[p].pc # "staged"
    BY <1>4, <1>10, <2>2 DEF StagedInv
  <2>3. QED
    BY <2>1, <2>2
<1>11. /\ keyOp' \in KeyFun /\ keyLock' \in [KeyIds -> KeyOps \cup {Nobody}] /\ fresh' \in Nat
       /\ keys' \in [KeyIds -> RawKeys] /\ revoked' \subseteq Nat
  BY <1>1, <1>2, <1>3 DEF KeyOpIs, KeysInv
<1>12. (\A k \in KeyIds : keys'[k] # Unset => keys'[k] < fresh') /\ \A r \in revoked' : r < fresh'
  BY <1>1, <1>2, <1>6, <1>7
<1>13. QED
  BY <1>9, <1>10, <1>11, <1>12 DEF KeysInv

LEMMA CommitKeyKeeps ==
  ASSUME KeysInv, NEW o \in KeyOps, CommitKey(o)
  PROVE  KeysInv'
<1> USE SettingsAssumption
<1> DEFINE k0 == keyOp[o].key
           x == KeyAfter(o)
<1>1. /\ keyOp[o].pc = "staged"
      /\ keys' = [keys EXCEPT ![k0] = x] /\ keyLock' = [keyLock EXCEPT ![k0] = Nobody]
      /\ revoked' = revoked \cup ({keys[k0]} \ {Unset}) /\ fresh' = fresh
  BY DEF CommitKey
<1>2. /\ fresh \in Nat /\ keyOp \in KeyFun /\ k0 \in KeyIds /\ keyOp[o].raw \in RawKeys
      /\ keyLock \in [KeyIds -> KeyOps \cup {Nobody}] /\ keys \in [KeyIds -> RawKeys]
      /\ keys[k0] \in RawKeys /\ revoked \subseteq Nat /\ StagedInv(o)
  BY DEF KeysInv, KeyFun
<1>3. KeyOpIs(o, "done", keyOp[o].raw)
  <2>1. keyOp' = [keyOp EXCEPT ![o].pc = "done"] /\ "done" \in KeyPcs
    BY DEF CommitKey, KeyPcs
  <2>2. QED
    BY <1>2, <2>1, SetKeyPc
<1>4. x \in {Unset, keyOp[o].raw} /\ x \in RawKeys
  BY <1>2 DEF KeyAfter, RawKeys
<1> HIDE DEF x, k0
<1>5. (\A k \in KeyIds : keys'[k] # Unset => keys'[k] < fresh') /\ \A r \in revoked' : r < fresh'
  <2>1. keyOp[o].raw # Unset => keyOp[o].raw < fresh
    BY <1>1, <1>2 DEF StagedInv
  <2>2. \A k \in KeyIds : keys[k] # Unset => keys[k] < fresh
    BY DEF KeysInv
  <2>3. \A r \in revoked : r < fresh
    BY DEF KeysInv
  <2>4. \A k \in KeyIds : keys'[k] = x \/ keys'[k] = keys[k]
    BY <1>1, <1>2
  <2>5. QED
    BY <1>1, <1>2, <1>4, <2>1, <2>2, <2>3, <2>4
<1>6. keys' \in [KeyIds -> RawKeys] /\ keyLock' \in [KeyIds -> KeyOps \cup {Nobody}] /\ revoked' \subseteq Nat
  <2>1. keys' \in [KeyIds -> RawKeys]
    BY <1>1, <1>2, <1>4
  <2>2. revoked' \subseteq Nat
    BY <1>1, <1>2 DEF RawKeys
  <2>3. QED
    BY <1>1, <1>2, <2>1, <2>2
<1>7. ASSUME NEW p \in KeyOps PROVE StagedInv(p)'
  <2>1. CASE p = o
    BY <1>3, <2>1 DEF KeyOpIs, StagedInv
  <2>2. CASE p # o /\ keyOp[p].pc # "staged"
    BY <1>3, <2>2 DEF KeyOpIs, StagedInv
  <2>3. CASE p # o /\ keyOp[p].pc = "staged"
    <3>1. keyOp'[p] = keyOp[p] /\ StagedInv(p) /\ keyOp[p].key \in KeyIds
      BY <1>2, <1>3, <2>3 DEF KeyOpIs, KeysInv, KeyFun
    <3>2. keyOp[p].key # k0 /\ keyLock'[keyOp[p].key] = p
      BY <1>1, <1>2, <2>3, <3>1 DEF StagedInv, k0
    <3>3. keyOp[p].raw # Unset => keyOp[p].raw # keyOp[o].raw /\ keyOp[p].raw # keys[k0]
      BY <1>1, <1>2, <2>3, <3>1 DEF StagedInv
    <3>4. keyOp[p].raw # Unset => keyOp[p].raw \notin revoked' /\ \A k \in KeyIds : keys'[k] # keyOp[p].raw
      <4>1. \A k \in KeyIds : keys'[k] = x \/ keys'[k] = keys[k]
        BY <1>1, <1>2
      <4>2. QED
        BY <1>1, <1>4, <2>3, <3>1, <3>3, <4>1 DEF StagedInv
    <3>5. \A q \in KeyOps \ {p} : keyOp'[q].pc = "staged" => keyOp[q].pc = "staged" /\ keyOp'[q].raw = keyOp[q].raw
      BY <1>3 DEF KeyOpIs
    <3>6. QED
      BY <1>1, <2>3, <3>1, <3>2, <3>4, <3>5 DEF StagedInv
  <2>4. QED
    BY <2>1, <2>2, <2>3
<1>8. QED
  BY <1>1, <1>2, <1>3, <1>5, <1>6, <1>7 DEF KeysInv, KeyOpIs

LEMMA KeysKeep == SettingsInv /\ KeysInv /\ [SettingsNext]_settingsVars => KeysInv'
<1> SUFFICES ASSUME SettingsInv, KeysInv, [SettingsNext]_settingsVars PROVE KeysInv'
  OBVIOUS
<1>1. ASSUME UNCHANGED apiKeys, fresh' = fresh \/ fresh' = fresh + 3 PROVE KeysInv'
  <2>1. UNCHANGED <<keys, keyLock, keyOp, revoked>>
    BY <1>1 DEF apiKeys
  <2>2. fresh \in Nat /\ fresh' \in Nat /\ fresh <= fresh'
    BY <1>1 DEF KeysInv
  <2>3. \A k \in KeyIds : keys'[k] # Unset => keys'[k] \in Nat /\ keys'[k] < fresh'
    BY <2>1, <2>2 DEF KeysInv, RawKeys
  <2>4. \A r \in revoked' : r < fresh'
    BY <2>1, <2>2 DEF KeysInv
  <2>5. ASSUME NEW o \in KeyOps PROVE StagedInv(o)'
    <3>1. StagedInv(o) /\ keyOp[o].raw \in RawKeys
      BY DEF KeysInv, KeyFun
    <3>2. QED
      BY <2>1, <2>2, <3>1 DEF StagedInv, RawKeys
  <2>6. QED
    BY <2>1, <2>2, <2>3, <2>4, <2>5 DEF KeysInv
<1>2. CASE UNCHANGED settingsVars
  BY <1>1, <1>2 DEF settingsVars, apiKeys
<1>3. CASE Visits
  <2>1. UNCHANGED apiKeys /\ (fresh' = fresh \/ fresh' = fresh + 3)
    BY <1>3 DEF Visits, Visit, EnsureFound, Press, PhoneSave, Stage, Commit, Rollback, Read
  <2>2. QED
    BY <1>1, <2>1
<1>4. CASE KeyWork
  BY <1>4, FindKeyKeeps, StageKeyKeeps, CommitKeyKeeps DEF KeyWork
<1>5. QED
  BY <1>2, <1>3, <1>4 DEF SettingsNext

\* A raw key that was replaced or deleted never authenticates an origin again
\* and a deleted key stays deleted, however regenerateProjectApiKey and
\* deleteProjectApiKey pass each other on one key.
THEOREM RevokedTheorem == SettingsSpec => RevokedKeysRefused
<1>1. KeysInv /\ [SettingsNext]_settingsVars =>
        [\A k \in KeyIds : keys'[k] # keys[k] => keys[k] # Unset /\ keys'[k] \notin revoked']_settingsVars
  <2> SUFFICES ASSUME KeysInv, [SettingsNext]_settingsVars, NEW k \in KeyIds, keys'[k] # keys[k]
               PROVE  keys[k] # Unset /\ keys'[k] \notin revoked'
    OBVIOUS
  <2> USE SettingsAssumption
  <2>1. ~UNCHANGED settingsVars /\ ~Visits
    BY DEF settingsVars, Visits, Visit, EnsureFound, Press, PhoneSave, Stage, Commit, Rollback, Read, apiKeys
  <2>2. PICK o \in KeyOps : CommitKey(o)
    BY <2>1 DEF SettingsNext, KeyWork, FindKey, StageKey
  <2>3. /\ keyOp[o].pc = "staged" /\ keys' = [keys EXCEPT ![keyOp[o].key] = KeyAfter(o)]
        /\ revoked' = revoked \cup ({keys[keyOp[o].key]} \ {Unset})
    BY <2>2 DEF CommitKey
  <2>4. keys \in [KeyIds -> RawKeys] /\ revoked \subseteq Nat /\ StagedInv(o)
    BY DEF KeysInv
  <2>5. k = keyOp[o].key /\ keys'[k] = KeyAfter(o)
    BY <2>3, <2>4
  <2>6. keys[k] # Unset /\ keys'[k] = keyOp[o].raw
    BY <2>5 DEF KeyAfter
  <2>7. CASE keyOp[o].raw = Unset
    BY <2>3, <2>4, <2>6, <2>7
  <2>8. CASE keyOp[o].raw # Unset
    BY <2>3, <2>4, <2>5, <2>6, <2>8 DEF StagedInv
  <2>9. QED
    BY <2>6, <2>7, <2>8
<1>2. QED
  BY <1>1, SettingsInitially, SettingsKeep, KeysInitially, KeysKeep, PTL DEF SettingsSpec, RevokedKeysRefused

-----------------------------------------------------------------------------
(* ---- The pool of connections ---- *)

\* Nobody waits twice, and who is in the queue waits.
QueueInv ==
  /\ queue \in Seq(Users)
  /\ \A i \in 1..Len(queue) : at[queue[i]] \in Waits
  /\ \A i, j \in 1..Len(queue) : queue[i] = queue[j] => i = j
\* How many connections a request has: none before it has asked, one in its
\* transaction, a second one while its access is checked again.
HeldInv(u) ==
  /\ at[u] \in {"new", "lookup", "begin", "done"} => \A c \in Conns : holder[c] # u
  /\ at[u] \in {"look", "body", "recheck", "work"} =>
       \A c, d \in Conns : holder[c] = u /\ holder[d] = u => c = d
  /\ at[u] = "checking" =>
       \A c, d, e \in Conns : holder[c] = u /\ holder[d] = u /\ holder[e] = u
                              => c = d \/ c = e \/ d = e
  /\ at[u] = "recheck" => u \in Nested
PoolInv ==
  /\ holder \in [Conns -> Users \cup {Idle}] /\ at \in [Users -> Places]
  /\ QueueInv /\ \A u \in Users : HeldInv(u)

\* A request that does not wait yet joins the queue.
LEMMA JoinQueue ==
  ASSUME QueueInv, at \in [Users -> Places], NEW u \in Users, NEW p \in Waits, at[u] \notin Waits,
         at' = [at EXCEPT ![u] = p], queue' = Append(queue, u)
  PROVE  QueueInv'
<1>1. queue \in Seq(Users) /\ Len(queue) \in Nat
  BY LenProperties DEF QueueInv
<1>2. /\ queue' \in Seq(Users) /\ Len(queue') = Len(queue) + 1
      /\ \A i \in 1..Len(queue) : queue'[i] = queue[i]
      /\ queue'[Len(queue) + 1] = u
  BY <1>1
<1>3. \A i \in 1..Len(queue) : queue[i] \in Users /\ queue[i] # u /\ at'[queue[i]] \in Waits
  BY <1>1, ElementOfSeq DEF QueueInv
<1>4. \A i \in 1..Len(queue') : i \in 1..Len(queue) \/ i = Len(queue) + 1
  BY <1>1, <1>2
<1>5. \A i \in 1..Len(queue') : at'[queue'[i]] \in Waits
  BY <1>2, <1>3, <1>4
<1>6. \A i, j \in 1..Len(queue') : queue'[i] = queue'[j] => i = j
  BY <1>2, <1>3, <1>4 DEF QueueInv
<1>7. QED
  BY <1>2, <1>5, <1>6 DEF QueueInv

\* A request that does not wait goes on, and the queue is as it was.
LEMMA KeepQueue ==
  ASSUME QueueInv, at \in [Users -> Places], NEW u \in Users, NEW p, at[u] \notin Waits,
         at' = [at EXCEPT ![u] = p], queue' = queue
  PROVE  QueueInv'
<1>1. \A i \in 1..Len(queue) : queue[i] \in Users
  BY ElementOfSeq DEF QueueInv
<1>2. QED
  BY <1>1 DEF QueueInv

\* The head of the queue has its connection and leaves.
LEMMA LeaveQueue ==
  ASSUME QueueInv, at \in [Users -> Places], queue # <<>>, NEW p,
         at' = [at EXCEPT ![Head(queue)] = p], queue' = Tail(queue)
  PROVE  QueueInv' /\ Head(queue) \in Users /\ at[Head(queue)] \in Waits
<1>1. queue \in Seq(Users) /\ Len(queue) \in Nat /\ Len(queue) > 0 /\ Head(queue) = queue[1]
  BY LenProperties, EmptySeq DEF QueueInv
<1>2. /\ queue' \in Seq(Users) /\ Len(queue') = Len(queue) - 1
      /\ \A i \in 1..Len(queue') : queue'[i] = queue[i + 1]
  BY <1>1, HeadTailProperties
<1>3. \A i \in 1..Len(queue) : queue[i] \in Users
  BY <1>1, ElementOfSeq
<1>4. \A i \in 1..Len(queue') : i + 1 \in 1..Len(queue) /\ 1 \in 1..Len(queue) /\ i + 1 # 1
  BY <1>1, <1>2
<1>5. \A i \in 1..Len(queue') : queue'[i] # Head(queue) /\ at'[queue'[i]] \in Waits
  BY <1>1, <1>2, <1>3, <1>4 DEF QueueInv
<1>6. \A i, j \in 1..Len(queue') : queue'[i] = queue'[j] => i = j
  BY <1>1, <1>2, <1>4 DEF QueueInv
<1>7. QED
  BY <1>1, <1>2, <1>3, <1>5, <1>6 DEF QueueInv

LEMMA GrantKeeps ==
  ASSUME PoolInv, NEW c \in Conns, Grant(c)
  PROVE  PoolInv'
<1> USE PoolAssumption
<1> DEFINE u == Head(queue)
           p == Granted(at[u])
<1>1. /\ holder[c] = Idle /\ queue # <<>> /\ holder' = [holder EXCEPT ![c] = u]
      /\ at' = [at EXCEPT ![u] = p] /\ queue' = Tail(queue)
  BY DEF Grant
<1>2. QueueInv' /\ u \in Users /\ at[u] \in Waits
  BY <1>1, LeaveQueue DEF PoolInv
<1>3. /\ at[u] = "lookup" => p = "look"
      /\ at[u] = "begin" => p = "body"
      /\ at[u] = "recheck" => p = "checking"
  BY DEF Granted
<1>4. p \in Places
  BY <1>2, <1>3 DEF Waits, Places
<1> HIDE DEF u, p
<1>5. /\ holder' \in [Conns -> Users \cup {Idle}] /\ at' \in [Users -> Places]
      /\ at'[u] = p /\ holder'[c] = u
      /\ \A d \in Conns \ {c} : holder'[d] = holder[d]
  BY <1>1, <1>2, <1>4 DEF PoolInv
<1>6. ASSUME NEW v \in Users PROVE HeldInv(v)'
  <2>1. HeldInv(v) /\ HeldInv(u)
    BY <1>2 DEF PoolInv
  <2>2. CASE v = u
    <3>1. CASE at[u] \in {"lookup", "begin"}
      <4>1. \A d \in Conns : holder'[d] = u => d = c
        BY <1>5, <2>1, <3>1 DEF HeldInv
      <4>2. QED
        BY <1>3, <1>5, <2>2, <3>1, <4>1 DEF HeldInv
    <3>2. CASE at[u] = "recheck"
      BY <1>3, <1>5, <2>1, <2>2, <3>2 DEF HeldInv
    <3>3. QED
      BY <1>2, <3>1, <3>2 DEF Waits
  <2>3. CASE v # u
    <3>1. at'[v] = at[v] /\ \A d \in Conns : holder'[d] = v => holder[d] = v
      BY <1>1, <1>2, <1>5, <2>3 DEF PoolInv
    <3>2. QED
      BY <2>1, <3>1 DEF HeldInv
  <2>4. QED
    BY <2>2, <2>3
<1>7. QED
  BY <1>2, <1>5, <1>6 DEF PoolInv

LEMMA PoolStepKeeps ==
  ASSUME PoolInv, NEW u \in Users, LookUpSession(u) \/ PoolStep(u)
  PROVE  PoolInv'
<1> USE PoolAssumption
<1>1. QueueInv /\ at \in [Users -> Places] /\ holder \in [Conns -> Users \cup {Idle}] /\ HeldInv(u)
  BY DEF PoolInv
\* What others hold does not grow.
<1>2. ASSUME NEW p \in Places, at' = [at EXCEPT ![u] = p], QueueInv', HeldInv(u)',
             holder' \in [Conns -> Users \cup {Idle}],
             \A d \in Conns : holder'[d] \in {holder[d], Idle}
      PROVE  PoolInv'
  <2>1. ASSUME NEW v \in Users, v # u PROVE HeldInv(v)'
    <3>1. HeldInv(v) /\ at'[v] = at[v]
      BY <1>1, <1>2, <2>1 DEF PoolInv
    <3>2. \A d \in Conns : holder'[d] = v => holder[d] = v
      BY <1>2
    <3>3. QED
      BY <3>1, <3>2 DEF HeldInv
  <2>2. at' \in [Users -> Places]
    BY <1>1, <1>2
  <2>3. QED
    BY <1>2, <2>1, <2>2 DEF PoolInv
<1>3. ASSUME NEW p \in Waits, Ask(u, p),
             \/ at[u] = "new" /\ p = "lookup"
             \/ at[u] = "body" /\ u \in Nested /\ p = "recheck"
      PROVE  PoolInv'
  <2>1. at' = [at EXCEPT ![u] = p] /\ queue' = Append(queue, u) /\ holder' = holder
    BY <1>3 DEF Ask
  <2>2. p \in Places /\ at[u] \notin Waits
    BY <1>3 DEF Places, Waits
  <2>3. QueueInv'
    BY <1>1, <2>1, <2>2, JoinQueue
  <2>4. at'[u] = p
    BY <1>1, <2>1
  <2>5. HeldInv(u)'
    BY <1>1, <1>3, <2>1, <2>4 DEF HeldInv
  <2>6. QED
    BY <1>1, <1>2, <2>1, <2>2, <2>3, <2>5
<1>4. CASE LookUpSession(u)
  <2>1. at[u] = "new" /\ Ask(u, "lookup") /\ "lookup" \in Waits
    BY <1>4 DEF LookUpSession, Waits
  <2>2. QED
    BY <1>3, <2>1
<1>5. CASE Recheck(u)
  <2>1. at[u] = "body" /\ u \in Nested /\ Ask(u, "recheck") /\ "recheck" \in Waits
    BY <1>5 DEF Recheck, Waits
  <2>2. QED
    BY <1>3, <2>1
<1> DEFINE freed == [c \in Conns |-> IF holder[c] = u THEN Idle ELSE holder[c]]
<1>6. /\ freed \in [Conns -> Users \cup {Idle}]
      /\ \A d \in Conns : freed[d] \in {holder[d], Idle} /\ freed[d] # u
  BY <1>1
<1>7. CASE GotSession(u)
  <2>1. at[u] = "look" /\ holder' = freed /\ at' = [at EXCEPT ![u] = "begin"] /\ queue' = Append(queue, u)
    BY <1>7 DEF GotSession
  <2>2. "begin" \in Waits /\ "begin" \in Places /\ at[u] \notin Waits
    BY <2>1 DEF Waits, Places
  <2>3. QueueInv'
    BY <1>1, <2>1, <2>2, JoinQueue
  <2>4. at'[u] = "begin"
    BY <1>1, <2>1
  <2> HIDE DEF freed
  <2>5. HeldInv(u)'
    BY <1>6, <2>1, <2>4 DEF HeldInv
  <2>6. QED
    BY <1>2, <1>6, <2>1, <2>2, <2>3, <2>5
<1>8. CASE Finish(u)
  <2>1. /\ at[u] \in {"work", "body"} /\ holder' = freed /\ at' = [at EXCEPT ![u] = "done"]
        /\ queue' = queue
    BY <1>8 DEF Finish
  <2>2. "done" \in Places /\ at[u] \notin Waits
    BY <2>1 DEF Waits, Places
  <2>3. QueueInv'
    BY <1>1, <2>1, <2>2, KeepQueue
  <2>4. at'[u] = "done"
    BY <1>1, <2>1
  <2> HIDE DEF freed
  <2>5. HeldInv(u)'
    BY <1>6, <2>1, <2>4 DEF HeldInv
  <2>6. QED
    BY <1>2, <1>6, <2>1, <2>2, <2>3, <2>5
<1>9. ASSUME NEW c \in Conns, Checked(u, c) PROVE PoolInv'
  <2>1. /\ at[u] = "checking" /\ holder[c] = u /\ holder' = [holder EXCEPT ![c] = Idle]
        /\ at' = [at EXCEPT ![u] = "work"] /\ queue' = queue
    BY <1>9 DEF Checked
  <2>2. "work" \in Places /\ at[u] \notin Waits
    BY <2>1 DEF Waits, Places
  <2>3. QueueInv'
    BY <1>1, <2>1, <2>2, KeepQueue
  <2>4. /\ at'[u] = "work" /\ holder' \in [Conns -> Users \cup {Idle}]
        /\ \A d \in Conns : holder'[d] \in {holder[d], Idle}
        /\ \A d \in Conns : holder'[d] = u => d # c /\ holder[d] = u
    BY <1>1, <2>1
  <2>5. \A d, e \in Conns : holder'[d] = u /\ holder'[e] = u => d = e
    BY <1>1, <2>1, <2>4 DEF HeldInv
  <2>6. HeldInv(u)'
    BY <2>4, <2>5 DEF HeldInv
  <2>7. QED
    BY <1>2, <2>1, <2>2, <2>3, <2>4, <2>6
<1>10. QED
  BY <1>4, <1>5, <1>7, <1>8, <1>9 DEF PoolStep

LEMMA PoolInitially == PoolInit => PoolInv
  BY PoolAssumption DEF PoolInit, PoolInv, QueueInv, HeldInv, Places

LEMMA PoolKeeps == PoolInv /\ [PoolNext]_poolVars => PoolInv'
<1>1. PoolInv /\ UNCHANGED poolVars => PoolInv'
  BY DEF PoolInv, QueueInv, HeldInv, poolVars
<1>2. QED
  BY <1>1, GrantKeeps, PoolStepKeeps DEF PoolNext

\* The access check inside a transaction (requireProjectAdmin in withAppTenant)
\* is the only way in which the pool jams, for any pool and any number of
\* requests: were every connection held by somebody who waits, each would be held
\* by an action that checks its access, and no two by the same one.
THEOREM PoolTheorem == PoolSpec => []OnlyAdminsJam
<1>1. PoolInit => PoolInv
  BY PoolInitially
<1>2. PoolInv => OnlyAdminsJam
  <2> SUFFICES ASSUME PoolInv, \A c \in Conns : holder[c] # Idle /\ at[holder[c]] \in Waits
               PROVE  Jammed
    BY DEF OnlyAdminsJam
  <2>1. ASSUME NEW c \in Conns
        PROVE  /\ holder[c] \in Nested /\ at[holder[c]] = "recheck"
               /\ \A d \in Conns : holder[d] = holder[c] => d = c
    <3>1. holder[c] \in Users /\ HeldInv(holder[c]) /\ at[holder[c]] \in Waits
      BY DEF PoolInv
    <3>2. at[holder[c]] = "recheck"
      BY <3>1 DEF HeldInv, Waits
    <3>3. QED
      BY <3>1, <3>2 DEF HeldInv
  <2>2. QED
    BY <2>1 DEF Jammed
<1>3. QED
  BY <1>1, <1>2, PoolKeeps, PTL DEF PoolSpec

\* Once as many actions as there are connections check their access at the same
\* time, the pool is jammed for good: pg.Pool has nothing to hand out, and every
\* holder waits in its queue.
THEOREM JamTheorem == PoolSpec => JamIsForGood
<1>1. ASSUME PoolInv, Jammed, [PoolNext]_poolVars PROVE Jammed'
  <2>1. \A c \in Conns : holder[c] \in Users /\ holder[c] # Idle
    BY <1>1, PoolAssumption DEF Jammed, Users
  <2>2. ASSUME NEW u \in Users, NEW p, at[u] # "recheck", at' = [at EXCEPT ![u] = p],
               \A c \in Conns : holder[c] # u => holder'[c] = holder[c]
        PROVE  Jammed'
    <3>1. \A c \in Conns : holder[c] # u /\ at'[holder[c]] = at[holder[c]]
      BY <1>1, <2>1, <2>2 DEF Jammed, PoolInv
    <3>2. QED
      BY <1>1, <2>2, <3>1 DEF Jammed
  <2>3. ASSUME NEW u \in Users, LookUpSession(u) PROVE Jammed'
    BY <2>2, <2>3 DEF LookUpSession, Ask
  <2>4. ASSUME NEW u \in Users, GotSession(u) PROVE Jammed'
    <3>1. \A c \in Conns : holder[c] # u => holder'[c] = holder[c]
      BY <2>4 DEF GotSession
    <3>2. QED
      BY <2>2, <2>4, <3>1 DEF GotSession
  <2>5. ASSUME NEW u \in Users, Recheck(u) PROVE Jammed'
    BY <2>2, <2>5 DEF Recheck, Ask
  <2>6. ASSUME NEW u \in Users, Finish(u) PROVE Jammed'
    <3>1. /\ at[u] # "recheck" /\ at' = [at EXCEPT ![u] = "done"]
          /\ \A c \in Conns : holder[c] # u => holder'[c] = holder[c]
      BY <2>6 DEF Finish
    <3>2. QED
      BY <2>2, <3>1
  <2>7. ASSUME NEW u \in Users, NEW c \in Conns, Checked(u, c) PROVE Jammed'
    <3>1. at[holder[c]] = "recheck" /\ at[holder[c]] = "checking"
      BY <1>1, <2>7 DEF Checked, Jammed
    <3>2. QED
      BY <3>1
  <2>8. ASSUME NEW c \in Conns, Grant(c) PROVE Jammed'
    BY <2>1, <2>8 DEF Grant
  <2>9. CASE UNCHANGED poolVars
    BY <1>1, <2>9 DEF Jammed, poolVars
  <2>10. QED
    BY <1>1, <2>3, <2>4, <2>5, <2>6, <2>7, <2>8, <2>9 DEF PoolNext, PoolStep
<1>2. QED
  BY <1>1, PoolInitially, PoolKeeps, PTL DEF PoolSpec, JamIsForGood

-----------------------------------------------------------------------------
(* The types that the invariants above leave out.                              *)

\* A delegation that has read the item has a member in hand.
NoticeInv ==
  /\ itemLock \in Delegations \cup {Unheld} /\ role \in [Members -> Roles] /\ rollbacks \in Nat
  /\ reached \subseteq Handsets \X Members
  /\ \A d \in Delegations : delegation[d].pc # "new" => delegation[d].to \in Members
AssignmentInv == WorkItemInv /\ DevicesInv /\ SendingInv /\ NoticeInv

LEMMA AssignmentInitially == AssignmentInit => AssignmentInv
<1> SUFFICES ASSUME AssignmentInit PROVE AssignmentInv
  OBVIOUS
<1>1. NoticeInv
  BY DEF AssignmentInit, NoticeInv, Roles
<1>2. QED
  BY <1>1, WorkItemInitially, DevicesInitially, SendingInitially DEF AssignmentInv

LEMMA NoticeKeeps ==
  ASSUME AssignmentInv, NEW d \in Delegations, ReadItem(d) \/ DelegationStep(d) \/ RollbackDelegation(d)
  PROVE  NoticeInv'
<1>1. /\ item \in WorkItems /\ delegation \in DelegationFun /\ NoticeInv
      /\ {"read", "member", "updated", "listed", "told", "done"} \subseteq DelegationPcs
      /\ \A q \in devices : q.phone \in Handsets
  BY DEF AssignmentInv, WorkItemInv, DevicesInv, RowInv, DeviceRows, DelegationPcs
<1>2. CASE ReadItem(d)
  <2>1. PICK to \in Members \ {item.assigned} :
          delegation' = [delegation EXCEPT ![d].pc = "read", ![d].to = to, ![d].base = item]
    BY <1>2, Zenon DEF ReadItem
  <2>2. DelegationIs(d, "read", to)
    BY <1>1, <2>1, SetDelegation DEF Assignees
  <2>3. UNCHANGED <<itemLock, reached, rollbacks, people>>
    BY <1>2 DEF ReadItem
  <2>4. QED
    BY <1>1, <2>2, <2>3 DEF NoticeInv, DelegationIs, people
<1>3. CASE ReadMember(d)
  <2>1. PICK v \in {"member", "done"} : delegation' = [delegation EXCEPT ![d].pc = v]
    BY <1>3, Zenon DEF ReadMember
  <2>2. DelegationIs(d, v, delegation[d].to)
    BY <1>1, <2>1, SetDelegationPc
  <2>3. delegation[d].pc = "read" /\ UNCHANGED <<itemLock, reached, rollbacks, people>>
    BY <1>3 DEF ReadMember
  <2>4. QED
    BY <1>1, <2>2, <2>3 DEF NoticeInv, DelegationIs, people
<1>4. CASE UpdateItem(d)
  <2>1. /\ DelegationIs(d, "updated", delegation[d].to) /\ delegation[d].pc = "member"
        /\ itemLock' = d /\ UNCHANGED <<reached, rollbacks, people>>
    BY <1>1, <1>4, SetDelegationPc DEF UpdateItem
  <2>2. QED
    BY <1>1, <2>1 DEF NoticeInv, DelegationIs, people
<1>5. CASE ListTokens(d) \/ SendPush(d) \/ TellNobody(d)
  <2>1. PICK v \in {"listed", "told"} : /\ delegation' = [delegation EXCEPT ![d].pc = v]
                                        /\ delegation[d].pc # "new" /\ UNCHANGED <<itemLock, rollbacks, people>>
    BY <1>5 DEF ListTokens, SendPush, TellNobody
  <2>2. delegation[d].to \in Members /\ DelegationIs(d, v, delegation[d].to)
    BY <1>1, <2>1, SetDelegationPc DEF NoticeInv
  <2>3. pushing[d].tokens \subseteq Handsets
    BY DEF AssignmentInv, SendingInv, SendingFun, PhoneSets
  <2>4. reached' \subseteq Handsets \X Members
    BY <1>1, <1>5, <2>2, <2>3 DEF ListTokens, SendPush, TellNobody, NoticeInv
  <2>5. QED
    BY <1>1, <2>1, <2>2, <2>4 DEF NoticeInv, DelegationIs, people
<1>6. CASE CommitDelegation(d)
  <2>1. /\ DelegationIs(d, "done", delegation[d].to) /\ delegation[d].pc = "told"
        /\ itemLock' = Unheld /\ UNCHANGED <<reached, rollbacks, people>>
    BY <1>1, <1>6, SetDelegationPc DEF CommitDelegation
  <2>2. QED
    BY <1>1, <2>1 DEF NoticeInv, DelegationIs, people
<1>7. CASE RollbackDelegation(d)
  <2>1. /\ DelegationIs(d, "done", delegation[d].to) /\ delegation[d].pc # "new"
        /\ itemLock' \in {itemLock, Unheld} /\ rollbacks' = rollbacks + 1 /\ UNCHANGED <<reached, people>>
    BY <1>1, <1>7, SetDelegationPc DEF RollbackDelegation
  <2>2. QED
    BY <1>1, <2>1 DEF NoticeInv, DelegationIs, people
<1>8. QED
  BY <1>2, <1>3, <1>4, <1>5, <1>6, <1>7 DEF DelegationStep

LEMMA AssignmentKeeps == AssignmentInv /\ [AssignmentNext]_assignmentVars => AssignmentInv'
<1> SUFFICES ASSUME AssignmentInv, [AssignmentNext]_assignmentVars PROVE AssignmentInv'
  OBVIOUS
<1>1. WorkItemInv' /\ DevicesInv' /\ SendingInv'
  BY WorkItemKeeps, DevicesKeep, SendingKeeps DEF AssignmentInv
<1> DEFINE others == <<itemLock, delegation, reached, rollbacks>>
<1>2. ASSUME UNCHANGED others, role' \in [Members -> Roles] PROVE NoticeInv'
  BY <1>2 DEF AssignmentInv, NoticeInv
<1>3. role \in [Members -> Roles]
  BY DEF AssignmentInv, NoticeInv
<1>4. ASSUME NEW m \in Members, SetRole(m) PROVE NoticeInv'
  <2>1. PICK r \in RolesGiven : role' = [role EXCEPT ![m] = r]
    BY <1>4 DEF SetRole
  <2>2. UNCHANGED others
    BY <1>4 DEF SetRole
  <2>3. QED
    BY <1>2, <1>3, <2>1, <2>2, AssignmentAssumption DEF Roles
<1>5. ASSUME NEW m \in Members, NEW p \in Handsets, Unregister(m, p) PROVE NoticeInv'
  BY <1>2, <1>3, <1>5 DEF Unregister, rest
<1>6. ASSUME NEW r \in Registrations, LookUpPhone(r) \/ StorePhone(r) PROVE NoticeInv'
  BY <1>2, <1>3, <1>6 DEF LookUpPhone, StorePhone, rest
<1>7. CloseItem => NoticeInv'
  BY <1>2, <1>3 DEF CloseItem, people
<1>8. UNCHANGED assignmentVars => NoticeInv'
  BY <1>2, <1>3 DEF assignmentVars
<1>9. ASSUME NEW d \in Delegations, ReadItem(d) \/ DelegationStep(d) \/ RollbackDelegation(d) PROVE NoticeInv'
  BY <1>9, NoticeKeeps
<1>10. NoticeInv'
  BY <1>4, <1>5, <1>6, <1>7, <1>8, <1>9 DEF AssignmentNext
<1>11. QED
  BY <1>1, <1>10 DEF AssignmentInv

LEMMA AssignmentTypes == AssignmentInv => AssignmentTypeOK
<1> SUFFICES ASSUME AssignmentInv PROVE AssignmentTypeOK
  OBVIOUS
<1>1. delegation \in [Delegations -> [pc : {"new", "read", "member", "updated", "listed", "told", "done"},
                                      to : Members \cup {NoPerson}, base : WorkItems]]
  BY DEF AssignmentInv, WorkItemInv, DelegationFun, DelegationPcs, Assignees
<1>2. register \in [Registrations -> [pc : {"new", "looked", "done"}, phone : Handsets,
                                      person : Members, found : DeviceRows \cup {NoRow}]]
  BY DEF AssignmentInv, DevicesInv, RegisterFun, RegisterPcs, AFoundRow
<1>3. /\ devices \subseteq DeviceRows /\ (\A q, r \in devices : q.phone = r.phone => q = r)
      /\ lastUser \in [Handsets -> Members \cup {NoPerson}]
  BY DEF AssignmentInv, DevicesInv, RowInv, Assignees
<1>4. /\ item \in WorkItems /\ itemLock \in Delegations \cup {Unheld} /\ role \in [Members -> Roles]
      /\ reached \subseteq Handsets \X Members /\ rollbacks \in Nat
      /\ pushing \in [Delegations -> [tokens : SUBSET Handsets, handedOn : SUBSET Handsets]]
  BY DEF AssignmentInv, WorkItemInv, NoticeInv, SendingInv, SendingFun, PhoneSets
<1>5. QED
  BY <1>1, <1>2, <1>3, <1>4 DEF AssignmentTypeOK

\* The lock of the settings is a request's or nobody's; what a rotation retires
\* was a secret.
LockInv == rowLock \in Actors \cup {Nobody} /\ retired \subseteq Nat /\ crashes \in Nat
ProjectInv == SettingsInv /\ KeysInv /\ LockInv

LEMMA ProjectInitially == SettingsInit => ProjectInv
<1>1. SettingsInit => LockInv
  BY DEF SettingsInit, LockInv
<1>2. QED
  BY <1>1, SettingsInitially, KeysInitially DEF ProjectInv

LEMMA ProjectKeeps == ProjectInv /\ [SettingsNext]_settingsVars => ProjectInv'
<1> SUFFICES ASSUME ProjectInv, [SettingsNext]_settingsVars PROVE ProjectInv'
  OBVIOUS
<1>1. SettingsInv' /\ KeysInv'
  BY SettingsKeep, KeysKeep DEF ProjectInv
<1>2. ASSUME UNCHANGED <<rowLock, retired, crashes>> PROVE LockInv'
  BY <1>2 DEF ProjectInv, LockInv
<1>3. UNCHANGED settingsVars => LockInv'
  BY <1>2 DEF settingsVars
<1>4. KeyWork => LockInv'
  BY <1>2 DEF KeyWork, FindKey, StageKey, CommitKey, settings
<1>5. ASSUME NEW a \in Actors,
             Visit(a) \/ EnsureFound(a) \/ Press(a) \/ PhoneSave(a)
      PROVE  LockInv'
  BY <1>2, <1>5 DEF Visit, EnsureFound, Press, PhoneSave, Read
<1>6. ASSUME NEW a \in Actors, Stage(a) PROVE LockInv'
  BY <1>6 DEF Stage, ProjectInv, LockInv
<1>7. ASSUME NEW a \in Actors, Commit(a) PROVE LockInv'
  <2>1. row.credentials.secret \in Nat \cup {Unset}
    BY DEF ProjectInv, SettingsInv, ProjectRows, Credentials
  <2>2. retired' \subseteq Nat
    BY <1>7, <2>1 DEF Commit, HasSecret, ProjectInv, LockInv
  <2>3. QED
    BY <1>7, <2>2 DEF Commit, ProjectInv, LockInv
<1>8. ASSUME NEW a \in Actors, Rollback(a) PROVE LockInv'
  BY <1>8 DEF Rollback, ProjectInv, LockInv
<1>9. LockInv'
  BY <1>3, <1>4, <1>5, <1>6, <1>7, <1>8 DEF SettingsNext, Visits
<1>10. QED
  BY <1>1, <1>9 DEF ProjectInv

LEMMA ProjectTypes == ProjectInv => SettingsTypeOK
<1> SUFFICES ASSUME ProjectInv PROVE SettingsTypeOK
  OBVIOUS
<1>1. visit \in [Actors -> [pc : {"new", "read", "staged", "open", "done"},
                            kind : {"ensure", "rotate", "save"},
                            base : ProjectRows, seen : Nat, draft : ProjectRows, form : Forms]]
  BY DEF ProjectInv, SettingsInv, VisitFun, VisitPcs, VisitKinds
<1>2. /\ keyOp \in [KeyOps -> [pc : {"new", "found", "staged", "done"},
                               kind : {"regenerate", "delete"}, key : KeyIds, raw : Nat \cup {Unset}]]
      /\ keys \in [KeyIds -> Nat \cup {Unset}]
  BY DEF ProjectInv, KeysInv, KeyFun, KeyPcs, KeyKinds, RawKeys
<1>3. keyLock \in [KeyIds -> KeyOps \cup {Nobody}] /\ revoked \subseteq Nat
  BY DEF ProjectInv, KeysInv
<1>4. QED
  BY <1>1, <1>2, <1>3 DEF ProjectInv, SettingsInv, LockInv, SettingsTypeOK

Endings == {"none", "committed", "rolledback"}
PoolTypedInv == PoolInv /\ outcome \in [Users -> Endings]
LEMMA PoolTypes ==
  /\ PoolInit => PoolTypedInv
  /\ PoolTypedInv /\ [PoolNext]_poolVars => PoolTypedInv'
  /\ PoolTypedInv => PoolTypeOK
<1>1. PoolInit => PoolTypedInv
  BY PoolInitially DEF PoolInit, PoolTypedInv, Endings
<1>2. ASSUME PoolTypedInv, [PoolNext]_poolVars PROVE PoolTypedInv'
  <2>1. PoolInv' /\ outcome \in [Users -> Endings]
    BY <1>2, PoolKeeps DEF PoolTypedInv
  <2>2. ASSUME NEW u \in Users, Finish(u) PROVE outcome' \in [Users -> Endings]
    <3>1. PICK v \in Endings : outcome' = [outcome EXCEPT ![u] = v]
      BY <2>2, Zenon DEF Finish, Endings
    <3>2. QED
      BY <2>1, <3>1
  <2>3. ASSUME NEW u \in Users, LookUpSession(u) \/ GotSession(u) \/ Recheck(u) \/ \E c \in Conns : Checked(u, c)
        PROVE  outcome' = outcome
    BY <2>3 DEF LookUpSession, GotSession, Recheck, Checked, Ask
  <2>4. ASSUME NEW c \in Conns, Grant(c) PROVE outcome' = outcome
    BY <2>4 DEF Grant
  <2>5. UNCHANGED poolVars => outcome' = outcome
    BY DEF poolVars
  <2>6. outcome' \in [Users -> Endings]
    BY <1>2, <2>1, <2>2, <2>3, <2>4, <2>5 DEF PoolNext, PoolStep
  <2>7. QED
    BY <2>1, <2>6 DEF PoolTypedInv
<1>3. PoolTypedInv => PoolTypeOK
  BY DEF PoolTypedInv, PoolInv, QueueInv, PoolTypeOK, Endings
<1>4. QED
  BY <1>1, <1>2, <1>3

-----------------------------------------------------------------------------
(* The parts together. A step of one part leaves the variables of the others   *)
(* alone, so the run in which they take turns is a run of each of them, and    *)
(* what was proved of a part alone holds of it there.                          *)
LEMMA ProcessSteps ==
  ASSUME [ProcessNext]_processVars
  PROVE  /\ [SettingsNext]_settingsVars /\ [WorkspacesNext]_workspacesVars
         /\ [AssignmentNext]_assignmentVars /\ [PoolNext]_poolVars /\ [OriginsNext]_originVars
<1>1. CASE UNCHANGED processVars
  BY <1>1 DEF processVars
<1>2. CASE ProcessNext
  BY <1>2 DEF ProcessNext, SettingsNext
<1>3. QED
  BY <1>1, <1>2

\* The run in which the parts take turns is a run of each of them.
THEOREM ProcessesRun ==
  ProcessSpec => SettingsSpec /\ WorkspacesSpec /\ AssignmentSpec /\ PoolSpec /\ OriginsSpec
<1>1. ProcessInit => SettingsInit /\ WorkspacesInit /\ AssignmentInit /\ PoolInit /\ OriginsInit
  BY DEF ProcessInit
<1>2. QED
  BY <1>1, ProcessSteps, PTL
     DEF ProcessSpec, SettingsSpec, WorkspacesSpec, AssignmentSpec, PoolSpec, OriginsSpec

\* The shape of every part's state, whichever part moves.
THEOREM ProcessTypes == ProcessSpec => []ProcessTypeOK
<1>1. SettingsSpec => []SettingsTypeOK
  BY ProjectInitially, ProjectKeeps, ProjectTypes, PTL DEF SettingsSpec
<1>2. AssignmentSpec => []AssignmentTypeOK
  BY AssignmentInitially, AssignmentKeeps, AssignmentTypes, PTL DEF AssignmentSpec
<1>3. PoolSpec => []PoolTypeOK
  BY PoolTypes, PTL DEF PoolSpec
<1>4. WorkspacesSpec => []WorkspacesTypeOK
  <2>1. WorkspacesInv => WorkspacesTypeOK
    BY DEF WorkspacesInv
  <2>2. QED
    BY <2>1, WorkspacesInitially, WorkspacesKeeps, PTL DEF WorkspacesSpec
<1>5. OriginsSpec => []OriginsTypeOK
  <2>1. OriginsInv => OriginsTypeOK
    BY DEF OriginsInv
  <2>2. QED
    BY <2>1, OriginsInitially, OriginsKeeps, PTL DEF OriginsSpec
<1>6. ProcessTypeOK <=> /\ SettingsTypeOK /\ WorkspacesTypeOK /\ AssignmentTypeOK /\ PoolTypeOK
                        /\ OriginsTypeOK
  BY DEF ProcessTypeOK
<1>7. QED
  BY <1>1, <1>2, <1>3, <1>4, <1>5, <1>6, ProcessesRun, PTL
==============================================================================
