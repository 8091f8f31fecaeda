------------------------------ MODULE Workspaces ------------------------------
(* Who belongs to which workspace: the bootstrap of a new user's workspace,    *)
(* invites and their acceptance, and the removal of members. None of it runs   *)
(* in a transaction: every step below is one statement that commits by itself, *)
(* and a request that dies leaves what it has written so far.                  *)
(* Every request that makes a workspace makes another one, so a workspace is   *)
(* named by the request that made it; Team is one that existed before.         *)
EXTENDS Naturals, FiniteSets

CONSTANTS
  People,      \* people who may sign up
  Boots,       \* runs of bootstrapUserWorkspaces: a sign-up's, or a first page's
  InviteIds,   \* invites an admin of Team may send, one form each
  Removals,    \* forms that remove a member or cancel an invite
  Team, Boss,  \* a workspace, and the person who owns it
  MaxFailures, \* how many requests may die between two statements
  Nothing

MemberRoles == {"owner", "admin", "member"}
Rows == [team : Boots \cup {Team}, person : People \cup {Boss}, role : MemberRoles]
ASSUME WorkspacesAssumption == /\ Team \notin Boots /\ Boss \notin People /\ MaxFailures \in Nat
                               /\ Nothing \notin InviteIds \cup People /\ Nothing \notin Rows

VARIABLES
  accounts,   \* people with a user row
  teams,      \* workspaces with a row
  members,    \* rows of memberships: [team, person, role], unique by team and person
  joined,     \* every [team, person] that was ever a member
  invites,    \* InviteIds -> the row: to whom, which role, and how it stands
  boot,       \* Boots -> the run's person, what it read and where it is
  sending,    \* InviteIds -> where inviteToWorkspace is
  removing,   \* Removals -> the row the form found
  failures
bootVars == <<accounts, teams, boot>>
workspacesVars == <<accounts, teams, members, joined, invites, boot, sending, removing, failures>>

WorkspacesTypeOK ==
  /\ accounts \subseteq People /\ teams \subseteq Boots \cup {Team}
  /\ members \subseteq Rows
  /\ joined \subseteq (Boots \cup {Team}) \X (People \cup {Boss})
  /\ invites \in [InviteIds -> [person : People \cup {Nothing}, role : {"admin", "member"},
                                status : {"none", "pending", "expired", "accepted", "cancelled"}]]
  /\ boot \in [Boots -> [pc : {"new", "check", "team", "owner", "list", "each", "join",
                               "accept", "done", "dead"},
                         person : People \cup {Nothing}, left : SUBSET InviteIds,
                         invite : InviteIds \cup {Nothing}]]
  /\ sending \in [InviteIds -> {"new", "known", "unknown", "done"}]
  /\ removing \in [Removals -> [pc : {"new", "found", "done"},
                                member : Rows \cup {Nothing}, invite : InviteIds \cup {Nothing}]]
  /\ failures \in Nat

WorkspacesInit ==
  /\ accounts = {} /\ teams = {Team} /\ failures = 0
  /\ members = {[team |-> Team, person |-> Boss, role |-> "owner"]}
  /\ joined = {<<Team, Boss>>}
  /\ invites = [i \in InviteIds |-> [person |-> Nothing, role |-> "member", status |-> "none"]]
  /\ boot = [b \in Boots |-> [pc |-> "new", person |-> Nothing, left |-> {},
                              invite |-> Nothing]]
  /\ sending = [i \in InviteIds |-> "new"]
  /\ removing = [r \in Removals |-> [pc |-> "new", member |-> Nothing, invite |-> Nothing]]

TeamsOf(p) == {m.team : m \in {n \in members : n.person = p}}
IsMember(t, p) == t \in TeamsOf(p)
\* The unique index refuses a second row for one person in one workspace.
Join(t, p, role) ==
  /\ members' = members \cup {[team |-> t, person |-> p, role |-> role]}
  /\ joined' = joined \cup {<<t, p>>}

-----------------------------------------------------------------------------
(* bootstrapUserWorkspaces                                                     *)

\* The hook after the user row is created; and getAppContext for a person whose
\* list of workspaces is empty. The parts of one page ask at the same time.
SignUp(b) ==
  /\ boot[b].pc = "new"
  /\ \E p \in People \ accounts :
       /\ accounts' = accounts \cup {p}
       /\ boot' = [boot EXCEPT ![b].pc = "check", ![b].person = p]
  /\ UNCHANGED <<teams, members, joined, invites, sending, removing, failures>>
FirstPage(b) ==
  /\ boot[b].pc = "new"
  /\ \E p \in accounts :
       /\ TeamsOf(p) = {}
       /\ boot' = [boot EXCEPT ![b].pc = "check", ![b].person = p]
  /\ UNCHANGED <<accounts, teams, members, joined, invites, sending, removing, failures>>

\* mutant: a workspace without its owner counts as the person's.
CheckNoneByTeam(b) ==
  /\ boot[b].pc = "check"
  /\ boot' = [boot EXCEPT ![b].pc =
                IF \E c \in teams \ {Team} : boot[c].person = boot[b].person THEN "list" ELSE "team"]
  /\ UNCHANGED <<accounts, teams, members, joined, invites, sending, removing, failures>>
CheckNone(b) ==
  /\ boot[b].pc = "check"
  /\ boot' = [boot EXCEPT ![b].pc = IF TeamsOf(boot[b].person) = {} THEN "team" ELSE "list"]
  /\ UNCHANGED <<accounts, teams, members, joined, invites, sending, removing, failures>>
MakeTeam(b) ==
  /\ boot[b].pc = "team"
  /\ teams' = teams \cup {b} /\ boot' = [boot EXCEPT ![b].pc = "owner"]
  /\ UNCHANGED <<accounts, members, joined, invites, sending, removing, failures>>
MakeOwner(b) ==
  /\ boot[b].pc = "owner"
  /\ Join(b, boot[b].person, "owner") /\ boot' = [boot EXCEPT ![b].pc = "list"]
  /\ UNCHANGED <<accounts, teams, invites, sending, removing, failures>>

\* The pending invites are read once; those that have expired are passed over.
ListInvites(b) ==
  /\ boot[b].pc = "list"
  /\ boot' = [boot EXCEPT ![b].pc = "each",
       ![b].left = {i \in InviteIds : invites[i].person = boot[b].person
                                      /\ invites[i].status = "pending"}]
  /\ UNCHANGED <<accounts, teams, members, joined, invites, sending, removing, failures>>
NextInvite(b) ==
  /\ boot[b].pc = "each"
  /\ IF boot[b].left = {}
     THEN boot' = [boot EXCEPT ![b].pc = "done"]
     ELSE \E i \in boot[b].left :
            boot' = [boot EXCEPT ![b].left = @ \ {i}, ![b].invite = i,
                       ![b].pc = IF invites[i].status = "expired" THEN "each"
                                  ELSE IF IsMember(Team, boot[b].person) THEN "accept" ELSE "join"]
  /\ UNCHANGED <<accounts, teams, members, joined, invites, sending, removing, failures>>

\* A member made since the look-up makes the insert fail, and the request with it.
JoinTeam(b) ==
  /\ boot[b].pc = "join"
  /\ IF IsMember(Team, boot[b].person)
     THEN /\ boot' = [boot EXCEPT ![b].pc = "dead"] /\ UNCHANGED <<members, joined>>
     ELSE /\ Join(Team, boot[b].person, invites[boot[b].invite].role)
          /\ boot' = [boot EXCEPT ![b].pc = "accept"]
  /\ UNCHANGED <<accounts, teams, invites, sending, removing, failures>>
\* An invite cancelled meanwhile has no row to update.
AcceptInvite(b) ==
  /\ boot[b].pc = "accept"
  /\ invites' = [invites EXCEPT ![boot[b].invite].status =
                   IF @ = "cancelled" THEN @ ELSE "accepted"]
  /\ boot' = [boot EXCEPT ![b].pc = "each"]
  /\ UNCHANGED <<accounts, teams, members, joined, sending, removing, failures>>
BootDies(b) ==
  /\ failures < MaxFailures /\ boot[b].pc \notin {"new", "done", "dead"}
  /\ boot' = [boot EXCEPT ![b].pc = "dead"] /\ failures' = failures + 1
  /\ UNCHANGED <<accounts, teams, members, joined, invites, sending, removing>>

-----------------------------------------------------------------------------
(* The team's admins                                                           *)

\* inviteToWorkspace looks for a user with the e-mail address, and then makes a
\* member of a user, or an invite for an address nobody has signed up with.
LookUp(i) ==
  /\ sending[i] = "new"
  /\ \E p \in People, role \in {"admin", "member"} :
       /\ invites' = [invites EXCEPT ![i].person = p, ![i].role = role]
       /\ sending' = [sending EXCEPT ![i] = IF p \in accounts THEN "known" ELSE "unknown"]
  /\ UNCHANGED <<bootVars, members, joined, removing, failures>>
AddMember(i) ==
  /\ sending[i] = "known"
  /\ IF IsMember(Team, invites[i].person) THEN UNCHANGED <<members, joined>>
     ELSE Join(Team, invites[i].person, invites[i].role)
  /\ sending' = [sending EXCEPT ![i] = "done"]
  /\ UNCHANGED <<bootVars, invites, removing, failures>>
AddInvite(i) ==
  /\ sending[i] = "unknown"
  /\ invites' = [invites EXCEPT ![i].status = "pending"]
  /\ sending' = [sending EXCEPT ![i] = "done"]
  /\ UNCHANGED <<bootVars, members, joined, removing, failures>>
InviteExpires(i) ==
  /\ invites[i].status = "pending"
  /\ invites' = [invites EXCEPT ![i].status = "expired"]
  /\ UNCHANGED <<bootVars, members, joined, sending, removing, failures>>

\* removeWorkspaceMember: not from another workspace, not the owner.
MayRemove(m) == m.team = Team /\ m.role # "owner"
FindRow(r) ==
  /\ removing[r].pc = "new"
  /\ \/ \E m \in members : MayRemove(m) /\ removing' = [removing EXCEPT ![r].pc = "found", ![r].member = m]
     \/ \E i \in InviteIds : invites[i].status \in {"pending", "expired", "accepted"}
          /\ removing' = [removing EXCEPT ![r].pc = "found", ![r].invite = i]
  /\ UNCHANGED <<bootVars, members, joined, invites, sending, failures>>
DeleteRow(r) ==
  /\ removing[r].pc = "found"
  /\ members' = members \ {removing[r].member}
  /\ invites' = [i \in InviteIds |-> IF i = removing[r].invite
                                     THEN [invites[i] EXCEPT !.status = "cancelled"] ELSE invites[i]]
  /\ removing' = [removing EXCEPT ![r].pc = "done", ![r].member = Nothing]
  /\ UNCHANGED <<bootVars, joined, sending, failures>>

-----------------------------------------------------------------------------
BootStep(b) == \/ CheckNone(b) \/ MakeTeam(b) \/ MakeOwner(b) \/ ListInvites(b)
               \/ NextInvite(b) \/ JoinTeam(b) \/ AcceptInvite(b)
WorkspacesNext ==
  \/ \E b \in Boots : SignUp(b) \/ FirstPage(b) \/ BootStep(b) \/ BootDies(b)
  \/ \E i \in InviteIds : LookUp(i) \/ AddMember(i) \/ AddInvite(i) \/ InviteExpires(i)
  \/ \E r \in Removals : FindRow(r) \/ DeleteRow(r)
WorkspacesSpec == WorkspacesInit /\ [][WorkspacesNext]_workspacesVars
\* Requests run to their end unless the process dies; a signed-in person loads
\* pages, whose first read finds no workspace.
FairBoots == WF_workspacesVars(\E b \in Boots : FirstPage(b) \/ BootStep(b))

-----------------------------------------------------------------------------
(* Properties                                                                  *)

\* An invite counts as accepted only when the person has been made a member,
\* wherever the bootstrap dies: the update follows the insert.
AcceptedMeansJoined ==
  \A i \in InviteIds : invites[i].status = "accepted" => <<Team, invites[i].person>> \in joined

\* A workspace that has members has its owner: whatever the order of bootstraps,
\* invites and removals, no workspace is left to people who cannot manage it.
OwnerStays ==
  \A t \in teams : (\E m \in members : m.team = t)
                     => \E m \in members : m.team = t /\ m.role = "owner"

\* Everyone who signs up and keeps loading pages comes to belong to a workspace,
\* also when the bootstrap of the sign-up dies after it made the workspace and
\* before it made the owner.
EveryoneGetsTeam ==
  \A p \in People : []<>(p \in accounts => \E t \in Boots \cup {Team} : <<t, p>> \in joined)

\* What the mail of an invite says, that an account made while it runs joins the
\* team: nobody with a workspace has a pending invite no bootstrap will read. An
\* invite stored after the person signed up, or after a bootstrap died between
\* the owner and the invites, is never read.
InvitesReachTheirPeople ==
  \A i \in InviteIds : invites[i].status = "pending" /\ TeamsOf(invites[i].person) # {}
     => \E b \in Boots : boot[b].person = invites[i].person /\ boot[b].pc \notin {"done", "dead"}
=============================================================================
