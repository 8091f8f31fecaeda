------------------------------ MODULE Assignment ------------------------------
(* Who an open work item is assigned to and who is told about it: delegation,  *)
(* the members of the project, the decision or cancel that closes the item,    *)
(* and the phones a notice is pushed to.                                       *)
(* Delegation is one READ COMMITTED transaction: it reads the item and the     *)
(* member without a lock, updates the item, sends mail and pushes, and only    *)
(* then commits. The item's row lock is the one a decision holds (Approvals).  *)
EXTENDS Naturals, FiniteSets

CONSTANTS
  Members,       \* people who may be on the project
  Handsets,      \* push tokens: one per installed app
  Delegations,   \* runs of delegateWorkItem
  Registrations, \* requests of POST /api/v1/devices
  RolesGiven,    \* roles the project's admins give; "none" is a removal
  MaxRollbacks,  \* how many delegations may be rolled back
  Unheld, NoPerson, NoRow

ASSUME AssignmentAssumption == MaxRollbacks \in Nat /\ NoPerson \notin Members
                               /\ RolesGiven \subseteq {"admin", "user", "reader", "none"}

Roles == {"admin", "user", "reader", "none"}
Deciding == {"admin", "user"}
OpenStatus == {"pending", "failed_resume"}

VARIABLES
  item,      \* the committed row: status and assignee
  itemLock,  \* the delegation whose UPDATE is not committed yet
  role,      \* Members -> the person's role on the project
  delegation,\* Delegations -> where it is, the new assignee, what it read
  pushing,   \* Delegations -> the tokens it listed, the phones handed on since
  devices,   \* rows of user_devices: [id, phone, person]; unique by phone
  lastUser,  \* Handsets -> the person of the last registration that was stored
  register,  \* Registrations -> the request and the row it found
  reached,   \* the phones a notice was pushed to, with whom it was meant for
  rollbacks
assignmentVars == <<item, itemLock, role, delegation, pushing, devices, lastUser,
                    register, reached, rollbacks>>

WorkItems == [status : OpenStatus \cup {"closed"}, assigned : Members \cup {NoPerson}]
DeviceRows == [id : Registrations, phone : Handsets, person : Members]
AssignmentTypeOK ==
  /\ item \in WorkItems /\ itemLock \in Delegations \cup {Unheld}
  /\ role \in [Members -> Roles]
  /\ pushing \in [Delegations -> [tokens : SUBSET Handsets, handedOn : SUBSET Handsets]]
  /\ delegation \in [Delegations -> [pc : {"new", "read", "member", "updated", "listed", "told", "done"},
                                     to : Members \cup {NoPerson}, base : WorkItems]]
  /\ devices \subseteq DeviceRows /\ \A q, r \in devices : q.phone = r.phone => q = r
  /\ lastUser \in [Handsets -> Members \cup {NoPerson}]
  /\ register \in [Registrations -> [pc : {"new", "looked", "done"}, phone : Handsets,
                                     person : Members, found : DeviceRows \cup {NoRow}]]
  /\ reached \subseteq Handsets \X Members /\ rollbacks \in Nat

AssignmentInit ==
  /\ \E s \in OpenStatus : item = [status |-> s, assigned |-> NoPerson]
  /\ pushing = [d \in Delegations |-> [tokens |-> {}, handedOn |-> {}]]
  /\ itemLock = Unheld /\ devices = {} /\ reached = {} /\ rollbacks = 0
  /\ role = [m \in Members |-> "user"]
  /\ delegation = [d \in Delegations |-> [pc |-> "new", to |-> NoPerson, base |-> item]]
  /\ lastUser = [p \in Handsets |-> NoPerson]
  /\ register \in [Registrations -> [pc : {"new"}, phone : Handsets, person : Members, found : {NoRow}]]

people == <<role, devices, lastUser, register>>

-----------------------------------------------------------------------------
(* delegateWorkItem                                                            *)

ReadItem(d) ==
  /\ delegation[d].pc = "new" /\ item.status \in OpenStatus
  /\ \E to \in Members \ {item.assigned} :
       delegation' = [delegation EXCEPT ![d].pc = "read", ![d].to = to, ![d].base = item]
  /\ UNCHANGED <<item, itemLock, pushing, reached, rollbacks, people>>
ReadMember(d) ==
  /\ delegation[d].pc = "read"
  /\ delegation' = [delegation EXCEPT ![d].pc =
                      IF role[delegation[d].to] \in Deciding THEN "member" ELSE "done"]
  /\ UNCHANGED <<item, itemLock, pushing, reached, rollbacks, people>>
UpdateItem(d) ==
  /\ delegation[d].pc = "member" /\ itemLock = Unheld
  /\ itemLock' = d
  /\ delegation' = [delegation EXCEPT ![d].pc = "updated"]
  /\ UNCHANGED <<item, pushing, reached, rollbacks, people>>

\* notifyAssignee. The mail and the log events change nothing here. Then the
\* tokens of the person are listed, the project's name is read, and the push is
\* sent to the tokens that were listed, one by one as the push service takes them.
PhonesOf(m) == {r.phone : r \in {q \in devices : q.person = m}}
ListTokens(d) ==
  /\ delegation[d].pc = "updated"
  /\ pushing' = [pushing EXCEPT ![d] = [tokens |-> PhonesOf(delegation[d].to), handedOn |-> {}]]
  /\ delegation' = [delegation EXCEPT ![d].pc = "listed"]
  /\ UNCHANGED <<item, itemLock, reached, rollbacks, people>>
SendPush(d) ==
  /\ delegation[d].pc = "listed"
  /\ \E taken \in SUBSET pushing[d].tokens :
       reached' = reached \cup (taken \X {delegation[d].to})
  /\ delegation' = [delegation EXCEPT ![d].pc = "told"]
  /\ UNCHANGED <<item, itemLock, pushing, rollbacks, people>>
\* Nobody is told: the person is gone, or a failure before the push is logged.
TellNobody(d) ==
  /\ delegation[d].pc = "updated"
  /\ delegation' = [delegation EXCEPT ![d].pc = "told"]
  /\ UNCHANGED <<item, itemLock, pushing, reached, rollbacks, people>>

\* mutant: the row is stored as it was read, with the new assignee.
DelegatedWhole(d) == [delegation[d].base EXCEPT !.assigned = delegation[d].to]
\* The UPDATE names the assignee only.
Delegated(d) == [item EXCEPT !.assigned = delegation[d].to]
CommitDelegation(d) ==
  /\ delegation[d].pc = "told"
  /\ item' = Delegated(d) /\ itemLock' = Unheld
  /\ delegation' = [delegation EXCEPT ![d].pc = "done"]
  /\ UNCHANGED <<pushing, reached, rollbacks, people>>
\* The phones that were reached keep the notice.
RollbackDelegation(d) ==
  /\ rollbacks < MaxRollbacks /\ delegation[d].pc \notin {"new", "done"}
  /\ delegation' = [delegation EXCEPT ![d].pc = "done"]
  /\ itemLock' = IF itemLock = d THEN Unheld ELSE itemLock
  /\ rollbacks' = rollbacks + 1
  /\ UNCHANGED <<item, pushing, reached, people>>

-----------------------------------------------------------------------------
(* What others do to the item and the project meanwhile                        *)

\* decideApproval, cancelApproval and the expiry job, under the row lock.
CloseItem ==
  /\ itemLock = Unheld /\ item.status \in OpenStatus
  /\ item' = [item EXCEPT !.status = "closed"]
  /\ UNCHANGED <<itemLock, delegation, pushing, reached, rollbacks, people>>
\* addProjectMember, updateProjectMemberRole and removeProjectMember. Removing
\* a member leaves the items that are assigned to them.
SetRole(m) ==
  /\ \E r \in RolesGiven \ {role[m]} : role' = [role EXCEPT ![m] = r]
  /\ UNCHANGED <<item, itemLock, delegation, pushing, reached, rollbacks, devices, lastUser, register>>

-----------------------------------------------------------------------------
(* registerUserDevice and unregisterUserDevice, one statement after the other  *)

rest == <<item, itemLock, role, delegation, reached, rollbacks>>
LookUpPhone(r) ==
  /\ register[r].pc = "new"
  /\ register' = [register EXCEPT ![r].pc = "looked", ![r].found =
       IF \E q \in devices : q.phone = register[r].phone
       THEN CHOOSE q \in devices : q.phone = register[r].phone ELSE NoRow]
  /\ UNCHANGED <<rest, pushing, devices, lastUser>>
\* A stored registration hands the phone on, whoever is about to push to it.
HandOn(p) == pushing' = [d \in Delegations |-> [pushing[d] EXCEPT !.handedOn = @ \cup {p}]]
Row(r) == [id |-> r, phone |-> register[r].phone, person |-> register[r].person]
\* mutant: a phone gets a row for each person who signs in on it.
StorePhoneAnew(r) ==
  /\ register[r].pc = "looked"
  /\ register' = [register EXCEPT ![r].pc = "done"]
  /\ devices' = devices \cup {Row(r)}
  /\ lastUser' = [lastUser EXCEPT ![register[r].phone] = register[r].person]
  /\ HandOn(register[r].phone) /\ UNCHANGED rest
\* A row that was found is given to the person by its id, and no row by that id
\* is no error; the unique index refuses a second row for a phone.
StorePhone(r) ==
  /\ register[r].pc = "looked"
  /\ register' = [register EXCEPT ![r].pc = "done"]
  /\ LET mine == {q \in devices : register[r].found # NoRow /\ q.id = register[r].found.id}
         taken == \E q \in devices : q.phone = register[r].phone
     IN IF register[r].found = NoRow
        THEN devices' = IF taken THEN devices ELSE devices \cup {Row(r)}
        ELSE devices' = (devices \ mine) \cup {[q EXCEPT !.person = register[r].person] : q \in mine}
  /\ IF devices' = devices THEN UNCHANGED <<lastUser, pushing>>
     ELSE /\ lastUser' = [lastUser EXCEPT ![register[r].phone] = register[r].person]
          /\ HandOn(register[r].phone)
  /\ UNCHANGED rest
Unregister(m, p) ==
  /\ \E q \in devices : q.phone = p /\ q.person = m
  /\ devices' = {q \in devices : ~(q.phone = p /\ q.person = m)}
  /\ UNCHANGED <<rest, pushing, lastUser, register>>

-----------------------------------------------------------------------------
DelegationStep(d) == \/ ReadMember(d) \/ UpdateItem(d) \/ CommitDelegation(d)
                     \/ ListTokens(d) \/ SendPush(d) \/ TellNobody(d)
AssignmentNext ==
  \/ \E d \in Delegations : ReadItem(d) \/ DelegationStep(d) \/ RollbackDelegation(d)
  \/ CloseItem
  \/ \E m \in Members : SetRole(m) \/ \E p \in Handsets : Unregister(m, p)
  \/ \E r \in Registrations : LookUpPhone(r) \/ StorePhone(r)
AssignmentSpec == AssignmentInit /\ [][AssignmentNext]_assignmentVars

-----------------------------------------------------------------------------
(* Properties                                                                  *)

\* A delegation that read an open item and waited for the decision of it does
\* not open it again: an item that is closed stays closed.
ClosedItemStays == [][item.status = "closed" => item'.status = "closed"]_assignmentVars

\* A push that is meant for somebody reaches a phone only while the last stored
\* registration of the phone is theirs, or when the phone was handed on between
\* the look-up of the tokens and the push; a phone handed on before the look-up
\* is never reached, however registrations of it pass each other.
HandedOnMeanwhile(p, m) == \E d \in Delegations :
  delegation[d].pc = "listed" /\ delegation[d].to = m /\ p \in pushing[d].handedOn
PushReachesItsPerson ==
  [][\A p \in Handsets, m \in Members :
        <<p, m>> \in reached' \ reached => lastUser[p] = m \/ HandedOnMeanwhile(p, m)]_assignmentVars
=============================================================================
