----------------------------- MODULE MCProcesses -----------------------------
(* Requests that race each other over rows, connections and runs: five modules *)
(* that share no state, checked in one run. `part` chooses, once, which of     *)
(* them moves; the others rest in one of their initial states. The settings    *)
(* and the API keys of a project share no row either and are two parts.        *)
EXTENDS ProjectSettings, Workspaces, Assignment, TenantPool, Origins

VARIABLE part
Parts == {"settings", "keys", "workspaces", "assignment", "pool", "origins"}
processVars == <<settingsVars, workspacesVars, assignmentVars, poolVars, originVars, part>>

\* A form that turns the sink off, one with a new token, one with a new address.
ThreeForms == {[sinkType |-> "none", token |-> FALSE, sinkUrl |-> FALSE],
               [sinkType |-> "http", token |-> TRUE, sinkUrl |-> FALSE],
               [sinkType |-> "http", token |-> FALSE, sinkUrl |-> TRUE]}

\* The answers a body of mastra's may ask for: one that is not given without.
AskedAnswers == {<<"mastra", {"accept", "reject", "respond"}>>}

-----------------------------------------------------------------------------
\* Which initial state a part rests in.
SettingsRest == row.sinkType = "none" /\ HasSecret(row)
KeysRest == \A o \in KeyOps : keyOp[o].kind = "delete" /\ keyOp[o].key = CHOOSE k \in KeyIds : TRUE
AssignmentRest ==
  /\ item.status = "pending"
  /\ \A r \in Registrations : /\ register[r].phone = CHOOSE p \in Handsets : TRUE
                              /\ register[r].person = CHOOSE m \in Members : TRUE
OriginsRest == origin = CHOOSE k \in OriginKinds : TRUE

ProcessInit ==
  /\ part \in Parts
  /\ SettingsInit /\ WorkspacesInit /\ AssignmentInit /\ PoolInit /\ OriginsInit
  /\ part # "settings" => SettingsRest
  /\ part # "keys" => KeysRest
  /\ part # "assignment" => AssignmentRest
  /\ part # "origins" => OriginsRest

ProcessNext ==
  /\ UNCHANGED part
  /\ \/ /\ part = "settings" /\ Visits
        /\ UNCHANGED <<workspacesVars, assignmentVars, poolVars, originVars>>
     \/ /\ part = "keys" /\ KeyWork
        /\ UNCHANGED <<workspacesVars, assignmentVars, poolVars, originVars>>
     \/ /\ part = "workspaces" /\ WorkspacesNext
        /\ UNCHANGED <<settingsVars, assignmentVars, poolVars, originVars>>
     \/ /\ part = "assignment" /\ AssignmentNext
        /\ UNCHANGED <<settingsVars, workspacesVars, poolVars, originVars>>
     \/ /\ part = "pool" /\ PoolNext
        /\ UNCHANGED <<settingsVars, workspacesVars, assignmentVars, originVars>>
     \/ /\ part = "origins" /\ OriginsNext
        /\ UNCHANGED <<settingsVars, workspacesVars, assignmentVars, poolVars>>

\* The fairness of the modules. The agent runs, and a call that is under way
\* arrives or is given up; the agent of a part that rests does not run.
FairRuns == WF_originVars(part = "origins" /\ (RunStep \/ CallArrives))
ProcessSpec == ProcessInit /\ [][ProcessNext]_processVars /\ FairBoots /\ FairPool /\ FairRuns

-----------------------------------------------------------------------------
\* The shape of every module's state.
ProcessTypeOK == SettingsTypeOK /\ WorkspacesTypeOK /\ AssignmentTypeOK /\ PoolTypeOK /\ OriginsTypeOK
=============================================================================
