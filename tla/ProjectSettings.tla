--------------------------- MODULE ProjectSettings ---------------------------
(* The settings of one project as the web pages, the phone and a decision      *)
(* change them together: the row of `projects` (credentials, evidence sink)    *)
(* and the rows of `project_api_keys`.                                         *)
(*                                                                             *)
(* Every server action is one READ COMMITTED transaction that selects the row  *)
(* without a lock, computes the new columns from what it read, and updates.    *)
(* The UPDATE takes the row lock, so two updates follow each other, but the    *)
(* second one still stores what it computed from its own read.                 *)
(* Other columns of the row (name, SLA, assignee) are always taken whole from  *)
(* the form and are left out.                                                  *)
EXTENDS Naturals, FiniteSets

CONSTANTS
  Pages,      \* visits of the config page, each followed by at most one action
  Phones,     \* visits of the phone's config screen, each followed by a save
  Resumes,    \* decisions that resume the origin and sign for it
  PageForms,  \* what the forms of the page may carry
  KeyOps,     \* server actions on an API key
  KeyIds,     \* rows of project_api_keys
  MaxCrashes, \* how many transactions may be rolled back
  Unset,      \* a value the project has not been given
  Nobody      \* no request holds the lock

Actors == Pages \cup Phones \cup Resumes
SinkTypes == {"none", "http"}
ASSUME SettingsAssumption ==
  /\ Nobody \notin Actors \cup KeyOps
  /\ Unset \notin Nat /\ MaxCrashes \in Nat
  /\ PageForms \subseteq [sinkType : SinkTypes, token : BOOLEAN, sinkUrl : BOOLEAN]

VARIABLES
  row,      \* the committed row: the credentials column, and the sink columns
  version,  \* how many transactions have updated the row
  rowLock,  \* the request whose UPDATE of the row is not committed yet
  visit,    \* Actors -> what the request has read, entered and staged
  fresh,    \* the next random value: secrets, tokens and keys differ for ever
  retired,  \* resume secrets a rotation has replaced
  keys,     \* KeyIds -> the raw key whose hash is stored, or Unset
  keyLock,  \* KeyIds -> the request whose change of the key is not committed
  keyOp,    \* KeyOps -> the action, its key, and the raw key it will answer
  revoked,  \* raw keys that were replaced or deleted
  crashes
settings == <<row, version, rowLock, visit, retired>>
apiKeys  == <<keys, keyLock, keyOp, revoked>>
settingsVars == <<row, version, rowLock, visit, fresh, retired,
          keys, keyLock, keyOp, revoked, crashes>>

Credentials == [secret : Nat \cup {Unset}, token : Nat \cup {Unset}]
ProjectRows == [credentials : Credentials, sinkType : SinkTypes, sinkUrl : Nat \cup {Unset}]
\* What a form carries: the sink's type, and the fields that were filled in.
Forms == [sinkType : SinkTypes, token : BOOLEAN, sinkUrl : BOOLEAN]

SettingsTypeOK ==
  /\ row \in ProjectRows /\ version \in Nat /\ fresh \in Nat /\ crashes \in Nat
  /\ rowLock \in Actors \cup {Nobody}
  /\ visit \in [Actors -> [pc : {"new", "read", "staged", "open", "done"},
                           kind : {"ensure", "rotate", "save"},
                           base : ProjectRows, seen : Nat, draft : ProjectRows, form : Forms]]
  /\ retired \subseteq Nat
  /\ keys \in [KeyIds -> Nat \cup {Unset}]
  /\ keyLock \in [KeyIds -> KeyOps \cup {Nobody}]
  /\ keyOp \in [KeyOps -> [pc : {"new", "found", "staged", "done"},
                           kind : {"regenerate", "delete"}, key : KeyIds,
                           raw : Nat \cup {Unset}]]
  /\ revoked \subseteq Nat

\* A new project has a resume secret (project-create); one made before secrets
\* existed has none. Secrets 0 and tokens 1, 2 and keys 3.. are the first values.
SettingsInit ==
  /\ \E s \in {0, Unset}, t \in SinkTypes :
        row = [credentials |-> [secret |-> s, token |-> 1],
               sinkType |-> t, sinkUrl |-> IF t = "http" THEN 2 ELSE Unset]
  /\ version = 0 /\ rowLock = Nobody /\ retired = {} /\ revoked = {} /\ crashes = 0
  /\ fresh = 4
  /\ visit = [a \in Actors |->
                [pc |-> "new", kind |-> "ensure", base |-> row, seen |-> 0, draft |-> row,
                 form |-> [sinkType |-> "none", token |-> FALSE, sinkUrl |-> FALSE]]]
  /\ keys = [k \in KeyIds |-> 3]
  /\ keyLock = [k \in KeyIds |-> Nobody]
  /\ keyOp \in [KeyOps -> [pc : {"new"}, kind : {"regenerate", "delete"},
                           key : KeyIds, raw : {Unset}]]

HasSecret(r) == r.credentials.secret # Unset

-----------------------------------------------------------------------------
(* One transaction: read, stage the UPDATE under the row lock, commit.         *)

Read(a, kind, form) ==
  /\ visit' = [visit EXCEPT ![a].pc = "read", ![a].kind = kind, ![a].form = form,
                            ![a].base = row, ![a].seen = version]
  /\ UNCHANGED <<row, version, rowLock, retired, fresh, apiKeys, crashes>>

\* ensureProjectResumeSecret, by the config page or by decideApproval: a project
\* with a secret is not touched, and the page is shown (the proof is signed).
Visit(a) ==
  /\ a \in Pages \cup Resumes /\ visit[a].pc = "new"
  /\ Read(a, "ensure", visit[a].form)

EnsureFound(a) ==
  /\ visit[a].pc = "read" /\ visit[a].kind = "ensure" /\ HasSecret(visit[a].base)
  /\ visit' = [visit EXCEPT ![a].pc = IF a \in Pages THEN "open" ELSE "done"]
  /\ UNCHANGED <<row, version, rowLock, retired, fresh, apiKeys, crashes>>

\* The page's form is filled from the row it was rendered with.
Press(a) ==
  /\ a \in Pages /\ visit[a].pc = "open"
  /\ \/ Read(a, "rotate", visit[a].form)
     \/ \E form \in PageForms : Read(a, "save", form)

\* The phone's screen does not load the sink and does not send it back;
\* parseProjectConfig takes a missing type for "none".
PhoneForm(typed) == [sinkType |-> "none", token |-> typed, sinkUrl |-> FALSE]
PhoneSave(a) ==
  /\ a \in Phones /\ visit[a].pc = "new"
  /\ \E typed \in BOOLEAN : Read(a, "save", PhoneForm(typed))

\* mutant: a save stores the secret it read, and gives none.
SavedCredentialsUnfilled(base, form) ==
  [secret |-> base.credentials.secret,
   token  |-> IF form.token THEN fresh + 1 ELSE base.credentials.token]
\* mutant: the sink's address is dropped when the sink is off.
SavedUrlDropped(base, form) ==
  IF form.sinkType = "none" THEN Unset
  ELSE IF form.sinkUrl THEN fresh + 2 ELSE base.sinkUrl
\* What the transaction computes from its read. A blank field keeps the value,
\* and a save gives a project without a secret one.
SavedCredentials(base, form) ==
  [secret |-> IF base.credentials.secret = Unset THEN fresh ELSE base.credentials.secret,
   token  |-> IF form.token THEN fresh + 1 ELSE base.credentials.token]
SavedUrl(base, form) ==
  IF form.sinkType = "http" /\ form.sinkUrl THEN fresh + 2 ELSE base.sinkUrl
NewCredentials(v) ==
  IF v.kind = "save" THEN SavedCredentials(v.base, v.form)
                     ELSE [v.base.credentials EXCEPT !.secret = fresh]
\* The columns the UPDATE does not name keep what the row holds at that time.
Updated(v) ==
  IF v.kind = "save"
  THEN [credentials |-> NewCredentials(v), sinkType |-> v.form.sinkType,
        sinkUrl |-> SavedUrl(v.base, v.form)]
  ELSE [row EXCEPT !.credentials = NewCredentials(v)]

Stage(a) ==
  /\ visit[a].pc = "read" /\ rowLock = Nobody
  /\ visit[a].kind = "ensure" => ~HasSecret(visit[a].base)
  /\ rowLock' = a
  /\ visit' = [visit EXCEPT ![a].pc = "staged", ![a].draft = Updated(visit[a])]
  /\ fresh' = fresh + 3
  /\ UNCHANGED <<row, version, retired, apiKeys, crashes>>

Commit(a) ==
  /\ visit[a].pc = "staged"
  /\ row' = visit[a].draft /\ version' = version + 1 /\ rowLock' = Nobody
  /\ retired' = IF visit[a].kind = "rotate" /\ HasSecret(row)
                THEN retired \cup {row.credentials.secret} ELSE retired
  /\ visit' = [visit EXCEPT ![a].pc = IF a \in Pages /\ visit[a].kind = "ensure"
                                      THEN "open" ELSE "done"]
  /\ UNCHANGED <<fresh, apiKeys, crashes>>

\* The transaction is rolled back: the process dies, or the database fails.
Rollback(a) ==
  /\ crashes < MaxCrashes /\ visit[a].pc \in {"read", "staged"}
  /\ crashes' = crashes + 1
  /\ rowLock' = IF rowLock = a THEN Nobody ELSE rowLock
  /\ visit' = [visit EXCEPT ![a].pc = "done"]
  /\ UNCHANGED <<row, version, retired, fresh, apiKeys>>

-----------------------------------------------------------------------------
(* API keys: both actions look the key up, then change it by its id.           *)

FindKey(o) ==
  /\ keyOp[o].pc = "new"
  /\ keyOp' = [keyOp EXCEPT ![o].pc = IF keys[keyOp[o].key] = Unset THEN "done" ELSE "found"]
  /\ UNCHANGED <<settings, fresh, keys, keyLock, revoked, crashes>>

\* The UPDATE of a key deleted meanwhile changes no row and is no error: the
\* raw key is answered all the same.
StageKey(o) ==
  /\ keyOp[o].pc = "found" /\ keyLock[keyOp[o].key] = Nobody
  /\ keyLock' = [keyLock EXCEPT ![keyOp[o].key] = o]
  /\ keyOp' = [keyOp EXCEPT ![o].pc = "staged",
                            ![o].raw = IF keyOp[o].kind = "regenerate" THEN fresh ELSE Unset]
  /\ fresh' = fresh + 1
  /\ UNCHANGED <<settings, keys, revoked, crashes>>

\* mutant: the key is stored again when its row is gone (an upsert).
KeyAfterUpsert(o) == keyOp[o].raw
\* What the row of the key holds after the change: a deleted row stays deleted.
KeyAfter(o) == IF keys[keyOp[o].key] = Unset THEN Unset ELSE keyOp[o].raw
CommitKey(o) ==
  /\ keyOp[o].pc = "staged"
  /\ keys' = [keys EXCEPT ![keyOp[o].key] = KeyAfter(o)]
  /\ keyLock' = [keyLock EXCEPT ![keyOp[o].key] = Nobody]
  /\ keyOp' = [keyOp EXCEPT ![o].pc = "done"]
  /\ revoked' = revoked \cup ({keys[keyOp[o].key]} \ {Unset})
  /\ UNCHANGED <<settings, fresh, crashes>>

-----------------------------------------------------------------------------
Visits == \E a \in Actors :
            \/ Visit(a) \/ EnsureFound(a) \/ Press(a) \/ PhoneSave(a)
            \/ Stage(a) \/ Commit(a) \/ Rollback(a)
KeyWork == \E o \in KeyOps : FindKey(o) \/ StageKey(o) \/ CommitKey(o)
SettingsNext == Visits \/ KeyWork
SettingsSpec == SettingsInit /\ [][SettingsNext]_settingsVars

-----------------------------------------------------------------------------
(* Properties                                                                  *)

\* Once a project has a resume secret it always has one: whatever a page, a
\* phone and a decision read before each other's commits, no update takes the
\* secret away (every resume after it is signed).
SecretStays == [][HasSecret(row) => HasSecret(row')]_settingsVars

\* A commit changes a value nobody asked it to change (the secret without a
\* rotation, the token or the sink's address without one being entered) only
\* when the row was updated between its read and its update.
Unasked(v) ==
  \/ row'.credentials.secret # row.credentials.secret /\ HasSecret(row) /\ v.kind # "rotate"
  \/ row'.credentials.token # row.credentials.token /\ ~(v.kind = "save" /\ v.form.token)
  \/ row'.sinkUrl # row.sinkUrl /\ ~(v.kind = "save" /\ v.form.sinkUrl)
OnlyRacesUndo ==
  [][\A a \in Actors : version' # version /\ rowLock = a /\ Unasked(visit[a])
                          => visit[a].seen < version]_settingsVars

\* A raw key that was replaced or deleted never authenticates an origin again,
\* and a deleted key stays deleted, however a regeneration and a deletion of the
\* key pass each other.
RevokedKeysRefused ==
  [][\A k \in KeyIds : keys'[k] # keys[k] => keys[k] # Unset /\ keys'[k] \notin revoked']_settingsVars

\* What the config page says of a rotation, "the previous secret no longer
\* works": a replaced secret is never stored again. A save or an ensure that
\* read the row before the rotation stores it back.
RotationSticks == row.credentials.secret \notin retired

\* What the phone's config screen says it edits (name, SLA, assignee, origin
\* connection): saving there leaves the evidence sink as it is.
PhoneKeepsSink ==
  [][\A a \in Phones : version' # version /\ rowLock = a => row'.sinkType = row.sinkType]_settingsVars
=============================================================================
