---------------------------- MODULE AnswerForms ----------------------------
(***************************************************************************)
(* The answer of one work item: the gates of packages/core answer-gates.ts *)
(* (a reason for some answers, context items that must be opened first),   *)
(* the edit of allowlisted arguments (lib/approvals.ts), the open reports  *)
(* (the opens route, lib/context-opens.ts) and the two forms that fill an  *)
(* answer in: the web page (answer-form.tsx, editable-fields-form.tsx) and *)
(* the phone screen (inbox/[id].tsx, DecisionBar.tsx, EditArgsSheet.tsx).  *)
(*                                                                         *)
(* What happens to the item once an answer is admitted (evidence, resume,  *)
(* status) is module Approvals.  A text field is its length, an array its  *)
(* number of items, an option its rank (0: none chosen) and a bool 0 or 1: *)
(* what the rules compare.  A reason is given or it is not.                *)
(***************************************************************************)
EXTENDS Integers, Sequences

CONSTANTS
  Requests,     \* requests an origin may send
  Reviewers,    \* people who may decide the item
  WebForms, PhoneScreens,
  FieldValues,  \* values a reviewer may give a field
  MaxShown      \* bound: forms shown

AnswerScreens == WebForms \cup PhoneScreens
AnswerKinds == {"accept", "edit", "respond", "ignore", "reject"}
ASSUME AnswerFormsAssumption ==
  /\ "none" \notin AnswerScreens /\ "nobody" \notin Reviewers
  /\ \A r \in Requests : r.allowed \subseteq AnswerKinds
  /\ MaxShown \in Nat

----------------------------------------------------------------------------
(* packages/core/src/answer-gates.ts.  A context item has its place in the *)
(* request (links before attachments); "" is a field left out.             *)

IsBinaryLikeRequest(r) ==
  {"accept", "reject"} \subseteq r.allowed /\ {"edit", "respond"} \cap r.allowed = {}

ResolveReasonRequired(r) ==
  IF r.reasonDeclared THEN r.reasonRequired
  ELSE IF IsBinaryLikeRequest(r) THEN {"reject"} ELSE {}

\* Items without a url (attachments: without a name) can not be opened.
ContextItems(r) == {i \in r.items : i.url # "" /\ (i.kind = "attachment" => i.name # "")}

RefOf(i) == CASE i.ref # "" -> i.ref
              [] i.ref = "" /\ i.kind = "link" -> i.url
              [] OTHER -> i.name \o ":" \o i.url

MustOpenItems(r) == {i \in ContextItems(r) : i.mustOpen}

\* The first item whose ref or url is the key; links come before attachments.
FindContextItem(r, key) ==
  LET found == {i \in ContextItems(r) : RefOf(i) = key \/ i.url = key}
  IN  {i \in found : \A j \in found : i.at <= j.at}

\* No key of one item is the url of another: a report then finds the item it names.
KeysApart(r) == \A i, j \in ContextItems(r) : RefOf(i) = j.url => i = j

UnopenedMustOpenItems(r, opened) == {i \in MustOpenItems(r) : RefOf(i) \notin opened}

\* No error, at submission.
ValidAnswer(r, kind, reason, opened) ==
  /\ kind \in ResolveReasonRequired(r) => reason
  /\ UnopenedMustOpenItems(r, opened) = {}

\* No error, at ingest.
ValidRequest(r) ==
  /\ r.reasonDeclared => r.reasonRequired \subseteq r.allowed
  /\ \A i, j \in ContextItems(r) : RefOf(i) = RefOf(j) => i = j

----------------------------------------------------------------------------
(* Edited arguments.  r.fields maps an editable argument to its rules      *)
(* [numeric, min, max]; r.args maps the arguments the origin sent.         *)

\* What a form starts with: the origin's value, else the least number or zero.
StartValue(r, k) ==
  CASE k \in DOMAIN r.args -> r.args[k]
    [] k \notin DOMAIN r.args /\ r.fields[k].numeric -> r.fields[k].min
    [] OTHER -> 0

InLimits(spec, v) == v >= spec.min /\ v <= spec.max

Over(args, values) ==
  [k \in DOMAIN args \cup DOMAIN values |-> IF k \in DOMAIN values THEN values[k] ELSE args[k]]

\* mergeEditableArgs refuses a key that is not editable and a value outside its
\* field's rules; the other arguments are the origin's.
Mergeable(r, edited) ==
  \A k \in DOMAIN edited : k \in DOMAIN r.fields /\ InLimits(r.fields[k], edited[k])

\* validateEditReason: a required edit reason must be there.
ValidEditReason(r, given) == r.editReasonRequired => given

----------------------------------------------------------------------------
NoAsk == [kind |-> "none", reason |-> FALSE, editReason |-> FALSE, values |-> <<>>]
NoForm == [reviewer |-> "nobody", opened |-> {}, values |-> <<>>, state |-> "closed", sent |-> NoAsk]

VARIABLES
  request,   \* the envelope of the item
  answered,  \* how the item was answered, or NotAnswered
  openEvents,\* `opened` project events: <<reviewer, ref>>
  visited,   \* items whose source a reviewer really opened: <<reviewer, place>>
  form,      \* the forms on the reviewers' screens
  reports,   \* open reports under way: [form, reviewer, ref]
  shownForms \* counter of ShowForm

answerVars == <<request, answered, openEvents, visited, form, reports, shownForms>>

NotAnswered == [by |-> "nobody", kind |-> "none", args |-> <<>>]

AnswerTypeOK ==
  /\ request \in Requests /\ answered.by \in Reviewers \cup {"nobody"}
  /\ answered.kind \in AnswerKinds \cup {"none"}
  /\ \A o \in openEvents : o[1] \in Reviewers
  /\ \A o \in visited : o[1] \in Reviewers /\ \E i \in request.items : o[2] = i.at
  /\ DOMAIN form = AnswerScreens
  /\ \A f \in AnswerScreens :
       /\ form[f].reviewer \in Reviewers \cup {"nobody"}
       /\ form[f].state \in {"closed", "filling", "sent", "refused"}
       /\ DOMAIN form[f].values = IF form[f].state = "closed" THEN {} ELSE DOMAIN request.fields
       /\ form[f].sent.kind \in AnswerKinds \cup {"none"}
  /\ \A p \in reports : p.form \in AnswerScreens \cup {"none"} /\ p.reviewer \in Reviewers
  /\ shownForms \in 0..MaxShown

AnswerInit ==
  /\ request \in {r \in Requests : ValidRequest(r)}
  /\ answered = NotAnswered
  /\ openEvents = {} /\ visited = {} /\ reports = {}
  /\ form = [f \in AnswerScreens |-> NoForm]
  /\ shownForms = 0

RecordedOpens(u) == {o[2] : o \in {e \in openEvents : e[1] = u}}

\* The page reads the reviewer's recorded opens; the phone screen starts with none.
OpenedWhenShown(f, u) == IF f \in WebForms THEN RecordedOpens(u) ELSE {}

ShowForm(f) == \E u \in Reviewers :
  /\ shownForms < MaxShown /\ answered = NotAnswered
  /\ form[f].state = "closed"
  /\ form' = [form EXCEPT ![f] = [reviewer |-> u, opened |-> OpenedWhenShown(f, u),
                                  values |-> [k \in DOMAIN request.fields |-> StartValue(request, k)],
                                  state |-> "filling", sent |-> NoAsk]]
  /\ shownForms' = shownForms + 1
  /\ UNCHANGED <<request, answered, openEvents, visited, reports>>

\* A form that is gone hears no more of its reports.
CloseForm(f) ==
  /\ form' = [form EXCEPT ![f] = NoForm]
  /\ reports' = {IF p.form = f THEN [p EXCEPT !.form = "none"] ELSE p : p \in reports}

LeaveForm(f) ==
  /\ form[f].state \in {"filling", "refused"}
  /\ CloseForm(f)
  /\ UNCHANGED <<request, answered, openEvents, visited, shownForms>>

\* A tap opens the source and reports it; the page lists the items that gate,
\* the phone all of them, and does not report one it holds as open.
OpenItem(f) == \E i \in IF f \in WebForms THEN MustOpenItems(request) ELSE ContextItems(request) :
  LET u == form[f].reviewer
      report == [form |-> f, reviewer |-> u, ref |-> RefOf(i)]
  IN /\ form[f].state \in {"filling", "refused"}
     /\ report \notin reports
     /\ visited' = visited \cup {<<u, i.at>>}
     /\ reports' = IF f \in PhoneScreens /\ RefOf(i) \in form[f].opened
                     THEN reports ELSE reports \cup {report}
     /\ UNCHANGED <<request, answered, openEvents, form, shownForms>>

\* The opens route records the item found under the ref, while the item is open.
Recorded(p) ==
  IF answered = NotAnswered
    THEN openEvents \cup {<<p.reviewer, RefOf(i)>> : i \in FindContextItem(request, p.ref)}
    ELSE openEvents

\* The form counts an open once the report is answered.
\* mutant: the form counts the open whatever becomes of the report.
CountedAnyhow(f, ref, answer) == [f EXCEPT !.opened = @ \cup {ref}]

Counted(f, ref, answer) == IF answer = "ok" THEN [f EXCEPT !.opened = @ \cup {ref}] ELSE f

\* A report is served and answered, served with its answer lost, or lost.
ServeOpen(p) == \E answer \in {"ok", "lost", "never"} :
  /\ answer = "ok" => answered = NotAnswered /\ FindContextItem(request, p.ref) # {}
  /\ openEvents' = IF answer = "never" THEN openEvents ELSE Recorded(p)
  /\ form' = [f \in AnswerScreens |-> IF f = p.form THEN Counted(form[f], p.ref, answer) ELSE form[f]]
  /\ reports' = reports \ {p}
  /\ UNCHANGED <<request, answered, visited, shownForms>>

\* updateValue and the array editors: text that is no number becomes 0.
ChangeField(f) == \E k \in DOMAIN form[f].values, v \in FieldValues \cup {0} :
  /\ form[f].state \in {"filling", "refused"} /\ v # form[f].values[k]
  /\ form' = [form EXCEPT ![f].values[k] = v]
  /\ UNCHANGED <<request, answered, openEvents, visited, reports, shownForms>>

\* The browser checks every input of the form, whatever button was pressed:
\* numbers in their limits, the edit reason when it is required.
BrowserAccepts(f, editReason) ==
  f \in WebForms /\ "edit" \in request.allowed /\ DOMAIN request.fields # {} =>
    /\ \A k \in DOMAIN request.fields :
         request.fields[k].numeric => InLimits(request.fields[k], form[f].values[k])
    /\ request.editReasonRequired => editReason

\* Both forms lock their buttons while a gating item is not open and ask for a
\* reason where one is required; `edit` is offered only with fields to edit.
Submit(f) == \E kind \in request.allowed, reason, editReason \in BOOLEAN :
  /\ form[f].state \in {"filling", "refused"}
  /\ kind = "edit" => DOMAIN request.fields # {}
  /\ UnopenedMustOpenItems(request, form[f].opened) = {}
  /\ kind \in ResolveReasonRequired(request) => reason
  /\ BrowserAccepts(f, editReason)
  /\ form' = [form EXCEPT ![f] = [@ EXCEPT !.state = "sent",
                !.sent = [kind |-> kind, reason |-> reason, editReason |-> editReason, values |-> form[f].values]]]
  /\ UNCHANGED <<request, answered, openEvents, visited, reports, shownForms>>

\* The page posts its field values with every answer; only an edit uses them.
AnswerArgs(r, a) == IF a.kind = "edit" THEN Over(r.args, a.values) ELSE r.args

\* decideApproval's checks before the answer takes effect.
Admitted(u, a) ==
  /\ a.kind \in request.allowed
  /\ ValidAnswer(request, a.kind, a.reason, RecordedOpens(u))
  /\ a.kind = "edit" => /\ DOMAIN request.fields # {}
                        /\ ValidEditReason(request, a.editReason)
                        /\ Mergeable(request, a.values)

\* The page redirects to itself with the error, the phone reloads the item and
\* shows it; an item answered meanwhile is a conflict.
DecideWorkItem(f) == LET u == form[f].reviewer  a == form[f].sent IN
  /\ form[f].state = "sent"
  /\ IF answered = NotAnswered /\ Admitted(u, a)
       THEN /\ answered' = [by |-> u, kind |-> a.kind, args |-> AnswerArgs(request, a)]
            /\ CloseForm(f)
       ELSE /\ form' = [form EXCEPT ![f].state = "refused"]
            /\ UNCHANGED <<answered, reports>>
  /\ UNCHANGED <<request, openEvents, visited, shownForms>>

FormStep(f) == ShowForm(f) \/ LeaveForm(f) \/ OpenItem(f) \/ ChangeField(f) \/ Submit(f) \/ DecideWorkItem(f)

AnswerNext ==
  \/ \E f \in AnswerScreens : FormStep(f)
  \/ \E p \in reports : ServeOpen(p)

AnswerSpec == AnswerInit /\ [][AnswerNext]_answerVars

----------------------------------------------------------------------------
\* What a form lets through its gates, the host admits: the opens a form counts
\* are recorded for its reviewer, on whatever page or screen they were made and
\* however their reports went (answer-form.tsx recordOpen, openContextItem and
\* validateAnswerSubmission). A key that is the url of another item is the
\* exception, see AnsweredMeansOpened.
UnlockedIsAdmitted ==
  KeysApart(request) => \A f \in AnswerScreens : form[f].state = "sent" =>
     ValidAnswer(request, form[f].sent.kind, form[f].sent.reason, RecordedOpens(form[f].reviewer))

\* .changeset/answer-gating.md: "The host refuses answers that skip must-open
\* items." Whoever answers has opened the source of every gating item. A key
\* that is the url of an item before it is recorded as that item's open.
AnsweredMeansOpened ==
  answered # NotAnswered => \A i \in MustOpenItems(request) : <<answered.by, i.at>> \in visited

=============================================================================
