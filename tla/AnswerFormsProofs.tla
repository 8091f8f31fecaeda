-------------------------- MODULE AnswerFormsProofs --------------------------
(* For any requests, reviewers, pages and phones, and however reports are lost *)
(* or late: what a form unlocks the host admits, and, when no key of an item is *)
(* the url of another, whoever answers has opened every item that gates.       *)
EXTENDS AnswerForms, TLAPS

\* Every form has the fields of a form.
FormShape(r) ==
  r = [reviewer |-> r.reviewer, opened |-> r.opened, values |-> r.values, state |-> r.state, sent |-> r.sent]
ShapeInv == form = [f \in AnswerScreens |-> form[f]] /\ \A f \in AnswerScreens : FormShape(form[f])

\* A form counts opens its reviewer has on record, and was sent past its gates.
FormInv(f) ==
  /\ form[f].state # "closed" => form[f].opened \subseteq RecordedOpens(form[f].reviewer)
  /\ form[f].state = "sent" =>
       /\ form[f].sent.kind \in ResolveReasonRequired(request) => form[f].sent.reason
       /\ UnopenedMustOpenItems(request, form[f].opened) = {}

\* A reviewer who names an item has opened it.
OpenedBy(u, ref) == \E i \in ContextItems(request) : RefOf(i) = ref /\ <<u, i.at>> \in visited
\* A report names an item its reviewer opened, for a form that is still theirs.
ReportInv(p) ==
  /\ p = [form |-> p.form, reviewer |-> p.reviewer, ref |-> p.ref]
  /\ OpenedBy(p.reviewer, p.ref)
  /\ p.form \in AnswerScreens => form[p.form].state # "closed" /\ form[p.form].reviewer = p.reviewer
EventInv(o) == o = <<o[1], o[2]>> /\ OpenedBy(o[1], o[2])

GateInv == (\A f \in AnswerScreens : FormInv(f)) /\ (\A p \in reports : ReportInv(p))
           /\ (\A o \in openEvents : EventInv(o)) /\ AnsweredMeansOpened
AnswerInv == ShapeInv /\ ValidRequest(request) /\ (KeysApart(request) => GateInv)

-----------------------------------------------------------------------------
\* What the EXCEPTs of the steps make of a form.
FormRec(A, B, C, D, E) == [reviewer : A, opened : B, values : C, state : D, sent : E]

LEMMA FormsEqual ==
  ASSUME NEW A, NEW B, NEW C, NEW D, NEW E, NEW r \in FormRec(A, B, C, D, E), NEW q \in FormRec(A, B, C, D, E),
         r.reviewer = q.reviewer, r.opened = q.opened, r.values = q.values, r.state = q.state, r.sent = q.sent
  PROVE  r = q
  BY DEF FormRec

LEMMA NewValues ==
  ASSUME NEW r, FormShape(r), NEW w
  PROVE  [r EXCEPT !.values = w]
         = [reviewer |-> r.reviewer, opened |-> r.opened, values |-> w, state |-> r.state, sent |-> r.sent]
<1> DEFINE A == {r.reviewer}  B == {r.opened}  C == {r.values, w}  D == {r.state}  E == {r.sent}
           q == [r EXCEPT !.values = w]
<1>1. r \in [reviewer : A, opened : B, values : C, state : D, sent : E]
  BY DEF FormShape
<1>2. q \in FormRec(A, B, C, D, E)
      /\ q.reviewer = r.reviewer /\ q.opened = r.opened /\ q.values = w /\ q.state = r.state /\ q.sent = r.sent
  <2> HIDE DEF A, B, D, E
  <2> QED
    BY <1>1 DEF FormRec
<1>3. [reviewer |-> r.reviewer, opened |-> r.opened, values |-> w, state |-> r.state, sent |-> r.sent]
      \in FormRec(A, B, C, D, E)
  BY DEF FormRec
<1> HIDE DEF q
<1>4. q = [reviewer |-> r.reviewer, opened |-> r.opened, values |-> w, state |-> r.state, sent |-> r.sent]
  BY <1>2, <1>3, FormsEqual
<1>5. QED
  BY <1>4 DEF q

LEMMA NewOpened ==
  ASSUME NEW r, FormShape(r), NEW w
  PROVE  [r EXCEPT !.opened = w]
         = [reviewer |-> r.reviewer, opened |-> w, values |-> r.values, state |-> r.state, sent |-> r.sent]
<1> DEFINE A == {r.reviewer}  B == {r.opened, w}  C == {r.values}  D == {r.state}  E == {r.sent}
           q == [r EXCEPT !.opened = w]
<1>1. r \in [reviewer : A, opened : B, values : C, state : D, sent : E]
  BY DEF FormShape
<1>2. q \in FormRec(A, B, C, D, E)
      /\ q.reviewer = r.reviewer /\ q.opened = w /\ q.values = r.values /\ q.state = r.state /\ q.sent = r.sent
  <2> HIDE DEF A, C, D, E
  <2> QED
    BY <1>1 DEF FormRec
<1>3. [reviewer |-> r.reviewer, opened |-> w, values |-> r.values, state |-> r.state, sent |-> r.sent]
      \in FormRec(A, B, C, D, E)
  BY DEF FormRec
<1> HIDE DEF q
<1>4. q = [reviewer |-> r.reviewer, opened |-> w, values |-> r.values, state |-> r.state, sent |-> r.sent]
  BY <1>2, <1>3, FormsEqual
<1>5. QED
  BY <1>4 DEF q

LEMMA NewState ==
  ASSUME NEW r, FormShape(r), NEW w
  PROVE  [r EXCEPT !.state = w]
         = [reviewer |-> r.reviewer, opened |-> r.opened, values |-> r.values, state |-> w, sent |-> r.sent]
<1> DEFINE A == {r.reviewer}  B == {r.opened}  C == {r.values}  D == {r.state, w}  E == {r.sent}
           q == [r EXCEPT !.state = w]
<1>1. r \in [reviewer : A, opened : B, values : C, state : D, sent : E]
  BY DEF FormShape
<1>2. q \in FormRec(A, B, C, D, E)
      /\ q.reviewer = r.reviewer /\ q.opened = r.opened /\ q.values = r.values /\ q.state = w /\ q.sent = r.sent
  <2> HIDE DEF A, B, C, E
  <2> QED
    BY <1>1 DEF FormRec
<1>3. [reviewer |-> r.reviewer, opened |-> r.opened, values |-> r.values, state |-> w, sent |-> r.sent]
      \in FormRec(A, B, C, D, E)
  BY DEF FormRec
<1> HIDE DEF q
<1>4. q = [reviewer |-> r.reviewer, opened |-> r.opened, values |-> r.values, state |-> w, sent |-> r.sent]
  BY <1>2, <1>3, FormsEqual
<1>5. QED
  BY <1>4 DEF q

LEMMA NewAnswer ==
  ASSUME NEW r, FormShape(r), NEW w, NEW a
  PROVE  [r EXCEPT !.state = w, !.sent = a]
         = [reviewer |-> r.reviewer, opened |-> r.opened, values |-> r.values, state |-> w, sent |-> a]
<1> DEFINE A == {r.reviewer}  B == {r.opened}  C == {r.values}  D == {r.state, w}  E == {r.sent, a}
           q == [r EXCEPT !.state = w, !.sent = a]
<1>1. r \in [reviewer : A, opened : B, values : C, state : D, sent : E]
  BY DEF FormShape
<1>2. q \in FormRec(A, B, C, D, E)
      /\ q.reviewer = r.reviewer /\ q.opened = r.opened /\ q.values = r.values /\ q.state = w /\ q.sent = a
  <2> HIDE DEF A, B, C
  <2> QED
    BY <1>1 DEF FormRec
<1>3. [reviewer |-> r.reviewer, opened |-> r.opened, values |-> r.values, state |-> w, sent |-> a]
      \in FormRec(A, B, C, D, E)
  BY DEF FormRec
<1> HIDE DEF q
<1>4. q = [reviewer |-> r.reviewer, opened |-> r.opened, values |-> r.values, state |-> w, sent |-> a]
  BY <1>2, <1>3, FormsEqual
<1>5. QED
  BY <1>4 DEF q

-----------------------------------------------------------------------------
\* findContextItem finds the item a report names.
LEMMA FoundIsNamed ==
  ASSUME ValidRequest(request), KeysApart(request), NEW i \in ContextItems(request),
         NEW j \in FindContextItem(request, RefOf(i))
  PROVE  j = i
  BY DEF ValidRequest, KeysApart, FindContextItem

\* Opens recorded for one reviewer stay recorded.
LEMMA RecordedGrow ==
  ASSUME openEvents \subseteq openEvents', NEW u
  PROVE  RecordedOpens(u) \subseteq RecordedOpens(u)'
  BY DEF RecordedOpens

LEMMA RecordedIs ==
  ASSUME NEW u, NEW ref
  PROVE  <<u, ref>> \in openEvents => ref \in RecordedOpens(u)
  BY DEF RecordedOpens

LEMMA OpenedStays ==
  ASSUME NEW u, NEW ref, OpenedBy(u, ref), visited \subseteq visited', request' = request
  PROVE  OpenedBy(u, ref)'
  BY DEF OpenedBy

LEMMA AnswerInitially == AnswerInit => AnswerInv
<1> SUFFICES ASSUME AnswerInit PROVE AnswerInv
  OBVIOUS
<1>1. form = [f \in AnswerScreens |-> NoForm] /\ reports = {} /\ openEvents = {}
      /\ answered = NotAnswered /\ ValidRequest(request)
  BY DEF AnswerInit
<1>2. FormShape(NoForm) /\ NoForm.state = "closed"
  BY DEF FormShape, NoForm
<1>3. ShapeInv
  BY <1>1, <1>2 DEF ShapeInv
<1>4. GateInv
  BY <1>1, <1>2 DEF GateInv, FormInv, AnsweredMeansOpened
<1>5. QED
  BY <1>1, <1>3, <1>4 DEF AnswerInv

-----------------------------------------------------------------------------
\* A step that puts one form in a new state, and what it then owes.
FormBecomes(f, r) == form' = [form EXCEPT ![f] = r] /\ FormShape(r)

LEMMA ShapeStays ==
  ASSUME ShapeInv, NEW f \in AnswerScreens, NEW r, FormBecomes(f, r)
  PROVE  ShapeInv' /\ \A g \in AnswerScreens : form'[g] = IF g = f THEN r ELSE form[g]
<1>1. \A g \in AnswerScreens : form'[g] = IF g = f THEN r ELSE form[g]
  BY DEF ShapeInv, FormBecomes
<1>2. form' = [g \in AnswerScreens |-> form'[g]]
  BY DEF ShapeInv, FormBecomes
<1>3. QED
  BY <1>1, <1>2 DEF ShapeInv, FormBecomes

LEMMA FormStays ==
  ASSUME GateInv, ShapeInv, NEW f \in AnswerScreens, NEW r, FormBecomes(f, r),
         UNCHANGED <<request, openEvents>>,
         r.state # "closed" => r.opened \subseteq RecordedOpens(r.reviewer),
         r.state = "sent" =>
           /\ r.sent.kind \in ResolveReasonRequired(request) => r.sent.reason
           /\ UnopenedMustOpenItems(request, r.opened) = {}
  PROVE  \A g \in AnswerScreens : FormInv(g)'
<1>1. \A g \in AnswerScreens : form'[g] = IF g = f THEN r ELSE form[g]
  BY ShapeStays
<1>2. \A u : RecordedOpens(u)' = RecordedOpens(u)
  BY DEF RecordedOpens
<1>3. SUFFICES ASSUME NEW g \in AnswerScreens PROVE FormInv(g)'
  OBVIOUS
<1>4. CASE g = f
  BY <1>1, <1>2, <1>4 DEF FormInv
<1>5. CASE g # f
  BY <1>1, <1>2, <1>5 DEF FormInv, GateInv
<1>6. QED
  BY <1>4, <1>5

LEMMA EventsStay ==
  ASSUME GateInv, UNCHANGED <<request, openEvents>>, visited \subseteq visited'
  PROVE  \A o \in openEvents' : EventInv(o)'
  BY OpenedStays DEF GateInv, EventInv

\* A form keeps its reviewer as long as it is not closed, so its reports stay its own.
LEMMA ReportsStay ==
  ASSUME GateInv, ShapeInv, NEW f \in AnswerScreens, NEW r, FormBecomes(f, r),
         UNCHANGED <<request, visited, reports>>,
         form[f].state = "closed" \/ (r.state # "closed" /\ r.reviewer = form[f].reviewer)
  PROVE  \A p \in reports' : ReportInv(p)'
<1>1. \A g \in AnswerScreens : form'[g] = IF g = f THEN r ELSE form[g]
  BY ShapeStays
<1>2. SUFFICES ASSUME NEW p \in reports PROVE ReportInv(p)'
  OBVIOUS
<1>3. ReportInv(p)
  BY DEF GateInv
<1>4. OpenedBy(p.reviewer, p.ref)'
  BY <1>3, OpenedStays DEF ReportInv
<1>5. QED
  BY <1>1, <1>3, <1>4 DEF ReportInv

\* The reports of a form that closes are no form's any more.
LEMMA ReportsOfClosed ==
  ASSUME GateInv, ShapeInv, NEW f \in AnswerScreens, CloseForm(f), UNCHANGED <<request, visited>>
  PROVE  \A p \in reports' : ReportInv(p)'
<1>1. FormBecomes(f, NoForm)
  BY DEF CloseForm, FormBecomes, FormShape, NoForm
<1>2. \A g \in AnswerScreens : form'[g] = IF g = f THEN NoForm ELSE form[g]
  BY <1>1, ShapeStays
<1>3. SUFFICES ASSUME NEW p \in reports,
                      NEW q, q = IF p.form = f THEN [p EXCEPT !.form = "none"] ELSE p
               PROVE  ReportInv(q)'
  BY DEF CloseForm
<1>4. ReportInv(p)
  BY DEF GateInv
<1>5. q.reviewer = p.reviewer /\ q.ref = p.ref /\ q = [form |-> q.form, reviewer |-> q.reviewer, ref |-> q.ref]
      /\ (q.form \in AnswerScreens => q = p /\ p.form # f)
  BY <1>3, <1>4, AnswerFormsAssumption DEF ReportInv
<1>6. OpenedBy(q.reviewer, q.ref)'
  BY <1>4, <1>5, OpenedStays DEF ReportInv
<1>7. QED
  BY <1>2, <1>4, <1>5, <1>6 DEF ReportInv

-----------------------------------------------------------------------------
LEMMA ShowKeeps ==
  ASSUME AnswerInv, NEW f \in AnswerScreens, ShowForm(f)
  PROVE  AnswerInv'
<1>1. PICK u \in Reviewers :
        form' = [form EXCEPT ![f] = [reviewer |-> u, opened |-> OpenedWhenShown(f, u),
                                     values |-> [k \in DOMAIN request.fields |-> StartValue(request, k)],
                                     state |-> "filling", sent |-> NoAsk]]
  BY DEF ShowForm
<1> DEFINE r == [reviewer |-> u, opened |-> OpenedWhenShown(f, u),
                 values |-> [k \in DOMAIN request.fields |-> StartValue(request, k)],
                 state |-> "filling", sent |-> NoAsk]
<1>2. FormBecomes(f, r) /\ r.state = "filling" /\ r.opened \subseteq RecordedOpens(r.reviewer)
  BY <1>1 DEF FormBecomes, FormShape, OpenedWhenShown
<1> HIDE DEF r
<1>3. form[f].state = "closed" /\ UNCHANGED <<request, answered, openEvents, visited, reports>>
  BY DEF ShowForm
<1>4. ShapeInv'
  BY <1>2, ShapeStays DEF AnswerInv
<1>5. ASSUME KeysApart(request) PROVE GateInv'
  <2>1. GateInv /\ ShapeInv
    BY <1>5 DEF AnswerInv
  <2>2. \A g \in AnswerScreens : FormInv(g)'
    BY <1>2, <1>3, <2>1, FormStays
  <2>3. \A p \in reports' : ReportInv(p)'
    BY <1>2, <1>3, <2>1, ReportsStay
  <2>4. \A o \in openEvents' : EventInv(o)'
    BY <1>3, <2>1, EventsStay
  <2>5. QED
    BY <1>3, <2>1, <2>2, <2>3, <2>4 DEF GateInv, AnsweredMeansOpened
<1>6. QED
  BY <1>3, <1>4, <1>5 DEF AnswerInv

LEMMA LeaveKeeps ==
  ASSUME AnswerInv, NEW f \in AnswerScreens, LeaveForm(f)
  PROVE  AnswerInv'
<1>1. CloseForm(f) /\ UNCHANGED <<request, answered, openEvents, visited>>
  BY DEF LeaveForm
<1>2. FormBecomes(f, NoForm) /\ NoForm.state = "closed"
  BY <1>1 DEF CloseForm, FormBecomes, FormShape, NoForm
<1>3. ShapeInv'
  BY <1>2, ShapeStays DEF AnswerInv
<1>4. ASSUME KeysApart(request) PROVE GateInv'
  <2>1. GateInv /\ ShapeInv
    BY <1>4 DEF AnswerInv
  <2>2. \A g \in AnswerScreens : FormInv(g)'
    BY <1>1, <1>2, <2>1, FormStays
  <2>3. \A p \in reports' : ReportInv(p)'
    BY <1>1, <2>1, ReportsOfClosed
  <2>4. \A o \in openEvents' : EventInv(o)'
    BY <1>1, <2>1, EventsStay
  <2>5. QED
    BY <1>1, <2>1, <2>2, <2>3, <2>4 DEF GateInv, AnsweredMeansOpened
<1>5. QED
  BY <1>1, <1>3, <1>4 DEF AnswerInv

LEMMA OpenKeeps ==
  ASSUME AnswerInv, NEW f \in AnswerScreens, OpenItem(f)
  PROVE  AnswerInv'
<1>1. PICK i \in ContextItems(request) :
        /\ form[f].state \in {"filling", "refused"}
        /\ visited' = visited \cup {<<form[f].reviewer, i.at>>}
        /\ reports' \subseteq
             reports \cup {[form |-> f, reviewer |-> form[f].reviewer, ref |-> RefOf(i)]}
        /\ UNCHANGED <<request, answered, openEvents, form>>
  BY DEF OpenItem, MustOpenItems
<1>2. ShapeInv'
  BY <1>1 DEF AnswerInv, ShapeInv
<1>3. ASSUME KeysApart(request) PROVE GateInv'
  <2>1. GateInv /\ ShapeInv
    BY <1>3 DEF AnswerInv
  <2>2. \A g \in AnswerScreens : FormInv(g)'
    BY <1>1, <2>1 DEF GateInv, FormInv, RecordedOpens
  <2>3. ASSUME NEW p \in reports' PROVE ReportInv(p)'
    <3>1. CASE p \in reports
      <4>1. ReportInv(p)
        BY <2>1, <3>1 DEF GateInv
      <4>2. OpenedBy(p.reviewer, p.ref)'
        BY <1>1, <4>1, OpenedStays DEF ReportInv
      <4>3. QED
        BY <1>1, <4>1, <4>2 DEF ReportInv
    <3>2. CASE p = [form |-> f, reviewer |-> form[f].reviewer, ref |-> RefOf(i)]
      <4>1. OpenedBy(form[f].reviewer, RefOf(i))'
        BY <1>1 DEF OpenedBy
      <4>2. QED
        BY <1>1, <3>2, <4>1 DEF ReportInv
    <3>3. QED
      BY <1>1, <2>3, <3>1, <3>2
  <2>4. \A o \in openEvents' : EventInv(o)'
    BY <1>1, <2>1, EventsStay
  <2>5. AnsweredMeansOpened'
    BY <1>1, <2>1 DEF GateInv, AnsweredMeansOpened
  <2>6. QED
    BY <2>2, <2>3, <2>4, <2>5 DEF GateInv
<1>4. QED
  BY <1>1, <1>2, <1>3 DEF AnswerInv

LEMMA ChangeKeeps ==
  ASSUME AnswerInv, NEW f \in AnswerScreens, ChangeField(f)
  PROVE  AnswerInv'
<1>0. UNCHANGED <<request, answered, openEvents, visited, reports>>
  BY DEF ChangeField
<1>a. PICK k \in DOMAIN form[f].values, v \in FieldValues \cup {0} :
        /\ form[f].state \in {"filling", "refused"} /\ v # form[f].values[k]
        /\ form' = [form EXCEPT ![f].values[k] = v]
  BY Zenon DEF ChangeField
<1>1. /\ form[f].state \in {"filling", "refused"}
      /\ form' = [form EXCEPT ![f].values[k] = v]
      /\ UNCHANGED <<request, answered, openEvents, visited, reports>>
  BY <1>0, <1>a, Zenon
<1> DEFINE w == [form[f].values EXCEPT ![k] = v]
           r == [form[f] EXCEPT !.values = w]
<1>2. FormShape(form[f])
  BY DEF AnswerInv, ShapeInv
<1>3. FormShape(r) /\ r.reviewer = form[f].reviewer /\ r.opened = form[f].opened /\ r.state = form[f].state
  <2> HIDE DEF w
  <2>1. r = [reviewer |-> form[f].reviewer, opened |-> form[f].opened, values |-> w,
             state |-> form[f].state, sent |-> form[f].sent]
    BY <1>2, NewValues
  <2> HIDE DEF r
  <2>2. QED
    BY <2>1 DEF FormShape
<1>4. FormBecomes(f, r)
  <2>1. form' = [form EXCEPT ![f] = r]
    BY <1>1, Zenon DEF AnswerInv, ShapeInv
  <2>2. QED
    BY <1>3, <2>1 DEF FormBecomes
<1> HIDE DEF r
<1>5. ShapeInv'
  BY <1>4, ShapeStays DEF AnswerInv
<1>6. ASSUME KeysApart(request) PROVE GateInv'
  <2>1. GateInv /\ ShapeInv
    BY <1>6 DEF AnswerInv
  <2>2. form[f].opened \subseteq RecordedOpens(form[f].reviewer)
    BY <1>1, <2>1 DEF GateInv, FormInv
  <2>3. \A g \in AnswerScreens : FormInv(g)'
    BY <1>1, <1>3, <1>4, <2>1, <2>2, FormStays
  <2>4. \A p \in reports' : ReportInv(p)'
    BY <1>1, <1>3, <1>4, <2>1, ReportsStay
  <2>5. \A o \in openEvents' : EventInv(o)'
    BY <1>1, <2>1, EventsStay
  <2>6. QED
    BY <1>1, <2>1, <2>3, <2>4, <2>5 DEF GateInv, AnsweredMeansOpened
<1>7. QED
  BY <1>1, <1>5, <1>6 DEF AnswerInv
LEMMA SubmitKeeps ==
  ASSUME AnswerInv, NEW f \in AnswerScreens, Submit(f)
  PROVE  AnswerInv'
<1>1. PICK kind \in request.allowed, reason \in BOOLEAN, editReason \in BOOLEAN :
        /\ form[f].state \in {"filling", "refused"}
        /\ UnopenedMustOpenItems(request, form[f].opened) = {}
        /\ kind \in ResolveReasonRequired(request) => reason
        /\ form' = [form EXCEPT ![f] = [form[f] EXCEPT !.state = "sent",
             !.sent = [kind |-> kind, reason |-> reason, editReason |-> editReason, values |-> form[f].values]]]
  BY Zenon DEF Submit
<1>0. UNCHANGED <<request, answered, openEvents, visited, reports>>
  BY DEF Submit
<1> DEFINE a == [kind |-> kind, reason |-> reason, editReason |-> editReason, values |-> form[f].values]
           r == [reviewer |-> form[f].reviewer, opened |-> form[f].opened, values |-> form[f].values,
                 state |-> "sent", sent |-> a]
<1>2. FormShape(form[f])
  BY DEF AnswerInv, ShapeInv
<1>3. a.kind = kind /\ a.reason = reason
  OBVIOUS
<1>4. form' = [form EXCEPT ![f] = [form[f] EXCEPT !.state = "sent", !.sent = a]]
  BY <1>1, Zenon
<1> HIDE DEF a
<1>5. FormShape(r) /\ form' = [form EXCEPT ![f] = r]
  <2>1. [form[f] EXCEPT !.state = "sent", !.sent = a] = r
    BY <1>2, NewAnswer
  <2>2. form' = [form EXCEPT ![f] = r]
    BY <1>4, <2>1, Zenon
  <2>3. QED
    BY <2>2 DEF FormShape
<1>6. FormBecomes(f, r)
  BY <1>5 DEF FormBecomes
<1>7. r.reviewer = form[f].reviewer /\ r.opened = form[f].opened /\ r.state = "sent" /\ r.sent = a
  OBVIOUS
<1> HIDE DEF r
<1>8. ShapeInv'
  BY <1>6, ShapeStays DEF AnswerInv
<1>9. ASSUME KeysApart(request) PROVE GateInv'
  <2>1. GateInv /\ ShapeInv
    BY <1>9 DEF AnswerInv
  <2>2. form[f].opened \subseteq RecordedOpens(form[f].reviewer)
    BY <1>1, <2>1 DEF GateInv, FormInv
  <2>3. \A g \in AnswerScreens : FormInv(g)'
    BY <1>0, <1>1, <1>3, <1>6, <1>7, <2>1, <2>2, FormStays
  <2>4. \A p \in reports' : ReportInv(p)'
    BY <1>0, <1>1, <1>6, <1>7, <2>1, ReportsStay
  <2>5. \A o \in openEvents' : EventInv(o)'
    BY <1>0, <2>1, EventsStay
  <2>6. QED
    BY <1>0, <2>1, <2>3, <2>4, <2>5 DEF GateInv, AnsweredMeansOpened
<1>10. QED
  BY <1>0, <1>8, <1>9 DEF AnswerInv

LEMMA DecideKeeps ==
  ASSUME AnswerInv, NEW f \in AnswerScreens, DecideWorkItem(f)
  PROVE  AnswerInv'
<1> DEFINE u == form[f].reviewer
           a == form[f].sent
<1>1. form[f].state = "sent" /\ UNCHANGED <<request, openEvents, visited>>
  BY DEF DecideWorkItem
<1>2. CASE answered = NotAnswered /\ Admitted(u, a)
  <2>1. answered' = [by |-> u, kind |-> a.kind, args |-> AnswerArgs(request, a)] /\ CloseForm(f)
    BY <1>2 DEF DecideWorkItem
  <2>2. FormBecomes(f, NoForm) /\ NoForm.state = "closed"
    BY <2>1 DEF CloseForm, FormBecomes, FormShape, NoForm
  <2>3. ShapeInv'
    BY <2>2, ShapeStays DEF AnswerInv
  <2>4. ASSUME KeysApart(request) PROVE GateInv'
    <3>1. GateInv /\ ShapeInv
      BY <2>4 DEF AnswerInv
    <3>2. \A g \in AnswerScreens : FormInv(g)'
      BY <1>1, <2>2, <3>1, FormStays
    <3>3. \A p \in reports' : ReportInv(p)'
      BY <1>1, <2>1, <3>1, ReportsOfClosed
    <3>4. \A o \in openEvents' : EventInv(o)'
      BY <1>1, <3>1, EventsStay
    <3>5. \A i \in MustOpenItems(request) : <<u, i.at>> \in visited
      <4>1. SUFFICES ASSUME NEW i \in MustOpenItems(request) PROVE <<u, i.at>> \in visited
        OBVIOUS
      <4>2. i \in ContextItems(request) /\ RefOf(i) \in RecordedOpens(u)
        BY <1>2 DEF Admitted, ValidAnswer, UnopenedMustOpenItems, MustOpenItems
      <4>3. PICK o \in openEvents : o[1] = u /\ o[2] = RefOf(i)
        BY <4>2 DEF RecordedOpens
      <4>4. PICK j \in ContextItems(request) : RefOf(j) = RefOf(i) /\ <<u, j.at>> \in visited
        BY <3>1, <4>3 DEF GateInv, EventInv, OpenedBy
      <4>5. QED
        BY <4>2, <4>4 DEF AnswerInv, ValidRequest
    <3>6. AnsweredMeansOpened'
      BY <1>1, <2>1, <3>5 DEF AnsweredMeansOpened
    <3>7. QED
      BY <3>2, <3>3, <3>4, <3>6 DEF GateInv
  <2>5. QED
    BY <1>1, <2>3, <2>4 DEF AnswerInv
<1>3. CASE ~(answered = NotAnswered /\ Admitted(u, a))
  <2>1. form' = [form EXCEPT ![f].state = "refused"] /\ UNCHANGED <<answered, reports>>
    BY <1>3 DEF DecideWorkItem
  <2> DEFINE r == [reviewer |-> form[f].reviewer, opened |-> form[f].opened, values |-> form[f].values,
                   state |-> "refused", sent |-> form[f].sent]
  <2>2. FormBecomes(f, r)
    <3>1. FormShape(form[f])
      BY DEF AnswerInv, ShapeInv
    <3>2. [form[f] EXCEPT !.state = "refused"] = r
      BY <3>1, NewState
    <3>3. form' = [form EXCEPT ![f] = r]
      BY <2>1, <3>2, Zenon
    <3>4. QED
      BY <3>3 DEF FormBecomes, FormShape
  <2>3. r.reviewer = form[f].reviewer /\ r.opened = form[f].opened /\ r.state = "refused"
    OBVIOUS
  <2> HIDE DEF r
  <2>4. ShapeInv'
    BY <2>2, ShapeStays DEF AnswerInv
  <2>5. ASSUME KeysApart(request) PROVE GateInv'
    <3>1. GateInv /\ ShapeInv
      BY <2>5 DEF AnswerInv
    <3>2. form[f].opened \subseteq RecordedOpens(form[f].reviewer)
      BY <1>1, <3>1 DEF GateInv, FormInv
    <3>3. \A g \in AnswerScreens : FormInv(g)'
      BY <1>1, <2>2, <2>3, <3>1, <3>2, FormStays
    <3>4. \A p \in reports' : ReportInv(p)'
      BY <1>1, <2>1, <2>2, <2>3, <3>1, ReportsStay
    <3>5. \A o \in openEvents' : EventInv(o)'
      BY <1>1, <3>1, EventsStay
    <3>6. QED
      BY <1>1, <2>1, <3>1, <3>3, <3>4, <3>5 DEF GateInv, AnsweredMeansOpened
  <2>6. QED
    BY <1>1, <2>4, <2>5 DEF AnswerInv
<1>4. QED
  BY <1>2, <1>3

\* A report is recorded under the key it names, if it is recorded at all.
LEMMA RecordedEvents ==
  ASSUME GateInv, ValidRequest(request), KeysApart(request), NEW p \in reports,
         NEW o \in Recorded(p)
  PROVE  o \in openEvents \/ (o = <<p.reviewer, p.ref>> /\ OpenedBy(p.reviewer, p.ref))
<1>1. ReportInv(p)
  BY DEF GateInv
<1>2. PICK i \in ContextItems(request) : RefOf(i) = p.ref
  BY <1>1 DEF ReportInv, OpenedBy
<1>3. \A j \in FindContextItem(request, p.ref) : j = i
  BY <1>2, FoundIsNamed DEF FindContextItem
<1>4. QED
  BY <1>1, <1>2, <1>3 DEF Recorded, ReportInv

LEMMA ServeKeeps ==
  ASSUME AnswerInv, NEW p \in reports, ServeOpen(p)
  PROVE  AnswerInv'
<1>1. PICK answer \in {"ok", "lost", "never"} :
        /\ answer = "ok" => answered = NotAnswered /\ FindContextItem(request, p.ref) # {}
        /\ openEvents' = IF answer = "never" THEN openEvents ELSE Recorded(p)
        /\ form' = [f \in AnswerScreens |-> IF f = p.form THEN Counted(form[f], p.ref, answer) ELSE form[f]]
        /\ reports' = reports \ {p}
        /\ UNCHANGED <<request, answered, visited>>
  BY DEF ServeOpen
<1> DEFINE opens(f) == IF f = p.form /\ answer = "ok" THEN form[f].opened \cup {p.ref} ELSE form[f].opened
<1>2. ASSUME NEW f \in AnswerScreens
      PROVE  form'[f] = [reviewer |-> form[f].reviewer, opened |-> opens(f), values |-> form[f].values,
                         state |-> form[f].state, sent |-> form[f].sent]
  <2>1. FormShape(form[f])
    BY DEF AnswerInv, ShapeInv
  <2>2. form'[f] = IF f = p.form THEN Counted(form[f], p.ref, answer) ELSE form[f]
    BY <1>1
  <2>3. [form[f] EXCEPT !.opened = form[f].opened \cup {p.ref}]
        = [reviewer |-> form[f].reviewer, opened |-> form[f].opened \cup {p.ref}, values |-> form[f].values,
           state |-> form[f].state, sent |-> form[f].sent]
    BY <2>1, NewOpened
  <2>4. Counted(form[f], p.ref, answer)
        = IF answer = "ok" THEN [form[f] EXCEPT !.opened = form[f].opened \cup {p.ref}] ELSE form[f]
    BY Zenon DEF Counted
  <2>5. CASE f = p.form /\ answer = "ok"
    BY <2>2, <2>3, <2>4, <2>5
  <2>6. CASE ~(f = p.form /\ answer = "ok")
    BY <2>1, <2>2, <2>4, <2>6 DEF FormShape
  <2>7. QED
    BY <2>5, <2>6
<1>b. \A f \in AnswerScreens :
        /\ form'[f].reviewer = form[f].reviewer /\ form'[f].opened = opens(f) /\ form'[f].values = form[f].values
        /\ form'[f].state = form[f].state /\ form'[f].sent = form[f].sent
  <2>1. SUFFICES ASSUME NEW f \in AnswerScreens
                 PROVE  /\ form'[f].reviewer = form[f].reviewer /\ form'[f].opened = opens(f)
                        /\ form'[f].values = form[f].values /\ form'[f].state = form[f].state
                        /\ form'[f].sent = form[f].sent
    OBVIOUS
  <2> HIDE DEF opens
  <2>2. form'[f] = [reviewer |-> form[f].reviewer, opened |-> opens(f), values |-> form[f].values,
                    state |-> form[f].state, sent |-> form[f].sent]
    BY <1>2
  <2>3. QED
    BY <2>2
<1>3. ShapeInv'
  <2>1. ASSUME NEW f \in AnswerScreens PROVE FormShape(form'[f])
    <3> HIDE DEF opens
    <3>1. form'[f] = [reviewer |-> form[f].reviewer, opened |-> opens(f), values |-> form[f].values,
                      state |-> form[f].state, sent |-> form[f].sent]
      BY <1>2
    <3>2. QED
      BY <3>1 DEF FormShape
  <2>2. form' = [f \in AnswerScreens |-> form'[f]]
    BY <1>1
  <2>3. QED
    BY <2>1, <2>2 DEF ShapeInv, FormShape
<1> HIDE DEF opens
<1>4. ASSUME KeysApart(request) PROVE GateInv'
  <2>1. GateInv /\ ShapeInv /\ ValidRequest(request) /\ ReportInv(p)
    BY <1>4 DEF AnswerInv, GateInv
  <2>2. openEvents \subseteq openEvents'
    BY <1>1 DEF Recorded
  <2>3. answer = "ok" => <<p.reviewer, p.ref>> \in openEvents'
    <3>1. SUFFICES ASSUME answer = "ok" PROVE <<p.reviewer, p.ref>> \in Recorded(p)
      BY <1>1
    <3>2. PICK i \in FindContextItem(request, p.ref) : TRUE
      BY <1>1, <3>1
    <3>3. PICK j \in ContextItems(request) : RefOf(j) = p.ref
      BY <2>1 DEF ReportInv, OpenedBy
    <3>4. i = j
      BY <1>4, <2>1, <3>2, <3>3, FoundIsNamed
    <3>5. QED
      BY <1>1, <3>1, <3>2, <3>3, <3>4 DEF Recorded
  <2>4. ASSUME NEW f \in AnswerScreens PROVE FormInv(f)'
    <3>1. FormInv(f)
      BY <2>1 DEF GateInv
    <3>2. RecordedOpens(form[f].reviewer) \subseteq RecordedOpens(form[f].reviewer)'
      BY <1>b, <2>2 DEF RecordedOpens
    <3>3. form[f].state # "closed" => opens(f) \subseteq RecordedOpens(form[f].reviewer)'
      <4>1. CASE f = p.form /\ answer = "ok"
        <5>1. form[f].reviewer = p.reviewer
          BY <2>1, <4>1 DEF ReportInv
        <5>2. p.ref \in RecordedOpens(p.reviewer)'
          BY <2>3, <4>1 DEF RecordedOpens
        <5>3. form[f].state # "closed" => form[f].opened \subseteq RecordedOpens(p.reviewer)
          BY <3>1, <5>1 DEF FormInv
        <5>4. RecordedOpens(p.reviewer) \subseteq RecordedOpens(p.reviewer)'
          BY <2>2 DEF RecordedOpens
        <5>5. RecordedOpens(form[f].reviewer)' = RecordedOpens(p.reviewer)'
          BY <1>b, <5>1 DEF RecordedOpens
        <5>6. QED
          BY <4>1, <5>2, <5>3, <5>4, <5>5 DEF opens
      <4>2. CASE ~(f = p.form /\ answer = "ok")
        BY <3>1, <3>2, <4>2 DEF opens, FormInv
      <4>3. QED
        BY <4>1, <4>2
    <3>4. UnopenedMustOpenItems(request, opens(f)) \subseteq UnopenedMustOpenItems(request, form[f].opened)
      BY DEF UnopenedMustOpenItems, opens
    <3>5. QED
      BY <1>1, <1>b, <3>1, <3>3, <3>4 DEF FormInv
  <2>5. ASSUME NEW q \in reports' PROVE ReportInv(q)'
    <3>1. ReportInv(q)
      BY <1>1, <2>1 DEF GateInv
    <3>2. OpenedBy(q.reviewer, q.ref)'
      BY <1>1, <3>1, OpenedStays DEF ReportInv
    <3>3. QED
      BY <1>b, <3>1, <3>2 DEF ReportInv
  <2>6. ASSUME NEW o \in openEvents' PROVE EventInv(o)'
    <3>1. o \in openEvents \/ (o = <<p.reviewer, p.ref>> /\ OpenedBy(p.reviewer, p.ref))
      BY <1>1, <1>4, <2>1, RecordedEvents
    <3>2. EventInv(o)
      BY <2>1, <3>1 DEF GateInv, EventInv
    <3>3. QED
      BY <1>1, <3>2, OpenedStays DEF EventInv
  <2>7. AnsweredMeansOpened'
    BY <1>1, <2>1 DEF GateInv, AnsweredMeansOpened
  <2>8. QED
    BY <2>4, <2>5, <2>6, <2>7 DEF GateInv
<1>5. QED
  BY <1>1, <1>3, <1>4 DEF AnswerInv

-----------------------------------------------------------------------------
LEMMA AnswerKeeps == AnswerInv /\ [AnswerNext]_answerVars => AnswerInv'
<1> SUFFICES ASSUME AnswerInv, [AnswerNext]_answerVars PROVE AnswerInv'
  OBVIOUS
<1>1. CASE \E f \in AnswerScreens : FormStep(f)
  BY <1>1, ShowKeeps, LeaveKeeps, OpenKeeps, ChangeKeeps, SubmitKeeps, DecideKeeps DEF FormStep
<1>b. CASE \E p \in reports : ServeOpen(p)
  BY <1>b, ServeKeeps
<1>3. CASE UNCHANGED answerVars
  BY <1>3 DEF answerVars, AnswerInv, ShapeInv, GateInv, FormInv, ReportInv, EventInv, OpenedBy,
              RecordedOpens, AnsweredMeansOpened
<1>4. QED
  BY <1>1, <1>b, <1>3 DEF AnswerNext

\* What a form lets through, decideApproval's gates admit: nobody is sent back
\* for an item they opened (answer-form.tsx, inbox/[id].tsx, validateAnswerSubmission).
THEOREM UnlockedTheorem == AnswerSpec => []UnlockedIsAdmitted
<1>1. AnswerInv => UnlockedIsAdmitted
  BY DEF AnswerInv, GateInv, FormInv, UnlockedIsAdmitted, ValidAnswer, UnopenedMustOpenItems
<1>b. QED
  BY <1>1, AnswerInitially, AnswerKeeps, PTL DEF AnswerSpec

\* Where no key of an item is the url of another, whoever answers has opened the
\* source of every gating item (the opens route, findContextItem).
THEOREM OpenedTheorem == AnswerSpec => [](KeysApart(request) => AnsweredMeansOpened)
<1>1. AnswerInv => (KeysApart(request) => AnsweredMeansOpened)
  BY DEF AnswerInv, GateInv
<1>b. QED
  BY <1>1, AnswerInitially, AnswerKeeps, PTL DEF AnswerSpec

-----------------------------------------------------------------------------
\* The type of a form: somebody's unless it is closed, with a value for every
\* field that can be edited; what it sent is an answer the origin allowed.
FormTyped(r) ==
  /\ r.reviewer \in Reviewers \cup {"nobody"} /\ (r.state # "closed" => r.reviewer \in Reviewers)
  /\ r.state \in {"closed", "filling", "sent", "refused"}
  /\ DOMAIN r.values = IF r.state = "closed" THEN {} ELSE DOMAIN request.fields
  /\ r.sent.kind \in AnswerKinds \cup {"none"}
ReportTyped(p) ==
  /\ p = [form |-> p.form, reviewer |-> p.reviewer, ref |-> p.ref]
  /\ p.form \in AnswerScreens \cup {"none"} /\ p.reviewer \in Reviewers

FormsTyped == ShapeInv /\ \A f \in AnswerScreens : FormTyped(form[f])
ItemTyped == /\ request \in Requests /\ answered.by \in Reviewers \cup {"nobody"}
             /\ answered.kind \in AnswerKinds \cup {"none"} /\ shownForms \in 0..MaxShown
OpensTyped == /\ \A o \in openEvents : o[1] \in Reviewers
              /\ \A o \in visited : o[1] \in Reviewers /\ \E i \in request.items : o[2] = i.at
              /\ \A p \in reports : ReportTyped(p)
TypedInv == FormsTyped /\ ItemTyped /\ OpensTyped

LEMMA TypedGivesType == TypedInv => AnswerTypeOK
<1> SUFFICES ASSUME TypedInv PROVE AnswerTypeOK
  OBVIOUS
<1>1. DOMAIN form = AnswerScreens
  BY DEF TypedInv, FormsTyped, ShapeInv
<1>2. QED
  BY <1>1 DEF TypedInv, FormsTyped, ItemTyped, OpensTyped, FormTyped, ReportTyped, AnswerTypeOK

LEMMA TypedFormStays ==
  ASSUME FormsTyped, NEW f \in AnswerScreens, NEW r, FormBecomes(f, r), FormTyped(r), request' = request
  PROVE  FormsTyped'
<1>1. ShapeInv' /\ \A g \in AnswerScreens : form'[g] = IF g = f THEN r ELSE form[g]
  BY ShapeStays DEF FormsTyped
<1>2. ASSUME NEW g \in AnswerScreens PROVE FormTyped(form[g])'
  <2>1. CASE g = f
    BY <1>1, <2>1 DEF FormTyped
  <2>2. CASE g # f
    BY <1>1, <2>2 DEF FormTyped, FormsTyped
  <2>3. QED
    BY <2>1, <2>2
<1>3. QED
  BY <1>1, <1>2 DEF FormsTyped

LEMMA TypedOpensStay ==
  ASSUME OpensTyped, UNCHANGED <<request, openEvents, visited>>, \A p \in reports' : ReportTyped(p)
  PROVE  OpensTyped'
  BY DEF OpensTyped, ReportTyped

LEMMA ClosedTyped ==
  ASSUME FormsTyped, OpensTyped, NEW f \in AnswerScreens, CloseForm(f), UNCHANGED <<request, openEvents, visited>>
  PROVE  FormsTyped' /\ OpensTyped'
<1>1. FormBecomes(f, NoForm) /\ FormTyped(NoForm)
  BY DEF CloseForm, FormBecomes, FormShape, NoForm, FormTyped, NoAsk
<1>2. FormsTyped'
  BY <1>1, TypedFormStays
<1>3. ASSUME NEW p \in reports, NEW q, q = IF p.form = f THEN [p EXCEPT !.form = "none"] ELSE p
      PROVE  ReportTyped(q)
  <2>1. ReportTyped(p)
    BY DEF OpensTyped
  <2>2. q = [form |-> q.form, reviewer |-> q.reviewer, ref |-> q.ref] /\ q.reviewer = p.reviewer
        /\ q.form \in {p.form, "none"}
    BY <1>3, <2>1 DEF ReportTyped
  <2>3. QED
    BY <2>1, <2>2 DEF ReportTyped
<1>4. \A p \in reports' : ReportTyped(p)
  BY <1>3 DEF CloseForm
<1>5. QED
  BY <1>2, <1>4, TypedOpensStay

LEMMA TypedInitially == AnswerInit => TypedInv
<1> SUFFICES ASSUME AnswerInit PROVE TypedInv
  OBVIOUS
<1>1. FormShape(NoForm) /\ FormTyped(NoForm)
  BY DEF FormShape, NoForm, FormTyped, NoAsk
<1>2. FormsTyped
  BY <1>1 DEF AnswerInit, FormsTyped, ShapeInv
<1>3. ItemTyped /\ OpensTyped
  BY AnswerFormsAssumption DEF AnswerInit, ItemTyped, OpensTyped, NotAnswered
<1>4. QED
  BY <1>2, <1>3 DEF TypedInv

LEMMA ShowTyped ==
  ASSUME TypedInv, NEW f \in AnswerScreens, ShowForm(f)
  PROVE  TypedInv'
<1>1. PICK u \in Reviewers :
        form' = [form EXCEPT ![f] = [reviewer |-> u, opened |-> OpenedWhenShown(f, u),
                                     values |-> [k \in DOMAIN request.fields |-> StartValue(request, k)],
                                     state |-> "filling", sent |-> NoAsk]]
  BY DEF ShowForm
<1> DEFINE r == [reviewer |-> u, opened |-> OpenedWhenShown(f, u),
                 values |-> [k \in DOMAIN request.fields |-> StartValue(request, k)],
                 state |-> "filling", sent |-> NoAsk]
<1>2. FormBecomes(f, r) /\ FormTyped(r)
  BY <1>1 DEF FormBecomes, FormShape, FormTyped, NoAsk
<1> HIDE DEF r
<1>3. /\ UNCHANGED <<request, answered, openEvents, visited, reports>>
      /\ shownForms < MaxShown /\ shownForms' = shownForms + 1
  BY DEF ShowForm
<1>4. FormsTyped'
  BY <1>2, <1>3, TypedFormStays DEF TypedInv
<1>5. OpensTyped'
  BY <1>3, TypedOpensStay DEF TypedInv, OpensTyped
<1>6. ItemTyped'
  BY <1>3, AnswerFormsAssumption DEF TypedInv, ItemTyped
<1>7. QED
  BY <1>4, <1>5, <1>6 DEF TypedInv

LEMMA LeaveTyped ==
  ASSUME TypedInv, NEW f \in AnswerScreens, LeaveForm(f)
  PROVE  TypedInv'
<1>1. CloseForm(f) /\ UNCHANGED <<request, answered, openEvents, visited, shownForms>>
  BY DEF LeaveForm
<1>2. FormsTyped' /\ OpensTyped'
  BY <1>1, ClosedTyped DEF TypedInv
<1>3. QED
  BY <1>1, <1>2 DEF TypedInv, ItemTyped

LEMMA OpenTyped ==
  ASSUME TypedInv, NEW f \in AnswerScreens, OpenItem(f)
  PROVE  TypedInv'
<1>1. PICK i \in ContextItems(request) :
        /\ form[f].state \in {"filling", "refused"}
        /\ visited' = visited \cup {<<form[f].reviewer, i.at>>}
        /\ reports' \subseteq
             reports \cup {[form |-> f, reviewer |-> form[f].reviewer, ref |-> RefOf(i)]}
        /\ UNCHANGED <<request, answered, openEvents, form, shownForms>>
  BY DEF OpenItem, MustOpenItems
<1>2. form[f].reviewer \in Reviewers /\ i \in request.items
  BY <1>1 DEF TypedInv, FormsTyped, FormTyped, ContextItems
<1>3. \A p \in reports' : ReportTyped(p)'
  BY <1>1, <1>2 DEF TypedInv, OpensTyped, ReportTyped
<1>4. \A o \in visited' : o[1] \in Reviewers /\ \E j \in request.items : o[2] = j.at
  BY <1>1, <1>2 DEF TypedInv, OpensTyped
<1>5. OpensTyped'
  BY <1>1, <1>3, <1>4 DEF TypedInv, OpensTyped
<1>6. FormsTyped' /\ ItemTyped'
  BY <1>1 DEF TypedInv, FormsTyped, FormTyped, ShapeInv, ItemTyped
<1>7. QED
  BY <1>5, <1>6 DEF TypedInv

LEMMA ChangeTyped ==
  ASSUME TypedInv, NEW f \in AnswerScreens, ChangeField(f)
  PROVE  TypedInv'
<1>1. UNCHANGED <<request, answered, openEvents, visited, reports, shownForms>>
  BY DEF ChangeField
<1>2. PICK k \in DOMAIN form[f].values, v \in FieldValues \cup {0} :
        /\ form[f].state \in {"filling", "refused"} /\ v # form[f].values[k]
        /\ form' = [form EXCEPT ![f].values[k] = v]
  BY Zenon DEF ChangeField
<1> DEFINE w == [form[f].values EXCEPT ![k] = v]
           r == [reviewer |-> form[f].reviewer, opened |-> form[f].opened, values |-> w,
                 state |-> form[f].state, sent |-> form[f].sent]
<1>3. FormShape(form[f]) /\ FormTyped(form[f])
  BY DEF TypedInv, FormsTyped, ShapeInv
<1>4. DOMAIN w = DOMAIN form[f].values
  OBVIOUS
<1>5. form' = [form EXCEPT ![f] = [form[f] EXCEPT !.values = w]]
  BY <1>2, Zenon DEF TypedInv, FormsTyped, ShapeInv
<1> HIDE DEF w
<1>6. form' = [form EXCEPT ![f] = r]
  BY <1>3, <1>5, NewValues, Zenon
<1>7. FormBecomes(f, r) /\ FormTyped(r)
  BY <1>3, <1>4, <1>6 DEF FormBecomes, FormShape, FormTyped
<1> HIDE DEF r
<1>8. FormsTyped'
  BY <1>1, <1>7, TypedFormStays DEF TypedInv
<1>9. OpensTyped'
  BY <1>1, TypedOpensStay DEF TypedInv, OpensTyped
<1>10. QED
  BY <1>1, <1>8, <1>9 DEF TypedInv, ItemTyped

LEMMA SubmitTyped ==
  ASSUME TypedInv, NEW f \in AnswerScreens, Submit(f)
  PROVE  TypedInv'
<1>1. UNCHANGED <<request, answered, openEvents, visited, reports, shownForms>>
  BY DEF Submit
<1>2. PICK kind \in request.allowed, reason \in BOOLEAN, editReason \in BOOLEAN :
        /\ form[f].state \in {"filling", "refused"}
        /\ form' = [form EXCEPT ![f] = [form[f] EXCEPT !.state = "sent",
             !.sent = [kind |-> kind, reason |-> reason, editReason |-> editReason, values |-> form[f].values]]]
  BY Zenon DEF Submit
<1> DEFINE a == [kind |-> kind, reason |-> reason, editReason |-> editReason, values |-> form[f].values]
           r == [reviewer |-> form[f].reviewer, opened |-> form[f].opened, values |-> form[f].values,
                 state |-> "sent", sent |-> a]
<1>3. FormShape(form[f]) /\ FormTyped(form[f])
  BY DEF TypedInv, FormsTyped, ShapeInv
<1>4. a.kind \in AnswerKinds
  BY AnswerFormsAssumption DEF TypedInv, ItemTyped
<1>5. form' = [form EXCEPT ![f] = [form[f] EXCEPT !.state = "sent", !.sent = a]]
  BY <1>2, Zenon
<1> HIDE DEF a
<1>6. form' = [form EXCEPT ![f] = r]
  BY <1>3, <1>5, NewAnswer, Zenon
<1>7. FormBecomes(f, r) /\ FormTyped(r)
  BY <1>2, <1>3, <1>4, <1>6 DEF FormBecomes, FormShape, FormTyped
<1> HIDE DEF r
<1>8. FormsTyped'
  BY <1>1, <1>7, TypedFormStays DEF TypedInv
<1>9. OpensTyped'
  BY <1>1, TypedOpensStay DEF TypedInv, OpensTyped
<1>10. QED
  BY <1>1, <1>8, <1>9 DEF TypedInv, ItemTyped

LEMMA DecideTyped ==
  ASSUME TypedInv, NEW f \in AnswerScreens, DecideWorkItem(f)
  PROVE  TypedInv'
<1> DEFINE u == form[f].reviewer
           a == form[f].sent
<1>1. form[f].state = "sent" /\ UNCHANGED <<request, openEvents, visited, shownForms>>
  BY DEF DecideWorkItem
<1>2. FormShape(form[f]) /\ FormTyped(form[f])
  BY DEF TypedInv, FormsTyped, ShapeInv
<1>3. CASE answered = NotAnswered /\ Admitted(u, a)
  <2>1. answered' = [by |-> u, kind |-> a.kind, args |-> AnswerArgs(request, a)] /\ CloseForm(f)
    BY <1>3 DEF DecideWorkItem
  <2>2. FormsTyped' /\ OpensTyped'
    BY <1>1, <2>1, ClosedTyped DEF TypedInv
  <2>3. u \in Reviewers /\ a.kind \in AnswerKinds \cup {"none"}
    BY <1>1, <1>2 DEF FormTyped
  <2>4. QED
    BY <1>1, <2>1, <2>2, <2>3 DEF TypedInv, ItemTyped
<1>4. CASE ~(answered = NotAnswered /\ Admitted(u, a))
  <2>1. form' = [form EXCEPT ![f].state = "refused"] /\ UNCHANGED <<answered, reports>>
    BY <1>4 DEF DecideWorkItem
  <2> DEFINE r == [reviewer |-> form[f].reviewer, opened |-> form[f].opened, values |-> form[f].values,
                   state |-> "refused", sent |-> form[f].sent]
  <2>2. form' = [form EXCEPT ![f] = r]
    BY <1>2, <2>1, NewState, Zenon
  <2>3. FormBecomes(f, r) /\ FormTyped(r)
    BY <1>1, <1>2, <2>2 DEF FormBecomes, FormShape, FormTyped
  <2> HIDE DEF r
  <2>4. FormsTyped'
    BY <1>1, <2>3, TypedFormStays DEF TypedInv
  <2>5. OpensTyped'
    BY <1>1, <2>1, TypedOpensStay DEF TypedInv, OpensTyped
  <2>6. QED
    BY <1>1, <2>1, <2>4, <2>5 DEF TypedInv, ItemTyped
<1>5. QED
  BY <1>3, <1>4

LEMMA ServeTyped ==
  ASSUME TypedInv, NEW p \in reports, ServeOpen(p)
  PROVE  TypedInv'
<1>1. PICK answer \in {"ok", "lost", "never"} :
        /\ openEvents' = IF answer = "never" THEN openEvents ELSE Recorded(p)
        /\ form' = [f \in AnswerScreens |-> IF f = p.form THEN Counted(form[f], p.ref, answer) ELSE form[f]]
        /\ reports' = reports \ {p}
        /\ UNCHANGED <<request, answered, visited, shownForms>>
  BY DEF ServeOpen
<1>2. ASSUME NEW f \in AnswerScreens PROVE FormShape(form'[f]) /\ FormTyped(form'[f])
  <2>1. FormShape(form[f]) /\ FormTyped(form[f])
    BY DEF TypedInv, FormsTyped, ShapeInv
  <2>2. form'[f] = form[f] \/ form'[f] = [form[f] EXCEPT !.opened = form[f].opened \cup {p.ref}]
    BY <1>1, Zenon DEF Counted
  <2>3. CASE form'[f] = form[f]
    BY <2>1, <2>3
  <2>4. CASE form'[f] = [form[f] EXCEPT !.opened = form[f].opened \cup {p.ref}]
    <3>1. form'[f] = [reviewer |-> form[f].reviewer, opened |-> form[f].opened \cup {p.ref},
                      values |-> form[f].values, state |-> form[f].state, sent |-> form[f].sent]
      BY <2>1, <2>4, NewOpened
    <3>2. QED
      BY <2>1, <3>1 DEF FormShape, FormTyped
  <2>5. QED
    BY <2>2, <2>3, <2>4
<1>3. form' = [f \in AnswerScreens |-> form'[f]]
  BY <1>1
<1>4. FormsTyped'
  BY <1>1, <1>2, <1>3 DEF FormsTyped, ShapeInv, FormShape, FormTyped
<1>5. \A o \in openEvents' : o[1] \in Reviewers
  BY <1>1 DEF TypedInv, OpensTyped, ReportTyped, Recorded
<1>6. OpensTyped'
  BY <1>1, <1>5 DEF TypedInv, OpensTyped, ReportTyped
<1>7. QED
  BY <1>1, <1>4, <1>6 DEF TypedInv, ItemTyped

LEMMA TypedKeeps == TypedInv /\ [AnswerNext]_answerVars => TypedInv'
<1> SUFFICES ASSUME TypedInv, [AnswerNext]_answerVars PROVE TypedInv'
  OBVIOUS
<1>1. CASE \E f \in AnswerScreens : FormStep(f)
  BY <1>1, ShowTyped, LeaveTyped, OpenTyped, ChangeTyped, SubmitTyped, DecideTyped DEF FormStep
<1>2. CASE \E p \in reports : ServeOpen(p)
  BY <1>2, ServeTyped
<1>3. CASE UNCHANGED answerVars
  BY <1>3 DEF answerVars, TypedInv, FormsTyped, ShapeInv, FormTyped, ItemTyped, OpensTyped, ReportTyped
<1>4. QED
  BY <1>1, <1>2, <1>3 DEF AnswerNext

\* Every form that is shown is somebody's and holds a value for each field of the
\* request and for no other; every open, report and answer is a reviewer's.
THEOREM AnswerTypes == AnswerSpec => []AnswerTypeOK
  BY TypedInitially, TypedKeeps, TypedGivesType, PTL DEF AnswerSpec
=============================================================================
