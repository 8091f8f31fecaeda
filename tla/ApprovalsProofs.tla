--------------------------- MODULE ApprovalsProofs ---------------------------
(***************************************************************************)
(* Proofs about Approvals, for any sets of approvals, requests, keys and   *)
(* reviewers.                                                              *)
(***************************************************************************)
EXTENDS Approvals, FiniteSetTheorems, TLAPS

\* The events a handler builds are events.
LEMMA EventType ==
  ASSUME NEW r \in Requests \cup {OldRequest}, NEW type \in EventTypes, NEW n \in Nat,
         NEW prev \in EventRefs
  PROVE  Event(r, type, n, prev) \in Events
BY DEF Event, Events

\* What an event refers to has the type of an event reference.
LEMMA RefType ==
  ASSUME NEW e \in Events \cup {NoEvent}
  PROVE  Ref(e) \in EventRefs
BY DEF Ref, EventRefs, Events, NoEvent

\* The initial rows are well formed.
LEMMA InitType == Init => TypeOK
<1> SUFFICES ASSUME Init PROVE TypeOK
  OBVIOUS
<1> USE DEF Init
<1>1. status \in [ApprovalIds -> Statuses]
  BY DEF Statuses, Open, Closed
<1>2. receipts \in [ApprovalIds -> SUBSET Events]
  <2>1. Event(OldRequest, "requested", 1, Ref(NoEvent)) \in Events
    BY RefType, EventType DEF EventTypes
  <2>2. /\ <<OldRequest, "requested">> \in EventRefs
        /\ <<OldRequest, "decided">> \in EventRefs
    BY DEF EventRefs, EventTypes
  <2>3. /\ Event(OldRequest, "decided", 2, <<OldRequest, "requested">>) \in Events
        /\ Event(OldRequest, "resume_failed", 3, <<OldRequest, "decided">>) \in Events
    BY <2>2, EventType DEF EventTypes
  <2> QED
    BY <2>1, <2>3
<1>3. decisions \in [ApprovalIds -> SUBSET Records]
  BY DEF Records, Answers
<1>4. tx \in [Requests -> Transactions]
  BY DEF Transactions, Idle, NoEvent, Answers
<1>5. /\ pc \in [Requests -> Labels]
      /\ lock \in [ApprovalIds -> Requests \cup {NoRequest}]
      /\ sink \in [ApprovalIds -> SUBSET Events]
      /\ origin \in [ApprovalIds -> SUBSET [req : Requests, answer : Answers \cup {"cancel"}]]
      /\ presentedAt \in [ApprovalIds -> BOOLEAN]
      /\ idempotencyKey \in [ApprovalIds -> Keys \cup {NoKey}]
      /\ opened \in [ApprovalIds -> SUBSET Reviewers]
      /\ due \in [ApprovalIds -> BOOLEAN] /\ stale \in [ApprovalIds -> BOOLEAN]
      /\ clock \in Nat /\ crashes \in Nat /\ sinkOn \in BOOLEAN /\ purging \subseteq ApprovalIds
  BY <1>2, Settings DEF Labels
<1> QED
  BY <1>1, <1>2, <1>3, <1>4, <1>5 DEF TypeOK

-----------------------------------------------------------------------------
(***************************************************************************)
(* Steps that write nothing another transaction can see                    *)
(***************************************************************************)

\* The fields of a transaction record, and what each kind of update keeps.
LEMMA FieldTypes ==
  ASSUME NEW t \in Transactions
  PROVE  /\ t.target \in ApprovalIds \cup {NoApproval} /\ t.key \in Keys \cup {NoKey}
         /\ t.answer \in Answers \cup {"cancel"} /\ t.reviewer \in Reviewers \cup {NoReviewer}
         /\ t.started \in Nat /\ t.latest \in Events \cup {NoEvent} /\ t.shown \in BOOLEAN
         /\ t.staged \subseteq Events /\ t.outcome \in {"decided", "failed_resume"}
BY DEF Transactions

\* A request other than r keeps its place; r moves to `label` with record t,
\* and takes at most the lock of its own row.  Nothing committed changes, so
\* what holds of r afterwards is all there is to show.
LEMMA PrivateStep ==
  ASSUME LifecycleInv, NEW r \in Requests, pc[r] # "done",
         NEW label \in Labels, NEW t \in Transactions,
         Goto(r, label), Remember(r, t), Equipped(r, label, t),
         label \in Locked => lock'[t.target] = r /\ Current(label, t.target, t.shown),
         \/ UNCHANGED lock
         \/ Acquire(r, t.target) /\ t.target \in ApprovalIds,
         UNCHANGED <<rows, due, stale, sinkOn, purging, crashes>>,
         clock' \in Nat,
         sink' \in [ApprovalIds -> SUBSET Events],
         origin' \in [ApprovalIds -> SUBSET [req : Requests, answer : Answers \cup {"cancel"}]]
  PROVE  LifecycleInv'
<1> USE DEF LifecycleInv, rows
<1>1. /\ pc' \in [Requests -> Labels] /\ pc'[r] = label
      /\ tx' \in [Requests -> Transactions] /\ tx'[r] = t
      /\ lock' \in [ApprovalIds -> Requests \cup {NoRequest}]
      /\ \A q \in Requests \ {r} : pc'[q] = pc[q] /\ tx'[q] = tx[q]
  BY DEF TypeOK, Goto, Remember, Acquire
<1>2. TypeOK'
  BY <1>1 DEF TypeOK
<1>3. RequestsEquipped'
  <2> SUFFICES ASSUME NEW q \in Requests PROVE Equipped(q, pc'[q], tx'[q])
    BY DEF RequestsEquipped, Equipped
  <2> QED
    BY <1>1 DEF RequestsEquipped
<1>4. PurgeSelectsClosed'
  BY DEF PurgeSelectsClosed
<1>5. RecordedRequestsAreDone'
  <2> SUFFICES ASSUME NEW a \in ApprovalIds, NEW d \in decisions[a], d.req # OldRequest
               PROVE  pc'[d.req] = "done"
    BY DEF RecordedRequestsAreDone
  <2>1. pc[d.req] = "done"
    BY DEF RecordedRequestsAreDone
  <2>2. d.req \in Requests
    BY DEF TypeOK, Records
  <2> QED
    BY <1>1, <2>1, <2>2
<1>6. SnapshotHolds'
  <2> SUFFICES ASSUME NEW q \in Requests, pc'[q] \in Locked
               PROVE  lock'[tx'[q].target] = q /\ Current(pc'[q], tx'[q].target, tx'[q].shown)
    BY DEF SnapshotHolds, Current
  <2>1. CASE q = r
    BY <1>1, <2>1
  <2>2. CASE q # r
    <3>1. lock[tx[q].target] = q /\ Current(pc[q], tx[q].target, tx[q].shown)
      BY <1>1, <2>2 DEF SnapshotHolds
    <3>2. tx[q].target \in ApprovalIds
      BY <1>1, <2>2 DEF RequestsEquipped, Equipped
    <3>3. lock'[tx[q].target] = q
      <4>1. CASE UNCHANGED lock
        BY <3>1, <4>1
      <4>2. CASE Acquire(r, t.target) /\ t.target \in ApprovalIds
        BY <3>1, <3>2, <4>2, NullsDistinct DEF Acquire, TypeOK
      <4> QED
        BY <4>1, <4>2
    <3> QED
      BY <1>1, <2>2, <3>1, <3>3
  <2> QED
    BY <2>1, <2>2
<1>7. DecisionMatchesStatus' /\ OneAcceptedAnswer'
  BY DEF DecisionMatchesStatus, OneAcceptedAnswer
<1> QED
  BY <1>2, <1>3, <1>4, <1>5, <1>6, <1>7

\* ingestApproval, up to its commit.
LEMMA IngestSteps ==
  ASSUME LifecycleInv, NEW r \in Requests,
         IngestReplay(r) \/ IngestInsert(r) \/ IngestRefuse(r)
  PROVE  LifecycleInv'
<1> USE DEF OwnStep, rows, time, outside
<1>0. TypeOK /\ tx[r] \in Transactions
  BY DEF LifecycleInv, TypeOK
<1>1. CASE IngestReplay(r)
  <2>1. PICK k \in Keys, a \in ApprovalIds :
          Remember(r, [tx[r] EXCEPT !.key = k, !.target = a])
    BY <1>1 DEF IngestReplay, Matching
  <2> DEFINE t == [tx[r] EXCEPT !.key = k, !.target = a]
  <2>2. t \in Transactions
    BY <1>0 DEF Transactions
  <2>3. Equipped(r, "done", t)
    BY DEF Equipped, Locked, Creating, Deciding, Marking
  <2> QED
    BY <1>0, <1>1, <2>1, <2>2, <2>3, PrivateStep
    DEF IngestReplay, TypeOK, Labels, Locked, Creating, Deciding, Marking
<1>2. CASE IngestInsert(r)
  <2>1. PICK k \in Keys \cup {NoKey}, a \in ApprovalIds :
          /\ status[a] = "none" /\ Acquire(r, a)
          /\ Remember(r, [tx[r] EXCEPT !.key = k, !.target = a])
    BY <1>2 DEF IngestInsert
  <2> DEFINE t == [tx[r] EXCEPT !.key = k, !.target = a]
  <2>2. t \in Transactions /\ t.target = a
    BY <1>0 DEF Transactions
  <2>3. Equipped(r, "append_requested", t)
    BY <1>2, <2>2 DEF IngestInsert, Equipped, Locked, Creating, Deciding, Marking
  <2>4. lock'[t.target] = r /\ Current("append_requested", t.target, t.shown)
    BY <1>0, <2>1, <2>2 DEF Current, Acquire, TypeOK, Creating, Deciding, Marking
  <2> QED
    BY <1>0, <1>2, <2>1, <2>2, <2>3, <2>4, PrivateStep
    DEF IngestInsert, TypeOK, Labels, Locked, Creating
<1>3. CASE IngestRefuse(r)
  <2>1. Remember(r, tx[r])
    BY <1>0, <1>3 DEF IngestRefuse, Remember, TypeOK
  <2>2. Equipped(r, "done", tx[r])
    BY DEF Equipped, Locked, Creating, Deciding, Marking
  <2> QED
    BY <1>0, <1>3, <2>1, <2>2, PrivateStep
    DEF IngestRefuse, TypeOK, Labels, Locked, Creating, Deciding, Marking
<1> QED
  BY <1>1, <1>2, <1>3

\* Appending evidence keeps the sink and the staged receipts well formed.
LEMMA AppendType ==
  ASSUME TypeOK, NEW r \in Requests, NEW a \in ApprovalIds, NEW ev \in Events,
         NEW result \in AppendResults, SinkAppend(a, ev, result)
  PROVE  /\ sink' \in [ApprovalIds -> SUBSET Events]
         /\ Stage(r, ev, result) \subseteq Events
<1>1. sink' \in [ApprovalIds -> SUBSET Events]
  BY DEF SinkAppend, TypeOK
<1>2. tx[r] \in Transactions
  BY DEF TypeOK
<1>3. tx[r].staged \subseteq Events
  BY <1>2, FieldTypes
<1> QED
  BY <1>1, <1>3 DEF Stage

\* What loadLatestReceipt returns is a receipt or nothing.
LEMMA LatestType ==
  ASSUME TypeOK, NEW a \in ApprovalIds, NEW e \in LatestReceipts(a)
  PROVE  e \in Events \cup {NoEvent}
BY DEF LatestReceipts, TypeOK

\* `requested` is appended: only the request's own transaction and the sink change.
LEMMA AppendRequestedStep ==
  ASSUME LifecycleInv, NEW r \in Requests, AppendRequested(r)
  PROVE  LifecycleInv'
<1> USE DEF rows, time
<1>1. /\ TypeOK /\ tx[r] \in Transactions /\ pc[r] = "append_requested"
      /\ tx[r].target \in ApprovalIds /\ r \in Ingests
      /\ lock[tx[r].target] = r /\ Current(pc[r], tx[r].target, tx[r].shown)
  BY DEF LifecycleInv, TypeOK, RequestsEquipped, Equipped, SnapshotHolds, AppendRequested,
     Locked, Creating
<1> DEFINE ev == Event(r, "requested", 1, Ref(NoEvent))
<1>2. ev \in Events
  BY EventType, RefType DEF EventTypes
<1>3. PICK result \in AppendResults :
        /\ SinkAppend(tx[r].target, ev, result)
        /\ Remember(r, [tx[r] EXCEPT !.staged = Stage(r, ev, result)])
  BY DEF AppendRequested
<1> DEFINE t == [tx[r] EXCEPT !.staged = Stage(r, ev, result)]
<1>4. sink' \in [ApprovalIds -> SUBSET Events] /\ Stage(r, ev, result) \subseteq Events
  BY <1>1, <1>2, <1>3, AppendType
<1>5. t \in Transactions /\ t.target = tx[r].target /\ t.shown = tx[r].shown
  BY <1>1, <1>4 DEF Transactions
<1>6. Equipped(r, "commit_ingest", t)
  BY <1>1, <1>5 DEF Equipped, Locked, Creating, Deciding, Marking
<1>7. Current("commit_ingest", t.target, t.shown)
  BY <1>1, <1>5 DEF Current, Creating, Deciding, Marking
<1> HIDE DEF t
<1> QED
  BY <1>1, <1>3, <1>4, <1>5, <1>6, <1>7, PrivateStep
  DEF AppendRequested, TypeOK, Labels, Locked, Creating, t

\* markApprovalPresented, up to its commit.
LEMMA LockPresentedStep ==
  ASSUME LifecycleInv, NEW r \in Requests, LockPresented(r)
  PROVE  LifecycleInv'
<1> USE DEF OwnStep, rows, time, outside
<1>1. TypeOK /\ tx[r] \in Transactions /\ pc[r] = "idle" /\ r \in Presents
  BY DEF LifecycleInv, TypeOK, LockPresented
<1>2. PICK a \in ApprovalIds : MayMark(a) /\ Acquire(r, a) /\ \E e \in LatestReceipts(a) :
        Remember(r, [tx[r] EXCEPT !.target = a, !.shown = TRUE, !.latest = e])
  BY DEF LockPresented
<1>3. PICK e \in LatestReceipts(a) :
        Remember(r, [tx[r] EXCEPT !.target = a, !.shown = TRUE, !.latest = e])
  BY <1>2
<1>4. e \in Events \cup {NoEvent}
  BY <1>1, LatestType
<1> DEFINE t == [tx[r] EXCEPT !.target = a, !.shown = TRUE, !.latest = e]
<1>5. t \in Transactions /\ t.target = a
  BY <1>1, <1>4 DEF Transactions
<1>6. Equipped(r, "append_presented", t)
  BY <1>1, <1>5, KindsDisjoint DEF Equipped, Locked, Creating, Deciding, Marking
<1>7. lock'[a] = r
  BY <1>1, <1>2 DEF Acquire, TypeOK
<1>8. a \notin purging
  BY <1>2 DEF LifecycleInv, PurgeSelectsClosed, MayMark, Open, Closed
<1>9. decisions[a] = {}
  BY <1>2 DEF LifecycleInv, DecisionMatchesStatus, MayMark, MayRecordPresented
<1>10. Current("append_presented", a, t.shown)
  BY <1>2, <1>8, <1>9 DEF Current, MayMark, Creating
<1> HIDE DEF t
<1> QED
  BY <1>1, <1>2, <1>3, <1>5, <1>6, <1>7, <1>10, PrivateStep
  DEF LockPresented, TypeOK, Labels, Locked, Marking, t

\* A presentation that finds nothing to mark changes no row.
LEMMA PresentedNoOpStep ==
  ASSUME LifecycleInv, NEW r \in Requests, PresentedNoOp(r)
  PROVE  LifecycleInv'
<1>1. TypeOK /\ tx[r] \in Transactions
  BY DEF LifecycleInv, TypeOK
<1>2. Remember(r, tx[r])
  BY <1>1 DEF PresentedNoOp, Remember, TypeOK
<1>3. Equipped(r, "done", tx[r])
  BY DEF Equipped, Locked, Creating, Deciding, Marking
<1> QED
  BY <1>1, <1>2, <1>3, PrivateStep
  DEF PresentedNoOp, TypeOK, OwnStep, rows, time, outside, Labels, Locked, Creating, Deciding, Marking

\* `presented` is appended under the row lock, before the mark or the decision.
LEMMA AppendPresentedStep ==
  ASSUME LifecycleInv, NEW r \in Requests, AppendPresented(r)
  PROVE  LifecycleInv'
<1> USE DEF rows, time
<1>1. /\ TypeOK /\ tx[r] \in Transactions /\ pc[r] = "append_presented"
      /\ tx[r].target \in ApprovalIds
      /\ lock[tx[r].target] = r /\ Current(pc[r], tx[r].target, tx[r].shown)
  BY DEF LifecycleInv, TypeOK, RequestsEquipped, Equipped, SnapshotHolds, AppendPresented,
     Locked, Marking
<1> DEFINE ev == Event(r, "presented", tx[r].latest.seq + 1, Ref(tx[r].latest))
<1>2. tx[r].latest \in Events \cup {NoEvent} /\ tx[r].latest.seq \in Nat
  BY <1>1, FieldTypes DEF Events, NoEvent
<1>3. ev \in Events
  BY <1>2, EventType, RefType DEF EventTypes
<1>4. PICK result \in AppendResults :
        /\ SinkAppend(tx[r].target, ev, result)
        /\ Remember(r, [tx[r] EXCEPT !.staged = Stage(r, ev, result),
                                     !.latest = CarryForward(r, ev, result)])
  BY DEF AppendPresented
<1> DEFINE t == [tx[r] EXCEPT !.staged = Stage(r, ev, result),
                              !.latest = CarryForward(r, ev, result)]
           next == IF r \in Presents THEN "commit_presented" ELSE "append_decided"
<1>5. sink' \in [ApprovalIds -> SUBSET Events] /\ Stage(r, ev, result) \subseteq Events
  BY <1>1, <1>3, <1>4, AppendType
<1>6. /\ t \in Transactions /\ t.target = tx[r].target /\ t.shown = tx[r].shown
      /\ t.reviewer = tx[r].reviewer /\ t.answer = tx[r].answer
  <2> HIDE DEF ev
  <2> QED
    BY <1>1, <1>3, <1>5 DEF Transactions, CarryForward
<1> HIDE DEF t, ev
<1>7. Equipped(r, next, t)
  BY <1>1, <1>6, KindsDisjoint
  DEF LifecycleInv, RequestsEquipped, Equipped, Locked, Creating, Deciding, Marking
<1>8. Current(next, t.target, t.shown)
  BY <1>1, <1>6 DEF Current, Creating, Deciding, Marking
<1>9. Remember(r, t)
  BY <1>4 DEF t
<1> QED
  BY <1>1, <1>5, <1>6, <1>7, <1>8, <1>9, PrivateStep
  DEF AppendPresented, TypeOK, Labels, Locked, Marking, Deciding

\* decideApproval, retryResume and cancelApproval, up to their commits.
LEMMA BeginStep ==
  ASSUME LifecycleInv, NEW r \in Requests, Begin(r)
  PROVE  LifecycleInv'
<1> USE DEF rows, outside
<1>1. TypeOK /\ tx[r] \in Transactions /\ pc[r] = "idle" /\ clock' = clock + 1
  BY DEF LifecycleInv, TypeOK, Begin
<1>2. PICK a \in ApprovalIds, label \in {"read", "lock"}, t \in Transactions :
        /\ Goto(r, label) /\ Remember(r, t) /\ t.target = a
        /\ label = "lock" => r \in Decides \cup Cancels /\ t.reviewer \in Reviewers
        /\ label = "read" => r \in Retries
  <2>1. PICK a \in ApprovalIds :
          \/ /\ r \in Decides
             /\ \E answer \in Answers, u \in Reviewers :
                  Remember(r, [tx[r] EXCEPT !.target = a, !.started = clock + 1,
                                            !.answer = answer, !.reviewer = u])
             /\ Goto(r, "lock")
          \/ /\ r \in Cancels
             /\ \E u \in Reviewers :
                  Remember(r, [tx[r] EXCEPT !.target = a, !.started = clock + 1, !.reviewer = u])
             /\ Goto(r, "lock")
          \/ /\ r \in Retries
             /\ Remember(r, [tx[r] EXCEPT !.target = a, !.started = clock + 1])
             /\ Goto(r, "read")
    BY DEF Begin
  <2>2. clock + 1 \in Nat
    BY <1>1 DEF TypeOK
  <2>3. CASE r \in Decides /\ Goto(r, "lock")
    <3>1. PICK answer \in Answers, u \in Reviewers :
            Remember(r, [tx[r] EXCEPT !.target = a, !.started = clock + 1,
                                      !.answer = answer, !.reviewer = u])
      BY <2>1, <2>3, KindsDisjoint
    <3> DEFINE t == [tx[r] EXCEPT !.target = a, !.started = clock + 1,
                                  !.answer = answer, !.reviewer = u]
    <3>2. t \in Transactions /\ t.target = a /\ t.reviewer = u
      BY <1>1, <2>2 DEF Transactions
    <3> QED
      BY <2>3, <3>1, <3>2
  <2>4. CASE r \in Cancels /\ Goto(r, "lock")
    <3>1. PICK u \in Reviewers :
            Remember(r, [tx[r] EXCEPT !.target = a, !.started = clock + 1, !.reviewer = u])
      BY <2>1, <2>4, KindsDisjoint
    <3> DEFINE t == [tx[r] EXCEPT !.target = a, !.started = clock + 1, !.reviewer = u]
    <3>2. t \in Transactions /\ t.target = a /\ t.reviewer = u
      BY <1>1, <2>2 DEF Transactions
    <3> QED
      BY <2>4, <3>1, <3>2
  <2>5. CASE r \in Retries /\ Goto(r, "read")
    <3>1. Remember(r, [tx[r] EXCEPT !.target = a, !.started = clock + 1])
      BY <2>1, <2>5, KindsDisjoint
    <3> DEFINE t == [tx[r] EXCEPT !.target = a, !.started = clock + 1]
    <3>2. t \in Transactions /\ t.target = a
      BY <1>1, <2>2 DEF Transactions
    <3> QED
      BY <2>5, <3>1, <3>2
  <2> QED
    BY <2>1, <2>3, <2>4, <2>5
<1>3. Equipped(r, label, t)
  BY <1>2 DEF Equipped, Locked, Creating, Deciding, Marking
<1>4. clock' \in Nat
  BY <1>1 DEF TypeOK
<1> QED
  BY <1>1, <1>2, <1>3, <1>4, PrivateStep
  DEF Begin, TypeOK, Labels, Locked, Creating, Deciding, Marking

\* retryResume takes a stored decision: a reviewer and an answer of an open row.
LEMMA RetryReadStep ==
  ASSUME LifecycleInv, NEW r \in Requests, RetryRead(r)
  PROVE  LifecycleInv'
<1> USE DEF OwnStep, rows, time, outside
<1>1. /\ TypeOK /\ tx[r] \in Transactions /\ pc[r] = "read" /\ tx[r].target \in ApprovalIds
  BY DEF LifecycleInv, TypeOK, RequestsEquipped, Equipped, RetryRead
<1> DEFINE a == tx[r].target
<1>2. CASE Goto(r, "done") /\ UNCHANGED tx
  <2>1. Remember(r, tx[r])
    BY <1>1, <1>2 DEF Remember, TypeOK
  <2>2. Equipped(r, "done", tx[r])
    BY DEF Equipped, Locked, Creating, Deciding, Marking
  <2> QED
    BY <1>1, <1>2, <2>1, <2>2, PrivateStep
    DEF RetryRead, TypeOK, Labels, Locked, Creating, Deciding, Marking
<1>3. CASE /\ Goto(r, "lock")
           /\ \E d \in LatestDecisions(a) : Remember(r, StoredDecision(tx[r], d))
  <2>1. PICK d \in LatestDecisions(a) :
          Remember(r, [tx[r] EXCEPT !.answer = d.answer, !.reviewer = d.reviewer])
    BY <1>3 DEF StoredDecision
  <2>2. d.answer \in Answers \cup {"cancel"} /\ d.reviewer \in Reviewers
    BY <1>1 DEF LatestDecisions, TypeOK, Records
  <2> DEFINE t == [tx[r] EXCEPT !.answer = d.answer, !.reviewer = d.reviewer]
  <2>3. t \in Transactions /\ t.target = a /\ t.reviewer = d.reviewer
    BY <1>1, <2>2 DEF Transactions
  <2>4. r \in Retries
    BY <1>1 DEF LifecycleInv, RequestsEquipped, Equipped
  <2>5. Equipped(r, "lock", t)
    BY <1>1, <2>2, <2>3, <2>4 DEF Equipped, Locked, Creating, Deciding, Marking
  <2> HIDE DEF t
  <2> QED
    BY <1>1, <1>3, <2>1, <2>3, <2>5, PrivateStep
    DEF RetryRead, TypeOK, Labels, Locked, Creating, Deciding, Marking, t
<1> QED
  BY <1>2, <1>3 DEF RetryRead

\* The FOR UPDATE read of decideApproval: what it saw is current from here on.
LEMMA LockDecideStep ==
  ASSUME LifecycleInv, NEW r \in Requests, LockDecide(r)
  PROVE  LifecycleInv'
<1> USE DEF OwnStep, rows, time, outside
<1>1. /\ TypeOK /\ tx[r] \in Transactions /\ pc[r] = "lock" /\ tx[r].target \in ApprovalIds
      /\ r \in Decides \cup Retries /\ tx[r].reviewer \in Reviewers
  BY DEF LifecycleInv, TypeOK, RequestsEquipped, Equipped, LockDecide
<1> DEFINE a == tx[r].target
           implicit == PresentsFirst(r, a)
           label == IF implicit THEN "append_presented" ELSE "append_decided"
<1>2. /\ status[a] \in Open /\ tx[r].answer \in Answers
      /\ Acquire(r, a) /\ Goto(r, label)
      /\ \E e \in LatestReceipts(a) :
           Remember(r, [tx[r] EXCEPT !.latest = e, !.shown = implicit])
  BY <1>1, Settings DEF LockDecide, Decidable, Admits
<1>3. PICK e \in LatestReceipts(a) :
        Remember(r, [tx[r] EXCEPT !.latest = e, !.shown = implicit])
  BY <1>2
<1>4. e \in Events \cup {NoEvent}
  BY <1>1, LatestType
<1>5. implicit \in BOOLEAN
  BY DEF PresentsFirst
<1>6. implicit => ~presentedAt[a] /\ decisions[a] = {}
  BY <1>1 DEF PresentsFirst, LifecycleInv, DecisionMatchesStatus, MayRecordPresented
<1> DEFINE t == [tx[r] EXCEPT !.latest = e, !.shown = implicit]
<1>7. /\ t \in Transactions /\ t.target = a /\ t.shown = implicit
      /\ t.reviewer = tx[r].reviewer /\ t.answer = tx[r].answer
  <2> HIDE DEF implicit
  <2> QED
    BY <1>1, <1>4, <1>5 DEF Transactions
<1>8. a \notin purging
  BY <1>2 DEF LifecycleInv, PurgeSelectsClosed, Open, Closed
<1> HIDE DEF t, implicit
<1>9. Equipped(r, label, t)
  BY <1>1, <1>2, <1>7 DEF Equipped, Locked, Creating, Deciding, Marking
<1>10. Current(label, t.target, t.shown)
  BY <1>2, <1>6, <1>7, <1>8 DEF Current, Creating, Deciding, Marking
<1>11. lock'[t.target] = r
  BY <1>1, <1>2, <1>7 DEF Acquire, TypeOK
<1>12. Remember(r, t)
  BY <1>3 DEF t
<1> QED
  BY <1>1, <1>2, <1>7, <1>9, <1>10, <1>11, <1>12, PrivateStep
  DEF LockDecide, TypeOK, Labels, Locked, Deciding, Marking

\* `decided` is appended; an error leads to a commit without the decision.
LEMMA AppendDecidedStep ==
  ASSUME LifecycleInv, NEW r \in Requests, AppendDecided(r)
  PROVE  LifecycleInv'
<1> USE DEF rows, time
<1>1. /\ TypeOK /\ tx[r] \in Transactions /\ pc[r] = "append_decided"
      /\ tx[r].target \in ApprovalIds
      /\ lock[tx[r].target] = r /\ Current(pc[r], tx[r].target, tx[r].shown)
  BY DEF LifecycleInv, TypeOK, RequestsEquipped, Equipped, SnapshotHolds, AppendDecided,
     Locked, Deciding
<1> DEFINE ev == Event(r, "decided", tx[r].latest.seq + 1, Ref(tx[r].latest))
<1>2. tx[r].latest \in Events \cup {NoEvent} /\ tx[r].latest.seq \in Nat
  BY <1>1, FieldTypes DEF Events, NoEvent
<1>3. ev \in Events
  BY <1>2, EventType, RefType DEF EventTypes
<1>4. PICK result \in AppendResults, next \in {"commit_presented", "commit_decided", "resume"} :
        /\ SinkAppend(tx[r].target, ev, result)
        /\ Remember(r, [tx[r] EXCEPT !.staged = Stage(r, ev, result)])
        /\ Goto(r, next)
  BY DEF AppendDecided, AfterDecided
<1> DEFINE t == [tx[r] EXCEPT !.staged = Stage(r, ev, result)]
<1>5. sink' \in [ApprovalIds -> SUBSET Events] /\ Stage(r, ev, result) \subseteq Events
  BY <1>1, <1>3, <1>4, AppendType
<1>6. /\ t \in Transactions /\ t.target = tx[r].target /\ t.shown = tx[r].shown
      /\ t.reviewer = tx[r].reviewer /\ t.answer = tx[r].answer
  <2> HIDE DEF ev
  <2> QED
    BY <1>1, <1>5 DEF Transactions
<1> HIDE DEF t, ev
<1>7. r \in Decides \cup Retries
  BY <1>1 DEF LifecycleInv, RequestsEquipped, Equipped, Deciding
<1>8. Equipped(r, next, t)
  BY <1>1, <1>6, <1>7
  DEF LifecycleInv, RequestsEquipped, Equipped, Locked, Creating, Deciding, Marking
<1>9. Current(next, t.target, t.shown)
  BY <1>1, <1>6 DEF Current, Creating, Deciding, Marking
<1>10. Remember(r, t)
  BY <1>4 DEF t
<1> QED
  BY <1>1, <1>4, <1>5, <1>6, <1>8, <1>9, <1>10, PrivateStep
  DEF AppendDecided, TypeOK, Labels, Locked, Marking, Deciding

\* The call of the origin: only the outcome in the transaction changes.
LEMMA ResumeStep ==
  ASSUME LifecycleInv, NEW r \in Requests, Resume(r)
  PROVE  LifecycleInv'
<1> USE DEF rows, time
<1>1. /\ TypeOK /\ tx[r] \in Transactions /\ pc[r] = "resume"
      /\ tx[r].target \in ApprovalIds
      /\ lock[tx[r].target] = r /\ Current(pc[r], tx[r].target, tx[r].shown)
      /\ r \in Decides \cup Retries
  BY DEF LifecycleInv, TypeOK, RequestsEquipped, Equipped, SnapshotHolds, Resume, Locked, Deciding
<1>2. tx[r].answer \in Answers \cup {"cancel"}
  BY <1>1, FieldTypes
<1>3. origin' \in [ApprovalIds -> SUBSET [req : Requests, answer : Answers \cup {"cancel"}]]
  <2>1. CASE origin' = [origin EXCEPT ![tx[r].target] = @ \cup {[req |-> r, answer |-> tx[r].answer]}]
    BY <1>1, <1>2, <2>1 DEF TypeOK
  <2>2. CASE UNCHANGED origin
    BY <1>1, <2>2 DEF TypeOK
  <2> QED
    BY <2>1, <2>2 DEF Resume, CallOrigin, Tell
<1>4. PICK how \in {"decided", "failed_resume"} : Remember(r, [tx[r] EXCEPT !.outcome = how])
  BY DEF Resume, CallOrigin
<1> DEFINE t == [tx[r] EXCEPT !.outcome = how]
<1>5. /\ t \in Transactions /\ t.target = tx[r].target /\ t.shown = tx[r].shown
      /\ t.reviewer = tx[r].reviewer /\ t.answer = tx[r].answer
  BY <1>1 DEF Transactions
<1>6. Remember(r, t)
  BY <1>4
<1> HIDE DEF t
<1>7. Equipped(r, "append_resumed", t)
  BY <1>1, <1>5 DEF LifecycleInv, RequestsEquipped, Equipped, Locked, Creating, Deciding, Marking
<1>8. Current("append_resumed", t.target, t.shown)
  BY <1>1, <1>5 DEF Current, Creating, Deciding, Marking
<1> QED
  BY <1>1, <1>3, <1>5, <1>6, <1>7, <1>8, PrivateStep
  DEF Resume, TypeOK, Labels, Locked, Deciding

\* `resumed` or `resume_failed` is appended, whatever becomes of it.
LEMMA AppendResumedStep ==
  ASSUME LifecycleInv, NEW r \in Requests, AppendResumed(r)
  PROVE  LifecycleInv'
<1> USE DEF rows, time
<1>1. /\ TypeOK /\ tx[r] \in Transactions /\ pc[r] = "append_resumed"
      /\ tx[r].target \in ApprovalIds
      /\ lock[tx[r].target] = r /\ Current(pc[r], tx[r].target, tx[r].shown)
      /\ r \in Decides \cup Retries
  BY DEF LifecycleInv, TypeOK, RequestsEquipped, Equipped, SnapshotHolds, AppendResumed,
     Locked, Deciding
<1> DEFINE type == IF tx[r].outcome = "decided" THEN "resumed" ELSE "resume_failed"
           ev == Event(r, type, tx[r].latest.seq + 2, <<r, "decided">>)
<1>2. tx[r].latest.seq \in Nat /\ <<r, "decided">> \in EventRefs
  BY <1>1, FieldTypes DEF Events, NoEvent, EventRefs, EventTypes
<1>3. ev \in Events
  BY <1>2, EventType DEF EventTypes
<1>4. PICK result \in AppendResults :
        /\ SinkAppend(tx[r].target, ev, result)
        /\ Remember(r, [tx[r] EXCEPT !.staged = Stage(r, ev, result)])
  BY DEF AppendResumed
<1> DEFINE t == [tx[r] EXCEPT !.staged = Stage(r, ev, result)]
<1>5. sink' \in [ApprovalIds -> SUBSET Events] /\ Stage(r, ev, result) \subseteq Events
  BY <1>1, <1>3, <1>4, AppendType
<1>6. /\ t \in Transactions /\ t.target = tx[r].target /\ t.shown = tx[r].shown
      /\ t.reviewer = tx[r].reviewer /\ t.answer = tx[r].answer
  <2> HIDE DEF ev
  <2> QED
    BY <1>1, <1>5 DEF Transactions
<1>7. Remember(r, t)
  BY <1>4
<1> HIDE DEF t, ev
<1>8. Equipped(r, "commit_decided", t)
  BY <1>1, <1>6 DEF LifecycleInv, RequestsEquipped, Equipped, Locked, Creating, Deciding, Marking
<1>9. Current("commit_decided", t.target, t.shown)
  BY <1>1, <1>6 DEF Current, Creating, Deciding, Marking
<1> QED
  BY <1>1, <1>5, <1>6, <1>7, <1>8, <1>9, PrivateStep
  DEF AppendResumed, TypeOK, Labels, Locked, Deciding

-----------------------------------------------------------------------------
(***************************************************************************)
(* Commits                                                                 *)
(***************************************************************************)

\* Two transactions never hold the lock of one row, and a row whose lock is
\* free belongs to none.
LEMMA OthersElsewhere ==
  ASSUME LifecycleInv, NEW a \in ApprovalIds, NEW r \in Requests \cup {NoRequest}, lock[a] = r,
         NEW q \in Requests, q # r, pc[q] \in Locked
  PROVE  tx[q].target # a /\ tx[q].target \in ApprovalIds
BY DEF LifecycleInv, SnapshotHolds, RequestsEquipped, Equipped

\* A step that changes one row, by a request that ends with it and owned the
\* lock of the row or found it free, keeps the invariant if it does so for
\* the row.
LEMMA RowStep ==
  ASSUME LifecycleInv, NEW r \in Requests, NEW a \in ApprovalIds,
         \/ lock[a] = r /\ Release(a)
         \/ lock[a] = NoRequest /\ UNCHANGED lock,
         Goto(r, "done"), UNCHANGED <<tx, time, purging, sinkOn, crashes, outside, opened>>,
         TypeOK',
         a \notin purging,
         \A b \in ApprovalIds \ {a} :
           status'[b] = status[b] /\ presentedAt'[b] = presentedAt[b] /\ decisions'[b] = decisions[b],
         \A d \in decisions'[a] : d \in decisions[a] \/ d.req = r,
         DecisionMatchesStatus', OneAcceptedAnswer'
  PROVE  LifecycleInv'
<1> USE DEF LifecycleInv, time, outside
<1>1. /\ pc'[r] = "done"
      /\ \A q \in Requests \ {r} : pc'[q] = pc[q]
  BY DEF TypeOK, Goto
<1>2. RequestsEquipped'
  <2> SUFFICES ASSUME NEW q \in Requests PROVE Equipped(q, pc'[q], tx[q])
    BY DEF RequestsEquipped, Equipped
  <2> QED
    BY <1>1 DEF RequestsEquipped, Equipped, Locked, Creating, Deciding, Marking
<1>3. PurgeSelectsClosed'
  BY DEF PurgeSelectsClosed, TypeOK
<1>4. RecordedRequestsAreDone'
  <2> SUFFICES ASSUME NEW b \in ApprovalIds, NEW d \in decisions'[b], d.req # OldRequest
               PROVE  pc'[d.req] = "done"
    BY DEF RecordedRequestsAreDone
  <2>1. d \in decisions[b] \/ d.req = r
    OBVIOUS
  <2>2. CASE d \in decisions[b]
    BY <1>1, <2>2 DEF RecordedRequestsAreDone, TypeOK, Records
  <2> QED
    BY <1>1, <2>1, <2>2
<1>5. SnapshotHolds'
  <2> SUFFICES ASSUME NEW q \in Requests, pc'[q] \in Locked
               PROVE  (lock[tx[q].target] = q /\ Current(pc[q], tx[q].target, tx[q].shown))'
    BY DEF SnapshotHolds
  <2>1. q # r /\ pc'[q] = pc[q]
    BY <1>1 DEF Locked, Creating, Deciding, Marking
  <2>2. tx[q].target # a /\ tx[q].target \in ApprovalIds
    BY <2>1, OthersElsewhere, NullsDistinct
  <2>3. lock[tx[q].target] = q /\ Current(pc[q], tx[q].target, tx[q].shown)
    BY <2>1 DEF SnapshotHolds
  <2>4. lock'[tx[q].target] = q
    BY <2>2, <2>3 DEF Release, TypeOK
  <2> QED
    BY <2>1, <2>2, <2>3, <2>4 DEF Current
<1> QED
  BY <1>2, <1>3, <1>4, <1>5

\* The new row becomes visible as pending, without a decision.
LEMMA CommitIngestStep ==
  ASSUME LifecycleInv, NEW r \in Requests, CommitIngest(r)
  PROVE  LifecycleInv'
<1> DEFINE a == tx[r].target
<1>1. /\ TypeOK /\ tx[r] \in Transactions /\ pc[r] = "commit_ingest" /\ a \in ApprovalIds
      /\ lock[a] = r /\ status[a] = "none" /\ decisions[a] = {}
  BY DEF LifecycleInv, TypeOK, RequestsEquipped, Equipped, SnapshotHolds, Current, CommitIngest,
     DecisionMatchesStatus, Locked, Creating
<1>2. tx[r].key \in Keys \cup {NoKey} /\ tx[r].staged \subseteq Events
  BY <1>1, FieldTypes
<1>3. TypeOK'
  BY <1>1, <1>2 DEF CommitIngest, TypeOK, Goto, Release, Labels, Statuses, Open, time, outside
<1>4. a \notin purging
  BY <1>1 DEF LifecycleInv, PurgeSelectsClosed, Closed
<1>5. DecisionMatchesStatus' /\ OneAcceptedAnswer'
  BY <1>1 DEF LifecycleInv, DecisionMatchesStatus, OneAcceptedAnswer, CommitIngest, TypeOK
<1> QED
  BY <1>1, <1>3, <1>4, <1>5, RowStep DEF CommitIngest, TypeOK

\* presented_at and the staged receipts become visible; the status stays.
LEMMA CommitPresentedStep ==
  ASSUME LifecycleInv, NEW r \in Requests, CommitPresented(r)
  PROVE  LifecycleInv'
<1> DEFINE a == tx[r].target
<1>1. /\ TypeOK /\ tx[r] \in Transactions /\ pc[r] = "commit_presented" /\ a \in ApprovalIds
      /\ lock[a] = r /\ a \notin purging
  BY DEF LifecycleInv, TypeOK, RequestsEquipped, Equipped, SnapshotHolds, Current, CommitPresented,
     Locked, Marking
<1>2. tx[r].shown \in BOOLEAN /\ tx[r].staged \subseteq Events
  BY <1>1, FieldTypes
<1>3. TypeOK'
  BY <1>1, <1>2 DEF CommitPresented, TypeOK, Goto, Release, Labels, time, outside
<1>4. DecisionMatchesStatus' /\ OneAcceptedAnswer'
  BY <1>1 DEF LifecycleInv, DecisionMatchesStatus, OneAcceptedAnswer, CommitPresented
<1> QED
  BY <1>1, <1>3, <1>4, RowStep DEF CommitPresented, TypeOK

\* The decision and the status it implies become visible together.
LEMMA CommitDecidedStep ==
  ASSUME LifecycleInv, NEW r \in Requests, CommitDecided(r)
  PROVE  LifecycleInv'
<1> DEFINE a == tx[r].target
           record == [req |-> r, answer |-> tx[r].answer, reviewer |-> tx[r].reviewer,
                      at |-> tx[r].started, failed |-> tx[r].outcome = "failed_resume"]
<1>1. /\ TypeOK /\ tx[r] \in Transactions /\ pc[r] = "commit_decided" /\ a \in ApprovalIds
      /\ lock[a] = r /\ a \notin purging /\ status[a] \in Open
  BY DEF LifecycleInv, TypeOK, RequestsEquipped, Equipped, SnapshotHolds, Current, CommitDecided,
     Locked, Deciding
<1>2. r \notin Presents
  BY <1>1, KindsDisjoint DEF LifecycleInv, RequestsEquipped, Equipped, Deciding
<1>3. tx[r].reviewer \in Reviewers /\ tx[r].answer \in Answers
  BY <1>1, <1>2 DEF LifecycleInv, RequestsEquipped, Equipped, Deciding
<1>4. /\ tx[r].shown \in BOOLEAN /\ tx[r].staged \subseteq Events
      /\ tx[r].started \in Nat /\ tx[r].outcome \in {"decided", "failed_resume"}
  BY <1>1, FieldTypes
<1>5. record \in Records
  BY <1>3, <1>4 DEF Records
<1> HIDE DEF record
<1>6. /\ decisions' = [decisions EXCEPT ![a] = @ \cup {record}]
      /\ status' = [status EXCEPT ![a] = tx[r].outcome]
  BY DEF CommitDecided, RecordDecision, record
<1>7. TypeOK'
  BY <1>1, <1>4, <1>5, <1>6
  DEF CommitDecided, TypeOK, Goto, Release, Labels, Statuses, Open, Closed, time, outside
<1>8. \A d \in decisions[a] : d.failed
  BY <1>1 DEF LifecycleInv, DecisionMatchesStatus, Open
<1>9. DecisionMatchesStatus'
  <2> SUFFICES ASSUME NEW b \in ApprovalIds
               PROVE
      /\ status'[b] \in {"none", "pending", "expired", "purged"} => decisions'[b] = {}
      /\ status'[b] = "failed_resume" => decisions'[b] # {} /\ \A d \in decisions'[b] : d.failed
      /\ status'[b] = "decided" => \E d \in decisions'[b] : ~d.failed /\ d.answer # "cancel"
      /\ status'[b] = "cancelled" => \E d \in decisions'[b] : d.answer = "cancel"
    BY DEF DecisionMatchesStatus
  <2>1. CASE b = a
    <3>1. decisions'[b] = decisions[a] \cup {record} /\ status'[b] = tx[r].outcome
      BY <1>1, <1>6, <2>1 DEF TypeOK
    <3>2. record.failed = (tx[r].outcome = "failed_resume") /\ record.answer # "cancel"
      BY <1>3 DEF record, Answers
    <3> QED
      BY <1>4, <1>8, <3>1, <3>2
  <2>2. CASE b # a
    BY <1>1, <1>6, <2>2 DEF TypeOK, LifecycleInv, DecisionMatchesStatus
  <2> QED
    BY <2>1, <2>2
<1>10. OneAcceptedAnswer'
  BY <1>1, <1>6, <1>8 DEF TypeOK, LifecycleInv, OneAcceptedAnswer
<1>11. \A d \in decisions'[a] : d \in decisions[a] \/ d.req = r
  BY <1>1, <1>6 DEF TypeOK, record
<1> QED
  BY <1>1, <1>6, <1>7, <1>9, <1>10, <1>11, RowStep DEF CommitDecided, TypeOK

\* A cancellation closes an open row nobody else holds.
LEMMA CancelStep ==
  ASSUME LifecycleInv, NEW r \in Requests, Cancel(r)
  PROVE  LifecycleInv'
<1> DEFINE a == tx[r].target
           record == [req |-> r, answer |-> "cancel", reviewer |-> tx[r].reviewer,
                      at |-> tx[r].started, failed |-> FALSE]
<1>1. /\ TypeOK /\ tx[r] \in Transactions /\ pc[r] = "lock" /\ a \in ApprovalIds
      /\ lock[a] = NoRequest /\ tx[r].reviewer \in Reviewers
  BY DEF LifecycleInv, TypeOK, RequestsEquipped, Equipped, Cancel
<1>2. record \in Records
  BY <1>1, FieldTypes DEF Records
<1>3. \A d \in decisions[a] : status[a] \in Open => d.failed
  BY <1>1 DEF LifecycleInv, DecisionMatchesStatus, Open
<1>4. CASE /\ status[a] \in Open
           /\ decisions' = [decisions EXCEPT ![a] = @ \cup {record}]
           /\ status' = [status EXCEPT ![a] = "cancelled"]
  <2> HIDE DEF record
  <2>1. TypeOK'
    BY <1>1, <1>2, <1>4 DEF Cancel, TypeOK, Goto, Labels, Statuses, Closed, time, outside
  <2>2. a \notin purging
    BY <1>4 DEF LifecycleInv, PurgeSelectsClosed, Open, Closed
  <2>3. DecisionMatchesStatus'
    <3>1. status'[a] = "cancelled" /\ decisions'[a] = decisions[a] \cup {record}
      BY <1>1, <1>4 DEF TypeOK
    <3>2. record.answer = "cancel"
      BY DEF record
    <3>3. \A b \in ApprovalIds \ {a} : status'[b] = status[b] /\ decisions'[b] = decisions[b]
      BY <1>1, <1>4 DEF TypeOK
    <3> QED
      BY <3>1, <3>2, <3>3 DEF LifecycleInv, DecisionMatchesStatus
  <2>4. OneAcceptedAnswer'
    BY <1>1, <1>3, <1>4 DEF LifecycleInv, OneAcceptedAnswer, TypeOK
  <2>5. \A d \in decisions'[a] : d \in decisions[a] \/ d.req = r
    BY <1>1, <1>4 DEF TypeOK, record
  <2> QED
    BY <1>1, <1>4, <2>1, <2>2, <2>3, <2>4, <2>5, RowStep DEF Cancel, TypeOK, time, outside
<1>5. CASE UNCHANGED <<decisions, status>>
  <2>1. Remember(r, tx[r])
    BY <1>1 DEF Cancel, Remember, TypeOK
  <2>2. Equipped(r, "done", tx[r])
    BY DEF Equipped, Locked, Creating, Deciding, Marking
  <2> QED
    BY <1>1, <1>5, <2>1, <2>2, PrivateStep
    DEF Cancel, TypeOK, rows, time, outside, Labels, Locked, Creating, Deciding, Marking
<1> QED
  BY <1>4, <1>5 DEF Cancel, RecordDecision

\* A refused decision changes at most an overdue pending row.
LEMMA DecideRefuseStep ==
  ASSUME LifecycleInv, NEW r \in Requests, DecideRefuse(r)
  PROVE  LifecycleInv'
<1> DEFINE a == tx[r].target
<1>1. /\ TypeOK /\ tx[r] \in Transactions /\ pc[r] = "lock" /\ a \in ApprovalIds
      /\ lock[a] = NoRequest
  BY DEF LifecycleInv, TypeOK, RequestsEquipped, Equipped, DecideRefuse
<1>2. CASE status[a] = "pending" /\ status' = [status EXCEPT ![a] = "expired"]
  <2>1. TypeOK'
    BY <1>1, <1>2 DEF DecideRefuse, TypeOK, Goto, Labels, Statuses, Closed, time, outside
  <2>2. a \notin purging
    BY <1>2 DEF LifecycleInv, PurgeSelectsClosed, Closed
  <2>3. DecisionMatchesStatus' /\ OneAcceptedAnswer'
    BY <1>1, <1>2 DEF DecideRefuse, LifecycleInv, DecisionMatchesStatus, OneAcceptedAnswer, TypeOK
  <2> QED
    BY <1>1, <1>2, <2>1, <2>2, <2>3, RowStep DEF DecideRefuse, TypeOK, time, outside
<1>3. CASE UNCHANGED status
  <2>1. Remember(r, tx[r])
    BY <1>1 DEF DecideRefuse, Remember, TypeOK
  <2>2. Equipped(r, "done", tx[r])
    BY DEF Equipped, Locked, Creating, Deciding, Marking
  <2> QED
    BY <1>1, <1>3, <2>1, <2>2, PrivateStep
    DEF DecideRefuse, TypeOK, rows, time, outside, Labels, Locked, Creating, Deciding, Marking
<1> QED
  BY <1>2, <1>3 DEF DecideRefuse

-----------------------------------------------------------------------------
(***************************************************************************)
(* Rollbacks, jobs and the world around the requests                       *)
(***************************************************************************)

\* A rollback frees the locks of its request and touches no row.
LEMMA CrashStep ==
  ASSUME LifecycleInv, NEW r \in Requests, Crash(r)
  PROVE  LifecycleInv'
<1> USE DEF LifecycleInv, rows, time, outside
<1>1. /\ pc' \in [Requests -> Labels] /\ pc'[r] = "done" /\ pc[r] # "done"
      /\ \A q \in Requests \ {r} : pc'[q] = pc[q]
      /\ tx' = tx
  BY DEF Crash, TypeOK, Goto, Labels
<1>2. /\ lock' \in [ApprovalIds -> Requests \cup {NoRequest}]
      /\ \A a \in ApprovalIds, q \in Requests : q # r /\ lock[a] = q => lock'[a] = q
  BY DEF Crash, TypeOK
<1>3. TypeOK'
  BY <1>1, <1>2 DEF Crash, TypeOK
<1>4. RequestsEquipped'
  BY <1>1 DEF RequestsEquipped, Equipped, Locked, Creating, Deciding, Marking
<1>5. PurgeSelectsClosed' /\ DecisionMatchesStatus' /\ OneAcceptedAnswer'
  BY DEF Crash, PurgeSelectsClosed, DecisionMatchesStatus, OneAcceptedAnswer
<1>6. RecordedRequestsAreDone'
  BY <1>1 DEF Crash, RecordedRequestsAreDone, TypeOK, Records
<1>7. SnapshotHolds'
  <2> SUFFICES ASSUME NEW q \in Requests, pc'[q] \in Locked
               PROVE  (lock[tx[q].target] = q /\ Current(pc[q], tx[q].target, tx[q].shown))'
    BY DEF SnapshotHolds
  <2>1. q # r /\ pc'[q] = pc[q]
    BY <1>1 DEF Locked, Creating, Deciding, Marking
  <2>2. tx[q].target \in ApprovalIds
    BY <2>1 DEF RequestsEquipped, Equipped
  <2>3. lock[tx[q].target] = q /\ Current(pc[q], tx[q].target, tx[q].shown)
    BY <2>1 DEF SnapshotHolds
  <2> QED
    BY <1>1, <1>2, <2>1, <2>2, <2>3 DEF Crash, Current
<1> QED
  BY <1>3, <1>4, <1>5, <1>6, <1>7

\* The hourly job closes a pending row that nobody holds.
LEMMA ExpireOverdueStep ==
  ASSUME LifecycleInv, NEW a \in ApprovalIds, ExpireOverdue(a)
  PROVE  LifecycleInv'
<1> USE DEF LifecycleInv, rows, time, outside
<1>1. /\ status' \in [ApprovalIds -> Statuses] /\ status'[a] = "expired"
      /\ \A b \in ApprovalIds \ {a} : status'[b] = status[b]
  BY DEF ExpireOverdue, TypeOK, Statuses, Closed
<1>2. TypeOK'
  BY <1>1 DEF ExpireOverdue, TypeOK
<1>3. RequestsEquipped' /\ RecordedRequestsAreDone' /\ OneAcceptedAnswer'
  BY DEF ExpireOverdue, RequestsEquipped, Equipped, RecordedRequestsAreDone, OneAcceptedAnswer
<1>4. PurgeSelectsClosed'
  BY <1>1 DEF ExpireOverdue, PurgeSelectsClosed, TypeOK, Closed
<1>5. DecisionMatchesStatus'
  BY <1>1 DEF ExpireOverdue, DecisionMatchesStatus
<1>6. SnapshotHolds'
  <2> SUFFICES ASSUME NEW q \in Requests, pc'[q] \in Locked
               PROVE  (lock[tx[q].target] = q /\ Current(pc[q], tx[q].target, tx[q].shown))'
    BY DEF SnapshotHolds
  <2>1. pc[q] \in Locked
    BY DEF ExpireOverdue
  <2>2. tx[q].target # a /\ tx[q].target \in ApprovalIds
    BY <2>1, OthersElsewhere, NullsDistinct DEF ExpireOverdue
  <2>3. lock[tx[q].target] = q /\ Current(pc[q], tx[q].target, tx[q].shown)
    BY <2>1 DEF SnapshotHolds
  <2> QED
    BY <1>1, <2>2, <2>3 DEF ExpireOverdue, Current
<1> QED
  BY <1>2, <1>3, <1>4, <1>5, <1>6

\* The purge selects closed rows, which no handler can hold for a decision.
LEMMA PurgeSelectStep ==
  ASSUME LifecycleInv, PurgeSelect
  PROVE  LifecycleInv'
<1> USE DEF LifecycleInv, PurgeSelect, rows, time, outside
<1>1. TypeOK'
  BY DEF TypeOK
<1>2. RequestsEquipped' /\ RecordedRequestsAreDone' /\ OneAcceptedAnswer' /\ DecisionMatchesStatus'
  BY DEF RequestsEquipped, Equipped, RecordedRequestsAreDone, OneAcceptedAnswer, DecisionMatchesStatus
<1>3. PurgeSelectsClosed'
  BY DEF PurgeSelectsClosed
<1>4. SnapshotHolds'
  BY DEF SnapshotHolds, Current, Open, Closed
<1> QED
  BY <1>1, <1>2, <1>3, <1>4

\* The purge deletes rows that are still the closed ones it selected.
LEMMA PurgeDeleteStep ==
  ASSUME LifecycleInv, PurgeDelete
  PROVE  LifecycleInv'
<1> USE DEF LifecycleInv, rows, time, outside
<1>1. /\ status' \in [ApprovalIds -> Statuses] /\ decisions' \in [ApprovalIds -> SUBSET Records]
      /\ receipts' \in [ApprovalIds -> SUBSET Events] /\ opened' \in [ApprovalIds -> SUBSET Reviewers]
      /\ \A a \in purging : status'[a] = "purged" /\ decisions'[a] = {}
      /\ \A a \in ApprovalIds \ purging : status'[a] = status[a] /\ decisions'[a] = decisions[a]
  BY DEF PurgeDelete, TypeOK, Statuses
<1>2. TypeOK'
  BY <1>1 DEF PurgeDelete, TypeOK
<1>3. RequestsEquipped'
  BY DEF PurgeDelete, RequestsEquipped, Equipped
<1>4. PurgeSelectsClosed'
  BY DEF PurgeDelete, PurgeSelectsClosed
<1>5. RecordedRequestsAreDone' /\ OneAcceptedAnswer' /\ DecisionMatchesStatus'
  BY <1>1 DEF PurgeDelete, RecordedRequestsAreDone, OneAcceptedAnswer, DecisionMatchesStatus
<1>6. SnapshotHolds'
  <2> SUFFICES ASSUME NEW q \in Requests, pc'[q] \in Locked
               PROVE  (lock[tx[q].target] = q /\ Current(pc[q], tx[q].target, tx[q].shown))'
    BY DEF SnapshotHolds
  <2>1. pc[q] \in Locked /\ tx[q].target \in ApprovalIds
    BY DEF PurgeDelete, RequestsEquipped, Equipped
  <2>2. lock[tx[q].target] = q /\ Current(pc[q], tx[q].target, tx[q].shown)
    BY <2>1 DEF SnapshotHolds
  <2>3. tx[q].target \notin purging
    BY <2>1, <2>2, NullsDistinct DEF PurgeDelete
  <2> QED
    BY <1>1, <2>1, <2>2, <2>3 DEF PurgeDelete, Current
<1> QED
  BY <1>2, <1>3, <1>4, <1>5, <1>6

\* Opens, deadlines, ageing and the sink setting touch nothing a transaction
\* has read under its lock.
LEMMA OutsideStep ==
  ASSUME LifecycleInv,
         \/ \E a \in ApprovalIds : FallDue(a) \/ GrowStale(a) \/ \E u \in Reviewers : RecordOpen(a, u)
         \/ ConfigureSink
  PROVE  LifecycleInv'
<1> USE DEF LifecycleInv, rows, time, outside
<1> DEFINE Untouched ==
      /\ UNCHANGED <<status, presentedAt, idempotencyKey, decisions, receipts, clock, lock, pc, tx,
                     purging, crashes, sink, origin>>
      /\ due' \in [ApprovalIds -> BOOLEAN] /\ stale' \in [ApprovalIds -> BOOLEAN]
      /\ opened' \in [ApprovalIds -> SUBSET Reviewers] /\ sinkOn' \in BOOLEAN
      /\ \A a \in ApprovalIds : stale[a] => stale'[a]
<1>1. Untouched
  <2>1. ASSUME NEW a \in ApprovalIds, FallDue(a) PROVE Untouched
    BY <2>1 DEF FallDue, TypeOK
  <2>2. ASSUME NEW a \in ApprovalIds, GrowStale(a) PROVE Untouched
    BY <2>2 DEF GrowStale, TypeOK
  <2>3. ASSUME NEW a \in ApprovalIds, NEW u \in Reviewers, RecordOpen(a, u) PROVE Untouched
    BY <2>3 DEF RecordOpen, TypeOK
  <2>4. ASSUME ConfigureSink PROVE Untouched
    BY <2>4, Settings DEF ConfigureSink, TypeOK
  <2> QED
    BY <2>1, <2>2, <2>3, <2>4
<1>2. TypeOK'
  BY <1>1 DEF TypeOK
<1>3. RequestsEquipped' /\ RecordedRequestsAreDone' /\ OneAcceptedAnswer' /\ DecisionMatchesStatus'
  BY <1>1 DEF RequestsEquipped, Equipped, RecordedRequestsAreDone, OneAcceptedAnswer,
     DecisionMatchesStatus
<1>4. PurgeSelectsClosed'
  BY <1>1 DEF PurgeSelectsClosed, TypeOK
<1>5. SnapshotHolds'
  BY <1>1 DEF SnapshotHolds, Current
<1> QED
  BY <1>2, <1>3, <1>4, <1>5

-----------------------------------------------------------------------------
(***************************************************************************)
(* The theorems                                                            *)
(***************************************************************************)

\* The initial states, legacy rows included, satisfy the inductive invariant.
LEMMA InitLifecycle == Init => LifecycleInv
<1> SUFFICES ASSUME Init PROVE LifecycleInv
  OBVIOUS
<1> USE DEF Init
<1>1. TypeOK
  BY InitType
<1>2. RequestsEquipped /\ SnapshotHolds /\ PurgeSelectsClosed
  BY DEF RequestsEquipped, Equipped, SnapshotHolds, PurgeSelectsClosed,
     Locked, Creating, Deciding, Marking
<1>3. PICK u \in Reviewers :
        decisions = [a \in ApprovalIds |->
          IF a \in Legacy
          THEN {[req |-> OldRequest, answer |-> "accept", reviewer |-> u, at |-> 0, failed |-> TRUE]}
          ELSE {}]
  OBVIOUS
<1>4. \A a \in ApprovalIds :
        /\ \A d \in decisions[a] : d.req = OldRequest /\ d.failed
        /\ a \in Legacy => decisions[a] # {} /\ status[a] = "failed_resume"
        /\ a \notin Legacy => decisions[a] = {} /\ status[a] = "none"
  <2> DEFINE old == [req |-> OldRequest, answer |-> "accept", reviewer |-> u, at |-> 0,
                     failed |-> TRUE]
  <2>1. old.req = OldRequest /\ old.failed
    OBVIOUS
  <2> HIDE DEF old
  <2>2. \A a \in ApprovalIds : decisions[a] = IF a \in Legacy THEN {old} ELSE {}
    BY <1>3 DEF old
  <2>3. \A a \in ApprovalIds : status[a] = IF a \in Legacy THEN "failed_resume" ELSE "none"
    OBVIOUS
  <2> QED
    BY <2>1, <2>2, <2>3
<1>5. RecordedRequestsAreDone /\ DecisionMatchesStatus /\ OneAcceptedAnswer
  BY <1>4 DEF RecordedRequestsAreDone, DecisionMatchesStatus, OneAcceptedAnswer
<1> QED
  BY <1>1, <1>2, <1>5 DEF LifecycleInv

\* Every step of every handler, rollback and job keeps the inductive invariant.
LEMMA NextLifecycle == LifecycleInv /\ [Next]_vars => LifecycleInv'
<1> SUFFICES ASSUME LifecycleInv, [Next]_vars PROVE LifecycleInv'
  OBVIOUS
<1>1. ASSUME NEW r \in Requests, Handle(r) PROVE LifecycleInv'
  BY <1>1, IngestSteps, AppendRequestedStep, CommitIngestStep, LockPresentedStep,
     PresentedNoOpStep, AppendPresentedStep, CommitPresentedStep, BeginStep, RetryReadStep,
     LockDecideStep, DecideRefuseStep, AppendDecidedStep, ResumeStep, AppendResumedStep,
     CommitDecidedStep, CancelStep
  DEF Handle
<1>2. ASSUME NEW r \in Requests, Crash(r) PROVE LifecycleInv'
  BY <1>2, CrashStep
<1>3. ASSUME NEW a \in ApprovalIds, ExpireOverdue(a) PROVE LifecycleInv'
  BY <1>3, ExpireOverdueStep
<1>4. CASE PurgeSelect \/ PurgeDelete
  BY <1>4, PurgeSelectStep, PurgeDeleteStep
<1>5. CASE \/ \E a \in ApprovalIds :
                FallDue(a) \/ GrowStale(a) \/ \E u \in Reviewers : RecordOpen(a, u)
           \/ ConfigureSink
  BY <1>5, OutsideStep
<1>6. CASE UNCHANGED vars
  BY <1>6 DEF vars, rows, time, outside, LifecycleInv, TypeOK, RequestsEquipped, Equipped,
     PurgeSelectsClosed, RecordedRequestsAreDone, SnapshotHolds, Current, DecisionMatchesStatus,
     OneAcceptedAnswer
<1> QED
  BY <1>1, <1>2, <1>3, <1>4, <1>5, <1>6 DEF Next

\* The inductive invariant of the approval handlers holds in every reachable
\* state: what a handler read under its row lock stays true until its commit,
\* the status of a row tells which decisions it has, and one answer closes it.
THEOREM Lifecycle == Spec => []LifecycleInv
BY InitLifecycle, NextLifecycle, PTL DEF Spec

\* Every variable keeps its type, the values handlers copy from stored
\* decisions and receipts into their transactions included.
THEOREM TypeCorrect == Spec => []TypeOK
<1>1. LifecycleInv => TypeOK
  BY DEF LifecycleInv
<1> QED
  BY <1>1, Lifecycle, PTL

\* Deciders, retries, cancellations, expiry and purge race for a row, and what
\* each read under the lock is still so when it writes.
THEOREM SnapshotTheorem == Spec => []SnapshotHolds
<1>1. LifecycleInv => SnapshotHolds
  BY DEF LifecycleInv
<1> QED
  BY <1>1, Lifecycle, PTL

\* The status of an approval and its decision records never disagree.
THEOREM StatusTheorem == Spec => []DecisionMatchesStatus
<1>1. LifecycleInv => DecisionMatchesStatus
  BY DEF LifecycleInv
<1> QED
  BY <1>1, Lifecycle, PTL

\* Whatever the number of concurrent deciders and retries, at most one
\* recorded decision closes an approval.
THEOREM OneAnswerTheorem == Spec => []OneAcceptedAnswer
<1>1. LifecycleInv => OneAcceptedAnswer
  BY DEF LifecycleInv
<1> QED
  BY <1>1, Lifecycle, PTL

-----------------------------------------------------------------------------
(***************************************************************************)
(* What a step may do to a row                                             *)
(***************************************************************************)

\* The effect of a step on the statuses and decisions of all rows.
Untouched == UNCHANGED <<status, decisions>>
Asked(a) ==
  /\ status[a] = "none" /\ decisions[a] = {}
  /\ status' = [status EXCEPT ![a] = "pending"] /\ UNCHANGED decisions
Answered(a, d) ==
  /\ status[a] \in Open /\ d \notin decisions[a]
  /\ \A e \in decisions[a] : e.req # d.req /\ e.failed
  /\ d.failed = (status'[a] = "failed_resume")
  /\ \/ d.answer \in Answers /\ status'[a] \in {"decided", "failed_resume"}
     \/ d.answer = "cancel" /\ status'[a] = "cancelled"
  /\ status' = [status EXCEPT ![a] = status'[a]]
  /\ decisions' = [decisions EXCEPT ![a] = @ \cup {d}]
Expired(a) ==
  /\ status[a] = "pending" /\ decisions[a] = {}
  /\ status' = [status EXCEPT ![a] = "expired"] /\ UNCHANGED decisions
Purged(gone) ==
  /\ gone # {} /\ gone \subseteq ApprovalIds
  /\ \A a \in gone : status[a] \in Closed /\ stale[a]
  /\ status' = [a \in ApprovalIds |-> IF a \in gone THEN "purged" ELSE status[a]]
  /\ decisions' = [a \in ApprovalIds |-> IF a \in gone THEN {} ELSE decisions[a]]
RowEffect ==
  \/ Untouched
  \/ \E a \in ApprovalIds : Asked(a) \/ Expired(a) \/ \E d \in Records : Answered(a, d)
  \/ Purged(purging)

\* What a decision may do to its row: add one record, and close it or leave it open.
LEMMA CommitDecidedEffect ==
  ASSUME LifecycleInv, NEW r \in Requests, CommitDecided(r)
  PROVE  RowEffect
<1> DEFINE a == tx[r].target
           d == [req |-> r, answer |-> tx[r].answer, reviewer |-> tx[r].reviewer,
                 at |-> tx[r].started, failed |-> tx[r].outcome = "failed_resume"]
<1>1. /\ TypeOK /\ tx[r] \in Transactions /\ pc[r] = "commit_decided" /\ a \in ApprovalIds
      /\ status[a] \in Open
  BY DEF LifecycleInv, TypeOK, RequestsEquipped, Equipped, SnapshotHolds, Current, CommitDecided,
     Locked, Deciding
<1>2. r \notin Presents
  BY <1>1, KindsDisjoint DEF LifecycleInv, RequestsEquipped, Equipped, Deciding
<1>3. tx[r].reviewer \in Reviewers /\ tx[r].answer \in Answers
  BY <1>1, <1>2 DEF LifecycleInv, RequestsEquipped, Equipped, Deciding
<1>4. tx[r].started \in Nat /\ tx[r].outcome \in {"decided", "failed_resume"}
  BY <1>1, FieldTypes
<1>5. d \in Records /\ d.req = r /\ d.answer \in Answers
  BY <1>3, <1>4 DEF Records
<1>6. d.failed = (tx[r].outcome = "failed_resume")
  OBVIOUS
<1> HIDE DEF d
<1>7. /\ decisions' = [decisions EXCEPT ![a] = @ \cup {d}]
      /\ status' = [status EXCEPT ![a] = tx[r].outcome]
  BY DEF CommitDecided, RecordDecision, d
<1>8. status'[a] = tx[r].outcome
  BY <1>1, <1>7 DEF TypeOK
<1>9. \A e \in decisions[a] : e.req # r /\ e.failed
  BY <1>1, NullsDistinct
  DEF LifecycleInv, DecisionMatchesStatus, RecordedRequestsAreDone, Open
<1>10. Answered(a, d)
  BY <1>1, <1>4, <1>5, <1>6, <1>7, <1>8, <1>9 DEF Answered
<1> QED
  BY <1>1, <1>5, <1>10 DEF RowEffect

\* What a cancellation may do to its row: add one record and close it.
LEMMA CancelEffect ==
  ASSUME LifecycleInv, NEW r \in Requests, Cancel(r)
  PROVE  RowEffect
<1> DEFINE a == tx[r].target
           d == [req |-> r, answer |-> "cancel", reviewer |-> tx[r].reviewer,
                 at |-> tx[r].started, failed |-> FALSE]
<1>1. /\ TypeOK /\ tx[r] \in Transactions /\ pc[r] = "lock" /\ a \in ApprovalIds
      /\ tx[r].reviewer \in Reviewers
  BY DEF LifecycleInv, TypeOK, RequestsEquipped, Equipped, Cancel
<1>2. d \in Records /\ d.req = r /\ d.answer = "cancel" /\ d.failed = FALSE
  BY <1>1, FieldTypes DEF Records
<1> HIDE DEF d
<1>3. CASE /\ status[a] \in Open
           /\ decisions' = [decisions EXCEPT ![a] = @ \cup {d}]
           /\ status' = [status EXCEPT ![a] = "cancelled"]
  <2>1. \A e \in decisions[a] : e.req # r /\ e.failed
    BY <1>1, <1>3, NullsDistinct
    DEF LifecycleInv, DecisionMatchesStatus, RecordedRequestsAreDone, Open
  <2>2. status'[a] = "cancelled"
    BY <1>1, <1>3 DEF TypeOK
  <2>3. Answered(a, d)
    BY <1>1, <1>2, <1>3, <2>1, <2>2 DEF Answered
  <2> QED
    BY <1>1, <1>2, <2>3 DEF RowEffect
<1>4. CASE UNCHANGED <<decisions, status>>
  BY <1>4 DEF RowEffect, Untouched
<1> QED
  BY <1>3, <1>4 DEF Cancel, RecordDecision, d

\* Every step asks, answers, expires or purges rows, or leaves them alone.
LEMMA StepEffect == LifecycleInv /\ [Next]_vars => RowEffect
<1> SUFFICES ASSUME LifecycleInv, [Next]_vars PROVE RowEffect
  OBVIOUS
<1> USE DEF rows
<1>1. ASSUME NEW r \in Requests, Handle(r) PROVE RowEffect
  <2>1. CASE CommitIngest(r)
    <3>1. TypeOK /\ tx[r].target \in ApprovalIds /\ status[tx[r].target] = "none"
      BY <2>1 DEF LifecycleInv, RequestsEquipped, Equipped, SnapshotHolds, Current,
         CommitIngest, Locked, Creating
    <3> QED
      BY <2>1, <3>1 DEF CommitIngest, Asked, RowEffect, LifecycleInv, DecisionMatchesStatus
  <2>2. CASE DecideRefuse(r)
    <3>1. TypeOK /\ tx[r].target \in ApprovalIds
      BY <2>2 DEF LifecycleInv, RequestsEquipped, Equipped, DecideRefuse
    <3> QED
      BY <2>2, <3>1
      DEF DecideRefuse, Expired, Untouched, RowEffect, LifecycleInv, DecisionMatchesStatus
  <2>3. CASE CommitDecided(r)
    BY <2>3, CommitDecidedEffect
  <2>4. CASE Cancel(r)
    BY <2>4, CancelEffect
  <2>5. CASE \/ IngestReplay(r) \/ IngestInsert(r) \/ IngestRefuse(r) \/ LockPresented(r)
             \/ PresentedNoOp(r) \/ RetryRead(r) \/ LockDecide(r)
    BY <2>5 DEF IngestReplay, IngestInsert, IngestRefuse, LockPresented, PresentedNoOp,
       RetryRead, LockDecide, OwnStep, RowEffect, Untouched
  <2>6. CASE \/ AppendRequested(r) \/ AppendPresented(r) \/ CommitPresented(r) \/ Begin(r)
             \/ AppendDecided(r) \/ Resume(r) \/ AppendResumed(r)
    BY <2>6 DEF AppendRequested, AppendPresented, CommitPresented, Begin, AppendDecided, Resume,
       AppendResumed, RowEffect, Untouched
  <2> QED
    BY <1>1, <2>1, <2>2, <2>3, <2>4, <2>5, <2>6 DEF Handle
<1>2. ASSUME NEW r \in Requests, Crash(r) PROVE RowEffect
  BY <1>2 DEF Crash, RowEffect, Untouched
<1>3. ASSUME NEW a \in ApprovalIds, ExpireOverdue(a) PROVE RowEffect
  BY <1>3 DEF ExpireOverdue, Expired, RowEffect, LifecycleInv, DecisionMatchesStatus
<1>4. CASE PurgeSelect \/ ConfigureSink
  BY <1>4 DEF PurgeSelect, ConfigureSink, RowEffect, Untouched
<1>5. CASE PurgeDelete
  BY <1>5 DEF PurgeDelete, Purged, RowEffect, LifecycleInv, PurgeSelectsClosed, TypeOK
<1>6. ASSUME NEW a \in ApprovalIds,
             FallDue(a) \/ GrowStale(a) \/ \E u \in Reviewers : RecordOpen(a, u)
      PROVE  RowEffect
  BY <1>6 DEF FallDue, GrowStale, RecordOpen, RowEffect, Untouched
<1>7. CASE UNCHANGED vars
  BY <1>7 DEF vars, RowEffect, Untouched
<1> QED
  BY <1>1, <1>2, <1>3, <1>4, <1>5, <1>6, <1>7 DEF Next

\* Late deciders, retries, cancellations and the expiry job cannot reopen or
\* reclose a closed approval.
THEOREM ClosedTheorem == Spec => ClosedIsFinal
<1>1. LifecycleInv /\ [Next]_vars =>
        \A a \in ApprovalIds : status[a] \in Closed => status'[a] \in {status[a], "purged"}
  <2> SUFFICES ASSUME LifecycleInv, RowEffect, NEW a \in ApprovalIds, status[a] \in Closed
               PROVE  status'[a] \in {status[a], "purged"}
    BY StepEffect
  <2>1. status \in [ApprovalIds -> Statuses]
    BY DEF LifecycleInv, TypeOK
  <2> QED
    BY <2>1 DEF RowEffect, Untouched, Asked, Expired, Answered, Purged, Open, Closed
<1> QED
  BY <1>1, Lifecycle, PTL DEF Spec, ClosedIsFinal

\* A recorded decision survives failed resumes, retries and rollbacks; only
\* retention removes it, with its closed approval.
THEOREM DurabilityTheorem == Spec => RecordsAreDurable
<1>1. LifecycleInv /\ [Next]_vars =>
        \A a \in ApprovalIds :
          decisions[a] \subseteq decisions'[a] \/ (status[a] \in Closed /\ stale[a])
  <2> SUFFICES ASSUME LifecycleInv, RowEffect, NEW a \in ApprovalIds
               PROVE  decisions[a] \subseteq decisions'[a] \/ (status[a] \in Closed /\ stale[a])
    BY StepEffect
  <2>1. decisions \in [ApprovalIds -> SUBSET Records]
    BY DEF LifecycleInv, TypeOK
  <2> QED
    BY <2>1 DEF RowEffect, Untouched, Asked, Expired, Answered, Purged
<1> QED
  BY <1>1, Lifecycle, PTL DEF Spec, RecordsAreDurable

-----------------------------------------------------------------------------
(***************************************************************************)
(* Refinement of ApprovalContract                                          *)
(***************************************************************************)

phases == [a \in ApprovalIds |-> Phase(a)]
attempted == [a \in ApprovalIds |-> {d.req : d \in decisions[a]}]
verdicts == [a \in ApprovalIds |->
  IF Accepted(a) = {} THEN "none" ELSE (CHOOSE d \in Accepted(a) : TRUE).answer]

\* The phase an approval shows, by status.
LEMMA PhaseOf ==
  ASSUME TypeOK, NEW a \in ApprovalIds
  PROVE  /\ status[a] \in Open => phases[a] = "open"
         /\ status[a] = "decided" => phases[a] = "settled"
         /\ status[a] = "purged" => phases[a] = "deleted"
         /\ status[a] \in {"none", "expired", "cancelled"} => phases[a] = status[a]
BY DEF phases, Phase, Open

\* The phase of the contract, read off the status after a step.
LEMMA PhaseAfter ==
  ASSUME TypeOK', NEW a \in ApprovalIds
  PROVE  /\ status'[a] \in Open => phases'[a] = "open"
         /\ status'[a] = "decided" => phases'[a] = "settled"
         /\ status'[a] = "purged" => phases'[a] = "deleted"
         /\ status'[a] \in {"none", "expired", "cancelled"} => phases'[a] = status'[a]
BY DEF phases, Phase, Open

\* A row whose decisions did not change shows the same attempts and verdict.
LEMMA SameRecords ==
  ASSUME NEW a \in ApprovalIds, decisions'[a] = decisions[a]
  PROVE  attempted'[a] = attempted[a] /\ verdicts'[a] = verdicts[a]
<1>1. Accepted(a)' = Accepted(a)
  BY DEF Accepted
<1> QED
  BY <1>1 DEF attempted, verdicts

\* A row whose decisions all failed has no verdict.
LEMMA NoVerdictYet ==
  ASSUME NEW a \in ApprovalIds, \A d \in decisions[a] : d.failed
  PROVE  verdicts[a] = "none"
<1>1. Accepted(a) = {}
  BY DEF Accepted
<1> QED
  BY <1>1 DEF verdicts

\* A row that becomes visible is an Ask of the contract.
LEMMA AskedMaps ==
  ASSUME TypeOK, TypeOK', NEW a \in ApprovalIds, Asked(a)
  PROVE  Contract!Ask(a)
<1>1. /\ status' \in [ApprovalIds -> Statuses] /\ status'[a] = "pending"
      /\ \A b \in ApprovalIds \ {a} : status'[b] = status[b]
      /\ \A b \in ApprovalIds : decisions'[b] = decisions[b]
  BY DEF Asked, TypeOK
<1>2. phases[a] = "none" /\ phases'[a] = "open"
  BY <1>1, PhaseOf, PhaseAfter DEF Asked, Open
<1>3. \A b \in ApprovalIds \ {a} : phases'[b] = phases[b]
  BY <1>1 DEF phases, Phase
<1>4. phases' = [phases EXCEPT ![a] = "open"]
  BY <1>2, <1>3 DEF phases
<1>5. attempted' = attempted /\ verdicts' = verdicts
  BY <1>1 DEF Asked, attempted, verdicts, Accepted
<1> QED
  BY <1>2, <1>4, <1>5 DEF Contract!Ask, phases, attempted, verdicts

\* A row that expires had no decision: it is an Expire of the contract.
LEMMA ExpiredMaps ==
  ASSUME TypeOK, TypeOK', NEW a \in ApprovalIds, Expired(a)
  PROVE  Contract!Expire(a)
<1>1. /\ status' \in [ApprovalIds -> Statuses] /\ status'[a] = "expired"
      /\ \A b \in ApprovalIds \ {a} : status'[b] = status[b]
  BY DEF Expired, TypeOK
<1>2. phases[a] = "open" /\ phases'[a] = "expired"
  BY <1>1, PhaseOf, PhaseAfter DEF Expired, Open
<1>3. \A b \in ApprovalIds \ {a} : phases'[b] = phases[b]
  BY <1>1 DEF phases, Phase
<1>4. phases' = [phases EXCEPT ![a] = "expired"]
  BY <1>2, <1>3 DEF phases
<1>5. attempted' = attempted /\ verdicts' = verdicts
  BY DEF Expired, attempted, verdicts, Accepted
<1>6. attempted[a] = {}
  BY DEF Expired, attempted
<1> QED
  BY <1>2, <1>4, <1>5, <1>6 DEF Contract!Expire, phases, attempted, verdicts

\* A row that gets a decision is an Attempt, a Settle or a Withdraw of the contract.
LEMMA AnsweredMaps ==
  ASSUME TypeOK, TypeOK', NEW a \in ApprovalIds, NEW d \in Records, Answered(a, d)
  PROVE  \E t \in Requests \cup {OldRequest} :
           \/ Contract!Attempt(a, t) \/ Contract!Withdraw(a, t)
           \/ \E v \in Answers : Contract!Settle(a, t, v)
<1>1. /\ \A b \in ApprovalIds \ {a} : status'[b] = status[b] /\ decisions'[b] = decisions[b]
      /\ decisions'[a] = decisions[a] \cup {d}
  BY DEF Answered, TypeOK
<1>2. d.req \in Requests \cup {OldRequest}
  BY DEF Records
<1>3. phases[a] = "open"
  BY PhaseOf DEF Answered
<1>4. \A b \in ApprovalIds \ {a} :
        phases'[b] = phases[b] /\ attempted'[b] = attempted[b] /\ verdicts'[b] = verdicts[b]
  <2> SUFFICES ASSUME NEW b \in ApprovalIds \ {a}
               PROVE  phases'[b] = phases[b] /\ attempted'[b] = attempted[b] /\ verdicts'[b] = verdicts[b]
    OBVIOUS
  <2>1. phases'[b] = phases[b]
    BY <1>1 DEF phases, Phase
  <2> QED
    BY <1>1, <2>1, SameRecords
<1>5. d.req \notin attempted[a] /\ attempted'[a] = attempted[a] \cup {d.req}
  BY <1>1 DEF Answered, attempted
<1>6. attempted' = [attempted EXCEPT ![a] = @ \cup {d.req}]
  BY <1>4, <1>5 DEF attempted
<1>7. verdicts[a] = "none"
  BY NoVerdictYet DEF Answered
<1>8. CASE status'[a] = "failed_resume"
  <2>1. phases'[a] = "open"
    BY <1>8, PhaseAfter DEF Open
  <2>2. \A e \in decisions'[a] : e.failed
    BY <1>1, <1>8 DEF Answered
  <2>3. verdicts'[a] = "none"
    <3>1. Accepted(a)' = {}
      BY <2>2 DEF Accepted
    <3> QED
      BY <3>1 DEF verdicts
  <2>4. phases' = phases /\ verdicts' = verdicts
    BY <1>3, <1>4, <1>7, <2>1, <2>3 DEF phases, verdicts
  <2>5. Contract!Attempt(a, d.req)
    BY <1>3, <1>5, <1>6, <2>4 DEF Contract!Attempt, phases, attempted, verdicts
  <2> QED
    BY <1>2, <2>5
<1>9. CASE status'[a] = "cancelled"
  <2>1. phases'[a] = "cancelled"
    BY <1>9, PhaseAfter
  <2>2. d.answer = "cancel"
    BY <1>9 DEF Answered
  <2>3. verdicts'[a] = "none"
    <3>1. Accepted(a)' = {}
      BY <1>1, <2>2 DEF Accepted, Answered
    <3> QED
      BY <3>1 DEF verdicts
  <2>4. phases' = [phases EXCEPT ![a] = "cancelled"] /\ verdicts' = verdicts
    BY <1>4, <1>7, <2>1, <2>3 DEF phases, verdicts
  <2>5. Contract!Withdraw(a, d.req)
    BY <1>3, <1>5, <1>6, <2>4 DEF Contract!Withdraw, phases, attempted, verdicts
  <2> QED
    BY <1>2, <2>5
<1>10. CASE status'[a] = "decided"
  <2>1. phases'[a] = "settled"
    BY <1>10, PhaseAfter
  <2>2. d.answer \in Answers /\ ~d.failed
    BY <1>10 DEF Answered
  <2>3. verdicts'[a] = d.answer
    <3>1. d.answer # "cancel"
      BY <2>2 DEF Answers
    <3>2. Accepted(a)' = {d}
      BY <1>1, <2>2, <3>1 DEF Accepted, Answered
    <3>3. (CHOOSE e \in {d} : TRUE) = d
      OBVIOUS
    <3> QED
      BY <3>2, <3>3 DEF verdicts
  <2>4. /\ phases' = [phases EXCEPT ![a] = "settled"]
        /\ verdicts' = [verdicts EXCEPT ![a] = d.answer]
    BY <1>4, <2>1, <2>3 DEF phases, verdicts
  <2>5. Contract!Settle(a, d.req, d.answer)
    BY <1>3, <1>5, <1>6, <2>4 DEF Contract!Settle, phases, attempted, verdicts
  <2> QED
    BY <1>2, <2>2, <2>5
<1> QED
  BY <1>8, <1>9, <1>10 DEF Answered

\* The deletion of the selected rows is a Forget of the contract.
LEMMA PurgedMaps ==
  ASSUME TypeOK, TypeOK', NEW gone, Purged(gone)
  PROVE  gone \in SUBSET ApprovalIds /\ Contract!Forget(gone)
<1>1. /\ \A a \in gone : status'[a] = "purged" /\ decisions'[a] = {}
      /\ \A a \in ApprovalIds \ gone : status'[a] = status[a] /\ decisions'[a] = decisions[a]
      /\ gone \subseteq ApprovalIds
  BY DEF Purged
<1>2. \A a \in gone : phases[a] \in {"settled", "expired", "cancelled"}
  BY <1>1, PhaseOf DEF Purged, Closed
<1>3. \A a \in gone : phases'[a] = "deleted" /\ attempted'[a] = {} /\ verdicts'[a] = "none"
  <2> SUFFICES ASSUME NEW a \in gone
               PROVE  phases'[a] = "deleted" /\ attempted'[a] = {} /\ verdicts'[a] = "none"
    OBVIOUS
  <2>1. phases'[a] = "deleted"
    BY <1>1, PhaseAfter
  <2>2. Accepted(a)' = {}
    BY <1>1 DEF Accepted
  <2> QED
    BY <1>1, <2>1, <2>2 DEF attempted, verdicts
<1>4. \A a \in ApprovalIds \ gone :
        phases'[a] = phases[a] /\ attempted'[a] = attempted[a] /\ verdicts'[a] = verdicts[a]
  <2> SUFFICES ASSUME NEW a \in ApprovalIds \ gone
               PROVE  phases'[a] = phases[a] /\ attempted'[a] = attempted[a] /\ verdicts'[a] = verdicts[a]
    OBVIOUS
  <2>1. phases'[a] = phases[a]
    BY <1>1 DEF phases, Phase
  <2> QED
    BY <1>1, <2>1, SameRecords
<1>5. /\ phases' = [a \in ApprovalIds |-> IF a \in gone THEN "deleted" ELSE phases[a]]
      /\ attempted' = [a \in ApprovalIds |-> IF a \in gone THEN {} ELSE attempted[a]]
      /\ verdicts' = [a \in ApprovalIds |-> IF a \in gone THEN "none" ELSE verdicts[a]]
  <2>1. phases' = [a \in ApprovalIds |-> phases'[a]]
    BY DEF phases
  <2>2. attempted' = [a \in ApprovalIds |-> attempted'[a]]
    BY DEF attempted
  <2>3. verdicts' = [a \in ApprovalIds |-> verdicts'[a]]
    BY DEF verdicts
  <2>4. \A a \in ApprovalIds :
          /\ phases'[a] = IF a \in gone THEN "deleted" ELSE phases[a]
          /\ attempted'[a] = IF a \in gone THEN {} ELSE attempted[a]
          /\ verdicts'[a] = IF a \in gone THEN "none" ELSE verdicts[a]
    BY <1>3, <1>4
  <2> QED
    BY <2>1, <2>2, <2>3, <2>4
<1>6. gone # {}
  BY DEF Purged
<1> QED
  BY <1>1, <1>2, <1>5, <1>6 DEF Contract!Forget, phases, attempted, verdicts

\* The initial states are initial states of the contract.
LEMMA InitMaps == Init => Contract!ContractInit
<1> SUFFICES ASSUME Init PROVE Contract!ContractInit
  OBVIOUS
<1>1. LifecycleInv
  BY InitLifecycle
<1>2. \A a \in ApprovalIds : status[a] = IF a \in Legacy THEN "failed_resume" ELSE "none"
  BY DEF Init
<1>3. phases = [a \in ApprovalIds |-> IF a \in Legacy THEN "open" ELSE "none"]
  BY <1>2 DEF phases, Phase, Open
<1>4. attempted \in [ApprovalIds -> SUBSET (Requests \cup {OldRequest})]
  BY <1>1 DEF attempted, LifecycleInv, TypeOK, Records
<1>5. \A a \in ApprovalIds : attempted[a] # {} => a \in Legacy
  BY <1>1, <1>2 DEF attempted, LifecycleInv, DecisionMatchesStatus
<1>6. verdicts = [a \in ApprovalIds |-> "none"]
  <2>1. \A a \in ApprovalIds : \A d \in decisions[a] : d.failed
    BY <1>1, <1>2 DEF LifecycleInv, DecisionMatchesStatus
  <2>2. \A a \in ApprovalIds : verdicts[a] = "none"
    BY <2>1, NoVerdictYet
  <2> QED
    BY <2>2 DEF verdicts
<1>7. Legacy \in SUBSET ApprovalIds
  BY Settings
<1> QED
  BY <1>3, <1>4, <1>5, <1>6, <1>7 DEF Contract!ContractInit, phases, attempted, verdicts

\* The handlers, jobs and rollbacks implement the abstract lifecycle.
THEOREM ContractTheorem == Spec => KeepsContract
<1>1. LifecycleInv /\ LifecycleInv' /\ [Next]_vars => [Contract!ContractNext]_(Contract!contract)
  <2> SUFFICES ASSUME LifecycleInv, TypeOK, TypeOK', RowEffect
               PROVE  [Contract!ContractNext]_(Contract!contract)
    BY StepEffect DEF LifecycleInv
  <2>1. CASE Untouched
    <3>1. phases' = phases /\ attempted' = attempted /\ verdicts' = verdicts
      BY <2>1 DEF Untouched, phases, Phase, attempted, verdicts, Accepted
    <3> QED
      BY <3>1 DEF Contract!contract, phases, attempted, verdicts
  <2>2. ASSUME NEW a \in ApprovalIds, Asked(a) PROVE Contract!ContractNext
    BY <2>2, AskedMaps DEF Contract!ContractNext
  <2>3. ASSUME NEW a \in ApprovalIds, Expired(a) PROVE Contract!ContractNext
    BY <2>3, ExpiredMaps DEF Contract!ContractNext
  <2>4. ASSUME NEW a \in ApprovalIds, NEW d \in Records, Answered(a, d)
        PROVE  Contract!ContractNext
    BY <2>4, AnsweredMaps DEF Contract!ContractNext
  <2>5. CASE Purged(purging)
    BY <2>5, PurgedMaps DEF Contract!ContractNext
  <2> QED
    BY <2>1, <2>2, <2>3, <2>4, <2>5 DEF RowEffect
<1> QED
  BY <1>1, InitMaps, Lifecycle, PTL DEF Spec, KeepsContract, Contract!ContractSpec
-----------------------------------------------------------------------------
(***************************************************************************)
(* What was said, told and stored: the request that moves, and what others *)
(* find of the rows, the sink and the origin afterwards                    *)
(***************************************************************************)

\* A step moves one request at most; a rollback ends it where it stands.
Rests(q) == pc'[q] = pc[q] /\ tx'[q] = tx[q]
RolledBack(q) == pc'[q] = "done" /\ tx'[q] = tx[q]
LEMMA HandleMoves ==
  ASSUME LifecycleInv, NEW r \in Requests, Handle(r), NEW q \in Requests \ {r}
  PROVE  Rests(q)
<1>1. pc \in [Requests -> Labels] /\ tx \in [Requests -> Transactions]
  BY DEF LifecycleInv, TypeOK
<1>2. \E l : Goto(r, l)
  BY Zenon DEF Handle, IngestReplay, IngestInsert, IngestRefuse, AppendRequested, CommitIngest, LockPresented,
     PresentedNoOp, AppendPresented, CommitPresented, Begin, RetryRead, LockDecide, DecideRefuse,
     AppendDecided, Resume, AppendResumed, CommitDecided, Cancel
<1>3. tx' = tx \/ \E t : Remember(r, t)
  BY Zenon DEF Handle, IngestReplay, IngestInsert, IngestRefuse, AppendRequested, CommitIngest, LockPresented,
     PresentedNoOp, AppendPresented, CommitPresented, Begin, RetryRead, LockDecide, DecideRefuse,
     AppendDecided, Resume, CallOrigin, AppendResumed, CommitDecided, Cancel
<1> QED
  BY <1>1, <1>2, <1>3 DEF Goto, Remember, Rests
LEMMA OneMoves ==
  ASSUME LifecycleInv, [Next]_vars, NEW q \in Requests
  PROVE  Rests(q) \/ Handle(q) \/ RolledBack(q)
<1>1. ASSUME NEW r \in Requests, Handle(r) PROVE Rests(q) \/ Handle(q)
  BY <1>1, HandleMoves
<1>2. ASSUME NEW r \in Requests, Crash(r) PROVE Rests(q) \/ RolledBack(q)
  BY <1>2 DEF Crash, Goto, Rests, RolledBack, LifecycleInv, TypeOK
<1>3. CASE \/ PurgeSelect \/ PurgeDelete \/ ConfigureSink
           \/ \E a \in ApprovalIds :
                ExpireOverdue(a) \/ FallDue(a) \/ GrowStale(a) \/ \E u \in Reviewers : RecordOpen(a, u)
  BY <1>3 DEF PurgeSelect, PurgeDelete, ConfigureSink, ExpireOverdue, FallDue, GrowStale, RecordOpen, Rests
<1>4. CASE UNCHANGED vars
  BY <1>4 DEF vars, Rests
<1> QED
  BY <1>1, <1>2, <1>3, <1>4, Zenon DEF Next

\* What is outside the database is never taken back.
OutsideGrows == \A a \in ApprovalIds : sink[a] \subseteq sink'[a] /\ origin[a] \subseteq origin'[a]
LEMMA OutsideKept == LifecycleInv /\ [Next]_vars => OutsideGrows
<1> SUFFICES ASSUME LifecycleInv, [Next]_vars PROVE OutsideGrows
  OBVIOUS
<1> USE DEF rows, outside
<1>1. sink \in [ApprovalIds -> SUBSET Events] /\ DOMAIN origin = ApprovalIds
  BY DEF LifecycleInv, TypeOK
<1>2. UNCHANGED outside => OutsideGrows
  BY DEF OutsideGrows
<1>3. ASSUME NEW r \in Requests, AppendRequested(r) \/ AppendPresented(r) \/ AppendDecided(r) \/ AppendResumed(r)
      PROVE  OutsideGrows
  <2>1. origin' = origin /\ \E a, ev, result : SinkAppend(a, ev, result)
    BY <1>3, Zenon DEF AppendRequested, AppendPresented, AppendDecided, AppendResumed
  <2> QED
    BY <1>1, <2>1 DEF SinkAppend, OutsideGrows
<1>4. ASSUME NEW r \in Requests, Resume(r) PROVE OutsideGrows
  <2>1. sink' = sink /\ (origin' = origin \/ Tell(r, tx[r].target))
    BY <1>4 DEF Resume, CallOrigin
  <2> QED
    BY <1>1, <2>1 DEF Tell, OutsideGrows
<1>5. ASSUME NEW r \in Requests,
             \/ IngestReplay(r) \/ IngestInsert(r) \/ IngestRefuse(r) \/ CommitIngest(r)
             \/ LockPresented(r) \/ PresentedNoOp(r) \/ CommitPresented(r) \/ Begin(r)
             \/ RetryRead(r) \/ LockDecide(r) \/ DecideRefuse(r) \/ CommitDecided(r) \/ Cancel(r) \/ Crash(r)
      PROVE  OutsideGrows
  BY <1>2, <1>5 DEF IngestReplay, IngestInsert, IngestRefuse, CommitIngest, LockPresented, PresentedNoOp,
     CommitPresented, Begin, RetryRead, LockDecide, DecideRefuse, CommitDecided, Cancel, Crash, OwnStep
<1>6. CASE \/ PurgeSelect \/ PurgeDelete \/ ConfigureSink
           \/ \E a \in ApprovalIds :
                ExpireOverdue(a) \/ FallDue(a) \/ GrowStale(a) \/ \E u \in Reviewers : RecordOpen(a, u)
  BY <1>2, <1>6 DEF PurgeSelect, PurgeDelete, ConfigureSink, ExpireOverdue, FallDue, GrowStale, RecordOpen
<1>7. CASE UNCHANGED vars
  BY <1>2, <1>7 DEF vars
<1> QED
  BY <1>3, <1>4, <1>5, <1>6, <1>7, Zenon DEF Next, Handle

\* What a step may add to the records of a row: the answer of a request that
\* commits, or a cancellation. Else they are kept, or purged with their row.
Commits(r, a, d) ==
  /\ pc[r] = "commit_decided" /\ tx[r].target = a
  /\ d.req = r /\ d.answer = tx[r].answer /\ d.reviewer = tx[r].reviewer
  /\ d.failed <=> tx[r].outcome = "failed_resume"
  /\ status'[a] = tx[r].outcome
RecordEffect(a) ==
  \/ decisions'[a] = {} /\ status'[a] = "purged"
  \/ decisions'[a] = decisions[a] /\ (status'[a] = "decided" => status[a] = "decided")
  \/ \E r \in Requests, d \in Records : decisions'[a] = decisions[a] \cup {d} /\ Commits(r, a, d)
  \/ \E r \in Cancels, d \in Records :
       decisions'[a] = decisions[a] \cup {d} /\ d.req = r /\ status'[a] = "cancelled"
LEMMA CommitRecords ==
  ASSUME LifecycleInv, NEW r \in Requests, CommitDecided(r), NEW a \in ApprovalIds
  PROVE  RecordEffect(a)
<1> DEFINE d == [req |-> r, answer |-> tx[r].answer, reviewer |-> tx[r].reviewer,
                 at |-> tx[r].started, failed |-> tx[r].outcome = "failed_resume"]
<1>1. /\ TypeOK /\ tx[r] \in Transactions /\ pc[r] = "commit_decided" /\ tx[r].target \in ApprovalIds
  BY DEF LifecycleInv, TypeOK, RequestsEquipped, Equipped, CommitDecided, Locked, Deciding
<1>2. r \notin Presents
  BY <1>1, KindsDisjoint DEF LifecycleInv, RequestsEquipped, Equipped, Deciding
<1>3. tx[r].reviewer \in Reviewers /\ tx[r].answer \in Answers
  BY <1>1, <1>2 DEF LifecycleInv, RequestsEquipped, Equipped, Deciding
<1>4. tx[r].started \in Nat /\ tx[r].outcome \in {"decided", "failed_resume"}
  BY <1>1, FieldTypes
<1>5. d \in Records /\ d.req = r /\ d.answer = tx[r].answer /\ d.reviewer = tx[r].reviewer
  BY <1>3, <1>4 DEF Records
<1>6. d.failed <=> tx[r].outcome = "failed_resume"
  OBVIOUS
<1> HIDE DEF d
<1>7. /\ decisions' = [decisions EXCEPT ![tx[r].target] = @ \cup {d}]
      /\ status' = [status EXCEPT ![tx[r].target] = tx[r].outcome]
  BY DEF CommitDecided, RecordDecision, d
<1>8. CASE a = tx[r].target
  <2>1. decisions'[a] = decisions[a] \cup {d} /\ status'[a] = tx[r].outcome
    BY <1>1, <1>7, <1>8 DEF TypeOK
  <2>2. Commits(r, a, d)
    BY <1>1, <1>5, <1>6, <1>8, <2>1 DEF Commits
  <2> QED
    BY <1>5, <2>1, <2>2 DEF RecordEffect
<1>9. CASE a # tx[r].target
  <2>1. decisions'[a] = decisions[a] /\ status'[a] = status[a]
    BY <1>1, <1>7, <1>9 DEF TypeOK
  <2> QED
    BY <2>1 DEF RecordEffect
<1> QED
  BY <1>8, <1>9
LEMMA CancelRecords ==
  ASSUME LifecycleInv, NEW r \in Requests, Cancel(r), NEW a \in ApprovalIds
  PROVE  RecordEffect(a)
<1> DEFINE d == [req |-> r, answer |-> "cancel", reviewer |-> tx[r].reviewer,
                 at |-> tx[r].started, failed |-> FALSE]
<1>1. /\ TypeOK /\ tx[r] \in Transactions /\ tx[r].reviewer \in Reviewers /\ r \in Cancels
      /\ tx[r].target \in ApprovalIds
  BY DEF LifecycleInv, TypeOK, RequestsEquipped, Equipped, Cancel
<1>2. d \in Records /\ d.req = r
  BY <1>1, FieldTypes DEF Records
<1> HIDE DEF d
<1>3. \/ UNCHANGED <<decisions, status>>
      \/ /\ decisions' = [decisions EXCEPT ![tx[r].target] = @ \cup {d}]
         /\ status' = [status EXCEPT ![tx[r].target] = "cancelled"]
  BY Zenon DEF Cancel, RecordDecision, d
<1> QED
  BY <1>1, <1>2, <1>3 DEF RecordEffect, TypeOK
LEMMA StepRecords ==
  ASSUME LifecycleInv, [Next]_vars, NEW a \in ApprovalIds
  PROVE  RecordEffect(a)
<1> USE DEF rows
<1>1. TypeOK
  BY DEF LifecycleInv
<1>2. decisions' = decisions /\ status' = status => RecordEffect(a)
  BY DEF RecordEffect
<1>3. ASSUME NEW r \in Requests, CommitIngest(r) \/ DecideRefuse(r) PROVE RecordEffect(a)
  BY <1>1, <1>3 DEF CommitIngest, DecideRefuse, RecordEffect, TypeOK
<1>4. ASSUME NEW r \in Requests,
             \/ IngestReplay(r) \/ IngestInsert(r) \/ IngestRefuse(r) \/ LockPresented(r)
             \/ PresentedNoOp(r) \/ RetryRead(r) \/ LockDecide(r)
             \/ AppendRequested(r) \/ AppendPresented(r) \/ CommitPresented(r) \/ Begin(r)
             \/ AppendDecided(r) \/ Resume(r) \/ AppendResumed(r) \/ Crash(r)
      PROVE  RecordEffect(a)
  BY <1>2, <1>4 DEF IngestReplay, IngestInsert, IngestRefuse, LockPresented, PresentedNoOp,
     RetryRead, LockDecide, OwnStep, AppendRequested, AppendPresented, CommitPresented, Begin, AppendDecided,
     Resume, AppendResumed, Crash
<1>5. ASSUME NEW b \in ApprovalIds, ExpireOverdue(b) PROVE RecordEffect(a)
  BY <1>1, <1>5 DEF ExpireOverdue, RecordEffect, TypeOK
<1>6. CASE PurgeDelete
  BY <1>1, <1>6 DEF PurgeDelete, RecordEffect
<1>7. CASE \/ PurgeSelect \/ ConfigureSink
           \/ \E b \in ApprovalIds : FallDue(b) \/ GrowStale(b) \/ \E u \in Reviewers : RecordOpen(b, u)
  BY <1>2, <1>7 DEF PurgeSelect, ConfigureSink, FallDue, GrowStale, RecordOpen
<1>8. CASE UNCHANGED vars
  BY <1>2, <1>8 DEF vars
<1> QED
  BY <1>3, <1>4, <1>5, <1>6, <1>7, <1>8, CommitRecords, CancelRecords, Zenon DEF Next, Handle
-----------------------------------------------------------------------------
(***************************************************************************)
(* Whose answer a retry replays, what the origin was told, and what the    *)
(* evidence sink holds by then                                             *)
(***************************************************************************)

\* From its read on, a retry carries an answer some person gave and whose
\* resume failed, or its row is gone.
Carrying == {"lock"} \cup Deciding \cup Marking
Replayable(a, answer, reviewer) ==
  \/ status[a] = "purged"
  \/ \E e \in decisions[a] :
       e.req \notin Retries /\ e.failed /\ e.answer = answer /\ e.reviewer = reviewer
CarriesAnswer(q) ==
  q \in Retries /\ pc[q] \in Carrying =>
    Replayable(tx[q].target, tx[q].answer, tx[q].reviewer)

\* What decideApproval counts as a successful resume reached the origin.
ToldOrigin(q) ==
  pc[q] \in {"append_resumed", "commit_decided"} /\ tx[q].outcome = "decided" =>
    tx[q].answer = "ignore" \/ [req |-> q, answer |-> tx[q].answer] \in origin[tx[q].target]

\* Nobody is about to call the origin whose `decided` event is not stored.
ToldSink(q) == pc[q] = "resume" => \E e \in sink[tx[q].target] : e.req = q /\ e.type = "decided"

RepliesInv ==
  /\ RetryKeepsDecider /\ SettledMeansTold
  /\ \A q \in Requests : CarriesAnswer(q) /\ ToldOrigin(q)
EvidenceInv ==
  /\ SinkModes = {TRUE} => sinkOn
  /\ SinkModes = {TRUE} => ResumeOnlyAfterEvidence /\ \A q \in Requests : ToldSink(q)

LEMMA ReplayableStays ==
  ASSUME LifecycleInv, [Next]_vars, NEW a \in ApprovalIds, NEW answer, NEW reviewer,
         Replayable(a, answer, reviewer)
  PROVE  Replayable(a, answer, reviewer)'
<1>1. CASE status[a] = "purged"
  <2>1. status \in [ApprovalIds -> Statuses] /\ RowEffect
    BY StepEffect DEF LifecycleInv, TypeOK
  <2>2. status'[a] = "purged"
    BY <1>1, <2>1 DEF RowEffect, Untouched, Asked, Expired, Answered, Purged, Open, Closed
  <2> QED
    BY <2>2 DEF Replayable
<1>2. CASE \E e \in decisions[a] :
             e.req \notin Retries /\ e.failed /\ e.answer = answer /\ e.reviewer = reviewer
  <2>1. RecordEffect(a)
    BY StepRecords
  <2>2. status'[a] = "purged" \/ decisions[a] \subseteq decisions'[a]
    BY <2>1, Zenon DEF RecordEffect
  <2> QED
    BY <1>2, <2>2 DEF Replayable
<1> QED
  BY <1>1, <1>2 DEF Replayable

\* What the handlers that keep a decision do with their record.
SameAnswer(q) ==
  tx'[q].target = tx[q].target /\ tx'[q].answer = tx[q].answer /\ tx'[q].reviewer = tx[q].reviewer
LEMMA SameFields ==
  ASSUME NEW t \in Transactions, NEW u,
         \/ \E e, s : u = [t EXCEPT !.latest = e, !.shown = s]
         \/ \E e, s : u = [t EXCEPT !.staged = s, !.latest = e]
         \/ \E s : u = [t EXCEPT !.staged = s]
         \/ \E o : u = [t EXCEPT !.outcome = o]
  PROVE  u.target = t.target /\ u.answer = t.answer /\ u.reviewer = t.reviewer
<1>1. DOMAIN t = {"target", "key", "answer", "reviewer", "started", "latest", "shown", "staged", "outcome"}
  BY DEF Transactions
<1> QED
  BY <1>1
LEMMA SameAnswerStep ==
  ASSUME TypeOK, NEW q \in Requests,
         \/ \E e, s : Remember(q, [tx[q] EXCEPT !.latest = e, !.shown = s])
         \/ \E e, s : Remember(q, [tx[q] EXCEPT !.staged = s, !.latest = e])
         \/ \E s : Remember(q, [tx[q] EXCEPT !.staged = s])
         \/ \E o : Remember(q, [tx[q] EXCEPT !.outcome = o])
  PROVE  SameAnswer(q)
<1>1. tx \in [Requests -> Transactions]
  BY DEF TypeOK
<1>2. ASSUME NEW t, Remember(q, t) PROVE tx'[q] = t
  BY <1>1, <1>2 DEF Remember
<1>3. \/ \E e, s : tx'[q] = [tx[q] EXCEPT !.latest = e, !.shown = s]
      \/ \E e, s : tx'[q] = [tx[q] EXCEPT !.staged = s, !.latest = e]
      \/ \E s : tx'[q] = [tx[q] EXCEPT !.staged = s]
      \/ \E o : tx'[q] = [tx[q] EXCEPT !.outcome = o]
  BY <1>2, Zenon
<1> QED
  BY <1>1, <1>3, SameFields, Zenon DEF SameAnswer

\* Where a retry's answer comes from.
LEMMA RetryCarries ==
  ASSUME LifecycleInv, NEW q \in Retries, Handle(q), pc'[q] \in Carrying
  PROVE  \/ pc[q] \in Carrying /\ SameAnswer(q)
         \/ /\ tx'[q].target = tx[q].target /\ tx[q].target \in ApprovalIds
            /\ status[tx[q].target] = "failed_resume"
            /\ \E d \in decisions[tx[q].target] :
                 tx'[q].answer = d.answer /\ tx'[q].reviewer = d.reviewer
<1>1. /\ TypeOK /\ pc \in [Requests -> Labels] /\ tx \in [Requests -> Transactions]
      /\ q \in Requests
  BY DEF LifecycleInv, TypeOK, Requests
<1>2. q \notin Ingests /\ q \notin Presents /\ q \notin Decides /\ q \notin Cancels
  BY KindsDisjoint
<1>3. ASSUME NEW l, Goto(q, l), l \notin Carrying PROVE FALSE
  BY <1>1, <1>3 DEF Goto
<1>4. "done" \notin Carrying /\ "read" \notin Carrying
  BY DEF Carrying, Deciding, Marking
<1>5. ~IngestReplay(q) /\ ~IngestInsert(q) /\ ~IngestRefuse(q) /\ ~LockPresented(q) /\ ~PresentedNoOp(q)
      /\ ~Cancel(q)
  BY <1>2, Zenon DEF IngestReplay, IngestInsert, IngestRefuse, LockPresented, PresentedNoOp, Cancel
<1>6. ~CommitIngest(q) /\ ~CommitPresented(q) /\ ~DecideRefuse(q) /\ ~CommitDecided(q)
  BY <1>3, <1>4, Zenon DEF CommitIngest, CommitPresented, DecideRefuse, CommitDecided
<1>7. ~AppendRequested(q)
  BY <1>1, <1>2 DEF AppendRequested, LifecycleInv, RequestsEquipped, Equipped, Creating, Locked
<1>8. ~Begin(q)
  BY <1>2, <1>3, <1>4, Zenon DEF Begin
<1>9. CASE RetryRead(q)
  <2>1. /\ status[tx[q].target] = "failed_resume" /\ pc[q] = "read"
        /\ \E d \in LatestDecisions(tx[q].target) : Remember(q, StoredDecision(tx[q], d))
    BY <1>3, <1>4, <1>9, Zenon DEF RetryRead
  <2>2. PICK d \in LatestDecisions(tx[q].target) : Remember(q, StoredDecision(tx[q], d))
    BY <2>1
  <2>3. /\ tx'[q].target = tx[q].target /\ tx'[q].answer = d.answer /\ tx'[q].reviewer = d.reviewer
    BY <1>1, <2>2 DEF Remember, StoredDecision, Transactions
  <2>4. d \in decisions[tx[q].target]
    BY <2>2 DEF LatestDecisions
  <2>5. tx[q].target \in ApprovalIds
    BY <1>1, <2>1 DEF LifecycleInv, RequestsEquipped, Equipped
  <2> QED
    BY <2>1, <2>3, <2>4, <2>5
<1>10. CASE LockDecide(q) \/ AppendPresented(q) \/ AppendDecided(q) \/ Resume(q) \/ AppendResumed(q)
  <2>1. pc[q] \in Carrying
    BY <1>10 DEF LockDecide, AppendPresented, AppendDecided, Resume, AppendResumed, Carrying, Deciding, Marking
  <2>2. \/ \E e, s : Remember(q, [tx[q] EXCEPT !.latest = e, !.shown = s])
        \/ \E e, s : Remember(q, [tx[q] EXCEPT !.staged = s, !.latest = e])
        \/ \E s : Remember(q, [tx[q] EXCEPT !.staged = s])
        \/ \E o : Remember(q, [tx[q] EXCEPT !.outcome = o])
    BY <1>10, Zenon DEF LockDecide, AppendPresented, AppendDecided, Resume, CallOrigin, AppendResumed
  <2> QED
    BY <1>1, <2>1, <2>2, SameAnswerStep
<1> QED
  BY <1>5, <1>6, <1>7, <1>8, <1>9, <1>10, Zenon DEF Handle
LEMMA CarriesAnswerStep ==
  ASSUME LifecycleInv, RetryKeepsDecider, [Next]_vars, NEW q \in Requests, CarriesAnswer(q)
  PROVE  CarriesAnswer(q)'
<1> SUFFICES ASSUME NEW a, NEW answer, NEW reviewer,
                    a = tx'[q].target, answer = tx'[q].answer, reviewer = tx'[q].reviewer,
                    q \in Retries, pc'[q] \in Carrying
             PROVE  Replayable(a, answer, reviewer)'
  BY DEF CarriesAnswer, Replayable
<1>1. CASE \/ pc[q] \in Carrying /\ SameAnswer(q)
  <2>1. Replayable(a, answer, reviewer) /\ tx[q].target \in ApprovalIds
    BY <1>1 DEF CarriesAnswer, SameAnswer, LifecycleInv, RequestsEquipped, Equipped, Carrying, Locked
  <2> QED
    BY <1>1, <2>1, ReplayableStays DEF SameAnswer
<1>2. CASE /\ a = tx[q].target /\ a \in ApprovalIds /\ status[a] = "failed_resume"
           /\ \E d \in decisions[a] : answer = d.answer /\ reviewer = d.reviewer
  <2>1. PICK d \in decisions[a] : d.failed /\ answer = d.answer /\ reviewer = d.reviewer
    BY <1>2 DEF LifecycleInv, DecisionMatchesStatus
  <2>2. Replayable(a, answer, reviewer)
    BY <1>2, <2>1 DEF RetryKeepsDecider, Replayable
  <2> QED
    BY <1>2, <2>2, ReplayableStays
<1>3. Rests(q) => pc[q] \in Carrying /\ SameAnswer(q)
  BY DEF Rests, SameAnswer
<1>4. ~RolledBack(q)
  BY DEF RolledBack, Carrying, Deciding, Marking
<1> QED
  BY <1>1, <1>2, <1>3, <1>4, OneMoves, RetryCarries, Zenon

LEMMA StagedFields ==
  ASSUME TypeOK, NEW q \in Requests, NEW s, Remember(q, [tx[q] EXCEPT !.staged = s])
  PROVE  SameAnswer(q) /\ tx'[q].outcome = tx[q].outcome /\ tx'[q].latest = tx[q].latest
         /\ tx'[q].shown = tx[q].shown /\ tx'[q].staged = s
<1>1. tx \in [Requests -> Transactions] /\ SameAnswer(q)
  BY SameAnswerStep, Zenon DEF TypeOK
<1>2. ASSUME NEW t \in Transactions, NEW u, u = [t EXCEPT !.staged = s]
      PROVE  u.outcome = t.outcome /\ u.latest = t.latest /\ u.shown = t.shown /\ u.staged = s
  BY <1>2 DEF Transactions
<1>3. tx'[q] = [tx[q] EXCEPT !.staged = s] /\ tx[q] \in Transactions
  BY <1>1 DEF Remember
<1> QED
  BY <1>1, <1>2, <1>3, Zenon
LEMMA OutcomeFields ==
  ASSUME TypeOK, NEW q \in Requests, NEW o, Remember(q, [tx[q] EXCEPT !.outcome = o])
  PROVE  SameAnswer(q) /\ tx'[q].outcome = o /\ tx'[q].latest = tx[q].latest
         /\ tx'[q].shown = tx[q].shown /\ tx'[q].staged = tx[q].staged
<1>1. tx \in [Requests -> Transactions] /\ SameAnswer(q)
  BY SameAnswerStep, Zenon DEF TypeOK
<1>2. ASSUME NEW t \in Transactions, NEW u, u = [t EXCEPT !.outcome = o]
      PROVE  u.outcome = o /\ u.latest = t.latest /\ u.shown = t.shown /\ u.staged = t.staged
  BY <1>2 DEF Transactions
<1>3. tx'[q] = [tx[q] EXCEPT !.outcome = o] /\ tx[q] \in Transactions
  BY <1>1 DEF Remember
<1> QED
  BY <1>1, <1>2, <1>3, Zenon

\* A handler reaches a place only from the one before it.
LEMMA Arrives ==
  ASSUME TypeOK, NEW q \in Requests, Handle(q)
  PROVE  /\ pc'[q] = "resume" => AppendDecided(q)
         /\ pc'[q] = "append_resumed" => Resume(q)
         /\ pc'[q] = "commit_decided" => AppendResumed(q) \/ AppendDecided(q)
         /\ pc'[q] = "append_decided" => LockDecide(q) \/ AppendPresented(q)
         /\ pc'[q] = "append_presented" => LockDecide(q) \/ LockPresented(q)
         /\ pc'[q] = "commit_presented" => AppendPresented(q) \/ AppendDecided(q)
         /\ pc'[q] = "commit_ingest" => AppendRequested(q)
         /\ pc'[q] = "append_requested" => IngestInsert(q)
<1>1. pc \in [Requests -> Labels]
  BY DEF TypeOK
<1>2. ASSUME NEW l, Goto(q, l) PROVE pc'[q] = l
  BY <1>1, <1>2 DEF Goto
<1>3. \/ IngestReplay(q) \/ IngestRefuse(q) \/ CommitIngest(q) \/ PresentedNoOp(q)
      \/ CommitPresented(q) \/ Begin(q) \/ RetryRead(q) \/ DecideRefuse(q)
      \/ CommitDecided(q) \/ Cancel(q)
      => pc'[q] \in {"done", "lock", "read"}
  <2>1. \/ IngestReplay(q) \/ IngestRefuse(q) \/ CommitIngest(q) \/ PresentedNoOp(q)
        \/ CommitPresented(q) \/ Begin(q) \/ RetryRead(q) \/ DecideRefuse(q)
        \/ CommitDecided(q) \/ Cancel(q)
        => Goto(q, "done") \/ Goto(q, "lock") \/ Goto(q, "read")
    BY Zenon DEF IngestReplay, IngestRefuse, CommitIngest, PresentedNoOp, CommitPresented, Begin, RetryRead,
       DecideRefuse, CommitDecided, Cancel
  <2> QED
    BY <1>2, <2>1
<1>4. /\ IngestInsert(q) => pc'[q] = "append_requested"
      /\ AppendRequested(q) => pc'[q] = "commit_ingest"
      /\ LockPresented(q) => pc'[q] = "append_presented"
      /\ Resume(q) => pc'[q] = "append_resumed"
      /\ AppendResumed(q) => pc'[q] = "commit_decided"
  BY <1>2 DEF IngestInsert, AppendRequested, LockPresented, Resume, AppendResumed
<1>5. AppendPresented(q) => pc'[q] \in {"commit_presented", "append_decided"}
  BY <1>2 DEF AppendPresented
<1>6. LockDecide(q) => pc'[q] \in {"append_presented", "append_decided"}
  BY <1>2 DEF LockDecide
<1>7. AppendDecided(q) => pc'[q] \in {"commit_presented", "commit_decided", "resume"}
  BY <1>2 DEF AppendDecided, AfterDecided
<1> QED
  BY <1>3, <1>4, <1>5, <1>6, <1>7 DEF Handle

LEMMA ToldOriginStep ==
  ASSUME LifecycleInv, [Next]_vars, NEW q \in Requests, ToldOrigin(q)
  PROVE  ToldOrigin(q)'
<1> SUFFICES ASSUME pc'[q] \in {"append_resumed", "commit_decided"}, tx'[q].outcome = "decided"
             PROVE  tx'[q].answer = "ignore"
                    \/ [req |-> q, answer |-> tx'[q].answer] \in origin'[tx'[q].target]
  BY DEF ToldOrigin
<1>1. /\ TypeOK /\ pc \in [Requests -> Labels] /\ OutsideGrows
      /\ DOMAIN origin = ApprovalIds
  BY OutsideKept DEF LifecycleInv, TypeOK
<1>2. pc[q] \in Locked => tx[q].target \in ApprovalIds
  BY DEF LifecycleInv, RequestsEquipped, Equipped
<1>3. CASE /\ pc[q] \in {"append_resumed", "commit_decided"}
           /\ SameAnswer(q) /\ tx'[q].outcome = tx[q].outcome
  BY <1>1, <1>2, <1>3 DEF ToldOrigin, SameAnswer, OutsideGrows, Locked, Deciding
<1>4. CASE AppendDecided(q)
  <2>1. \E s : Remember(q, [tx[q] EXCEPT !.staged = s])
    BY <1>4, Zenon DEF AppendDecided
  <2>2. SameAnswer(q)
    BY <1>1, <2>1, SameAnswerStep
  <2>3. \E result : pc'[q] = AfterDecided(q, result)
    BY <1>1, <1>4 DEF AppendDecided, Goto
  <2> QED
    BY <2>2, <2>3 DEF SameAnswer, AfterDecided
<1>5. CASE Resume(q)
  <2>1. PICK o : /\ Remember(q, [tx[q] EXCEPT !.outcome = o])
                 /\ o = "decided" => Tell(q, tx[q].target)
    BY <1>5 DEF Resume, CallOrigin
  <2>2. SameAnswer(q) /\ Tell(q, tx[q].target)
    BY <1>1, <2>1, OutcomeFields
  <2>3. tx[q].target \in ApprovalIds
    BY <1>2, <1>5 DEF Resume, Locked, Deciding
  <2> QED
    BY <1>1, <2>2, <2>3 DEF Tell, SameAnswer
<1>6. CASE AppendResumed(q)
  <2>1. \E s : Remember(q, [tx[q] EXCEPT !.staged = s])
    BY <1>6, Zenon DEF AppendResumed
  <2> QED
    BY <1>1, <1>3, <1>6, <2>1, StagedFields DEF AppendResumed
<1>7. CASE Rests(q)
  BY <1>3, <1>7 DEF Rests, SameAnswer
<1>8. ~RolledBack(q)
  BY DEF RolledBack
<1> QED
  BY <1>1, <1>4, <1>5, <1>6, <1>7, <1>8, OneMoves, Arrives

LEMMA ToldSinkStep ==
  ASSUME LifecycleInv, sinkOn, [Next]_vars, NEW q \in Requests, ToldSink(q)
  PROVE  ToldSink(q)'
<1> SUFFICES ASSUME pc'[q] = "resume"
             PROVE  \E e \in sink'[tx'[q].target] : e.req = q /\ e.type = "decided"
  BY DEF ToldSink
<1>1. TypeOK /\ pc \in [Requests -> Labels] /\ OutsideGrows /\ DOMAIN sink = ApprovalIds
  BY OutsideKept DEF LifecycleInv, TypeOK
<1>2. pc[q] \in Locked => tx[q].target \in ApprovalIds
  BY DEF LifecycleInv, RequestsEquipped, Equipped
<1>3. CASE Rests(q)
  BY <1>1, <1>2, <1>3 DEF ToldSink, Rests, OutsideGrows, Locked, Deciding
<1>4. CASE AppendDecided(q)
  <2> DEFINE ev == Event(q, "decided", tx[q].latest.seq + 1, Ref(tx[q].latest))
  <2>1. PICK result : /\ SinkAppend(tx[q].target, ev, result)
                      /\ Remember(q, [tx[q] EXCEPT !.staged = Stage(q, ev, result)])
                      /\ Goto(q, AfterDecided(q, result))
    BY <1>4, Zenon DEF AppendDecided
  <2>2. result # "error"
    BY <1>1, <2>1 DEF AfterDecided, Goto
  <2>3. ev.req = q /\ ev.type = "decided"
    BY DEF Event
  <2>4. tx[q].target \in ApprovalIds
    BY <1>2, <1>4 DEF AppendDecided, Locked, Deciding
  <2> HIDE DEF ev
  <2>5. ev \in sink'[tx[q].target]
    BY <1>1, <2>1, <2>2, <2>4 DEF SinkAppend
  <2>6. \E s : Remember(q, [tx[q] EXCEPT !.staged = s])
    BY <2>1
  <2>7. SameAnswer(q)
    BY <1>1, <2>6, SameAnswerStep
  <2> QED
    BY <2>3, <2>5, <2>7 DEF SameAnswer
<1>5. ~RolledBack(q)
  BY DEF RolledBack
<1> QED
  BY <1>1, <1>3, <1>4, <1>5, OneMoves, Arrives

\* What the origin is told, and by whom.
LEMMA OriginEffect ==
  ASSUME LifecycleInv, [Next]_vars, NEW a \in ApprovalIds, NEW o \in origin'[a]
  PROVE  o \in origin[a] \/ \E q \in Requests : pc[q] = "resume" /\ tx[q].target = a /\ o.req = q
<1> USE DEF rows, outside
<1>1. DOMAIN origin = ApprovalIds
  BY DEF LifecycleInv, TypeOK
<1>2. CASE origin' = origin
  BY <1>2
<1>3. ASSUME NEW r \in Requests, Resume(r)
      PROVE  o \in origin[a] \/ \E q \in Requests : pc[q] = "resume" /\ tx[q].target = a /\ o.req = q
  <2>1. pc[r] = "resume" /\ (origin' = origin \/ Tell(r, tx[r].target))
    BY <1>3 DEF Resume, CallOrigin
  <2>2. CASE Tell(r, tx[r].target)
    <3>1. o \in origin[a] \/ (a = tx[r].target /\ o = [req |-> r, answer |-> tx[r].answer])
      BY <1>1, <2>2 DEF Tell
    <3> QED
      BY <2>1, <3>1
  <2> QED
    BY <1>2, <2>1, <2>2
<1>4. ASSUME NEW r \in Requests,
             \/ IngestReplay(r) \/ IngestInsert(r) \/ IngestRefuse(r) \/ CommitIngest(r)
             \/ LockPresented(r) \/ PresentedNoOp(r) \/ CommitPresented(r) \/ Begin(r)
             \/ RetryRead(r) \/ LockDecide(r) \/ DecideRefuse(r) \/ CommitDecided(r) \/ Cancel(r) \/ Crash(r)
             \/ AppendRequested(r) \/ AppendPresented(r) \/ AppendDecided(r) \/ AppendResumed(r)
      PROVE  origin' = origin
  BY <1>4 DEF IngestReplay, IngestInsert, IngestRefuse, CommitIngest, LockPresented, PresentedNoOp,
     CommitPresented, Begin, RetryRead, LockDecide, DecideRefuse, CommitDecided, Cancel, Crash, OwnStep,
     AppendRequested, AppendPresented, AppendDecided, AppendResumed
<1>5. CASE \/ PurgeSelect \/ PurgeDelete \/ ConfigureSink
           \/ \E b \in ApprovalIds :
                ExpireOverdue(b) \/ FallDue(b) \/ GrowStale(b) \/ \E u \in Reviewers : RecordOpen(b, u)
  BY <1>2, <1>5 DEF PurgeSelect, PurgeDelete, ConfigureSink, ExpireOverdue, FallDue, GrowStale, RecordOpen
<1>6. CASE UNCHANGED vars
  BY <1>2, <1>6 DEF vars
<1> QED
  BY <1>2, <1>3, <1>4, <1>5, <1>6, Zenon DEF Next, Handle

\* The project's sink setting changes only through ConfigureSink.
LEMMA SinkSetting ==
  ASSUME [Next]_vars, sinkOn \in SinkModes
  PROVE  sinkOn' \in SinkModes
<1>1. ASSUME NEW r \in Requests, Handle(r) \/ Crash(r)
      PROVE  sinkOn' = sinkOn
  <2>1. OwnStep => sinkOn' = sinkOn
    BY DEF OwnStep
  <2>2. CASE \/ IngestReplay(r) \/ IngestInsert(r) \/ IngestRefuse(r) \/ CommitIngest(r)
             \/ LockPresented(r) \/ PresentedNoOp(r) \/ CommitPresented(r) \/ Begin(r)
             \/ RetryRead(r) \/ LockDecide(r) \/ DecideRefuse(r)
    BY <2>1, <2>2 DEF IngestReplay, IngestInsert, IngestRefuse, CommitIngest, LockPresented, PresentedNoOp,
       CommitPresented, Begin, RetryRead, LockDecide, DecideRefuse
  <2>3. CASE \/ AppendRequested(r) \/ AppendPresented(r) \/ AppendDecided(r) \/ AppendResumed(r)
             \/ Resume(r) \/ CommitDecided(r) \/ Cancel(r) \/ Crash(r)
    BY <2>1, <2>3 DEF AppendRequested, AppendPresented, AppendDecided, AppendResumed, Resume,
       CommitDecided, Cancel, Crash
  <2>4. QED
    BY <1>1, <2>2, <2>3, Zenon DEF Handle
<1>2. CASE \/ PurgeSelect \/ PurgeDelete
           \/ \E b \in ApprovalIds :
                ExpireOverdue(b) \/ FallDue(b) \/ GrowStale(b) \/ \E u \in Reviewers : RecordOpen(b, u)
  BY <1>2 DEF PurgeSelect, PurgeDelete, ExpireOverdue, FallDue, GrowStale, RecordOpen
<1>3. CASE ConfigureSink
  BY <1>3 DEF ConfigureSink
<1>4. CASE UNCHANGED vars
  BY <1>4 DEF vars
<1> QED
  BY <1>1, <1>2, <1>3, <1>4, Zenon DEF Next

LEMMA RepliesInitially == Init => RepliesInv /\ EvidenceInv
<1> SUFFICES ASSUME Init PROVE RepliesInv /\ EvidenceInv
  OBVIOUS
<1>1. /\ status = [a \in ApprovalIds |-> IF a \in Legacy THEN "failed_resume" ELSE "none"]
      /\ origin = [a \in ApprovalIds |-> {}] /\ pc = [r \in Requests |-> "idle"]
      /\ sinkOn \in SinkModes
  BY DEF Init
<1>2. \A a \in ApprovalIds : \A d \in decisions[a] : d.req = OldRequest
  BY DEF Init
<1>3. OldRequest \notin Retries
  BY NullsDistinct DEF Requests
<1>4. RetryKeepsDecider /\ SettledMeansTold /\ ResumeOnlyAfterEvidence
  BY <1>1, <1>2, <1>3 DEF RetryKeepsDecider, SettledMeansTold, ResumeOnlyAfterEvidence
<1>5. ASSUME NEW q \in Requests PROVE CarriesAnswer(q) /\ ToldOrigin(q) /\ ToldSink(q)
  BY <1>1 DEF CarriesAnswer, ToldOrigin, ToldSink, Carrying, Deciding, Marking
<1>6. SinkModes = {TRUE} => sinkOn
  <2>1. SinkModes = {TRUE} => sinkOn = TRUE
    BY <1>1
  <2> QED
    BY <2>1
<1> QED
  BY <1>4, <1>5, <1>6 DEF RepliesInv, EvidenceInv

LEMMA DeciderStep ==
  ASSUME LifecycleInv, RepliesInv, [Next]_vars
  PROVE  RetryKeepsDecider'
<1> SUFFICES ASSUME NEW a \in ApprovalIds, NEW d \in decisions'[a], d.req \in Retries
             PROVE  \E e \in decisions'[a] :
                      e.req \notin Retries /\ e.failed /\ e.answer = d.answer /\ e.reviewer = d.reviewer
  BY DEF RetryKeepsDecider
<1>1. RecordEffect(a)
  BY StepRecords
<1>2. CASE d \in decisions[a] /\ decisions[a] \subseteq decisions'[a]
  BY <1>2 DEF RepliesInv, RetryKeepsDecider
<1>3. ASSUME NEW r \in Requests, decisions[a] \subseteq decisions'[a], Commits(r, a, d)
      PROVE  \E e \in decisions'[a] :
               e.req \notin Retries /\ e.failed /\ e.answer = d.answer /\ e.reviewer = d.reviewer
  <2>1. CarriesAnswer(r) /\ r \in Retries /\ pc[r] = "commit_decided" /\ tx[r].target = a
    BY <1>3 DEF RepliesInv, Commits
  <2>2. status[a] \in Open
    BY <2>1 DEF LifecycleInv, SnapshotHolds, Current, Locked, Deciding
  <2>3. Replayable(a, d.answer, d.reviewer)
    BY <1>3, <2>1 DEF CarriesAnswer, Carrying, Deciding, Commits
  <2> QED
    BY <1>3, <2>2, <2>3 DEF Replayable, Open
<1>4. ASSUME NEW r \in Cancels PROVE r \notin Retries
  BY KindsDisjoint
<1> QED
  BY <1>1, <1>2, <1>3, <1>4 DEF RecordEffect

LEMMA ToldStep ==
  ASSUME LifecycleInv, RepliesInv, [Next]_vars
  PROVE  SettledMeansTold'
<1> SUFFICES ASSUME NEW a \in ApprovalIds, status'[a] = "decided"
             PROVE  \E d \in decisions'[a] :
                      /\ ~d.failed
                      /\ d.answer = "ignore" \/ [req |-> d.req, answer |-> d.answer] \in origin'[a]
  BY DEF SettledMeansTold
<1>1. RecordEffect(a) /\ OutsideGrows
  BY StepRecords, OutsideKept
<1>2. CASE decisions'[a] = decisions[a] /\ status[a] = "decided"
  BY <1>1, <1>2 DEF RepliesInv, SettledMeansTold, OutsideGrows
<1>3. ASSUME NEW r \in Requests, NEW d \in decisions'[a], Commits(r, a, d)
      PROVE  /\ ~d.failed
             /\ d.answer = "ignore" \/ [req |-> d.req, answer |-> d.answer] \in origin'[a]
  <2>1. /\ ToldOrigin(r) /\ pc[r] = "commit_decided" /\ tx[r].target = a /\ tx[r].outcome = "decided"
        /\ d.answer = tx[r].answer /\ d.req = r
    BY <1>3 DEF RepliesInv, Commits
  <2>2. ~d.failed
    BY <1>3, <2>1 DEF Commits
  <2>3. tx[r].answer = "ignore" \/ [req |-> r, answer |-> tx[r].answer] \in origin[a]
    BY <2>1 DEF ToldOrigin
  <2> QED
    BY <1>1, <2>1, <2>2, <2>3 DEF OutsideGrows
<1> QED
  BY <1>1, <1>2, <1>3 DEF RecordEffect

LEMMA AfterEvidenceStep ==
  ASSUME LifecycleInv, ResumeOnlyAfterEvidence, \A q \in Requests : ToldSink(q), [Next]_vars
  PROVE  ResumeOnlyAfterEvidence'
<1> SUFFICES ASSUME NEW a \in ApprovalIds, NEW o \in origin'[a]
             PROVE  \E e \in sink'[a] : e.req = o.req /\ e.type = "decided"
  BY DEF ResumeOnlyAfterEvidence
<1>1. o \in origin[a] \/ \E q \in Requests : pc[q] = "resume" /\ tx[q].target = a /\ o.req = q
  BY OriginEffect
<1> QED
  BY <1>1, OutsideKept DEF ResumeOnlyAfterEvidence, ToldSink, OutsideGrows

LEMMA RepliesStep ==
  ASSUME LifecycleInv, RepliesInv, [Next]_vars
  PROVE  RepliesInv'
<1>1. ASSUME NEW q \in Requests PROVE CarriesAnswer(q)' /\ ToldOrigin(q)'
  BY CarriesAnswerStep, ToldOriginStep DEF RepliesInv
<1>2. RetryKeepsDecider' /\ SettledMeansTold'
  BY DeciderStep, ToldStep
<1> QED
  BY <1>1, <1>2 DEF RepliesInv

LEMMA EvidenceStep ==
  ASSUME LifecycleInv, EvidenceInv, [Next]_vars, SinkModes = {TRUE}
  PROVE  EvidenceInv'
<1>1. sinkOn \in SinkModes /\ sinkOn \in BOOLEAN
  BY DEF EvidenceInv, LifecycleInv, TypeOK
<1>2. sinkOn' = TRUE
  BY <1>1, SinkSetting
<1>3. ASSUME NEW q \in Requests PROVE ToldSink(q)'
  BY ToldSinkStep DEF EvidenceInv
<1>4. ResumeOnlyAfterEvidence'
  BY AfterEvidenceStep DEF EvidenceInv
<1> QED
  BY <1>2, <1>3, <1>4 DEF EvidenceInv

\* retryResume replays what a person decided: however retries, decisions and
\* cancellations interleave, a retry's record repeats a reviewer's failed one.
THEOREM RetryTheorem == Spec => []RetryKeepsDecider
<1>1. Init => RepliesInv
  BY RepliesInitially
<1>2. LifecycleInv /\ RepliesInv /\ [Next]_vars => RepliesInv'
  BY RepliesStep
<1>3. RepliesInv => RetryKeepsDecider
  BY DEF RepliesInv
<1> QED
  BY <1>1, <1>2, <1>3, Lifecycle, PTL DEF Spec

\* decideApproval marks an approval decided only after the origin took that
\* very answer, whatever calls fail, repeat or roll back around it.
THEOREM ToldTheorem == Spec => []SettledMeansTold
<1>1. Init => RepliesInv
  BY RepliesInitially
<1>2. LifecycleInv /\ RepliesInv /\ [Next]_vars => RepliesInv'
  BY RepliesStep
<1>3. RepliesInv => SettledMeansTold
  BY DEF RepliesInv
<1> QED
  BY <1>1, <1>2, <1>3, Lifecycle, PTL DEF Spec

\* The fail-closed `decided` append of decideApproval: in a project whose
\* evidence sink stays on, the origin hears nothing the sink does not hold.
THEOREM EvidenceTheorem ==
  ASSUME SinkModes = {TRUE}
  PROVE  Spec => []ResumeOnlyAfterEvidence
<1>1. Init => EvidenceInv
  BY RepliesInitially
<1>2. LifecycleInv /\ EvidenceInv /\ [Next]_vars => EvidenceInv'
  BY EvidenceStep
<1>3. EvidenceInv => ResumeOnlyAfterEvidence
  BY DEF EvidenceInv
<1> QED
  BY <1>1, <1>2, <1>3, Lifecycle, PTL DEF Spec

-----------------------------------------------------------------------------
(***************************************************************************)
(* The receipts of a row: one sequence, in order, linked                   *)
(***************************************************************************)

Final == {"decided", "resumed", "resume_failed"}
Unique(S) == \A e, f \in S : e.seq = f.seq => e = f
Ordered(S) ==
  \A e, f \in S :
    /\ e.type = "requested" /\ f # e => e.seq < f.seq
    /\ e.type = "presented" /\ f # e /\ f.type # "requested" => e.seq < f.seq
    /\ e.req = f.req /\ e.type = "decided" /\ f.type \in {"resumed", "resume_failed"} =>
         f.seq = e.seq + 1
Follows(S, e) ==
  LET earlier == {f \in S : f.seq < e.seq} IN
  IF earlier = {} THEN e.prev = Ref(NoEvent)
  ELSE \E f \in earlier : e.prev = Ref(f) /\ \A g \in earlier : g.seq <= f.seq
Linked(S) == \A e \in S : Follows(S, e)
Sound(S) == Unique(S) /\ Ordered(S) /\ (SinkModes = {TRUE} => Linked(S))

\* loadLatestReceipt sees the newest receipt as long as all fit on its page.
Fits(a) == Cardinality(receipts[a]) <= ReceiptPage

\* The committed receipts of a row: what presented_at and the decisions say of them.
RowReceipts(a) ==
  /\ IsFiniteSet(receipts[a])
  /\ status[a] \in {"none", "purged"} => receipts[a] = {}
  /\ \A e \in receipts[a] :
       /\ e.type = "presented" => presentedAt[a]
       /\ e.type \in Final => decisions[a] # {}
       /\ e.req # OldRequest => pc[e.req] = "done"
  /\ Fits(a) => Sound(receipts[a])

\* The receipts a handler has queued are its own; none before its first append.
Queued(q) ==
  /\ IsFiniteSet(tx[q].staged)
  /\ \A e \in tx[q].staged : e.req = q /\ (e.type = "presented" => tx[q].shown)
  /\ pc[q] \in {"idle", "read", "lock", "append_requested", "append_presented"} => tx[q].staged = {}
  /\ pc[q] = "append_presented" => tx[q].shown
  /\ pc[q] = "commit_ingest" =>
       \A e \in tx[q].staged : e = Event(q, "requested", 1, Ref(NoEvent))
  /\ pc[q] \in {"append_decided", "commit_presented"} => \A e \in tx[q].staged : e.type = "presented"

\* With them the row's receipts are sound: each append goes on top of `latest`.
Working(q) == receipts[tx[q].target] \cup tx[q].staged
OnTop(S, e) == (S = {} /\ e = NoEvent) \/ (e \in S /\ \A f \in S : f.seq <= e.seq)
OwnDecided(q, e) == e.req = q /\ e.type = "decided"
Growing(q) ==
  pc[q] \in Locked /\ Fits(tx[q].target) =>
    /\ Sound(Working(q))
    /\ pc[q] \in {"append_presented", "append_decided"} => OnTop(Working(q), tx[q].latest)
    /\ pc[q] \in {"resume", "append_resumed"} =>
         /\ \A e \in Working(q) :
              /\ OwnDecided(q, e) => e.seq = tx[q].latest.seq + 1
              /\ ~OwnDecided(q, e) => e.seq <= tx[q].latest.seq
         /\ SinkModes = {TRUE} => \E e \in Working(q) : OwnDecided(q, e)

ReceiptsInv ==
  /\ \A a \in ApprovalIds : RowReceipts(a)
  /\ \A q \in Requests : Queued(q) /\ Growing(q)
  /\ sinkOn \in SinkModes

LEMMA NothingIsSound == Sound({})
BY DEF Sound, Unique, Ordered, Linked
LEMMA FirstIsSound ==
  ASSUME NEW q
  PROVE  Sound({Event(q, "requested", 1, Ref(NoEvent))})
<1> DEFINE ev == Event(q, "requested", 1, Ref(NoEvent))
<1>1. ev.type = "requested" /\ ev.seq = 1 /\ ev.prev = Ref(NoEvent)
  BY DEF Event
<1> HIDE DEF ev
<1>2. {f \in {ev} : f.seq < ev.seq} = {}
  BY <1>1
<1>3. Follows({ev}, ev)
  BY <1>1, <1>2 DEF Follows
<1> QED
  BY <1>1, <1>3 DEF Sound, Unique, Ordered, Linked, ev

\* Links of the earlier receipts stand when one is added above them.
LEMMA LinksStand ==
  ASSUME NEW S \in SUBSET Events, Linked(S), NEW ev \in Events, \A e \in S : e.seq < ev.seq,
         Follows(S \cup {ev}, ev)
  PROVE  Linked(S \cup {ev})
<1>1. ASSUME NEW e \in S PROVE Follows(S \cup {ev}, e)
  <2>1. e.seq \in Nat /\ ev.seq \in Nat
    BY DEF Events
  <2>2. {f \in S \cup {ev} : f.seq < e.seq} = {f \in S : f.seq < e.seq}
    BY <2>1
  <2> QED
    BY <2>2, Zenon DEF Linked, Follows
<1> QED
  BY <1>1 DEF Linked
LEMMA AddOnTop ==
  ASSUME NEW S \in SUBSET Events, NEW latest \in Events \cup {NoEvent}, OnTop(S, latest), Sound(S),
         NEW ev \in Events, ev.seq = latest.seq + 1, ev.prev = Ref(latest),
         \/ ev.type = "presented" /\ \A e \in S : e.type = "requested"
         \/ ev.type = "decided" /\ \A e \in S : e.req = ev.req => e.type = "presented"
  PROVE  Sound(S \cup {ev}) /\ OnTop(S \cup {ev}, ev)
<1>1. ev.seq \in Nat /\ \A e \in S : e.seq \in Nat
  BY DEF Events
<1>2. \A e \in S : e.seq < ev.seq
  BY <1>1 DEF OnTop, Events
<1>3. OnTop(S \cup {ev}, ev)
  BY <1>1, <1>2 DEF OnTop
<1>4. Unique(S \cup {ev})
  BY <1>1, <1>2 DEF Sound, Unique
<1>5. Ordered(S \cup {ev})
  BY <1>1, <1>2 DEF Sound, Ordered
<1>6. Follows(S \cup {ev}, ev)
  <2>1. {f \in S \cup {ev} : f.seq < ev.seq} = S
    BY <1>1, <1>2
  <2>2. CASE S = {}
    BY <2>1, <2>2 DEF OnTop, Follows
  <2>3. CASE S # {}
    BY <2>1, <2>3 DEF OnTop, Follows
  <2> QED
    BY <2>2, <2>3
<1> QED
  BY <1>2, <1>3, <1>4, <1>5, <1>6, LinksStand DEF Sound
LEMMA AddResumed ==
  ASSUME NEW S \in SUBSET Events, NEW q, NEW n \in Nat, Sound(S),
         \A e \in S : (OwnDecided(q, e) => e.seq = n + 1) /\ (~OwnDecided(q, e) => e.seq <= n),
         SinkModes = {TRUE} => \E e \in S : OwnDecided(q, e),
         NEW ev \in Events, ev.seq = n + 2, ev.prev = <<q, "decided">>, ev.req = q,
         ev.type \in {"resumed", "resume_failed"}
  PROVE  Sound(S \cup {ev})
<1>1. ev.seq \in Nat /\ \A e \in S : e.seq \in Nat
  BY DEF Events
<1>2. \A e \in S : e.seq < ev.seq /\ e.seq <= n + 1
  BY <1>1
<1>3. Unique(S \cup {ev})
  BY <1>1, <1>2 DEF Sound, Unique
<1>4. Ordered(S \cup {ev})
  BY <1>1, <1>2 DEF Sound, Ordered, OwnDecided
<1>5. ASSUME SinkModes = {TRUE} PROVE Follows(S \cup {ev}, ev)
  <2>1. {f \in S \cup {ev} : f.seq < ev.seq} = S
    BY <1>1, <1>2
  <2>2. PICK e \in S : OwnDecided(q, e)
    BY <1>5
  <2>3. e.seq = n + 1 /\ Ref(e) = ev.prev
    BY <2>2 DEF OwnDecided, Ref
  <2> QED
    BY <1>2, <2>1, <2>2, <2>3 DEF Follows
<1> QED
  BY <1>2, <1>3, <1>4, <1>5, LinksStand DEF Sound

\* Under the page's limit, the row loadLatestReceipt returns is the newest.
LEMMA LatestOnTop ==
  ASSUME NEW a \in ApprovalIds, receipts[a] \subseteq Events, IsFiniteSet(receipts[a]), Fits(a),
         NEW e \in LatestReceipts(a)
  PROVE  OnTop(receipts[a], e)
<1>1. CASE receipts[a] = {}
  BY <1>1 DEF LatestReceipts, OnTop
<1>2. CASE receipts[a] # {}
  <2>1. e \in receipts[a] /\ \A f \in receipts[a] : f.seq > e.seq => Before(a, f.seq) >= ReceiptPage
    BY <1>2 DEF LatestReceipts
  <2>2. ASSUME NEW f \in receipts[a], f.seq > e.seq PROVE FALSE
    <3> DEFINE B == {g \in receipts[a] : g.seq < f.seq}
    <3>1. f.seq \in Nat
      BY DEF Events
    <3>2. B \subseteq receipts[a] \ {f}
      BY <3>1
    <3>3. IsFiniteSet(receipts[a] \ {f}) /\ Cardinality(receipts[a] \ {f}) = Cardinality(receipts[a]) - 1
      BY FS_RemoveElement
    <3>4. Cardinality(B) <= Cardinality(receipts[a]) - 1
      BY <3>2, <3>3, FS_Subset
    <3>5. Cardinality(B) \in Nat /\ Cardinality(receipts[a]) \in Nat
      BY <3>2, <3>3, FS_Subset, FS_CardinalityType
    <3>6. Before(a, f.seq) = Cardinality(B)
      BY DEF Before
    <3> HIDE DEF B
    <3>7. Cardinality(B) >= ReceiptPage
      BY <2>1, <2>2, <3>6
    <3> QED
      BY <3>4, <3>5, <3>7, Settings DEF Fits
  <2>3. \A f \in receipts[a] : f.seq \in Nat
    BY DEF Events
  <2> QED
    BY <2>1, <2>2, <2>3 DEF OnTop
<1> QED
  BY <1>1, <1>2

\* The receipts of a legacy row: the decision whose resume failed.
LEMMA LegacyIsSound ==
  ASSUME NEW e \in Events, NEW f \in Events, NEW g \in Events,
         e = Event(OldRequest, "requested", 1, Ref(NoEvent)),
         f = Event(OldRequest, "decided", 2, <<OldRequest, "requested">>),
         g = Event(OldRequest, "resume_failed", 3, <<OldRequest, "decided">>)
  PROVE  Sound({e, f, g}) /\ IsFiniteSet({e, f, g})
<1>1. Sound({e})
  BY FirstIsSound
<1>2. e.seq = 1 /\ e.type = "requested" /\ f.prev = Ref(e) /\ f.seq = 2 /\ f.type = "decided"
      /\ f.req = OldRequest /\ g.seq = 3 /\ g.type = "resume_failed" /\ g.req = OldRequest
      /\ g.prev = <<OldRequest, "decided">> /\ e.req = OldRequest
  BY DEF Event, Ref
<1>3. OnTop({e}, e)
  BY <1>2 DEF OnTop
<1>4. e \in Events \cup {NoEvent} /\ {e} \in SUBSET Events /\ f.seq = e.seq + 1
  BY <1>2
<1>5. Unique({e, f}) /\ Ordered({e, f})
  BY <1>2 DEF Unique, Ordered
<1>6. Follows({e, f}, f)
  <2>1. {h \in {e, f} : h.seq < f.seq} = {e}
    BY <1>2
  <2> QED
    BY <1>2, <2>1 DEF Follows
<1>7. Sound({e, f})
  <2>1. SinkModes = {TRUE} => Linked({e, f})
    <3>1. {e} \cup {f} = {e, f} /\ \A h \in {e} : h.seq < f.seq
      BY <1>2
    <3> QED
      BY <1>1, <1>4, <1>6, <3>1, LinksStand DEF Sound
  <2> QED
    BY <1>5, <2>1 DEF Sound
<1>8. Sound({e, f} \cup {g})
  <2> DEFINE S == {e, f}
  <2>1. S \in SUBSET Events /\ g.seq = 1 + 2 /\ 1 \in Nat
    BY <1>2
  <2>2. \A h \in S : (OwnDecided(OldRequest, h) => h.seq = 1 + 1) /\ (~OwnDecided(OldRequest, h) => h.seq <= 1)
    BY <1>2 DEF OwnDecided
  <2>3. \E h \in S : OwnDecided(OldRequest, h)
    BY <1>2 DEF OwnDecided
  <2>4. g.type \in {"resumed", "resume_failed"}
    BY <1>2
  <2> HIDE DEF S
  <2>5. Sound(S)
    BY <1>7 DEF S
  <2>6. Sound(S \cup {g})
    BY <1>2, <2>1, <2>2, <2>3, <2>4, <2>5, AddResumed
  <2> QED
    BY <2>6 DEF S
<1>9. {e, f, g} = {e, f} \cup {g} /\ {e, f, g} = ({e} \cup {f}) \cup {g}
  OBVIOUS
<1>10. IsFiniteSet({e}) /\ IsFiniteSet({f}) /\ IsFiniteSet({g})
  BY FS_Singleton
<1>11. IsFiniteSet(({e} \cup {f}) \cup {g})
  BY <1>10, FS_Union
<1> QED
  BY <1>8, <1>9, <1>11
LEMMA ReceiptsInitially == Init => ReceiptsInv
<1> SUFFICES ASSUME Init PROVE ReceiptsInv
  OBVIOUS
<1>1. TypeOK /\ tx = [r \in Requests |-> Idle] /\ pc = [r \in Requests |-> "idle"] /\ sinkOn \in SinkModes
  BY InitType DEF Init
<1>2. ASSUME NEW q \in Requests PROVE Queued(q) /\ Growing(q)
  <2>1. tx[q].staged = {} /\ IsFiniteSet(tx[q].staged) /\ pc[q] = "idle"
    BY <1>1, FS_EmptySet DEF Idle
  <2> QED
    BY <2>1 DEF Queued, Growing, Locked, Creating, Deciding, Marking
<1>3. ASSUME NEW a \in ApprovalIds PROVE RowReceipts(a)
  <2>1. CASE a \notin Legacy
    <3>1. receipts[a] = {}
      BY <2>1 DEF Init
    <3> QED
      BY <3>1, FS_EmptySet, NothingIsSound DEF RowReceipts
  <2>2. CASE a \in Legacy
    <3> DEFINE e == Event(OldRequest, "requested", 1, Ref(NoEvent))
               f == Event(OldRequest, "decided", 2, <<OldRequest, "requested">>)
               g == Event(OldRequest, "resume_failed", 3, <<OldRequest, "decided">>)
    <3>1. receipts[a] = {e, f, g} /\ status[a] = "failed_resume"
      BY <2>2 DEF Init
    <3>2. e \in Events /\ f \in Events /\ g \in Events
      BY <1>1, <3>1 DEF TypeOK
    <3>3. \A h \in {e, f, g} : h.req = OldRequest /\ h.type # "presented"
      BY DEF Event
    <3> HIDE DEF e, f, g
    <3>4. Sound({e, f, g}) /\ IsFiniteSet({e, f, g})
      BY <3>2, LegacyIsSound DEF e, f, g
    <3>5. decisions[a] # {}
      BY <2>2 DEF Init
    <3> QED
      BY <3>1, <3>3, <3>4, <3>5 DEF RowReceipts
  <2> QED
    BY <2>1, <2>2
<1> QED
  BY <1>1, <1>2, <1>3 DEF ReceiptsInv

\* What a step may do to the receipts of a row: purge them with the row, or
\* add what the handler that commits had queued.
Writes(r, a) ==
  /\ tx[r].target = a /\ pc[r] \in {"commit_ingest", "commit_presented", "commit_decided"}
  /\ pc'[r] = "done" /\ status'[a] \notin {"none", "purged"}
  /\ pc[r] # "commit_ingest" /\ tx[r].shown => presentedAt'[a]
  /\ pc[r] = "commit_decided" => decisions'[a] # {}
  /\ receipts'[a] = receipts[a] \cup tx[r].staged
ReceiptEffect(a) ==
  \/ receipts'[a] = {} /\ lock[a] = NoRequest
  \/ /\ presentedAt[a] => presentedAt'[a]
     /\ decisions[a] # {} => decisions'[a] # {}
     /\ \/ receipts'[a] = receipts[a] /\ (status'[a] \in {"none", "purged"} => status[a] = status'[a])
        \/ \E r \in Requests : Writes(r, a)
LEMMA CommitReceipts ==
  ASSUME LifecycleInv, NEW r \in Requests, NEW a \in ApprovalIds, RowReceipts(a),
         CommitIngest(r) \/ CommitPresented(r) \/ CommitDecided(r)
  PROVE  ReceiptEffect(a)
<1>1. TypeOK /\ tx[r].target \in ApprovalIds /\ pc'[r] = "done"
      /\ pc[r] \in {"commit_ingest", "commit_presented", "commit_decided"}
      /\ Current(pc[r], tx[r].target, tx[r].shown)
      /\ tx[r].outcome \in {"decided", "failed_resume"}
  <2>1. tx[r] \in Transactions
    BY DEF LifecycleInv, TypeOK
  <2> QED
    BY <2>1, FieldTypes DEF LifecycleInv, TypeOK, RequestsEquipped, Equipped, SnapshotHolds, CommitIngest,
     CommitPresented, CommitDecided, Locked, Creating, Deciding, Marking, Goto
<1>2. CASE CommitIngest(r)
  <2>1. status[tx[r].target] = "none" /\ pc[r] = "commit_ingest"
    BY <1>1, <1>2 DEF CommitIngest, Current, Creating
  <2>2. /\ presentedAt' = presentedAt /\ decisions' = decisions
        /\ receipts' = [receipts EXCEPT ![tx[r].target] = tx[r].staged]
        /\ status' = [status EXCEPT ![tx[r].target] = "pending"]
    BY <1>2 DEF CommitIngest
  <2>3. CASE a = tx[r].target
    <3>1. receipts[a] = {}
      BY <2>1, <2>3 DEF RowReceipts
    <3>2. receipts'[a] = receipts[a] \cup tx[r].staged /\ status'[a] = "pending"
      BY <1>1, <2>2, <2>3, <3>1 DEF TypeOK
    <3>3. Writes(r, a)
      BY <1>1, <2>1, <2>3, <3>2 DEF Writes
    <3> QED
      BY <2>2, <3>3 DEF ReceiptEffect
  <2>4. CASE a # tx[r].target
    BY <1>1, <2>2, <2>4 DEF TypeOK, ReceiptEffect
  <2> QED
    BY <2>3, <2>4
<1>3. CASE CommitPresented(r)
  <2>1. /\ presentedAt' = [presentedAt EXCEPT ![tx[r].target] = @ \/ tx[r].shown]
        /\ decisions' = decisions /\ status' = status /\ pc[r] = "commit_presented"
        /\ receipts' = [receipts EXCEPT ![tx[r].target] = @ \cup tx[r].staged]
    BY <1>3 DEF CommitPresented
  <2>2. status[tx[r].target] \in Open
    BY <1>1, <2>1 DEF Current, Marking
  <2>3. CASE a = tx[r].target
    <3>1. receipts'[a] = receipts[a] \cup tx[r].staged /\ status'[a] \in Open
      BY <1>1, <2>1, <2>2, <2>3 DEF TypeOK
    <3>2. presentedAt[a] \/ tx[r].shown => presentedAt'[a]
      BY <1>1, <2>1, <2>3 DEF TypeOK
    <3>3. Writes(r, a)
      BY <1>1, <2>1, <2>3, <3>1, <3>2 DEF Writes, Open
    <3> QED
      BY <2>1, <3>2, <3>3 DEF ReceiptEffect
  <2>4. CASE a # tx[r].target
    BY <1>1, <2>1, <2>4 DEF TypeOK, ReceiptEffect
  <2> QED
    BY <2>3, <2>4
<1>4. CASE CommitDecided(r)
  <2>1. /\ presentedAt' = [presentedAt EXCEPT ![tx[r].target] = @ \/ tx[r].shown]
        /\ \E d : decisions' = [decisions EXCEPT ![tx[r].target] = @ \cup {d}]
        /\ status' = [status EXCEPT ![tx[r].target] = tx[r].outcome] /\ pc[r] = "commit_decided"
        /\ receipts' = [receipts EXCEPT ![tx[r].target] = @ \cup tx[r].staged]
    BY <1>4, Zenon DEF CommitDecided, RecordDecision
  <2>3. CASE a = tx[r].target
    <3>1. receipts'[a] = receipts[a] \cup tx[r].staged /\ status'[a] \in {"decided", "failed_resume"}
      BY <1>1, <2>1, <2>3 DEF TypeOK
    <3>2. presentedAt[a] \/ tx[r].shown => presentedAt'[a]
      BY <1>1, <2>1, <2>3 DEF TypeOK
    <3>3. decisions'[a] # {}
      BY <1>1, <2>1, <2>3 DEF TypeOK
    <3>4. Writes(r, a)
      BY <1>1, <2>1, <2>3, <3>1, <3>2, <3>3 DEF Writes
    <3> QED
      BY <3>2, <3>3, <3>4 DEF ReceiptEffect
  <2>4. CASE a # tx[r].target
    BY <1>1, <2>1, <2>4 DEF TypeOK, ReceiptEffect
  <2> QED
    BY <2>3, <2>4
<1> QED
  BY <1>2, <1>3, <1>4
LEMMA StepReceipts ==
  ASSUME LifecycleInv, NEW a \in ApprovalIds, RowReceipts(a), [Next]_vars
  PROVE  ReceiptEffect(a)
<1> USE DEF rows
<1>1. TypeOK
  BY DEF LifecycleInv
<1>2. receipts' = receipts /\ presentedAt' = presentedAt /\ decisions' = decisions /\ status' = status
      => ReceiptEffect(a)
  BY DEF ReceiptEffect
<1>3. ASSUME NEW r \in Requests, DecideRefuse(r) PROVE ReceiptEffect(a)
  BY <1>1, <1>3 DEF DecideRefuse, ReceiptEffect, TypeOK
<1>4. ASSUME NEW r \in Requests,
             \/ IngestReplay(r) \/ IngestInsert(r) \/ IngestRefuse(r) \/ LockPresented(r)
             \/ PresentedNoOp(r) \/ RetryRead(r) \/ LockDecide(r)
             \/ AppendRequested(r) \/ AppendPresented(r) \/ Begin(r)
             \/ AppendDecided(r) \/ Resume(r) \/ AppendResumed(r) \/ Crash(r)
      PROVE  ReceiptEffect(a)
  BY <1>2, <1>4 DEF IngestReplay, IngestInsert, IngestRefuse, LockPresented, PresentedNoOp,
     RetryRead, LockDecide, OwnStep, AppendRequested, AppendPresented, Begin, AppendDecided,
     Resume, AppendResumed, Crash
<1>5. ASSUME NEW r \in Requests, Cancel(r) PROVE ReceiptEffect(a)
  <2>1. /\ receipts' = receipts /\ presentedAt' = presentedAt
        /\ \/ decisions' = decisions /\ status' = status
           \/ /\ \E d : decisions' = [decisions EXCEPT ![tx[r].target] = @ \cup {d}]
              /\ status' = [status EXCEPT ![tx[r].target] = "cancelled"]
    BY <1>5, Zenon DEF Cancel, RecordDecision
  <2>2. decisions[a] \subseteq decisions'[a] /\ status'[a] \in {status[a], "cancelled"}
    BY <1>1, <2>1 DEF TypeOK
  <2> QED
    BY <2>1, <2>2 DEF ReceiptEffect
<1>6. ASSUME NEW b \in ApprovalIds, ExpireOverdue(b) PROVE ReceiptEffect(a)
  BY <1>1, <1>6 DEF ExpireOverdue, ReceiptEffect, TypeOK
<1>7. CASE PurgeDelete
  BY <1>1, <1>7 DEF PurgeDelete, ReceiptEffect
<1>8. CASE \/ PurgeSelect \/ ConfigureSink
           \/ \E b \in ApprovalIds : FallDue(b) \/ GrowStale(b) \/ \E u \in Reviewers : RecordOpen(b, u)
  BY <1>2, <1>8 DEF PurgeSelect, ConfigureSink, FallDue, GrowStale, RecordOpen
<1>9. CASE UNCHANGED vars
  BY <1>2, <1>9 DEF vars
<1> QED
  BY <1>3, <1>4, <1>5, <1>6, <1>7, <1>8, <1>9, CommitReceipts, Zenon DEF Next, Handle

\* What the handlers do with the fields that build the chain.
Holds(u, target, shown, latest, staged) ==
  u.target = target /\ u.shown = shown /\ u.latest = latest /\ u.staged = staged
FieldNames == {"target", "key", "answer", "reviewer", "started", "latest", "shown", "staged", "outcome"}
LEMMA MarkFields ==
  ASSUME NEW t \in Transactions, NEW a, NEW e
  PROVE  Holds([t EXCEPT !.target = a, !.shown = TRUE, !.latest = e], a, TRUE, e, t.staged)
<1>1. DOMAIN t = FieldNames
  BY DEF Transactions, FieldNames
<1> QED
  BY <1>1 DEF Holds, FieldNames
LEMMA LockFields ==
  ASSUME NEW t \in Transactions, NEW s, NEW e
  PROVE  Holds([t EXCEPT !.latest = e, !.shown = s], t.target, s, e, t.staged)
<1>1. DOMAIN t = FieldNames
  BY DEF Transactions, FieldNames
<1> QED
  BY <1>1 DEF Holds, FieldNames
LEMMA CarryFields ==
  ASSUME NEW t \in Transactions, NEW s, NEW e
  PROVE  Holds([t EXCEPT !.staged = s, !.latest = e], t.target, t.shown, e, s)
<1>1. DOMAIN t = FieldNames
  BY DEF Transactions, FieldNames
<1> QED
  BY <1>1 DEF Holds, FieldNames
LEMMA StageFields ==
  ASSUME NEW t \in Transactions, NEW s
  PROVE  Holds([t EXCEPT !.staged = s], t.target, t.shown, t.latest, s)
<1>1. DOMAIN t = FieldNames
  BY DEF Transactions, FieldNames
<1> QED
  BY <1>1 DEF Holds, FieldNames
LEMMA ResumeFields ==
  ASSUME NEW t \in Transactions, NEW o
  PROVE  Holds([t EXCEPT !.outcome = o], t.target, t.shown, t.latest, t.staged)
<1>1. DOMAIN t = FieldNames
  BY DEF Transactions, FieldNames
<1> QED
  BY <1>1 DEF Holds, FieldNames
LEMMA QuietFields ==
  ASSUME NEW t \in Transactions, NEW u,
         \/ \E k, a : u = [t EXCEPT !.key = k, !.target = a]
         \/ \E a, n : u = [t EXCEPT !.target = a, !.started = n]
         \/ \E a, n, v : u = [t EXCEPT !.target = a, !.started = n, !.reviewer = v]
         \/ \E w, v : u = [t EXCEPT !.answer = w, !.reviewer = v]
  PROVE  u.staged = t.staged /\ u.shown = t.shown
<1>1. DOMAIN t = {"target", "key", "answer", "reviewer", "started", "latest", "shown", "staged", "outcome"}
  BY DEF Transactions
<1> QED
  BY <1>1

\* The events the handlers append, and what a handler's step leaves in its
\* record: the row, whether the ask was shown, the queue and its newest event.
RequestedEvent(q) == Event(q, "requested", 1, Ref(NoEvent))
PresentedEvent(q) == Event(q, "presented", tx[q].latest.seq + 1, Ref(tx[q].latest))
DecidedEvent(q) == Event(q, "decided", tx[q].latest.seq + 1, Ref(tx[q].latest))
ResumedEvent(q) == Event(q, IF tx[q].outcome = "decided" THEN "resumed" ELSE "resume_failed",
                         tx[q].latest.seq + 2, <<q, "decided">>)
Leaves(q, shown, latest, staged) ==
  Holds(tx'[q], tx[q].target, shown, latest, staged)
RowsStay == receipts' = receipts /\ status' = status
Queues(q) ==
  \/ /\ pc[q] = "append_requested" /\ pc'[q] = "commit_ingest"
     /\ \/ Leaves(q, tx[q].shown, tx[q].latest, tx[q].staged)
        \/ Leaves(q, tx[q].shown, tx[q].latest, tx[q].staged \cup {RequestedEvent(q)})
  \/ /\ pc[q] = "append_presented" /\ pc'[q] \in {"commit_presented", "append_decided"}
     /\ \/ Leaves(q, tx[q].shown, tx[q].latest, tx[q].staged)
        \/ Leaves(q, tx[q].shown, PresentedEvent(q), tx[q].staged \cup {PresentedEvent(q)})
  \/ /\ pc[q] = "append_decided"
     /\ \/ /\ pc'[q] = "commit_presented" \/ (~sinkOn /\ pc'[q] \in {"resume", "commit_decided"})
           /\ Leaves(q, tx[q].shown, tx[q].latest, tx[q].staged)
        \/ /\ pc'[q] \in {"resume", "commit_decided"}
           /\ Leaves(q, tx[q].shown, tx[q].latest, tx[q].staged \cup {DecidedEvent(q)})
  \/ /\ pc[q] = "resume" /\ pc'[q] = "append_resumed"
     /\ Leaves(q, tx[q].shown, tx[q].latest, tx[q].staged)
  \/ /\ pc[q] = "append_resumed" /\ pc'[q] = "commit_decided"
     /\ \/ Leaves(q, tx[q].shown, tx[q].latest, tx[q].staged)
        \/ Leaves(q, tx[q].shown, tx[q].latest, tx[q].staged \cup {ResumedEvent(q)})
LEMMA StagedLeaves ==
  ASSUME TypeOK, NEW q \in Requests, NEW ev, NEW result, result = "receipt",
         Remember(q, [tx[q] EXCEPT !.staged = Stage(q, ev, result)])
  PROVE  Leaves(q, tx[q].shown, tx[q].latest, tx[q].staged \cup {ev})
<1>1. tx[q] \in Transactions /\ tx'[q] = [tx[q] EXCEPT !.staged = Stage(q, ev, result)]
  BY DEF TypeOK, Remember
<1>2. Stage(q, ev, result) = tx[q].staged \cup {ev}
  BY DEF Stage
<1> QED
  BY <1>1, <1>2, StageFields, Zenon DEF Leaves
LEMMA NothingStaged ==
  ASSUME TypeOK, NEW q \in Requests, NEW ev, NEW result, result # "receipt",
         Remember(q, [tx[q] EXCEPT !.staged = Stage(q, ev, result)])
  PROVE  Leaves(q, tx[q].shown, tx[q].latest, tx[q].staged)
<1>1. tx[q] \in Transactions /\ tx'[q] = [tx[q] EXCEPT !.staged = Stage(q, ev, result)]
  BY DEF TypeOK, Remember
<1>2. Stage(q, ev, result) = tx[q].staged
  BY DEF Stage
<1> QED
  BY <1>1, <1>2, StageFields, Zenon DEF Leaves
LEMMA QueueSteps ==
  ASSUME TypeOK, NEW q \in Requests,
         AppendRequested(q) \/ AppendPresented(q) \/ AppendDecided(q) \/ Resume(q) \/ AppendResumed(q)
  PROVE  Queues(q) /\ RowsStay
<1>1. tx[q] \in Transactions /\ \A t : Remember(q, t) => tx'[q] = t
  BY DEF TypeOK, Remember
<1>2. \A l : Goto(q, l) => pc'[q] = l
  BY DEF TypeOK, Goto
<1>3. RowsStay
  BY DEF RowsStay, rows, AppendRequested, AppendPresented, AppendDecided, Resume, AppendResumed
<1>4. CASE AppendRequested(q)
  <2>1. PICK result : Remember(q, [tx[q] EXCEPT !.staged = Stage(q, RequestedEvent(q), result)])
    BY <1>4, Zenon DEF AppendRequested, RequestedEvent
  <2>2. pc[q] = "append_requested" /\ pc'[q] = "commit_ingest"
    BY <1>2, <1>4 DEF AppendRequested
  <2> QED
    BY <1>3, <2>1, <2>2, StagedLeaves, NothingStaged, Zenon DEF Queues
<1>5. CASE AppendPresented(q)
  <2>1. PICK result : tx'[q] = [tx[q] EXCEPT !.staged = Stage(q, PresentedEvent(q), result),
                                             !.latest = CarryForward(q, PresentedEvent(q), result)]
    BY <1>1, <1>5, Zenon DEF AppendPresented, PresentedEvent
  <2>2. pc[q] = "append_presented" /\ pc'[q] \in {"commit_presented", "append_decided"}
    BY <1>2, <1>5 DEF AppendPresented
  <2>3. Leaves(q, tx[q].shown, CarryForward(q, PresentedEvent(q), result), Stage(q, PresentedEvent(q), result))
    <3>1. \A s, e : Holds([tx[q] EXCEPT !.staged = s, !.latest = e], tx[q].target, tx[q].shown, e, s)
      BY <1>1, CarryFields
    <3> QED
      BY <2>1, <3>1, Zenon DEF Leaves
  <2>4. \/ /\ CarryForward(q, PresentedEvent(q), result) = tx[q].latest
           /\ Stage(q, PresentedEvent(q), result) = tx[q].staged
        \/ /\ CarryForward(q, PresentedEvent(q), result) = PresentedEvent(q)
           /\ Stage(q, PresentedEvent(q), result) = tx[q].staged \cup {PresentedEvent(q)}
    BY DEF CarryForward, Stage
  <2> QED
    BY <1>3, <2>2, <2>3, <2>4, Zenon DEF Queues
<1>6. CASE AppendDecided(q)
  <2>1. PICK result : /\ SinkAppend(tx[q].target, DecidedEvent(q), result)
                      /\ Remember(q, [tx[q] EXCEPT !.staged = Stage(q, DecidedEvent(q), result)])
                      /\ Goto(q, AfterDecided(q, result))
    BY <1>6, Zenon DEF AppendDecided, DecidedEvent
  <2>2. pc[q] = "append_decided" /\ pc'[q] = AfterDecided(q, result)
    BY <1>2, <1>6, <2>1 DEF AppendDecided
  <2>3. result \in {"none", "receipt", "error"} /\ (result = "none" => ~sinkOn)
    BY <2>1 DEF SinkAppend
  <2>4. /\ result = "error" => pc'[q] = "commit_presented"
        /\ result # "error" => pc'[q] \in {"resume", "commit_decided"}
    BY <2>2 DEF AfterDecided
  <2>5. CASE result = "receipt"
    <3>1. Leaves(q, tx[q].shown, tx[q].latest, tx[q].staged \cup {DecidedEvent(q)})
      BY <2>1, <2>5, StagedLeaves, Zenon
    <3> QED
      BY <1>3, <2>2, <2>4, <2>5, <3>1, Zenon DEF Queues
  <2>6. CASE result # "receipt"
    <3>1. Leaves(q, tx[q].shown, tx[q].latest, tx[q].staged)
      BY <2>1, <2>6, NothingStaged, Zenon
    <3>2. pc'[q] = "commit_presented" \/ (~sinkOn /\ pc'[q] \in {"resume", "commit_decided"})
      BY <2>3, <2>4, <2>6
    <3> QED
      BY <1>3, <2>2, <3>1, <3>2, Zenon DEF Queues
  <2> QED
    BY <2>5, <2>6
<1>7. CASE Resume(q)
  <2>1. PICK o : Remember(q, [tx[q] EXCEPT !.outcome = o])
    BY <1>7, Zenon DEF Resume, CallOrigin
  <2>2. pc[q] = "resume" /\ pc'[q] = "append_resumed"
    BY <1>2, <1>7 DEF Resume
  <2>3. Leaves(q, tx[q].shown, tx[q].latest, tx[q].staged)
    BY <1>1, <2>1, ResumeFields, Zenon DEF Leaves
  <2> QED
    BY <1>3, <2>2, <2>3, Zenon DEF Queues
<1>8. CASE AppendResumed(q)
  <2>1. PICK result : Remember(q, [tx[q] EXCEPT !.staged = Stage(q, ResumedEvent(q), result)])
    BY <1>8, Zenon DEF AppendResumed, ResumedEvent
  <2>2. pc[q] = "append_resumed" /\ pc'[q] = "commit_decided"
    BY <1>2, <1>8 DEF AppendResumed
  <2> QED
    BY <1>3, <2>1, <2>2, StagedLeaves, NothingStaged, Zenon DEF Queues
<1> QED
  BY <1>4, <1>5, <1>6, <1>7, <1>8

\* The locked read: from here the handler knows the newest receipt.
Locks(q) ==
  /\ pc[q] \in {"idle", "lock"} /\ pc'[q] \in {"append_presented", "append_decided"}
  /\ pc'[q] = "append_presented" => tx'[q].shown
  /\ tx'[q].staged = tx[q].staged /\ tx'[q].target \in ApprovalIds
  /\ tx'[q].latest \in LatestReceipts(tx'[q].target)
LEMMA LockSteps ==
  ASSUME LifecycleInv, NEW q \in Requests, LockPresented(q) \/ LockDecide(q)
  PROVE  Locks(q) /\ RowsStay
<1>1. TypeOK /\ tx[q] \in Transactions /\ \A t : Remember(q, t) => tx'[q] = t
  BY DEF LifecycleInv, TypeOK, Remember
<1>2. \A l : Goto(q, l) => pc'[q] = l
  BY DEF LifecycleInv, TypeOK, Goto
<1>3. RowsStay
  BY DEF RowsStay, rows, OwnStep, LockPresented, LockDecide
<1>4. CASE LockPresented(q)
  <2>1. PICK a, e : a \in ApprovalIds /\
          e \in LatestReceipts(a) /\ Remember(q, [tx[q] EXCEPT !.target = a, !.shown = TRUE, !.latest = e])
    BY <1>4, Zenon DEF LockPresented
  <2>2. pc[q] = "idle" /\ pc'[q] = "append_presented"
    BY <1>2, <1>4 DEF LockPresented
  <2>3. Holds(tx'[q], a, TRUE, e, tx[q].staged)
    <3>1. Holds([tx[q] EXCEPT !.target = a, !.shown = TRUE, !.latest = e], a, TRUE, e, tx[q].staged)
      BY <1>1, MarkFields
    <3> QED
      BY <1>1, <2>1, <3>1, Zenon
  <2> QED
    BY <1>3, <2>1, <2>2, <2>3 DEF Locks, Holds
<1>5. CASE LockDecide(q)
  <2> DEFINE first == PresentsFirst(q, tx[q].target)
  <2>1. PICK e \in LatestReceipts(tx[q].target) : Remember(q, [tx[q] EXCEPT !.latest = e, !.shown = first])
    BY <1>5, Zenon DEF LockDecide
  <2>2. pc[q] = "lock" /\ pc'[q] = IF first THEN "append_presented" ELSE "append_decided"
    BY <1>2, <1>5 DEF LockDecide
  <2> HIDE DEF first
  <2>3. Holds(tx'[q], tx[q].target, first, e, tx[q].staged)
    <3>1. Holds([tx[q] EXCEPT !.latest = e, !.shown = first], tx[q].target, first, e, tx[q].staged)
      BY <1>1, LockFields
    <3> QED
      BY <1>1, <2>1, <3>1, Zenon
  <2>4. tx[q].target \in ApprovalIds
    BY <2>2 DEF LifecycleInv, RequestsEquipped, Equipped
  <2> HIDE DEF first
  <2> QED
    BY <1>3, <2>1, <2>2, <2>3, <2>4 DEF Locks, Holds
<1> QED
  BY <1>4, <1>5

\* The other steps of a handler queue nothing.
Idles(q) ==
  /\ pc'[q] \in {"done", "read", "lock", "append_requested"}
  /\ pc'[q] # "done" => pc[q] \in {"idle", "read"}
  /\ tx'[q].staged = tx[q].staged /\ tx'[q].shown = tx[q].shown
LEMMA IdleSteps ==
  ASSUME LifecycleInv, NEW q \in Requests,
         \/ IngestReplay(q) \/ IngestInsert(q) \/ IngestRefuse(q) \/ CommitIngest(q) \/ PresentedNoOp(q)
         \/ CommitPresented(q) \/ Begin(q) \/ RetryRead(q) \/ DecideRefuse(q) \/ CommitDecided(q) \/ Cancel(q)
  PROVE  Idles(q)
<1>1. TypeOK /\ tx[q] \in Transactions /\ \A t : Remember(q, t) => tx'[q] = t
  BY DEF LifecycleInv, TypeOK, Remember
<1>2. \A l : Goto(q, l) => pc'[q] = l
  BY DEF LifecycleInv, TypeOK, Goto
<1>3. ASSUME NEW l \in {"done", "read", "lock", "append_requested"}, Goto(q, l),
             l # "done" => pc[q] \in {"idle", "read"},
             \/ UNCHANGED tx
             \/ \E k, a : Remember(q, [tx[q] EXCEPT !.key = k, !.target = a])
             \/ \E a, n : Remember(q, [tx[q] EXCEPT !.target = a, !.started = n])
             \/ \E a, n, v : Remember(q, [tx[q] EXCEPT !.target = a, !.started = n, !.reviewer = v])
             \/ \E a, n, w, v : Remember(q, [tx[q] EXCEPT !.target = a, !.started = n, !.answer = w, !.reviewer = v])
             \/ \E w, v : Remember(q, [tx[q] EXCEPT !.answer = w, !.reviewer = v])
      PROVE  Idles(q)
  <2>1. pc'[q] = l
    BY <1>2, <1>3
  <2>2. CASE UNCHANGED tx
    BY <1>3, <2>1, <2>2 DEF Idles
  <2>3. CASE \/ \E k, a : tx'[q] = [tx[q] EXCEPT !.key = k, !.target = a]
             \/ \E a, n : tx'[q] = [tx[q] EXCEPT !.target = a, !.started = n]
             \/ \E a, n, v : tx'[q] = [tx[q] EXCEPT !.target = a, !.started = n, !.reviewer = v]
             \/ \E w, v : tx'[q] = [tx[q] EXCEPT !.answer = w, !.reviewer = v]
    <3>1. tx'[q].staged = tx[q].staged /\ tx'[q].shown = tx[q].shown
      BY <1>1, <2>3, QuietFields, Zenon
    <3> QED
      BY <1>3, <2>1, <3>1 DEF Idles
  <2>4. CASE \E k, a : Remember(q, [tx[q] EXCEPT !.key = k, !.target = a])
    BY <1>1, <2>3, <2>4, Zenon
  <2>5. CASE \E a, n : Remember(q, [tx[q] EXCEPT !.target = a, !.started = n])
    BY <1>1, <2>3, <2>5, Zenon
  <2>6. CASE \E a, n, v : Remember(q, [tx[q] EXCEPT !.target = a, !.started = n, !.reviewer = v])
    BY <1>1, <2>3, <2>6, Zenon
  <2>7. CASE \E a, n, w, v : Remember(q, [tx[q] EXCEPT !.target = a, !.started = n, !.answer = w, !.reviewer = v])
    <3>1. PICK a, n, w, v :
            Remember(q, [tx[q] EXCEPT !.target = a, !.started = n, !.answer = w, !.reviewer = v])
      BY <2>7
    <3>2. tx'[q] = [tx[q] EXCEPT !.target = a, !.started = n, !.answer = w, !.reviewer = v]
      BY <1>1, <3>1, Zenon
    <3>3. DOMAIN tx[q] = FieldNames
      BY <1>1 DEF Transactions, FieldNames
    <3>4. tx'[q].staged = tx[q].staged /\ tx'[q].shown = tx[q].shown
      BY <3>2, <3>3 DEF FieldNames
    <3> QED
      BY <1>3, <2>1, <3>4 DEF Idles
  <2>8. CASE \E w, v : Remember(q, [tx[q] EXCEPT !.answer = w, !.reviewer = v])
    BY <1>1, <2>3, <2>8, Zenon
  <2> QED
    BY <1>3, <2>2, <2>4, <2>5, <2>6, <2>7, <2>8, Zenon
<1>4. CASE \/ IngestRefuse(q) \/ CommitIngest(q) \/ PresentedNoOp(q) \/ CommitPresented(q)
           \/ DecideRefuse(q) \/ CommitDecided(q) \/ Cancel(q)
  <2>1. Goto(q, "done") /\ UNCHANGED tx
    BY <1>4 DEF IngestRefuse, CommitIngest, PresentedNoOp, CommitPresented, DecideRefuse, CommitDecided, Cancel
  <2> QED
    BY <1>3, <2>1
<1>5. CASE IngestReplay(q) \/ IngestInsert(q)
  <2>1. pc[q] = "idle" /\ (Goto(q, "done") \/ Goto(q, "append_requested"))
        /\ \E k, a : Remember(q, [tx[q] EXCEPT !.key = k, !.target = a])
    BY <1>5, Zenon DEF IngestReplay, IngestInsert
  <2> QED
    BY <1>3, <2>1
<1>6. CASE Begin(q)
  <2>1. PICK a : \/ /\ \E n, w, v : Remember(q, [tx[q] EXCEPT !.target = a, !.started = n, !.answer = w, !.reviewer = v])
                    /\ Goto(q, "lock")
                 \/ /\ \E n, v : Remember(q, [tx[q] EXCEPT !.target = a, !.started = n, !.reviewer = v])
                    /\ Goto(q, "lock")
                 \/ /\ \E n : Remember(q, [tx[q] EXCEPT !.target = a, !.started = n])
                    /\ Goto(q, "read")
    BY <1>6, Zenon DEF Begin
  <2>2. pc[q] = "idle"
    BY <1>6 DEF Begin
  <2> QED
    BY <1>3, <2>1, <2>2, Zenon
<1>7. CASE RetryRead(q)
  <2>1. /\ pc[q] = "read"
        /\ \/ Goto(q, "lock") /\ \E w, v : Remember(q, [tx[q] EXCEPT !.answer = w, !.reviewer = v])
           \/ Goto(q, "done") /\ UNCHANGED tx
    BY <1>7, Zenon DEF RetryRead, StoredDecision
  <2> QED
    BY <1>3, <2>1
<1> QED
  BY <1>4, <1>5, <1>6, <1>7
LEMMA HandleSteps ==
  ASSUME LifecycleInv, NEW q \in Requests, Handle(q)
  PROVE  Idles(q) \/ (Locks(q) /\ RowsStay) \/ (Queues(q) /\ RowsStay)
<1>1. TypeOK
  BY DEF LifecycleInv
<1> QED
  BY <1>1, IdleSteps, LockSteps, QueueSteps, Zenon DEF Handle

LEMMA QueuedStep ==
  ASSUME LifecycleInv, [Next]_vars, NEW q \in Requests, Queued(q)
  PROVE  Queued(q)'
<1>1. CASE Rests(q)
  BY <1>1 DEF Rests, Queued
<1>2. CASE RolledBack(q)
  BY <1>2 DEF RolledBack, Queued
<1>3. CASE Idles(q)
  BY <1>3 DEF Idles, Queued
<1>4. CASE Locks(q)
  BY <1>4 DEF Locks, Queued
<1>5. CASE Queues(q)
  <2>1. ASSUME NEW ev PROVE IsFiniteSet(tx[q].staged \cup {ev})
    BY FS_AddElement DEF Queued
  <2>2. CASE pc[q] = "append_requested"
    <3>1. RequestedEvent(q).req = q /\ RequestedEvent(q).type = "requested"
      BY DEF RequestedEvent, Event
    <3> QED
      BY <1>5, <2>1, <2>2, <3>1 DEF Queues, Leaves, Holds, Queued, RequestedEvent
  <2>3. CASE pc[q] = "append_presented"
    <3>1. PresentedEvent(q).req = q /\ PresentedEvent(q).type = "presented"
      BY DEF PresentedEvent, Event
    <3> HIDE DEF PresentedEvent
    <3> QED
      BY <1>5, <2>1, <2>3, <3>1 DEF Queues, Leaves, Holds, Queued
  <2>4. CASE pc[q] = "append_decided"
    <3>1. DecidedEvent(q).req = q /\ DecidedEvent(q).type = "decided"
      BY DEF DecidedEvent, Event
    <3> QED
      BY <1>5, <2>1, <2>4, <3>1 DEF Queues, Leaves, Holds, Queued
  <2>5. CASE pc[q] = "resume"
    BY <1>5, <2>5 DEF Queues, Leaves, Holds, Queued
  <2>6. CASE pc[q] = "append_resumed"
    <3>1. ResumedEvent(q).req = q /\ ResumedEvent(q).type # "presented"
      BY DEF ResumedEvent, Event
    <3>2. pc'[q] = "commit_decided"
      BY <1>5, <2>6 DEF Queues
    <3>3. /\ tx'[q].shown = tx[q].shown
          /\ tx'[q].staged = tx[q].staged \/ tx'[q].staged = tx[q].staged \cup {ResumedEvent(q)}
      BY <1>5, <2>6 DEF Queues, Leaves, Holds
    <3>4. IsFiniteSet(tx'[q].staged)
      BY <2>1, <3>3 DEF Queued
    <3>5. \A e \in tx'[q].staged : e \in tx[q].staged \/ e = ResumedEvent(q)
      BY <3>3
    <3>6. \A e \in tx'[q].staged : e.req = q /\ (e.type = "presented" => tx'[q].shown)
      BY <3>1, <3>3, <3>5 DEF Queued
    <3> QED
      BY <3>2, <3>4, <3>6 DEF Queued
  <2> QED
    BY <1>5, <2>2, <2>3, <2>4, <2>5, <2>6 DEF Queues
<1> QED
  BY <1>1, <1>2, <1>3, <1>4, <1>5, OneMoves, HandleSteps, Zenon

\* While a handler holds the lock and rests, nobody else writes its row's receipts.
LEMMA NobodyElseWrites ==
  ASSUME LifecycleInv, NEW q \in Requests, pc[q] \in Locked, Rests(q), RowReceipts(tx[q].target), [Next]_vars
  PROVE  receipts'[tx[q].target] = receipts[tx[q].target]
<1>1. tx[q].target \in ApprovalIds /\ lock[tx[q].target] = q /\ q # NoRequest
  BY NullsDistinct DEF LifecycleInv, RequestsEquipped, Equipped, SnapshotHolds
<1>2. ReceiptEffect(tx[q].target)
  BY <1>1, StepReceipts
<1>3. ASSUME NEW r \in Requests, Writes(r, tx[q].target) PROVE FALSE
  <2>1. lock[tx[q].target] = r
    BY <1>3 DEF Writes, LifecycleInv, SnapshotHolds, Locked, Creating, Deciding, Marking
  <2>2. r = q /\ pc'[q] = "done"
    BY <1>1, <1>3, <2>1 DEF Writes
  <2> QED
    BY <2>2 DEF Rests, Locked, Creating, Deciding, Marking
<1> QED
  BY <1>1, <1>2, <1>3 DEF ReceiptEffect

LEMMA GrowingRests ==
  ASSUME LifecycleInv, [Next]_vars, NEW q \in Requests, Growing(q), Rests(q), RowReceipts(tx[q].target)
  PROVE  Growing(q)'
<1>1. CASE pc[q] \in Locked
  <2>1. receipts'[tx[q].target] = receipts[tx[q].target]
    BY <1>1, NobodyElseWrites
  <2>2. Working(q)' = Working(q) /\ Fits(tx[q].target)' = Fits(tx[q].target)
    BY <2>1 DEF Rests, Working, Fits
  <2> QED
    BY <2>1, <2>2 DEF Rests, Growing, Fits
<1>2. CASE pc[q] \notin Locked
  BY <1>2 DEF Rests, Growing
<1> QED
  BY <1>1, <1>2

\* At the locked read the row's receipts are all there is, and `latest` is their newest.
LEMMA GrowingLocks ==
  ASSUME LifecycleInv, ReceiptsInv, NEW q \in Requests, Locks(q), RowsStay
  PROVE  Growing(q)'
<1> DEFINE a == tx'[q].target
<1>1. /\ a \in ApprovalIds /\ tx'[q].staged = {} /\ RowReceipts(a)
      /\ receipts[a] \subseteq Events
  BY DEF Locks, ReceiptsInv, Queued, LifecycleInv, TypeOK
<1>2. receipts' = receipts
  BY DEF RowsStay
<1>3. Working(q)' = receipts[a]
  BY <1>1, <1>2 DEF Working
<1>4. ASSUME Cardinality(receipts'[a]) <= ReceiptPage PROVE Sound(receipts[a]) /\ OnTop(receipts[a], tx'[q].latest)
  <2>1. \A b : receipts'[b] = receipts[b]
    BY <1>2
  <2>2. PICK b \in ApprovalIds : b = a
    BY <1>1
  <2>3. Cardinality(receipts[b]) <= ReceiptPage
    BY <1>2, <1>4, <2>2 DEF Fits
  <2>4. tx'[q].latest \in LatestReceipts(b) /\ receipts[b] \subseteq Events /\ RowReceipts(b)
    BY <1>1, <2>2 DEF Locks
  <2>5. Fits(b)
    BY <2>3 DEF Fits
  <2>6. Sound(receipts[b]) /\ OnTop(receipts[b], tx'[q].latest)
    BY <2>4, <2>5, LatestOnTop DEF RowReceipts
  <2> QED
    BY <2>2, <2>6
<1>5. ~(pc'[q] \in {"resume", "append_resumed"})
  BY DEF Locks
<1> QED
  BY <1>3, <1>4, <1>5 DEF Growing, Fits

\* The receipts of this request are the ones it has queued.
LEMMA OwnReceipts ==
  ASSUME LifecycleInv, ReceiptsInv, NEW q \in Requests, pc[q] \in Locked,
         NEW e \in receipts[tx[q].target]
  PROVE  e.req # q /\ e \in Events
<1>1. tx[q].target \in ApprovalIds
  BY DEF LifecycleInv, RequestsEquipped, Equipped
<1>2. e \in Events /\ (e.req # OldRequest => pc[e.req] = "done")
  BY <1>1 DEF ReceiptsInv, RowReceipts, LifecycleInv, TypeOK
<1>3. q # OldRequest /\ pc[q] # "done"
  BY NullsDistinct DEF Locked, Creating, Deciding, Marking
<1> QED
  BY <1>2, <1>3

\* On a row about to be shown there is nothing but its `requested` receipt.
LEMMA OnlyRequested ==
  ASSUME LifecycleInv, ReceiptsInv, NEW q \in Requests, pc[q] = "append_presented",
         NEW e \in Working(q)
  PROVE  e.type = "requested"
<1>1. /\ tx[q].target \in ApprovalIds /\ tx[q].shown /\ tx[q].staged = {}
      /\ ~presentedAt[tx[q].target] /\ decisions[tx[q].target] = {}
  BY DEF LifecycleInv, RequestsEquipped, Equipped, SnapshotHolds, Current, Locked, Marking, ReceiptsInv, Queued
<1>2. e \in receipts[tx[q].target] /\ e \in Events
  BY <1>1 DEF Working, LifecycleInv, TypeOK
<1>3. e.type # "presented" /\ e.type \notin Final
  BY <1>1, <1>2 DEF ReceiptsInv, RowReceipts
<1> QED
  BY <1>2, <1>3 DEF Events, EventTypes, Final

\* What an append leaves on top of the row's receipts.
LEMMA GrowingQueues ==
  ASSUME LifecycleInv, ReceiptsInv, NEW q \in Requests, Queues(q), RowsStay
  PROVE  Growing(q)'
<1> DEFINE W == Working(q)
           n == tx[q].latest.seq
<1>1. /\ tx[q] \in Transactions /\ tx[q].target \in ApprovalIds /\ pc[q] \in Locked
      /\ tx'[q].target = tx[q].target /\ receipts' = receipts
      /\ W \in SUBSET Events /\ tx[q].latest \in Events \cup {NoEvent} /\ n \in Nat
  <2>1. pc[q] \in Locked /\ tx'[q].target = tx[q].target
    BY DEF Queues, Leaves, Holds, Locked, Creating, Deciding, Marking
  <2>2. tx[q] \in Transactions /\ tx[q].target \in ApprovalIds
    BY <2>1 DEF LifecycleInv, TypeOK, RequestsEquipped, Equipped
  <2>3. tx[q].staged \subseteq Events /\ tx[q].latest \in Events \cup {NoEvent}
    BY <2>2, FieldTypes
  <2>4. n \in Nat
    BY <2>3 DEF Events, NoEvent
  <2> QED
    BY <2>1, <2>2, <2>3, <2>4 DEF RowsStay, Working, LifecycleInv, TypeOK
<1>2. SUFFICES ASSUME Fits(tx[q].target)
               PROVE  /\ Sound(Working(q)')
                      /\ pc'[q] \in {"append_presented", "append_decided"} => OnTop(Working(q)', tx'[q].latest)
                      /\ pc'[q] \in {"resume", "append_resumed"} =>
                           /\ \A e \in Working(q)' :
                                /\ OwnDecided(q, e) => e.seq = tx'[q].latest.seq + 1
                                /\ ~OwnDecided(q, e) => e.seq <= tx'[q].latest.seq
                           /\ SinkModes = {TRUE} => \E e \in Working(q)' : OwnDecided(q, e)
  BY <1>1 DEF Growing, Fits
<1>3. /\ Sound(W)
      /\ pc[q] \in {"append_presented", "append_decided"} => OnTop(W, tx[q].latest)
      /\ pc[q] \in {"resume", "append_resumed"} =>
           /\ \A e \in W : (OwnDecided(q, e) => e.seq = n + 1) /\ (~OwnDecided(q, e) => e.seq <= n)
           /\ SinkModes = {TRUE} => \E e \in W : OwnDecided(q, e)
  BY <1>1, <1>2 DEF Growing, ReceiptsInv
<1>4. /\ tx'[q].staged = tx[q].staged => Working(q)' = W
      /\ \A ev : tx'[q].staged = tx[q].staged \cup {ev} => Working(q)' = W \cup {ev}
  BY <1>1 DEF Working
<1> HIDE DEF W, n
<1>5. CASE pc[q] = "append_requested"
  <2>1. pc'[q] = "commit_ingest"
        /\ (tx'[q].staged = tx[q].staged \/ tx'[q].staged = tx[q].staged \cup {RequestedEvent(q)})
    BY <1>5 DEF Queues, Leaves, Holds
  <2>2. status[tx[q].target] = "none" /\ tx[q].staged = {}
    BY <1>5 DEF LifecycleInv, SnapshotHolds, Current, Locked, Creating, ReceiptsInv, Queued
  <2>3. W = {}
    BY <1>1, <2>2 DEF W, Working, ReceiptsInv, RowReceipts
  <2>4. Working(q)' = {} \/ Working(q)' = {RequestedEvent(q)}
    BY <1>4, <2>1, <2>3
  <2>5. Sound(Working(q)')
    BY <2>4, NothingIsSound, FirstIsSound DEF RequestedEvent
  <2> QED
    BY <2>1, <2>5
<1>6. CASE pc[q] = "append_presented"
  <2>1. /\ pc'[q] \in {"commit_presented", "append_decided"}
        /\ \/ tx'[q].staged = tx[q].staged /\ tx'[q].latest = tx[q].latest
           \/ tx'[q].staged = tx[q].staged \cup {PresentedEvent(q)} /\ tx'[q].latest = PresentedEvent(q)
    BY <1>6 DEF Queues, Leaves, Holds
  <2>2. /\ PresentedEvent(q) \in Events /\ PresentedEvent(q).seq = tx[q].latest.seq + 1
        /\ PresentedEvent(q).prev = Ref(tx[q].latest) /\ PresentedEvent(q).type = "presented"
    <3>1. Ref(tx[q].latest) \in EventRefs /\ tx[q].latest.seq + 1 \in Nat /\ "presented" \in EventTypes
      BY <1>1, RefType DEF EventTypes, n
    <3>2. PresentedEvent(q) \in Events
      BY <3>1, EventType DEF PresentedEvent
    <3> QED
      BY <3>2 DEF PresentedEvent, Event
  <2>3. \A e \in W : e.type = "requested"
    BY <1>6, OnlyRequested DEF W
  <2>4. Sound(W \cup {PresentedEvent(q)}) /\ OnTop(W \cup {PresentedEvent(q)}, PresentedEvent(q))
    BY <1>1, <1>3, <1>6, <2>2, <2>3, AddOnTop
  <2>5. Sound(Working(q)') /\ OnTop(Working(q)', tx'[q].latest)
    BY <1>3, <1>4, <1>6, <2>1, <2>4
  <2> QED
    BY <2>1, <2>5
<1>7. CASE pc[q] = "append_decided"
  <2>1. /\ tx'[q].latest = tx[q].latest
        /\ \/ /\ pc'[q] = "commit_presented" \/ (~sinkOn /\ pc'[q] \in {"resume", "commit_decided"})
              /\ tx'[q].staged = tx[q].staged
           \/ /\ pc'[q] \in {"resume", "commit_decided"}
              /\ tx'[q].staged = tx[q].staged \cup {DecidedEvent(q)}
    BY <1>7 DEF Queues, Leaves, Holds
  <2>2. /\ DecidedEvent(q) \in Events /\ DecidedEvent(q).seq = tx[q].latest.seq + 1
        /\ DecidedEvent(q).prev = Ref(tx[q].latest) /\ DecidedEvent(q).type = "decided"
        /\ DecidedEvent(q).req = q
    <3>1. Ref(tx[q].latest) \in EventRefs /\ tx[q].latest.seq + 1 \in Nat /\ "decided" \in EventTypes
      BY <1>1, RefType DEF EventTypes, n
    <3>2. DecidedEvent(q) \in Events
      BY <3>1, EventType DEF DecidedEvent
    <3> QED
      BY <3>2 DEF DecidedEvent, Event
  <2>3. \A e \in W : e.req = q => e.type = "presented"
    BY <1>1, <1>7, OwnReceipts DEF W, Working, ReceiptsInv, Queued
  <2>4. \A e \in W : ~OwnDecided(q, e) /\ e.seq <= n
    <3>1. \A e \in W : e.seq <= n
      BY <1>3, <1>7 DEF OnTop, n
    <3> QED
      BY <2>3, <3>1 DEF OwnDecided
  <2>5. Sound(W \cup {DecidedEvent(q)})
    BY <1>1, <1>3, <1>7, <2>2, <2>3, AddOnTop
  <2>6. CASE tx'[q].staged = tx[q].staged
    <3>1. DecidedEvent(q) \notin tx[q].staged
      BY <2>2, <2>4 DEF OwnDecided, W, Working
    <3>4. Working(q)' = W /\ (pc'[q] \notin {"resume", "append_resumed"} \/ ~sinkOn)
      BY <1>4, <2>1, <2>6, <3>1
    <3>2. SinkModes = {TRUE} => sinkOn = TRUE
      BY DEF ReceiptsInv
    <3>3. pc'[q] \notin {"append_presented", "append_decided"}
      BY <2>1
    <3> QED
      BY <1>3, <2>1, <2>4, <3>2, <3>3, <3>4 DEF n
  <2>7. CASE tx'[q].staged = tx[q].staged \cup {DecidedEvent(q)}
    <3>1. Working(q)' = W \cup {DecidedEvent(q)} /\ OwnDecided(q, DecidedEvent(q))
      BY <1>4, <2>2, <2>7 DEF OwnDecided
    <3>3. pc'[q] \notin {"append_presented", "append_decided"}
      BY <2>1
    <3> QED
      BY <2>1, <2>2, <2>4, <2>5, <3>1, <3>3 DEF n
  <2> QED
    BY <2>1, <2>6, <2>7
<1>8. CASE pc[q] = "resume"
  <2>1. tx'[q].latest = tx[q].latest /\ tx'[q].staged = tx[q].staged /\ pc'[q] = "append_resumed"
    BY <1>8 DEF Queues, Leaves, Holds
  <2>2. Working(q)' = W
    BY <1>4, <2>1
  <2> QED
    BY <1>3, <1>8, <2>1, <2>2 DEF n
<1>9. CASE pc[q] = "append_resumed"
  <2>1. pc'[q] = "commit_decided"
        /\ (tx'[q].staged = tx[q].staged \/ tx'[q].staged = tx[q].staged \cup {ResumedEvent(q)})
    BY <1>9 DEF Queues, Leaves, Holds
  <2>2. /\ ResumedEvent(q) \in Events /\ ResumedEvent(q).seq = n + 2 /\ ResumedEvent(q).req = q
        /\ ResumedEvent(q).prev = <<q, "decided">> /\ ResumedEvent(q).type \in {"resumed", "resume_failed"}
    <3> DEFINE type == IF tx[q].outcome = "decided" THEN "resumed" ELSE "resume_failed"
    <3>1. type \in {"resumed", "resume_failed"}
      OBVIOUS
    <3>2. ResumedEvent(q) = Event(q, type, n + 2, <<q, "decided">>)
      BY DEF ResumedEvent, n
    <3> HIDE DEF type
    <3>3. <<q, "decided">> \in EventRefs /\ type \in EventTypes /\ n + 2 \in Nat
      BY <1>1, <3>1 DEF EventRefs, EventTypes
    <3>4. ResumedEvent(q) \in Events
      BY <3>2, <3>3, EventType
    <3> QED
      BY <3>1, <3>2, <3>4 DEF Event
  <2>3. Sound(W \cup {ResumedEvent(q)})
    BY <1>1, <1>3, <1>9, <2>2, AddResumed
  <2>4. Sound(Working(q)')
    BY <1>3, <1>4, <2>1, <2>3
  <2> QED
    BY <2>1, <2>4
<1> QED
  BY <1>5, <1>6, <1>7, <1>8, <1>9 DEF Queues
LEMMA GrowingStep ==
  ASSUME LifecycleInv, ReceiptsInv, [Next]_vars, NEW q \in Requests
  PROVE  Growing(q)'
<1>1. CASE Rests(q)
  <2>1. CASE pc[q] \in Locked
    <3>1. tx[q].target \in ApprovalIds
      BY <2>1 DEF LifecycleInv, RequestsEquipped, Equipped
    <3> QED
      BY <1>1, <3>1, GrowingRests DEF ReceiptsInv
  <2>2. CASE pc[q] \notin Locked
    BY <1>1, <2>2 DEF Rests, Growing
  <2> QED
    BY <2>1, <2>2
<1>2. CASE RolledBack(q)
  BY <1>2 DEF RolledBack, Growing, Locked, Creating, Deciding, Marking
<1>3. CASE Idles(q) /\ pc'[q] # "append_requested"
  BY <1>3 DEF Idles, Growing, Locked, Creating, Deciding, Marking
<1>4. CASE Handle(q) /\ pc'[q] = "append_requested"
  <2>1. IngestInsert(q) /\ pc[q] = "idle"
    BY <1>4, Arrives DEF LifecycleInv, IngestInsert
  <2>2. PICK a, k : a \in ApprovalIds /\ status[a] = "none" /\ Remember(q, [tx[q] EXCEPT !.key = k, !.target = a])
    BY <2>1, Zenon DEF IngestInsert
  <2>3. tx'[q] = [tx[q] EXCEPT !.key = k, !.target = a] /\ tx[q] \in Transactions
    BY <2>2 DEF Remember, LifecycleInv, TypeOK
  <2>4. DOMAIN tx[q] = FieldNames
    BY <2>3 DEF Transactions, FieldNames
  <2>5. tx'[q].target = a /\ tx'[q].staged = tx[q].staged
    BY <2>3, <2>4 DEF FieldNames
  <2>6. tx[q].staged = {} /\ receipts[a] = {} /\ receipts' = receipts
    BY <2>1, <2>2 DEF ReceiptsInv, Queued, RowReceipts, IngestInsert, OwnStep, rows
  <2>7. Working(q)' = {}
    BY <2>5, <2>6 DEF Working
  <2> QED
    BY <1>4, <2>7, NothingIsSound DEF Growing
<1>5. CASE Locks(q) /\ RowsStay
  BY <1>5, GrowingLocks
<1>6. CASE Queues(q) /\ RowsStay
  BY <1>6, GrowingQueues
<1> QED
  BY <1>1, <1>2, <1>3, <1>4, <1>5, <1>6, OneMoves, HandleSteps

LEMMA RowReceiptsStep ==
  ASSUME LifecycleInv, ReceiptsInv, [Next]_vars, NEW a \in ApprovalIds
  PROVE  RowReceipts(a)'
<1>1. RowReceipts(a) /\ receipts[a] \subseteq Events /\ IsFiniteSet(receipts[a])
  BY DEF ReceiptsInv, RowReceipts, LifecycleInv, TypeOK
<1>2. ReceiptEffect(a)
  BY <1>1, StepReceipts
<1>3. ASSUME NEW r \in Requests, pc[r] = "done" PROVE pc'[r] = "done"
  <2>1. ~Handle(r)
    BY <1>3 DEF Handle, IngestReplay, IngestInsert, IngestRefuse, AppendRequested, CommitIngest, LockPresented,
       PresentedNoOp, AppendPresented, CommitPresented, Begin, RetryRead, LockDecide, DecideRefuse,
       AppendDecided, Resume, AppendResumed, CommitDecided, Cancel
  <2> QED
    BY <1>3, <2>1, OneMoves DEF Rests, RolledBack
<1>4. \A e \in receipts[a] : e.req # OldRequest => pc'[e.req] = "done"
  BY <1>1, <1>3 DEF RowReceipts, Events
<1>5. CASE receipts'[a] = {}
  BY <1>5, NothingIsSound, FS_EmptySet DEF RowReceipts
<1>6. CASE /\ presentedAt[a] => presentedAt'[a]
           /\ decisions[a] # {} => decisions'[a] # {}
           /\ receipts'[a] = receipts[a] /\ (status'[a] \in {"none", "purged"} => status[a] = status'[a])
  <2>1. Fits(a)' => Fits(a)
    BY <1>6 DEF Fits
  <2> QED
    BY <1>1, <1>4, <1>6, <2>1 DEF RowReceipts
<1>7. ASSUME presentedAt[a] => presentedAt'[a], decisions[a] # {} => decisions'[a] # {},
             NEW r \in Requests, Writes(r, a)
      PROVE  RowReceipts(a)'
  <2>1. /\ Queued(r) /\ Growing(r) /\ tx[r].target = a /\ pc[r] \in Locked
        /\ receipts'[a] = Working(r) /\ pc'[r] = "done" /\ status'[a] \notin {"none", "purged"}
        /\ pc[r] \in {"commit_ingest", "commit_presented", "commit_decided"}
    BY <1>7 DEF Writes, ReceiptsInv, Working, Locked, Creating, Deciding, Marking
  <2>2. tx[r].staged \subseteq Events
    BY FieldTypes DEF LifecycleInv, TypeOK
  <2>3. IsFiniteSet(receipts'[a]) /\ receipts[a] \subseteq receipts'[a]
    <3>1. IsFiniteSet(tx[r].staged) /\ receipts'[a] = receipts[a] \cup tx[r].staged
      BY <2>1 DEF Queued, Working
    <3> QED
      BY <1>1, <3>1, FS_Union
  <2>4. Fits(a)' => Fits(a)
    <3>1. Cardinality(receipts[a]) <= Cardinality(receipts'[a])
      BY <2>3, FS_Subset
    <3>2. Cardinality(receipts[a]) \in Nat /\ Cardinality(receipts'[a]) \in Nat
      BY <1>1, <2>3, FS_CardinalityType
    <3> QED
      BY <3>1, <3>2, Settings DEF Fits
  <2>5. Fits(a) => Sound(receipts'[a])
    BY <2>1 DEF Growing
  <2>6. ASSUME NEW e \in tx[r].staged
        PROVE  /\ e.type = "presented" => presentedAt'[a]
               /\ e.type \in Final => decisions'[a] # {}
               /\ e.req # OldRequest => pc'[e.req] = "done"
    <3>1. e.req = r /\ (e.type = "presented" => tx[r].shown) /\ pc'[e.req] = "done"
      BY <2>1 DEF Queued
    <3>2. CASE pc[r] = "commit_ingest"
      <4>1. e.type = "requested"
        BY <2>1, <3>2 DEF Queued, Event
      <4> QED
        BY <3>1, <4>1 DEF Final
    <3>3. CASE pc[r] = "commit_presented"
      <4>1. e.type = "presented"
        BY <2>1, <3>3 DEF Queued
      <4> QED
        BY <1>7, <3>1, <3>3, <4>1 DEF Writes, Final
    <3>4. CASE pc[r] = "commit_decided"
      BY <1>7, <3>1, <3>4 DEF Writes
    <3> QED
      BY <2>1, <3>2, <3>3, <3>4
  <2>7. ASSUME NEW e \in receipts'[a]
        PROVE  /\ e.type = "presented" => presentedAt'[a]
               /\ e.type \in Final => decisions'[a] # {}
               /\ e.req # OldRequest => pc'[e.req] = "done"
    <3>1. CASE e \in tx[r].staged
      BY <2>6, <3>1
    <3>2. CASE e \in receipts[a]
      BY <1>1, <1>4, <1>7, <3>2 DEF RowReceipts
    <3> QED
      BY <2>1, <3>1, <3>2 DEF Working
  <2> QED
    BY <2>1, <2>3, <2>4, <2>5, <2>7 DEF RowReceipts
<1> QED
  BY <1>2, <1>5, <1>6, <1>7, Zenon DEF ReceiptEffect

LEMMA ReceiptsStep == LifecycleInv /\ ReceiptsInv /\ [Next]_vars => ReceiptsInv'
<1> SUFFICES ASSUME LifecycleInv, ReceiptsInv, [Next]_vars PROVE ReceiptsInv'
  OBVIOUS
<1>1. ASSUME NEW a \in ApprovalIds PROVE RowReceipts(a)'
  BY RowReceiptsStep
<1>2. ASSUME NEW q \in Requests PROVE Queued(q)' /\ Growing(q)'
  BY QueuedStep, GrowingStep DEF ReceiptsInv
<1>3. sinkOn' \in SinkModes
  BY SinkSetting DEF ReceiptsInv
<1> QED
  BY <1>1, <1>2, <1>3 DEF ReceiptsInv
LEMMA ReceiptsTheorem == Spec => []ReceiptsInv
<1> QED
  BY ReceiptsInitially, ReceiptsStep, Lifecycle, PTL DEF Spec

\* As long as each approval's receipts fit on the page loadLatestReceipt reads,
\* no two of them carry the same number, whatever is lost, late or rolled back.
ReceiptsFit == \A a \in ApprovalIds : Fits(a)
THEOREM SeqTheorem == Spec => [](ReceiptsFit => ReceiptSeqUnique)
<1>1. ReceiptsInv => (ReceiptsFit => ReceiptSeqUnique)
  BY DEF ReceiptsInv, RowReceipts, ReceiptsFit, ReceiptSeqUnique, Sound, Unique
<1> QED
  BY <1>1, ReceiptsTheorem, PTL

\* Under the same limit they read requested, presented, decided, resumed, and
\* `requested` and `presented` come once (mayRecordPresented).
THEOREM OrderTheorem == Spec => [](ReceiptsFit => EvidenceOrder)
<1>1. ReceiptsInv => (ReceiptsFit => EvidenceOrder)
  BY DEF ReceiptsInv, RowReceipts, ReceiptsFit, EvidenceOrder, Sound, Ordered
<1> QED
  BY <1>1, ReceiptsTheorem, PTL

\* Under the same limit, in a project whose sink stays on, every receipt names
\* the one just before it, so that the chain can be followed from the last.
THEOREM ChainTheorem ==
  ASSUME SinkModes = {TRUE}
  PROVE  Spec => [](ReceiptsFit => ChainLinked)
<1>1. ReceiptsInv => (ReceiptsFit => ChainLinked)
  <2> SUFFICES ASSUME ReceiptsInv, ReceiptsFit, NEW a \in ApprovalIds, NEW e \in receipts[a]
               PROVE  Follows(receipts[a], e)
    BY Zenon DEF ChainLinked, Follows
  <2> QED
    BY DEF ReceiptsInv, RowReceipts, ReceiptsFit, Sound, Linked
<1> QED
  BY <1>1, ReceiptsTheorem, PTL
=============================================================================
