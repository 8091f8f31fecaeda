------------------------------ MODULE Approvals ------------------------------
(***************************************************************************)
(* The life of approval rows in apps/app/lib/approvals.ts.                 *)
(*                                                                         *)
(* Every request runs its handler inside one READ COMMITTED transaction    *)
(* (apps/app/lib/tenant.ts, withTenant).  markApprovalPresented,           *)
(* decideApproval and cancelApproval take the row with SELECT ... FOR      *)
(* UPDATE; what they write becomes visible when the transaction commits    *)
(* and is lost when it rolls back.  What they send to the evidence sink    *)
(* and to the origin is external and is never taken back.                  *)
(*                                                                         *)
(* A request is used once: it stands for one HTTP call.  The job functions *)
(* of apps/app/lib/housekeeping/jobs.ts run beside the requests.           *)
(***************************************************************************)
EXTENDS Integers, FiniteSets

CONSTANTS
  ApprovalIds,     \* the ids newId('apr') can mint
  Ingests,         \* POST /api/v1/approvals
  Presents,        \* POST /api/v1/approvals/:id/presented
  Decides,         \* POST /api/v1/approvals/:id/decide
  Retries,         \* POST /api/v1/approvals/:id/retry-resume
  Cancels,         \* POST /api/v1/approvals/:id/cancel
  Keys,            \* values of the Idempotency-Key header
  Reviewers,       \* people who can decide
  AllowedActions,  \* per approval, the answers envelope.allowedActions admits
  Gated,           \* approvals whose envelope has a mustOpen context item
  Legacy,          \* failed_resume rows older than the presented_at column
  ReceiptPage,     \* the LIMIT of loadLatestReceipt
  SinkModes,       \* whether the project has an evidence sink: values it may take
  MaxCrashes,      \* bound on the transactions that roll back
  NoRequest, NoApproval, NoKey, NoReviewer, OldRequest

Requests == Ingests \cup Presents \cup Decides \cup Retries \cup Cancels

\* The answers whose handling differs: `ignore` closes without a resume,
\* every other one resumes the origin.
Answers == {"accept", "reject", "ignore"}
Open == {"pending", "failed_resume"}
Closed == {"decided", "expired", "cancelled"}
Statuses == Open \cup Closed \cup {"none", "purged"}

ASSUME KindsDisjoint ==
  /\ Ingests \cap (Presents \cup Decides \cup Retries \cup Cancels) = {}
  /\ Presents \cap (Decides \cup Retries \cup Cancels) = {}
  /\ Decides \cap (Retries \cup Cancels) = {}
  /\ Retries \cap Cancels = {}
ASSUME NullsDistinct ==
  /\ NoRequest \notin Requests
  /\ OldRequest \notin Requests
  /\ NoApproval \notin ApprovalIds
  /\ NoKey \notin Keys
  /\ NoReviewer \notin Reviewers
ASSUME Settings ==
  /\ AllowedActions \in [ApprovalIds -> SUBSET Answers]
  /\ Gated \subseteq ApprovalIds
  /\ Legacy \subseteq ApprovalIds \ Gated
  /\ ReceiptPage \in Nat \ {0}
  /\ SinkModes \subseteq BOOLEAN
  /\ SinkModes # {}
  /\ MaxCrashes \in Nat

VARIABLES
  (* committed rows *)
  status,          \* approvals.status; "none" before the insert, "purged" after the delete
  presentedAt,     \* approvals.presented_at IS NOT NULL
  idempotencyKey,  \* approvals.idempotency_key
  decisions,       \* decision_records
  receipts,        \* evidence_receipts
  opened,          \* reviewers with an `opened` project event for the gating item
  (* wall clock *)
  due,             \* approvals.expires_at < now
  stale,           \* approvals.updated_at is older than the retention window
  clock,           \* transaction start times handed out so far
  (* project settings *)
  sinkOn,          \* projects.evidence_sink_type # 'none'
  (* transactions *)
  lock,            \* holder of the row lock
  pc, tx,
  purging,         \* ids the purge job selected and has not deleted yet
  crashes,
  (* outside the database *)
  sink,            \* events the external evidence store holds
  origin           \* resumes the origin received

rows == <<status, presentedAt, idempotencyKey, decisions, receipts, opened>>
time == <<due, stale, clock>>
outside == <<sink, origin>>
vars == <<rows, time, sinkOn, lock, pc, tx, purging, crashes, outside>>

EventTypes == {"requested", "presented", "decided", "resumed", "resume_failed"}
\* Each event names the one before it (integrity.prev_event_id); within one
\* request an event is identified by its type.
EventRefs == (Requests \cup {OldRequest, NoRequest}) \X (EventTypes \cup {"none"})
Events == [req : Requests \cup {OldRequest}, type : EventTypes, seq : Nat, prev : EventRefs]
NoEvent == [req |-> NoRequest, type |-> "none", seq |-> 0, prev |-> <<NoRequest, "none">>]
Ref(e) == <<e.req, e.type>>
Event(r, type, seq, prev) == [req |-> r, type |-> type, seq |-> seq, prev |-> prev]
Records == [req : Requests \cup {OldRequest}, answer : Answers \cup {"cancel"},
            reviewer : Reviewers, at : Nat, failed : BOOLEAN]
Transactions ==
  [target : ApprovalIds \cup {NoApproval}, key : Keys \cup {NoKey},
   answer : Answers \cup {"cancel"}, reviewer : Reviewers \cup {NoReviewer},
   started : Nat, latest : Events \cup {NoEvent}, shown : BOOLEAN,
   staged : SUBSET Events, outcome : {"decided", "failed_resume"}]
Idle == [target |-> NoApproval, key |-> NoKey, answer |-> "ignore",
         reviewer |-> NoReviewer, started |-> 0, latest |-> NoEvent,
         shown |-> FALSE, staged |-> {}, outcome |-> "decided"]

-----------------------------------------------------------------------------
(***************************************************************************)
(* Queries                                                                 *)
(***************************************************************************)

\* How many receipts of `a` sort before sequence number n.
Before(a, n) == Cardinality({f \in receipts[a] : f.seq < n})

\* loadLatestReceipt: ORDER BY seq LIMIT ReceiptPage, then the last row of the
\* page.  Rows with equal seq come in any order.
LatestReceipts(a) ==
  IF receipts[a] = {} THEN {NoEvent}
  ELSE {e \in receipts[a] :
          /\ Before(a, e.seq) < ReceiptPage
          /\ \A f \in receipts[a] : f.seq > e.seq => Before(a, f.seq) >= ReceiptPage}

\* ORDER BY created_at DESC LIMIT 1.  created_at defaults to now(), which is
\* the time the inserting transaction started.
LatestDecisions(a) == {d \in decisions[a] : \A e \in decisions[a] : e.at <= d.at}

\* An open approval with the key: what ingestApproval looks for before it inserts.
Matching(k) == {a \in ApprovalIds : status[a] \in Open /\ idempotencyKey[a] = k}

\* approvalHasExpired
HasExpired(a) == status[a] = "expired" \/ (status[a] = "pending" /\ due[a])

MayRecordAlways(a) == TRUE  \* mutant: without the guard against late `presented` events
MayRecordPresented(a) == status[a] = "pending" \/ decisions[a] = {}

\* allowedActions, then the answer gate over this reviewer's recorded opens.
Admits(a, answer, reviewer) ==
  /\ answer \in AllowedActions[a]
  /\ a \in Gated => reviewer \in opened[a]

Exists(a) == status[a] \notin {"none", "purged"}

-----------------------------------------------------------------------------
Init ==
  /\ status = [a \in ApprovalIds |-> IF a \in Legacy THEN "failed_resume" ELSE "none"]
  /\ presentedAt = [a \in ApprovalIds |-> FALSE]
  /\ idempotencyKey = [a \in ApprovalIds |-> NoKey]
  /\ \E u \in Reviewers :
       decisions = [a \in ApprovalIds |->
         IF a \in Legacy
         THEN {[req |-> OldRequest, answer |-> "accept", reviewer |-> u,
                at |-> 0, failed |-> TRUE]}
         ELSE {}]
  /\ receipts = [a \in ApprovalIds |->
       IF a \in Legacy
       THEN {Event(OldRequest, "requested", 1, Ref(NoEvent)),
             Event(OldRequest, "decided", 2, <<OldRequest, "requested">>),
             Event(OldRequest, "resume_failed", 3, <<OldRequest, "decided">>)}
       ELSE {}]
  /\ opened = [a \in ApprovalIds |-> {}]
  /\ due = [a \in ApprovalIds |-> FALSE]
  /\ stale = [a \in ApprovalIds |-> FALSE]
  /\ clock = 0
  /\ sinkOn \in SinkModes
  /\ lock = [a \in ApprovalIds |-> NoRequest]
  /\ pc = [r \in Requests |-> "idle"]
  /\ tx = [r \in Requests |-> Idle]
  /\ purging = {}
  /\ crashes = 0
  /\ sink = receipts
  /\ origin = [a \in ApprovalIds |-> {}]
-----------------------------------------------------------------------------
(***************************************************************************)
(* Transactions                                                            *)
(***************************************************************************)
Goto(r, label) == pc' = [pc EXCEPT ![r] = label]
Remember(r, t) == tx' = [tx EXCEPT ![r] = t]
AcquireUnlocked(r, a) == lock' = [lock EXCEPT ![a] = r]  \* mutant: no FOR UPDATE
Acquire(r, a) == lock[a] = NoRequest /\ lock' = [lock EXCEPT ![a] = r]
KeepLock(a) == UNCHANGED lock  \* mutant: the transaction is left open
Release(a) == lock' = [lock EXCEPT ![a] = NoRequest]

\* The transaction writes only its own snapshot of work.
OwnStep == UNCHANGED <<rows, time, sinkOn, purging, crashes, outside>>

\* appendEvidence(ev).  "none": no sink, no receipt.  "receipt": stored, and the
\* receipt row is part of the transaction.  "error": it threw, with the event
\* stored (the answer was lost or late) or not.
SinkAppend(a, ev, result) ==
  \/ result = "none" /\ ~sinkOn /\ UNCHANGED sink
  \/ result = "receipt" /\ sinkOn /\ sink' = [sink EXCEPT ![a] = @ \cup {ev}]
  \/ result = "error" /\ sinkOn /\ (UNCHANGED sink \/ sink' = [sink EXCEPT ![a] = @ \cup {ev}])

AppendResults == {"none", "receipt", "error"}
\* The handler queues the receipt row for its commit.
Stage(r, ev, result) == IF result = "receipt" THEN tx[r].staged \cup {ev} ELSE tx[r].staged

\* The insert into decision_records.
ReplaceDecision(a, d) == decisions' = [decisions EXCEPT ![a] = {d}]  \* mutant: an upsert
RecordDecision(a, d) == decisions' = [decisions EXCEPT ![a] = @ \cup {d}]

-----------------------------------------------------------------------------
(***************************************************************************)
(* ingestApproval                                                          *)
(***************************************************************************)

\* An open item with the key is returned as it stands; nothing is written.
IngestReplay(r) ==
  /\ r \in Ingests /\ pc[r] = "idle"
  /\ \E k \in Keys : \E a \in Matching(k) :
       Remember(r, [tx[r] EXCEPT !.key = k, !.target = a])
  /\ Goto(r, "done")
  /\ UNCHANGED lock /\ OwnStep

\* The lookup found nothing: insert a row under a fresh id.  It stays invisible,
\* and its id reserved, until the commit.
IngestInsert(r) ==
  /\ r \in Ingests /\ pc[r] = "idle"
  /\ \E k \in Keys \cup {NoKey}, a \in ApprovalIds :
       /\ k # NoKey => Matching(k) = {}
       /\ status[a] = "none" /\ Acquire(r, a)
       /\ Remember(r, [tx[r] EXCEPT !.key = k, !.target = a])
  /\ Goto(r, "append_requested")
  /\ OwnStep

\* Plugin mismatch, an ingest error or an invalid gate: 400, only logged.
IngestRefuse(r) ==
  /\ r \in Ingests /\ pc[r] = "idle"
  /\ Goto(r, "done")
  /\ UNCHANGED <<lock, tx>> /\ OwnStep

\* `requested` is fail-open.
AppendRequested(r) ==
  /\ pc[r] = "append_requested"
  /\ LET ev == Event(r, "requested", 1, Ref(NoEvent)) IN
     \E result \in AppendResults :
       /\ SinkAppend(tx[r].target, ev, result)
       /\ Remember(r, [tx[r] EXCEPT !.staged = Stage(r, ev, result)])
  /\ Goto(r, "commit_ingest")
  /\ UNCHANGED <<rows, time, sinkOn, lock, purging, crashes, origin>>

CommitIngest(r) ==
  LET a == tx[r].target IN
  /\ pc[r] = "commit_ingest"
  /\ status' = [status EXCEPT ![a] = "pending"]
  /\ idempotencyKey' = [idempotencyKey EXCEPT ![a] = tx[r].key]
  /\ receipts' = [receipts EXCEPT ![a] = tx[r].staged]
  /\ Release(a) /\ Goto(r, "done")
  /\ UNCHANGED <<presentedAt, decisions, opened, time, sinkOn, tx, purging, crashes, outside>>

-----------------------------------------------------------------------------
(***************************************************************************)
(* markApprovalPresented                                                   *)
(***************************************************************************)
MayMark(a) ==
  /\ ~presentedAt[a]
  /\ status[a] \in Open /\ ~HasExpired(a)
  /\ MayRecordPresented(a)

LockPresented(r) ==
  /\ r \in Presents /\ pc[r] = "idle"
  /\ \E a \in ApprovalIds :
       /\ MayMark(a) /\ Acquire(r, a)
       /\ \E e \in LatestReceipts(a) :
            Remember(r, [tx[r] EXCEPT !.target = a, !.shown = TRUE, !.latest = e])
  /\ Goto(r, "append_presented")
  /\ OwnStep

\* Already presented, not open, expired, decided before, or no such row.
PresentedNoOp(r) ==
  /\ r \in Presents /\ pc[r] = "idle"
  /\ \E a \in ApprovalIds : lock[a] = NoRequest /\ ~MayMark(a)
  /\ Goto(r, "done")
  /\ UNCHANGED <<lock, tx>> /\ OwnStep

\* What the next event of this request links to.
CarryNothing(r, ev, result) == tx[r].latest  \* mutant: `latest` is not updated
CarrySeqOnly(r, ev, result) ==  \* mutant: only its `seq` is updated
  IF result = "receipt" THEN [tx[r].latest EXCEPT !.seq = ev.seq] ELSE tx[r].latest
CarryForward(r, ev, result) == IF result = "receipt" THEN ev ELSE tx[r].latest

\* `presented` is fail-open; its receipt is carried forward to `decided`.
\* decideApproval runs this same append before `decided` when nothing recorded
\* that the ask was shown.
AppendPresented(r) ==
  /\ pc[r] = "append_presented"
  /\ LET ev == Event(r, "presented", tx[r].latest.seq + 1, Ref(tx[r].latest)) IN
     \E result \in AppendResults :
       /\ SinkAppend(tx[r].target, ev, result)
       /\ Remember(r, [tx[r] EXCEPT !.staged = Stage(r, ev, result),
                                    !.latest = CarryForward(r, ev, result)])
  /\ Goto(r, IF r \in Presents THEN "commit_presented" ELSE "append_decided")
  /\ UNCHANGED <<rows, time, sinkOn, lock, purging, crashes, origin>>

\* Commit of markApprovalPresented, and of a decision whose `decided` append
\* failed: presented_at and the staged receipts survive, the decision does not.
CommitPresented(r) ==
  LET a == tx[r].target IN
  /\ pc[r] = "commit_presented"
  /\ presentedAt' = [presentedAt EXCEPT ![a] = @ \/ tx[r].shown]
  /\ receipts' = [receipts EXCEPT ![a] = @ \cup tx[r].staged]
  /\ Release(a) /\ Goto(r, "done")
  /\ UNCHANGED <<status, idempotencyKey, decisions, opened, time, sinkOn, tx, purging,
                 crashes, outside>>

-----------------------------------------------------------------------------
(***************************************************************************)
(* decideApproval, retryResume, cancelApproval                             *)
(***************************************************************************)

\* The transaction starts and the route reads the row without a lock.
Begin(r) ==
  /\ r \in Decides \cup Retries \cup Cancels /\ pc[r] = "idle"
  /\ clock' = clock + 1
  /\ \E a \in {b \in ApprovalIds : Exists(b)} :
       \/ /\ r \in Decides
          /\ \E answer \in Answers, u \in Reviewers :
               Remember(r, [tx[r] EXCEPT !.target = a, !.started = clock + 1,
                                         !.answer = answer, !.reviewer = u])
          /\ Goto(r, "lock")
       \/ /\ r \in Cancels
          /\ \E u \in Reviewers :
               Remember(r, [tx[r] EXCEPT !.target = a, !.started = clock + 1, !.reviewer = u])
          /\ Goto(r, "lock")
       \/ /\ r \in Retries
          /\ Remember(r, [tx[r] EXCEPT !.target = a, !.started = clock + 1])
          /\ Goto(r, "read")
  /\ UNCHANGED <<rows, due, stale, sinkOn, lock, purging, crashes, outside>>

\* retryResume takes the stored decision to replay, still without the row lock.
StoredAnswer(t, d) == [t EXCEPT !.answer = d.answer]  \* mutant: the decider is lost
StoredDecision(t, d) == [t EXCEPT !.answer = d.answer, !.reviewer = d.reviewer]

RetryRead(r) ==
  LET a == tx[r].target IN
  /\ pc[r] = "read"
  /\ \/ /\ status[a] = "failed_resume"
        /\ \E d \in LatestDecisions(a) : Remember(r, StoredDecision(tx[r], d))
        /\ Goto(r, "lock")
     \/ /\ status[a] # "failed_resume" \/ decisions[a] = {}
        /\ Goto(r, "done") /\ UNCHANGED tx
  /\ UNCHANGED lock /\ OwnStep

\* Under the lock: refuse, or take an open approval on.
DecidableClosed(r) ==  \* mutant: the status is not looked at again
  LET a == tx[r].target IN
  ~HasExpired(a) /\ Exists(a) /\ Admits(a, tx[r].answer, tx[r].reviewer)
Decidable(r) ==
  LET a == tx[r].target IN
  /\ status[a] \in Open /\ ~HasExpired(a)
  /\ Admits(a, tx[r].answer, tx[r].reviewer)

\* A decision on something nobody recorded as shown records that first.
PresentsAgain(r, a) == r \notin Retries  \* mutant: presented_at is not looked at
PresentsFirst(r, a) == r \notin Retries /\ ~presentedAt[a] /\ MayRecordPresented(a)

LockDecide(r) ==
  LET a == tx[r].target IN
  /\ r \in Decides \cup Retries /\ pc[r] = "lock"
  /\ Decidable(r) /\ Acquire(r, a)
  /\ \E e \in LatestReceipts(a) :
       Remember(r, [tx[r] EXCEPT !.latest = e, !.shown = PresentsFirst(r, a)])
  /\ Goto(r, IF PresentsFirst(r, a) THEN "append_presented" ELSE "append_decided")
  /\ OwnStep

\* 404, 409 or 400.  An overdue pending row is flipped to expired on the way out.
DecideRefuse(r) ==
  LET a == tx[r].target IN
  /\ r \in Decides \cup Retries /\ pc[r] = "lock"
  /\ lock[a] = NoRequest /\ ~Decidable(r)
  /\ status' = IF status[a] = "pending" /\ HasExpired(a)
               THEN [status EXCEPT ![a] = "expired"] ELSE status
  /\ Goto(r, "done")
  /\ UNCHANGED <<presentedAt, idempotencyKey, decisions, receipts, opened, time, sinkOn,
                 lock, tx, purging, crashes, outside>>

\* `decided` is fail-closed: an error ends the request with status 500, and the
\* origin is not called.
AfterDecidedFailOpen(r, result) ==  \* mutant: the error is only logged
  IF tx[r].answer = "ignore" THEN "commit_decided" ELSE "resume"
AfterDecided(r, result) ==
  CASE result = "error" -> "commit_presented"
    [] result # "error" /\ tx[r].answer = "ignore" -> "commit_decided"
    [] OTHER -> "resume"

AppendDecided(r) ==
  /\ pc[r] = "append_decided"
  /\ LET ev == Event(r, "decided", tx[r].latest.seq + 1, Ref(tx[r].latest)) IN
     \E result \in AppendResults :
       /\ SinkAppend(tx[r].target, ev, result)
       /\ Remember(r, [tx[r] EXCEPT !.staged = Stage(r, ev, result)])
       /\ Goto(r, AfterDecided(r, result))
  /\ UNCHANGED <<rows, time, sinkOn, lock, purging, crashes, origin>>

\* The origin hears the answer.
Tell(r, a) == origin' = [origin EXCEPT ![a] = @ \cup {[req |-> r, answer |-> tx[r].answer]}]

\* getPlugin(...).resume: the origin takes the answer and says so, or the call
\* fails, with or without having reached the origin.
ResumeUnchecked(r, a) ==  \* mutant: originResumeError is not looked at
  (Tell(r, a) \/ UNCHANGED origin) /\ Remember(r, [tx[r] EXCEPT !.outcome = "decided"])
CallOrigin(r, a) ==
  \/ Tell(r, a) /\ Remember(r, [tx[r] EXCEPT !.outcome = "decided"])
  \/ (Tell(r, a) \/ UNCHANGED origin) /\ Remember(r, [tx[r] EXCEPT !.outcome = "failed_resume"])

Resume(r) ==
  /\ pc[r] = "resume"
  /\ CallOrigin(r, tx[r].target)
  /\ Goto(r, "append_resumed")
  /\ UNCHANGED <<rows, time, sinkOn, lock, purging, crashes, sink>>

\* Fail-open.  The sequence number and the link assume `decided` got a receipt.
AppendResumed(r) ==
  /\ pc[r] = "append_resumed"
  /\ LET ev == Event(r, IF tx[r].outcome = "decided" THEN "resumed" ELSE "resume_failed",
                     tx[r].latest.seq + 2, <<r, "decided">>) IN
     \E result \in AppendResults :
       /\ SinkAppend(tx[r].target, ev, result)
       /\ Remember(r, [tx[r] EXCEPT !.staged = Stage(r, ev, result)])
  /\ Goto(r, "commit_decided")
  /\ UNCHANGED <<rows, time, sinkOn, lock, purging, crashes, origin>>

CommitDecided(r) ==
  LET a == tx[r].target IN
  /\ pc[r] = "commit_decided"
  /\ RecordDecision(a, [req |-> r, answer |-> tx[r].answer, reviewer |-> tx[r].reviewer,
                        at |-> tx[r].started, failed |-> tx[r].outcome = "failed_resume"])
  /\ status' = [status EXCEPT ![a] = tx[r].outcome]
  /\ presentedAt' = [presentedAt EXCEPT ![a] = @ \/ tx[r].shown]
  /\ receipts' = [receipts EXCEPT ![a] = @ \cup tx[r].staged]
  /\ Release(a) /\ Goto(r, "done")
  /\ UNCHANGED <<idempotencyKey, opened, time, sinkOn, tx, purging, crashes, outside>>

\* cancelApproval calls nothing outside, so lock, writes and commit are one step.
Cancel(r) ==
  LET a == tx[r].target IN
  /\ r \in Cancels /\ pc[r] = "lock"
  /\ lock[a] = NoRequest
  /\ \/ /\ status[a] \in Open
        /\ RecordDecision(a, [req |-> r, answer |-> "cancel", reviewer |-> tx[r].reviewer,
                              at |-> tx[r].started, failed |-> FALSE])
        /\ status' = [status EXCEPT ![a] = "cancelled"]
     \/ status[a] \notin Open /\ UNCHANGED <<decisions, status>>
  /\ Goto(r, "done")
  /\ UNCHANGED <<presentedAt, idempotencyKey, receipts, opened, time, sinkOn, lock, tx,
                 purging, crashes, outside>>

-----------------------------------------------------------------------------
(***************************************************************************)
(* Around the requests                                                     *)
(***************************************************************************)

\* The process dies or the connection is lost: the database rolls back.
Crash(r) ==
  /\ pc[r] \notin {"idle", "done"} /\ crashes < MaxCrashes
  /\ crashes' = crashes + 1
  /\ lock' = [a \in ApprovalIds |-> IF lock[a] = r THEN NoRequest ELSE lock[a]]
  /\ Goto(r, "done")
  /\ UNCHANGED <<rows, time, sinkOn, tx, purging, outside>>

\* POST /api/v1/approvals/:id/opens, whose row read takes no lock.
RecordOpen(a, u) ==
  /\ a \in Gated /\ status[a] \in Open /\ u \notin opened[a]
  /\ opened' = [opened EXCEPT ![a] = @ \cup {u}]
  /\ UNCHANGED <<status, presentedAt, idempotencyKey, decisions, receipts, time, sinkOn,
                 lock, pc, tx, purging, crashes, outside>>

ExpireAnyOpen(a) ==  \* mutant: failed_resume rows are expired too
  /\ lock[a] = NoRequest /\ status[a] \in Open /\ due[a]
  /\ status' = [status EXCEPT ![a] = "expired"]
  /\ UNCHANGED <<presentedAt, idempotencyKey, decisions, receipts, opened, time, sinkOn,
                 lock, pc, tx, purging, crashes, outside>>

\* expireOverdueApprovals: the UPDATE waits for the row lock and then looks at
\* the committed row again.
ExpireOverdue(a) ==
  /\ lock[a] = NoRequest /\ status[a] = "pending" /\ due[a]
  /\ status' = [status EXCEPT ![a] = "expired"]
  /\ UNCHANGED <<presentedAt, idempotencyKey, decisions, receipts, opened, time, sinkOn,
                 lock, pc, tx, purging, crashes, outside>>

\* purgeCompletedApprovals selects without a lock and deletes by id.
PurgeSelect ==
  /\ purging = {}
  /\ purging' = {a \in ApprovalIds : status[a] \in Closed /\ stale[a]}
  /\ purging' # {}
  /\ UNCHANGED <<rows, time, sinkOn, lock, pc, tx, crashes, outside>>

PurgeDelete ==
  /\ purging # {}
  /\ \A a \in purging : lock[a] = NoRequest
  /\ status' = [a \in ApprovalIds |-> IF a \in purging THEN "purged" ELSE status[a]]
  /\ decisions' = [a \in ApprovalIds |-> IF a \in purging THEN {} ELSE decisions[a]]
  /\ receipts' = [a \in ApprovalIds |-> IF a \in purging THEN {} ELSE receipts[a]]
  /\ opened' = [a \in ApprovalIds |-> IF a \in purging THEN {} ELSE opened[a]]
  /\ purging' = {}
  /\ UNCHANGED <<presentedAt, idempotencyKey, time, sinkOn, lock, pc, tx, crashes, outside>>

\* The deadline passes.
FallDue(a) ==
  /\ Exists(a) /\ ~due[a]
  /\ due' = [due EXCEPT ![a] = TRUE]
  /\ UNCHANGED <<rows, stale, clock, sinkOn, lock, pc, tx, purging, crashes, outside>>

\* A closed row outlives the retention window: days, so no request on it is
\* still running.
GrowStale(a) ==
  /\ status[a] \in Closed /\ ~stale[a]
  /\ \A r \in Requests : tx[r].target = a => pc[r] \in {"idle", "done"}
  /\ stale' = [stale EXCEPT ![a] = TRUE]
  /\ UNCHANGED <<rows, due, clock, sinkOn, lock, pc, tx, purging, crashes, outside>>

\* An administrator turns the evidence sink on or off; no transaction reads it
\* under a lock.
ConfigureSink ==
  /\ sinkOn' \in SinkModes /\ sinkOn' # sinkOn
  /\ UNCHANGED <<rows, time, lock, pc, tx, purging, crashes, outside>>

-----------------------------------------------------------------------------
Handle(r) ==
  \/ IngestReplay(r) \/ IngestInsert(r) \/ IngestRefuse(r)
  \/ AppendRequested(r) \/ CommitIngest(r)
  \/ LockPresented(r) \/ PresentedNoOp(r) \/ AppendPresented(r) \/ CommitPresented(r)
  \/ Begin(r) \/ RetryRead(r) \/ LockDecide(r) \/ DecideRefuse(r)
  \/ AppendDecided(r) \/ Resume(r) \/ AppendResumed(r) \/ CommitDecided(r)
  \/ Cancel(r)

Next ==
  \/ \E r \in Requests : Handle(r) \/ Crash(r)
  \/ \E a \in ApprovalIds :
       ExpireOverdue(a) \/ FallDue(a) \/ GrowStale(a) \/ \E u \in Reviewers : RecordOpen(a, u)
  \/ PurgeSelect \/ PurgeDelete \/ ConfigureSink

Spec == Init /\ [][Next]_vars

\* A handler that has started runs on: Node schedules its continuations, the sink
\* is given up after its time limit, and Postgres wakes the waiters of a row lock
\* in turn. The call of the origin is the exception: the gRPC calls of OpenShell
\* and Temporal have no deadline, so a silent origin may never be heard of again.
Progress(r) == pc[r] \notin {"idle", "resume"} /\ Handle(r)
FairSpec == Spec /\ \A r \in Requests : WF_vars(Progress(r))

-----------------------------------------------------------------------------
(***************************************************************************)
(* Properties                                                              *)
(***************************************************************************)

\* The requests that hold a row lock, by what they are doing under it.
Creating == {"append_requested", "commit_ingest"}
Deciding == {"append_decided", "resume", "append_resumed", "commit_decided"}
Marking == {"append_presented", "commit_presented"}
Locked == Creating \cup Deciding \cup Marking
Labels == Locked \cup {"idle", "read", "lock", "done"}

TypeOK ==
  /\ status \in [ApprovalIds -> Statuses]
  /\ presentedAt \in [ApprovalIds -> BOOLEAN]
  /\ idempotencyKey \in [ApprovalIds -> Keys \cup {NoKey}]
  /\ decisions \in [ApprovalIds -> SUBSET Records]
  /\ receipts \in [ApprovalIds -> SUBSET Events]
  /\ opened \in [ApprovalIds -> SUBSET Reviewers]
  /\ due \in [ApprovalIds -> BOOLEAN] /\ stale \in [ApprovalIds -> BOOLEAN]
  /\ clock \in Nat /\ crashes \in Nat
  /\ sinkOn \in BOOLEAN
  /\ lock \in [ApprovalIds -> Requests \cup {NoRequest}]
  /\ pc \in [Requests -> Labels]
  /\ tx \in [Requests -> Transactions]
  /\ purging \subseteq ApprovalIds
  /\ sink \in [ApprovalIds -> SUBSET Events]
  /\ origin \in [ApprovalIds -> SUBSET [req : Requests, answer : Answers \cup {"cancel"}]]

\* What a handler read under the row lock is still true when it writes: no
\* other request, expiry or purge changes the row, its decisions or its
\* receipts while a decision or a mark is in progress.
Current(label, a, shown) ==
  /\ label \in Creating => status[a] = "none"
  /\ label \in Deciding \cup Marking =>
       /\ status[a] \in Open /\ a \notin purging
       /\ shown => ~presentedAt[a] /\ decisions[a] = {}

SnapshotHolds ==
  \A r \in Requests :
    pc[r] \in Locked =>
      lock[tx[r].target] = r /\ Current(pc[r], tx[r].target, tx[r].shown)

\* The status tells what was recorded: a pending or expired item has no
\* decision, a failed resume has only failed ones, a decided item has one that
\* went through, a cancelled one has its cancellation.
DecisionMatchesStatus ==
  \A a \in ApprovalIds :
    /\ status[a] \in {"none", "pending", "expired", "purged"} => decisions[a] = {}
    /\ status[a] = "failed_resume" => decisions[a] # {} /\ \A d \in decisions[a] : d.failed
    /\ status[a] = "decided" => \E d \in decisions[a] : ~d.failed /\ d.answer # "cancel"
    /\ status[a] = "cancelled" => \E d \in decisions[a] : d.answer = "cancel"

\* However many reviewers answer, retry and cancel at once, at most one of
\* them closes the approval.
OneAcceptedAnswer ==
  \A a \in ApprovalIds : \A d, e \in decisions[a] : ~d.failed /\ ~e.failed => d = e

\* A decided approval was answered at the origin, with the recorded answer.
SettledMeansTold ==
  \A a \in ApprovalIds :
    status[a] = "decided" =>
      \E d \in decisions[a] :
        /\ ~d.failed
        /\ d.answer = "ignore" \/ [req |-> d.req, answer |-> d.answer] \in origin[a]

\* A retry replays an answer a person gave, under that person's name.
RetryKeepsDecider ==
  \A a \in ApprovalIds : \A d \in decisions[a] :
    d.req \in Retries =>
      \E e \in decisions[a] :
        e.req \notin Retries /\ e.failed /\ e.answer = d.answer /\ e.reviewer = d.reviewer

\* No two receipts of an approval carry the same sequence number
\* (the comment of markApprovalPresented: "the receipt `seq` cannot fork").
ReceiptSeqUnique ==
  \A a \in ApprovalIds : \A e, f \in receipts[a] : e.seq = f.seq => e = f

\* requested -> presented -> decided -> resumed, with `requested` and
\* `presented` at most once (the comment of mayRecordPresented).
EvidenceOrder ==
  \A a \in ApprovalIds : \A e, f \in receipts[a] :
    /\ e.type = "requested" /\ f # e => e.seq < f.seq
    /\ e.type = "presented" /\ f # e /\ f.type # "requested" => e.seq < f.seq
    /\ e.req = f.req /\ e.type = "decided" /\ f.type \in {"resumed", "resume_failed"} =>
         f.seq = e.seq + 1

\* With a sink that is not reconfigured, every receipt links to the one just
\* before it, errors, retries and rollbacks included.
ChainLinked ==
  \A a \in ApprovalIds : \A e \in receipts[a] :
    LET earlier == {f \in receipts[a] : f.seq < e.seq} IN
    IF earlier = {} THEN e.prev = Ref(NoEvent)
    ELSE \E f \in earlier : e.prev = Ref(f) /\ \A g \in earlier : g.seq <= f.seq

\* Fail-closed: with a sink configured, whatever the origin is told, the sink
\* already holds that request's `decided` event, even if the transaction is
\* later rolled back.
ResumeOnlyAfterEvidence ==
  \A a \in ApprovalIds : \A o \in origin[a] :
    \E e \in sink[a] : e.req = o.req /\ e.type = "decided"

\* A closed approval is never reopened or closed in another way; it can only
\* be deleted.
ClosedIsFinal ==
  [][\A a \in ApprovalIds : status[a] \in Closed => status'[a] \in {status[a], "purged"}]_vars

\* "A recorded decision is durable even if the origin resume fails": decisions
\* go only with a closed approval that outlived its retention.
RecordsAreDurable ==
  [][\A a \in ApprovalIds :
       decisions[a] \subseteq decisions'[a] \/ (status[a] \in Closed /\ stale[a])]_vars

\* Every request that starts ends, and nobody waits for a row lock for ever, with
\* one exception: a request whose origin never answers holds the row, and the
\* requests for its approval wait with it.
OriginSilent(a) == \E q \in Requests : pc[q] = "resume" /\ tx[q].target = a
RequestsFinish ==
  \A r \in Requests : \A a \in ApprovalIds :
    (pc[r] # "idle" /\ tx[r].target = a)
      ~> (pc[r] = "done" \/ []OriginSilent(a))

\* The abstract promise: lifecycle phases, kept records and one verdict.
Accepted(a) == {d \in decisions[a] : ~d.failed /\ d.answer # "cancel"}
Phase(a) == CASE status[a] \in Open -> "open"
              [] status[a] = "decided" -> "settled"
              [] status[a] = "purged" -> "deleted"
              [] OTHER -> status[a]

Contract == INSTANCE ApprovalContract WITH
  Attempts <- Requests \cup {OldRequest},
  Verdicts <- Answers,
  NoVerdict <- "none",
  phase <- [a \in ApprovalIds |-> Phase(a)],
  attempts <- [a \in ApprovalIds |-> {d.req : d \in decisions[a]}],
  verdict <- [a \in ApprovalIds |->
               IF Accepted(a) = {} THEN "none" ELSE (CHOOSE d \in Accepted(a) : TRUE).answer]

\* The handlers, jobs and rollbacks together implement the abstract promise.
KeepsContract == Contract!ContractSpec

-----------------------------------------------------------------------------
(***************************************************************************)
(* Why it holds: the facts that carry the proofs of ApprovalsProofs        *)
(***************************************************************************)

\* A request carries what its next step needs: a row, and a decider whose
\* answer the envelope admits.
Equipped(r, label, t) ==
  /\ label \in Locked \cup {"read", "lock"} => t.target \in ApprovalIds
  /\ label \in Creating => r \in Ingests
  /\ label = "read" => r \in Retries
  /\ label = "lock" => r \in Decides \cup Retries \cup Cancels
  /\ label \in Deciding => r \in Decides \cup Retries
  /\ label \in Marking => r \in Presents \cup Decides \cup Retries
  /\ label = "lock" \/ (label \in Deciding \cup Marking /\ r \notin Presents) =>
       t.reviewer \in Reviewers
  /\ label \in Deciding \cup Marking /\ r \notin Presents => t.answer \in Answers

RequestsEquipped == \A r \in Requests : Equipped(r, pc[r], tx[r])

\* What the purge selected stays closed until it is deleted.
PurgeSelectsClosed == \A a \in purging : status[a] \in Closed /\ stale[a]

\* A request is recorded once, at its commit.
RecordedRequestsAreDone ==
  \A a \in ApprovalIds : \A d \in decisions[a] : d.req # OldRequest => pc[d.req] = "done"

\* The inductive invariant.
LifecycleInv ==
  /\ TypeOK /\ RequestsEquipped /\ PurgeSelectsClosed /\ RecordedRequestsAreDone
  /\ SnapshotHolds /\ DecisionMatchesStatus /\ OneAcceptedAnswer

-----------------------------------------------------------------------------
(***************************************************************************)
(* What the documents and comments say and the code does not keep          *)
(***************************************************************************)

\* by-run-id: "Fetch the latest decision for this approval": once an approval
\* is decided, the decision reported is the one that closed it.
ReportedDecisionIsFinal ==
  \A a \in ApprovalIds :
    status[a] = "decided" => \A d \in LatestDecisions(a) : ~d.failed

\* Two open items never share an idempotency key: "retries do not duplicate
\* open cards".
OneOpenPerKey ==
  \A a, b \in ApprovalIds :
    /\ status[a] \in Open /\ status[b] \in Open
    /\ idempotencyKey[a] = idempotencyKey[b] /\ idempotencyKey[a] # NoKey
    => a = b

\* api.mdx: after expiry "the same key creates a new item", so a replayed item
\* can still be decided.
ReplayedItemIsLive ==
  [][\A r \in Ingests : pc[r] = "idle" /\ pc'[r] = "done" /\ tx'[r].target # NoApproval =>
       ~HasExpired(tx'[r].target)]_vars
=============================================================================
