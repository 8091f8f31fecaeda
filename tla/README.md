# HITLy in TLA+

HITLy is an inbox for human decisions: an agent or a workflow (the *origin*)
posts an approval, a person answers it, HITLy appends evidence to a store the
customer owns and resumes the origin. This directory holds TLA+ models of the
parts of that system where several actors meet, the TLC runs that check them on
small instances, and TLAPS proofs of what matters most for every instance.

Paths below are relative to the repository root.

## The system

| Component | State it keeps | Operations | Hard behaviour |
| --- | --- | --- | --- |
| Approval lifecycle, `apps/app/lib/approvals.ts` | `approvals`, `decision_records`, `presented_at` | ingest, present, decide, retry, cancel | one row, many requests; a transaction held open across calls to other machines; rollbacks that cannot undo those calls |
| Evidence, `lib/evidence.ts`, `lib/evidence-sink.ts` | `evidence_receipts`, the external store | append `requested`, `presented`, `decided`, `resumed`, `resume_failed` | fail-open and fail-closed appends, answers that are lost, sequence numbers and links |
| Answer gates, `packages/core/src/answer-gates.ts`, `lib/context-opens.ts` | `opened` project events | record an open, check a gate | an open and an answer at the same time |
| Origin plugins, `packages/plugin-*` | none | ingest, resume | a resume that fails after the origin took it |
| Housekeeping scheduler, `lib/housekeeping/scheduler.ts` | `housekeeping_jobs` | claim, run, finish | several processes and a route claim one job; processes die; runs outlive their lock |
| Housekeeping jobs, `lib/housekeeping/jobs.ts` | rows of the other components | expire, purge approvals, purge audit events | run beside the requests |
| Routing, `lib/rules.ts` | rules of a project | match an envelope | the first match wins |
| Edits, `approvals.ts:943-1090`, `packages/core/src/index.ts` | none | merge edited arguments, check reasons | nested paths, constraints |
| Project settings, `lib/project-config.ts`, `lib/resume-secret.ts` | `projects.credentials`, sink settings | ensure, rotate, save | three writers that read and rewrite one JSON column |
| Tenant transactions, `lib/tenant.ts`, `lib/db.ts` | a pool of connections, a workspace per asynchronous context | open, nest, commit, roll back | a transaction that needs a second connection |
| People, `lib/workspace.ts`, `lib/rbac.ts`, `actions/team.ts` | workspaces, memberships, invites | bootstrap, invite, accept | first requests of a new user in parallel |
| Assignment and notices, `actions/projects.ts`, `lib/notify.ts`, `lib/push.ts`, `lib/devices.ts` | `assigned_user_id`, devices | delegate, notify, register | notices sent before the commit |
| Sessions and limits, `lib/auth.ts`, `lib/sign-out.ts`, `lib/reset-check-limit.ts`, `lib/reset-request-limit.ts` | sessions, in-memory windows | sign out, reset, limit | a client that times out first; eviction at the size limit |
| Outbound calls, `packages/core/src/destination-check.ts`, `address-classify.ts` | none | parse, resolve, check, connect | time budgets, addresses inside addresses, sockets that fail halfway or open late |
| Trace export, `lib/otel-trace.ts`, `actions/otel.ts` | the workspace's exporters | add, toggle, delete, export a span | not awaited; one exporter fails while others go on |
| Evidence store, `examples/evidence-http` | one file per event | store, show a chain | stops halfway through a file, answers late |
| Forms, `apps/app/components`, `apps/mobile` | what a page or screen has read | open items, edit, answer | a page that is old, reports that are lost |
| OpenShell poller, `examples/openshell` | seen chunks | poll, create | overlapping polls, failed creates |

How they interact: a route authenticates and opens a tenant transaction; inside
it the handler of `approvals.ts` locks the approval, calls `appendEvidence`
(which reads the sink settings of the project, posts to the store and adds a
receipt to the same transaction) and the plugin's `resume`, writes the decision
and commits. The scheduler runs the jobs of `jobs.ts` against the same rows.
Each component's correctness is stated below with the module that models it;
`PROJECT.json` lists all components, and every place where something can go
wrong that a test would hardly reach ("hazards").

What makes each correct, in a line or two:

* *Approval lifecycle*: one answer closes an approval, a closed approval stays
  closed, a recorded decision is kept, and what is recorded agrees with what the
  origin was told.
* *Evidence*: the receipts of an approval form one chain in the order requested,
  presented, decided, resumed, and no origin is told what the store lacks.
* *Answer gates*: an answer that needs an open finds one by the same reviewer;
  matching a context reference means the same at ingest, open and answer.
* *Origin plugins*: a resume reports success only if the origin took the answer.
* *Scheduler*: a job is not run twice at once or too early, and is run at all.
* *Jobs*: only overdue pending rows expire; only closed rows past retention go.
* *Routing and edits*: the first matching rule decides; an edit changes only
  what the envelope lets the reviewer change.
* *Project settings*: a secret that an administrator was shown is the one in
  force until the next rotation; no setting is lost to another form.
* *Tenant transactions*: work of one workspace commits whole or not at all, and
  nobody waits for a connection for ever, but for the jam described under `TenantPool`.
* *People*: a user gets one workspace and each invite is used once.
* *Assignment and notices*: only open items are reassigned, and people are told
  of what exists.
* *Sessions and limits*: a client is limited for its own calls; what sign-out
  reports agrees with the session.
* *Outbound calls*: a call ends within its budget, and connects only to an
  address that was checked.
* *OpenShell poller*: every pending chunk gets one approval in the end.

## Modules

| Module | Models |
| --- | --- |
| `Approvals` | approval rows, decision records, receipts, opens, the store and the origin; every handler; the expiry and purge jobs |
| `ApprovalContract` | the abstract promise of one approval: its phase, the answers kept, one verdict |
| `MCApprovals` | instances of `Approvals` |
| `Housekeeping`, `MCHousekeeping` | the job scheduler and its instances |
| `RateLimiter`, `MCRateLimiter` | the in-memory limiter behind password resets, and its instances |
| `ProjectSettings` | the row of a project as pages, phones and decisions rewrite it; its API keys |
| `Workspaces` | sign-up, first pages, invites, members |
| `Assignment` | delegation of an item, its notices, the phones they reach |
| `TenantPool` | the connections, and requests that ask for a second one |
| `Origins` | an agent's run, the plugin it asks through, and the resumes that reach it |
| `MCProcesses` | the five modules above in one run |
| `AnswerForms` | gates, opens, edits, and the two forms that fill an answer in |
| `EvidenceContract` | the abstract promise of a chain of receipts: what it names, what is stored, what stays |
| `EvidenceStore` | the sinks, the HTTP store, and an append that is late, wrong or lost |
| `Addresses`, `Outbound` | classes of addresses (pure); one checked call |
| `SignOut` | signing out of several tabs |
| `TraceExport` | the exporters of a workspace and the export of a span |
| `GatewayInterceptor` | one draft chunk of an OpenShell gateway, the interceptor before it and the decisions that call it |
| `MCExchanges` | the six modules above (with `Addresses`) in one run |
| `ApprovalsProofs`, `HousekeepingProofs`, `RateLimiterProofs`, `OriginsProofs`, `AnswerFormsProofs`, `OutboundProofs`, `ProcessesProofs`, `ExchangesProofs` | proofs about the modules of those names; `ProcessesProofs` has those about `Workspaces`, `Assignment`, `ProjectSettings` and `TenantPool`, `ExchangesProofs` those about `SignOut`, `TraceExport`, `EvidenceStore` and `GatewayInterceptor` |

`Approvals` is the centre. The others meet it at an action that it leaves open:
what `SinkAppend` may do is detailed in `EvidenceStore` and, below that, in
`Outbound`; what `CallOrigin` may do in `Origins`; the answer that `Begin` takes
up in `AnswerForms`; the secret that signs a resume in `ProjectSettings`; the
connection of a transaction in `TenantPool`; the assignee in `Assignment`. They
share no variable with it or with each other.

That is why `MCProcesses` and `MCExchanges` may put several modules in one run: a
variable `part`, chosen at the start, says which of them moves, the others rest
in one initial state, and a property of one module is checked in every behaviour
of it. No interleaving is lost, since no step of one reads what another writes.

### Approvals

A *request* is one HTTP call; the sets `Ingests`, `Presents`, `Decides`,
`Retries` and `Cancels` say what calls there can be. Each runs one READ
COMMITTED transaction (`lib/tenant.ts`): `tx[r]` is what the handler holds in
local variables and what it has written and not committed, `pc[r]` where it
waits, `lock[a]` who holds the row lock of `SELECT ... FOR UPDATE`. Committed
rows (`status`, `presentedAt`, `idempotencyKey`, `decisions`, `receipts`,
`opened`) change in the step that commits. `sink` and `origin` are outside the
database: what is sent there stays there when the transaction rolls back.

A step of the model is what the code does between two awaited calls that others
can get in between. For a decision: `Begin` (the transaction starts; the clock
is read here because `created_at` defaults to `now()`, the start of the
transaction), `LockDecide` or `DecideRefuse`, `AppendPresented` when nothing
recorded that the item was shown, `AppendDecided`, `Resume`, `AppendResumed`,
`CommitDecided`. A retry first reads the row without a lock (`RetryRead`). A
failed `decided` append goes to `CommitPresented`: the handler returns an error
value, not an exception, so the transaction commits what was written before.
`SinkAppend` has the outcomes an append can have: no sink, stored and
acknowledged, failed, and stored without the answer arriving. `CallOrigin` has
those of a resume. `Crash` rolls a transaction back at any await.

Jobs: `ExpireOverdue` is the UPDATE of `expireOverdueApprovals`, which waits for
the row lock and rechecks its WHERE clause; `PurgeSelect` and `PurgeDelete` are
the two halves of a chunk of `purgeCompletedApprovals`. The audit purge is left
out. `FallDue` and `GrowStale` are time: the deadline passes, the retention
passes. Retention is days, so the model lets it pass only when no request on the
row is running; that is the one assumption about speed.

What is abstracted: envelopes, arguments, edits and reasons do not appear. Of
the answers, `accept` stands for those that resume and `reject` for one the
envelope does not offer; `ignore` closes without a resume. A 400 for a bad
reason or edit has the effect of the 400 for an answer that is not offered. A
purged id is not minted again.

`ApprovalContract` has three variables per approval: a phase, the set of
attempts kept and the verdict. It says that phases move only forward, that
attempts are lost only with the approval, and that a verdict is given once, when
the approval settles. `KeepsContract` is the refinement, with `pending` and
`failed_resume` both open.

### Housekeeping

A loop is the timer of one process (`runningTick` keeps it from overlapping
itself) or one call of the route, which looks at no such flag. `Look` is the
SELECT of `claimJob` with what it decides alone, `Insert` the first claim (the
loser gets a key violation that ends its loop), `Update` the update guarded by
the `last_started_at` that was read, `Finish` the write by id after the job,
`Crash` the death of a loop. Time is a small counter.

`RowsReported` is what `affectedRows` answers for an update that hit a row.
`housekeeping/result.ts` reads `affectedRows` or `rowsAffected`; node-postgres
reports `rowCount`, so with the driver of `lib/db.ts` it is 0 and a claim by
update is always taken for lost. The passing run sets it to 1 to check the claim
protocol itself; the violating run sets it to 0 and shows what happens instead.

### RateLimiter

One limiter of `lib/reset-check-limit.ts`. A call of `allow` is one step, because
nothing is awaited in it. The JavaScript Map is the set `held` with a count, an
end and a place (`seat`) per key; `MakeRoom` is the net effect of the two loops
of `makeRoom`, which both delete from the front until there is room. `granted[k][t]`
(the calls of a client allowed in the `WindowMs` from an instant) and `evicted` are
history, for properties seen from a client. The clock is taken not
to go back: `Date.now` may, and then the order by expiry is lost until the
windows that were open have gone.

### ProjectSettings

Every server action is one READ COMMITTED transaction: `Read` (a SELECT without a
lock; `visit[a].base` is what it saw), `Stage` (the UPDATE, which takes the row
lock and stores what was computed from `base`), `Commit`, or `Rollback`. `Visit`
is `ensureProjectResumeSecret`, run by the config page and by a decision that
signs; `Press` a rotation or a save from the page, `PhoneSave` a save from the
phone, which sends no sink. A save replaces the JSON column and the sink's
columns; ensure and rotate replace the column only, so the other columns keep
what the row holds at the UPDATE (`Updated`). Secrets, tokens, addresses and keys
are numbers that are never used twice (`fresh`). A key's regeneration or deletion
finds the row (`FindKey`), changes it under its lock (`StageKey`) and commits; an
UPDATE of a row that is gone changes nothing and is no error, so the action
answers a key that is stored nowhere. All keys start with one raw key, 3; they
are rows of their own and no property compares them.

### Workspaces

None of it runs in a transaction. `SignUp` and `FirstPage` start a bootstrap,
whose statements are steps: `CheckNone`, `MakeTeam`, `MakeOwner`, `ListInvites`,
then for each invite `NextInvite`, `JoinTeam`, `AcceptInvite`; it may die between
any two (`BootDies`). An admin's invite is `LookUp` and then `AddMember` or
`AddInvite`; removals find a row, check it and delete it later. A workspace is
named by the bootstrap that made it.

### Assignment

`delegateWorkItem` reads the item, reads the member, updates under the row lock,
sends the notice and commits or rolls back. The notice is steps of its own:
`ListTokens` reads the phones of the person, the project's name is read after it,
and `SendPush` goes to the phones that were listed, whichever of them the push
service takes; phones may change hands in between, which `pushing` remembers.
`TellNobody` is the notice that is skipped or whose failure is logged: nothing says
that an assignee was told. `CloseItem` is the decision that holds the same lock,
`SetRole` the other admins. `LookUpPhone` and `StorePhone` are the two halves of a
registration; `devices` has the unique index on the token.

### TenantPool

A connection is in the pool, or held by a request. A request asks (`LookUpSession`
before its transaction, then for the transaction), waits in `queue`, is granted
one (`Grant`) and gives it back. `Nested` are the actions whose body calls
`requireProjectAdmin`, which asks for a second connection while the first is held.
The look-ups of one check are merged to one. Nothing in the code keeps such actions
fewer than the connections, and neither does the model: with as many at once (ten,
in the default pool) they all hold one and wait for another (`Jammed`), and
everybody else waits behind them. What is stated is that this is the only way to
wait for ever, and that it is for good.

### Origins

Runs of an agent (`Lives`), all of one of seven kinds (`origin`): a run starts under
a name, asks, pauses, and is resumed by the call of a decision (`Decide` puts it
under way). A call may arrive late, when HITLy has given up (`GiveUp`), or never
(`Lose`). `Word` is the plugin's translation of an answer; `MastraResumed`,
`LanggraphResumed`, `TemporalSignalled`, `HttpResumed`, `HermesCalled` and
`GatewayDecided` are what the other end makes of it. `Restart` is the agent's
process: what it holds in memory is gone.

* *What is asked.* `Bodies` are the bodies of a request, as far as they have the
  fields a plugin looks for and the answers they ask for: mastra, http and openshell
  take `allowedActions`, langgraph its graph's `config`. So a `respond` may be allowed
  for a mastra run, where it is sent as `approved: true`.
* *Names.* The engine of `langgraph` and `temporal` goes by a thread or workflow id
  that later runs use again, a kanban card is one id for all its blocks, a Hermes
  request without an id goes by its session, an n8n execution without one by the page
  it is about. 0 is a name that is shared. Where an `Idempotency-Key` is sent (hermes,
  kanban, http, openshell) an open approval of the same name is given to whoever asks
  (`AskFound`).
* *LangGraph.* The example server invokes the graph for every call that finds the
  thread at its interrupt, without a lock. A call enters (`LanggraphResumed`) and
  resumes (`GraphResumes`) in two steps; `inside` are those in between, and
  `overlapped` remembers that there were two.
* *Temporal.* The refund is an activity with the default retry policy: `IssueRefund`
  may have acted and be tried again.
* *Kanban.* The file of cards is read and written back whole by the hook of a blocked
  card (`RememberLoad`, `RememberSave`) and the poller (`DropLoad`, `DropSave`). Each
  takes a `threading.Lock()` that it has just made, which excludes nobody: either may
  undo the other, and a file that is being written may read as empty. A card that
  comes back is applied again, and its answer may unblock a later block. Hooks are
  taken one at a time.

External, and modelled from how the code uses them: Mastra and n8n resume a run only
while it waits; the OpenShell gateway knows the request ids it has served and refuses
a chunk that is settled; Temporal runs one workflow per id.

### AnswerForms

`ValidRequest` and `ValidAnswer` are the gates as `answer-gates.ts` computes
them; `Mergeable` and `ValidEditReason` the checks of an edit. A form (page or
screen) keeps the opens it knows of and the values that are typed in; its buttons
unlock by the same operators over what *it* knows, the host admits over what is
*recorded* (`openEvents`). Between the two are `reports`, which are served and
answered, served with the answer lost, or lost. `visited` is what the reviewer
really opened. The limit of a text field and of an array are checked by the
phone's editor and by the host, those of a number also by the browser
(`BrowserAccepts`, `components/editable-fields-form.tsx:244`), and the form's
`required` on the edit reason stops every button of the page, a rejection too.

### EvidenceStore

`AppendEvent` builds the next event from the last receipt and sends it; the store
receives, writes the file in two steps, and answers; `StoreStops` ends its process
between any of them; `AppendFails` is five seconds without an answer, or an error.
What a request left in the store after HITLy gave up stays there. `ChainPages`
are the orders in which the page of a chain may show what is stored.

`EvidenceContract` is what remains when requests, files, stops and time are left
out: `Build` (an event names the last receipt there is), `Keep` (the store has it),
`Receive` (a receipt for an event that is stored and names the receipt before it),
`RollBack` and `Commit`. Nothing takes away what is stored or committed.
`KeepsPromise` is the refinement: only whole files count as stored, `AppendEvent` is
a `Build`, `WriteEvent` and `PutObject` a `Keep` when they succeed, `ReceiveReceipt`
a `Receive`; a stop of the store and a refused write are not seen.

### Addresses, Outbound

`Addresses` is `address-classify.ts` over octets and groups; the text forms of
IPv6 are a record of what is left and right of `::` and of the tail. `Carried` in
`Outbound` is the reference it is checked against: which IPv4 address an IPv6
address stands for, by the layouts of the RFCs. `Outbound` is one call: `Parse`,
`Resolve` with the check of every answer, `TryNext`; then for `fetch` a socket
that opens (`FetchConnects`), fails before or after, or is stopped by the timers;
for `dial` (gRPC) attempts that end within `AttemptLimit` or are abandoned and may
still open (`LateAttempt`). What the plugin does with the connection it is given
is outside: the resume of `plugin-temporal` never closes its, and `plugin-openshell`
returns without closing the one it opened for an answer the gateway has no call for.
The resolver is taken to answer a dial: `connectInOrder` starts its clock after the
look-up, and the look-up has no limit of its own there.

### SignOut

A click sends a request with the cookie the jar has then; the route revokes,
looks again, and answers with expired cookies. The tab waits ten seconds
(`GiveUpWaiting`); the server goes on. Signing in again is `SignInAgain`, so a
late answer can expire the cookie of a later session.

### TraceExport

The settings page adds, toggles (read, then write) and deletes exporters while
exports run: `StartExport` from a handler, `LoadExporters` once, `PostTrace` to
each of them, some of which are `down`. A span's other fields carry no state.

### GatewayInterceptor

The poller reads a chunk (`PollChunk`) and asks HITLy about it (`AskHitly`).
A reviewer's answer calls the gateway inside its transaction (`AnswerAsk`), whose
record is committed, or rolled back, after the call (`CommitAnswer`,
`RollBackAnswer`); others call the gateway on their own (`OtherCall`). `Intercept`
looks up the approval of the chunk that was updated last, as it is committed,
before `Handle` lets the gateway act. `mode` is how the interceptor is configured:
absent, failing closed, failing open.

## Runs

| Run | Question |
| --- | --- |
| `approvals_decide` | Two answers, a presentation, a deadline, an ingest and a rollback on one approval: does one answer win, does each handler act on what is still true, is the receipt chain linear, is the origin only told what the store has? |
| `approvals_retry` | Two retries and a new answer on a row that failed before `presented_at` existed: is the decider kept, is no `presented` recorded late, was the origin told what is recorded? |
| `approvals_retention` | Two approvals, a gate, a key, a cancellation, expiry and purge: do the handlers implement the contract, are records kept? |
| `approvals_progress` | Does every request end, unless an origin never answers, and do receipts stay ordered while the sink is switched on and off? |
| `approvals_reported` | Violation: the decision reported after the item closed is not the one that closed it. |
| `approvals_duplicate_key` | Violation: two open items with one idempotency key. |
| `approvals_replay_overdue` | Violation: a replayed item that nobody can decide. |
| `housekeeping_claims` | Do two loops run one job together, rerun it early, leave it claimed and idle, or never start it? |
| `housekeeping_postgres` | Violation: a job that was claimed and is not run. |
| `ratelimiter_windows` | Three clients, room for two windows: what is evicted, how many calls get through, who is refused? |
| `processes` | Settings: can a race take a project's secret away, or undo what nobody asked to undo? Keys: can a revoked one come back? Workspaces: does everyone who signs up get one, although requests die? Assignment: does a closed item stay closed, and whose phones does a push reach? Pool: is everyone served, unless the one jam there is? Origins: does a run act only on a yes that is for it, once except where its engine repeats it, and does it end? |
| `exchanges` | Sign-out: does a tab go to the login page only when its session is gone? Forms: does the host admit what a form lets through? Store: do sinks, late answers, stops and rollbacks keep the promise of a chain of receipts (`EvidenceContract`)? Outbound: is a request sent once, only to addresses the policy allows, and is the late connection of an abandoned attempt discarded? Traces: does one exporter that fails keep a span from the others? The gateway's part is in the run for its type invariant; what is worth saying of it is proved. |

### Bounds

* Requests: two that compete plus those that set the scene. A race for a row is
  between two of them; a third waits in the same place as the second. Retries
  come in twos because what a retry reads can be changed by a retry.
* One approval where requests compete, two where approvals interact (the key,
  the purge). Reviewers: one where only the answer matters, two where the gate
  is about who opened what.
* `MaxCrashes`, `MaxRollbacks`, `MaxFailures`, `MaxStops`, `MaxRestarts` 1: a
  second one undoes another transaction, or process, of the same kind.
  `MaxErrors` 2 in `SignOut`: the revocation and the look after it can both fail.
* `ReceiptPage` 100 as in the code, so it never binds in a run: reaching it
  takes a hundred receipts. It is a parameter because the hazard is real.
* `Interval` 3 and 4, `StaleLock` 2 and `MaxTime` 4 let a run outlive its lock,
  be taken over, and the job fall due again.
* `RateLimiter`: three clients and two places make eviction possible and give it
  a choice; `Limit` 2 and `MaxGrants` 3 let a client exceed its limit at one
  instant; `WindowMs` 2 and `MaxTime` 2 let every window end and start again.
* `ProjectSettings`: one page, phone and decision each race the other two; three
  forms (`ThreeForms`) cover a sink turned off, a new token, a new address. Three
  actions on one key: two that pass each other and one that comes later.
* `Workspaces`: three bootstraps of one person (the sign-up, and two pages that
  race), one invite, one removal. `Assignment`: two people, one delegation against
  the decisions and admins, two registrations of one phone.
* `TenantPool`: two connections, two nested actions and a plain one: the smallest
  pool in which a nested action has to wait for its second connection and in which
  it can jam.
* `Origins`: two approvals, so that one of an earlier run or an earlier request
  can be confused with a later one; `MaxLives` 2, `MaxRotations` 1. One of them is
  answered twice (`Retried`, `MaxTries` 2), which is enough for two resumes of one
  thread. `MaxAttempts` 2. `Overrides` has the one set of answers that is not allowed
  otherwise and matters, mastra's `respond`. `Restarting` are the agents that lose
  something which matters to a later step; a restarted kanban poller reads its file
  again. The proofs have none of these bounds.
* `AnswerForms`: two reviewers, a page and a screen, and `RequestsMC`, one request
  for each way the gates and limits can go. `MaxShown` 2 forms.
* `EvidenceStore`: four appends, so that a receipt can follow a failed append that
  follows a receipt. All six settings of a sink.
* `Outbound`: every class of address and every layout in which an IPv6 address
  carries another (`AddressesMC`), alone, after a public one, and three in a row;
  `AttemptTime` 2 and `TotalTime` 4 make the third attempt the one without time.
* `TraceExport`: two exporters, two events, two pages.
* `GatewayInterceptor`: two approvals of one chunk, so that the one that is looked up
  may be another than the call is made for; each of the three modes.

Requests are used once and the actions of time happen once, so runs end:
`CHECK_DEADLOCK FALSE`. That nobody waits for ever is stated as `RequestsFinish`,
`RequestsServed`, `TakenEndsRun` and `EveryoneGetsTeam`.

### Fairness

`FairSpec` of `Approvals` asks weak fairness of each request once it has
started, except where it waits for its origin (`Progress`): Node runs the
continuation of a settled promise, Postgres hands a row lock to its waiters, and
the sink is called with a limit of five seconds (`checkedFetch`). The origins are
another matter: most plugins call theirs with a limit, but the gRPC calls of
`plugin-openshell` and the signal of `plugin-temporal` have none, and the row lock is
held meanwhile. So `RequestsFinish` says that a request ends or that the origin of
its approval is silent for ever (`OriginSilent`). Nothing is asked of time, jobs, or
of a request starting. `FairSpec` of `Housekeeping` asks it of the timer loops:
`setInterval` fires again, and a job that runs ends. It asks nothing of the route.

`FairPool`: a statement is answered, a body ends, and `pg.Pool` serves its queue.
`FairBoots`: a bootstrap goes on unless its process dies, and a signed-in person
loads pages. `FairRuns`: the agent of the part that moves runs its own steps
(timeouts of its own among them), and a call that is under way arrives or is
lost. Each is weak fairness of all those steps together, which is enough, since every
such part comes to rest when it only makes them: the properties have the forms
`[]<>` and `<>[]`. Nothing is asked of reviewers, restarts, rotations or deaths.
`TakenEndsRun` leaves out kanban, whose poller may fail at the card for ever.

## Proofs

Eight modules hold theorems, for any values of the constants under the named
assumption of the module they are about (`KindsDisjoint`, `NullsDistinct` and
`Settings` of `Approvals`; `...Assumption` in the others).

`ApprovalsProofs`:

* `Lifecycle`: `Spec => []LifecycleInv`, the inductive invariant;
* `TypeCorrect`, `SnapshotTheorem`, `StatusTheorem`, `OneAnswerTheorem`: its
  parts that the runs check;
* `ClosedTheorem` and `DurabilityTheorem`: the action properties;
* `ContractTheorem`: `Spec => Contract!ContractSpec`, the refinement;
* `RetryTheorem`, `ToldTheorem`, `EvidenceTheorem`: what was recorded, what the
  origin was told, and what the evidence store has, put side by side;
* `SeqTheorem`, `OrderTheorem`, `ChainTheorem`: the receipts of an approval.

The argument. That at most one answer is accepted is not inductive: a commit
adds a decision and must know that none was accepted before. It knows that from
the status it read under the lock (`SnapshotHolds`: the row is still open, and
no purge has selected it) and from what an open status says of the decisions
(`DecisionMatchesStatus`). `SnapshotHolds` is kept because everything that
changes a status needs the lock or finds it free, and because the purge selects
closed rows only and they stay closed (`PurgeSelectsClosed`). That the new
record is new needs `RecordedRequestsAreDone`, and that it is well formed needs
`RequestsEquipped`. Each action has one lemma, with a step per conjunct it can
disturb. The contract follows action by action: an ending request adds an
attempt, settles, closes or deletes, and everything else is a stutter.

What was recorded, told and stored. `RepliesInv` adds to that, for each request on
its way, what it holds: a retry carries the answer and the reviewer of a failed decision,
which it read without the lock, and the record it read them from is still there
(`CarriesAnswer`; decisions are lost only with their approval); and a request whose
resume was taken has been heard by the origin in those words (`ToldOrigin`). What
the origin hears is never forgotten, so a rollback in between does no harm.
`EvidenceInv` adds that a request about to resume has its `decided` event in the
store (`ToldSink`). That needs a sink, and a project may be saved without one
between the append and the resume, so `EvidenceTheorem` and `ChainTheorem` assume
`SinkModes = {TRUE}`: the sink stays on, as the property says.

The receipts. `ReceiptsInv` says of the committed ones (`RowReceipts`) that their
numbers are distinct, that they are in the order of the approval's life and linked
(`Sound`), and what `presented_at` and the decisions say of them; of the uncommitted
ones of a request (`Queued`) that they are its own; and of a request that holds the
row lock that both together are sound, with the receipt it read last on top of them
(`Growing`). The next number is read from the last receipt of a page of
`ReceiptPage` in the order of their numbers. With more receipts than the page the
last one read is not the last there is and numbers repeat: the theorems have the
premise `ReceiptsFit` (no approval has more receipts than the page), and it cannot
be dropped. `Spec` does not bound the receipts; the hundred is the code's own.

`HousekeepingProofs`: `HousekeepingTypes`; `OverlapTheorem` and `NoEarlyTheorem`,
two loops that nobody forced overlap in a job only when the earlier has outstayed
the stale lock, and take none before its interval is over unless the run before
ended while they looked. In the inductive invariant (`HousekeepingInv`) the start
that an unforced loop has read, and by which its guarded UPDATE will find the row,
is at least `StaleLock` older than the instant at which it looked (`UpdateInv`). `TimingAssumption` asks for `StaleLock <= Interval`, as the constants of
`jobs.ts` and `scheduler.ts` have it. `FirstRunTheorem` is about the driver the
repository uses (premise `RowsReported = 0`): a job is run by the insert of its row
and never again, the other side of what `housekeeping_postgres` shows.

`RateLimiterProofs`: the Map stays within its size and ordered by expiry
(`Limiter`, `SizeTheorem`), and from that which windows a call may delete
(`LiveTheorem`, `EvictionTheorem`). The lemma that carries it,
`MakeRoomDeletesOldest`, says that `makeRoom` deletes nothing while there is room
and else exactly the first seated key; it needs that places are distinct and that
a set of numbers has a smallest. `TwiceTheorem` and `RefusedTheorem` are about
what a client sees: of the calls allowed in the span from any instant the window that
runs lets through at most what it counted, one window before it at most `Limit`, and
the rest each needed an eviction (`SpanInv`); a window's own span holds what it
counted, and the present lies in it (`OwnInv`), so that whoever is refused has got
`Limit` calls through in the last `WindowMs`.

`OriginsProofs`: `OwnYesTheorem` and `ActsOnceTheorem`, for any approvals, runs,
attempts, restarts, rotations and requested answers and all seven kinds of agent. The
invariant (`OriginsInv`) follows a yes from the reviewer to the act: a call under way
(`Sent`), a word the agent's process keeps (`BoxInv`), the poller at a card
(`PollerInv`), a word a run has read (`RunInv`) mean yes only if somebody said yes to
an approval of that run or of its name. For the one act: a run that is not Temporal's
has acted just when it is at its end, because each engine looks where the run is
before it resumes it; the LangGraph server does not look again after a call has
entered, so that a call that is alone in the thread has it at its interrupt
(`InsideInv`) and two that overlap are left out.

`ProcessesProofs`, on the requests that race each other:

* `AcceptedTheorem`, `OwnerTheorem` (from `WorkspacesInv`): an accepted invite has
  made a member; a workspace with members has an owner. The invariant says what a
  bootstrap has in hand at each place (`BootInv`: in `accept` its person has
  joined, its invites are its person's) and what a removal may have found
  (`OwnersInv`: never the owner).
* `ClosedItemTheorem`, `PushTheorem`: a delegation that waited for the lock keeps a
  closed item closed; a row of `user_devices` is that of the last registration
  stored, and a token that was listed for a push still is, unless the phone was handed
  on since.
* `SecretTheorem`, `RacesTheorem` (from `SettingsInv`): a staged UPDATE holds the
  row lock and gives the project a secret, whatever it read; and when nobody
  updated the row since its read (`seen = version`), it read the row as it is,
  so it changes only what it was asked to.
* `RevokedTheorem` (from `KeysInv`): a raw key that is staged is held by one
  request, is below `fresh`, stored nowhere, not revoked, and not staged twice.
* `PoolTheorem` and `JamTheorem`: `[]OnlyAdminsJam` and `JamIsForGood`. By `HeldInv`
  a request that waits holds a connection only in the second check of a nested action,
  and then one: where everybody who holds a connection waits, it is `Jammed`. No
  action of a request that waits is enabled there, and no connection is free to grant.

`AnswerFormsProofs`: `UnlockedTheorem`, from an invariant that a form's opens are
recorded for its reviewer, whose report was served before its answer; and
`OpenedTheorem`, that where no key is the url of another item the record of an
open is that of the item that was opened. Without that premise it is false (see
below).

`OutboundProofs`: `SentTheorem` and `OpenTheorem`, from `SentHere` (a request that
was written was written at the attempt the call is at, and the call has not left
it) and `OpenHere`. `ContactsTheorem`: no address that is tried stands for one the
policy refuses. `CheckedInv` says that the list of answers holds only addresses
that passed, from before the first is tried, under a policy that never changes;
`CarriedAllowed` that the class of an address bounds that of the IPv4 address it
carries, layout by layout (`SortedByCarried`): the layouts are told apart by their
first group, so no branch of `classifyIPv6` can shadow the one that counts.

`ExchangesProofs`: `RedirectTheorem`, from what the sign-out route has found out at
each place; `NoneSkippedTheorem`: what was read is what is left, what got the span,
or down; `ReceiptTheorem`, from an invariant that a request is answered only for an
event that is whole, and a whole event stays so, and `ReceiptChainTheorem`;
`PromiseTheorem`, the refinement of `EvidenceContract`, which needs of that invariant
that the event under way names the last receipt (`SendingInv`) and, beside it, that
only a built event has a request (`PostedInv`);
`CommittedOnAnAnswerTheorem` and `DecidedAfterAFailureTheorem`: behind an
interceptor that fails closed, a call that is let through has a committed answer of
its kind behind it (`LetIsAnswered`), and before a resume has failed none is let
through (`NothingBefore`).

The composed runs. `PartsRun` and `ProcessesRun` prove what the section on modules
says of them: `ExchangeSpec` implements the specification of each of its six parts
and `ProcessSpec` that of each of its five modules, step by step. What is proved of
a part alone therefore holds in the run that checks it. `ExchangeTypes` and
`ProcessTypes` follow: the type of every part, whichever part moves. The types that
are not already part of an invariant above have invariants of their own: `TypedInv`
(a form that is shown is somebody's, so is every open and report), `NoticeInv` (a
delegation that has read the item has a member in hand), `LockInv`, `PoolTypedInv`.

Proved and not run: `LifecycleInv`, the order and size of the limiter's Map and
its one eviction a call, `OnlyAdminsJam`, `JamIsForGood`, `FirstRunOnly`,
`AcceptedMeansJoined`, `OwnerStays`, `ReceiptMeansStored`, `ReceiptsAreOneChain`, `CommittedOnAnAnswer`,
`DecidedAfterAFailure`. TLC found no violation of them on the instances above
before they were proved.

Only model-checked: liveness (`RequestsFinish`, `EveryJobStarts`,
`EveryoneGetsTeam`, `RequestsServed`, `TakenEndsRun`): the provers reason about
neither fairness nor ENABLED. And `ClaimedMeansRunning`, which is about a driver the
repository does not use and false with its own. Every other property of a passing run is proved.

## Where the code and what is said of it differ

With a run that finds it:

1. The reported decision is ordered by the time a transaction began
   (`approvals_reported`): `created_at` defaults to `now()`, so a decision that
   waited for the lock sorts before the one it waited for. `by-run-id/route.ts`,
   `getApprovalForOrigin` and `retryResume` all order by it.
2. Overlapping retries of one suspend post make two open cards
   (`approvals_duplicate_key`); the Notion guide says they do not.
3. An overdue item is replayed for its key until something flips it to `expired`
   (`approvals_replay_overdue`); the API page says expiry frees the key.
4. With node-postgres each job runs once, at the insert of its row, and is
   skipped ever after (`housekeeping_postgres`).

Stated in a module, where a run of that property ends in a counterexample; no
configuration is kept for these:

5. `RotationSticks` (`ProjectSettings`): "the previous secret no longer works",
   yet a save or an ensure that read the project before a rotation stores the
   previous secret again.
6. `PhoneKeepsSink` (`ProjectSettings`): the phone's screen says it edits name,
   SLA, assignee and origin; saving there turns the evidence sink off.
7. `InvitesReachTheirPeople` (`Workspaces`): an invite is read only by the
   bootstrap of somebody without a workspace. One stored after the look-up missed
   the sign-up, or not reached by a bootstrap that died, is never read.
8. `IgnoredRunEnds` (`Origins`): the LangGraph plugin's README has a body for an
   ignore; `decideApproval` never calls the plugin for one, and the thread waits.
9. `OriginalRunResumes` (`Origins`): the Temporal and LangGraph examples use a
   workflow or thread id again, and a late answer to the earlier run's approval
   resumes the later run. A Hermes request without an id is given the open approval
   of an earlier command of its session, and a kanban card is unblocked by its id,
   whichever of its blocks was answered.
10. `FailedMeansSignedIn` (`SignOut`): "the user is still signed in" after a
    timeout, while the server has revoked the session.
11. `ChainPageLinks` (`EvidenceStore`): an event whose receipt HITLy never saw
    stays in the store, and the page shows two events that follow one.
12. `ExporterIsAdded` (`TraceExport`): `addOtelEndpoint` asks for the workspace of
    a tenant transaction that nothing has opened, so every form ends in an error.
13. `PluginCallsPass` (`GatewayInterceptor`): the interceptor's design has the plugin's
    own call pass on the answer it carries, but that answer is not committed before
    the call returns, and the interceptor denies every first resume.
14. `AnsweredMeansOpened` (`AnswerForms`): where the key of one context item is the
    url of an item before it, opening the one is recorded as the other.
15. `NotifiesOnce` (`Origins`): the Temporal README says the notify activity runs once;
    it keeps the default retry policy and sends no key, so that a lost answer makes a
    second approval of one workflow.

Three more were met and have no property. The comment in `markApprovalPresented`
that the receipt `seq` cannot fork holds up to a hundred receipts of one approval
(`loadLatestReceipt` takes the last of the first hundred). The page on the
envelope says `presented` is emitted at most once; a rollback after the append
emits it again, as `Crash` shows. The same page asks for an edit reason with an
edit, while the web form's `required` field
(`components/editable-fields-form.tsx:272`) asks for it with every answer.

## Not modelled, and why

* Rendering and navigation (web, mobile), billing (a stub), the mail transport
  and the declarations of the schema have no behaviour of their own to check.
* Hashing, signing and the encryption of tenant JSON are libraries; the models
  use what they are for (a link stands for the hash it carries, a secret verifies
  what it signed).
* `lib/rules.ts` is the first match in a list, read inside one transaction.
* The purge of audit events: with it an answer gate of an item older than the
  audit retention finds no open (listed as a hazard). It needs a clock of months
  beside one of seconds in `Approvals`.
* The texts of mail and push, and the push service's answers.
* The parsing of OpenShell's chunks. Sessions and password
  resets themselves belong to the auth library.
* Which limiter a call goes to, and how an address becomes a key
  (`lib/client-address.ts`).

## Plan

1. The purge of audit events in `Approvals`.
2. `Approvals` with `EvidenceStore` in place of `SinkAppend`, as a refinement.
