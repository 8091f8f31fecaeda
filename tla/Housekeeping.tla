----------------------------- MODULE Housekeeping -----------------------------
(***************************************************************************)
(* The job scheduler of apps/app/lib/housekeeping/scheduler.ts.            *)
(*                                                                         *)
(* Loops run the registered jobs one after the other: the timer of each    *)
(* server process (never two loops of one timer at once, runningTick) and  *)
(* POST /api/v1/housekeeping, which looks at no such flag.  They meet in   *)
(* the rows of housekeeping_jobs: a select, then a first insert or an      *)
(* update guarded by the last_started_at that was read.                    *)
(***************************************************************************)
EXTENDS Integers, Sequences

CONSTANTS
  Timers,        \* timer loops, one per server process
  Posts,         \* loops of the HTTP route
  Jobs,
  Registry,      \* the registered jobs, in order
  Interval,      \* INTERVAL_MS of a job's schedule
  StaleLock,     \* STALE_LOCK_MS
  RowsReported,  \* affectedRows of an update that hit one row: node-postgres
                 \* has no such field, and affectedRows answers 0
  MaxTime,       \* bound on the clock
  MaxCrashes     \* bound on the loops that die

Loops == Timers \cup Posts

ASSUME RegistryAssumption == Registry \in Seq(Jobs)
ASSUME TimingAssumption ==
  /\ Interval \in [Jobs -> Nat \ {0}] /\ StaleLock \in Nat \ {0}
  /\ RowsReported \in {0, 1} /\ MaxTime \in Nat /\ MaxCrashes \in Nat
  /\ \A j \in Jobs : StaleLock <= Interval[j]  \* 30 minutes against an hour, a day, a week
ASSUME LoopKinds == Timers \cap Posts = {}

VARIABLES
  clock,
  row,      \* housekeeping_jobs: last_started_at and last_finished_at per job
  todo,     \* per loop, the jobs still to look at; the first is the current one
  force,    \* per loop, the `force` of its request
  pc,
  now,      \* per loop, `now` of the current runJob
  seen,     \* per loop, the row it read
  crashes

vars == <<clock, row, todo, force, pc, now, seen, crashes>>

Never == -1
NoRow == [started |-> Never, finished |-> Never]
Times == Nat \cup {Never}
Rows == [started : Times, finished : Times]

Init ==
  /\ clock = 0
  /\ row = [j \in Jobs |-> NoRow]
  /\ todo = [p \in Loops |-> <<>>]
  /\ force = [p \in Loops |-> FALSE]
  /\ pc = [p \in Loops |-> "idle"]
  /\ now = [p \in Loops |-> 0]
  /\ seen = [p \in Loops |-> NoRow]
  /\ crashes = 0

-----------------------------------------------------------------------------
isDue(j, r, t) == r.finished = Never \/ t - r.finished >= Interval[j]

isLocked(r, t) ==
  r.started # Never /\ r.finished < r.started /\ t - r.started < StaleLock

Current(p) == Head(todo[p])

StopAfterOne(p) ==  \* mutant: the for loop returns after its first job
  /\ todo' = [todo EXCEPT ![p] = <<>>]
  /\ pc' = [pc EXCEPT ![p] = "idle"]
  /\ now' = [now EXCEPT ![p] = 0] /\ seen' = [seen EXCEPT ![p] = NoRow]

\* runJob returns, and runDueHousekeeping goes on with the next job or ends.
NextJob(p) ==
  /\ todo' = [todo EXCEPT ![p] = Tail(@)]
  /\ pc' = [pc EXCEPT ![p] = IF Len(todo[p]) > 1 THEN "look" ELSE "idle"]
  /\ now' = [now EXCEPT ![p] = 0] /\ seen' = [seen EXCEPT ![p] = NoRow]

\* The loop ends with its remaining jobs.
Abandon(p) ==
  /\ todo' = [todo EXCEPT ![p] = <<>>]
  /\ pc' = [pc EXCEPT ![p] = "idle"]
  /\ now' = [now EXCEPT ![p] = 0] /\ seen' = [seen EXCEPT ![p] = NoRow]

\* The timer fires; runningTick is the loop not being idle.
Tick(p) ==
  /\ p \in Timers /\ pc[p] = "idle" /\ Registry # <<>>
  /\ todo' = [todo EXCEPT ![p] = Registry]
  /\ force' = [force EXCEPT ![p] = FALSE]
  /\ pc' = [pc EXCEPT ![p] = "look"]
  /\ UNCHANGED <<clock, row, now, seen, crashes>>

\* The route, for one job or all of them, forced or not.
Post(p) ==
  /\ p \in Posts /\ pc[p] = "idle"
  /\ \E selected \in {Registry} \cup {<<Registry[i]>> : i \in DOMAIN Registry} :
       selected # <<>> /\ todo' = [todo EXCEPT ![p] = selected]
  /\ \E forced \in BOOLEAN : force' = [force EXCEPT ![p] = forced]
  /\ pc' = [pc EXCEPT ![p] = "look"]
  /\ UNCHANGED <<clock, row, now, seen, crashes>>

\* `now` of runJob and the select of claimJob, and what it decides alone.
Look(p) ==
  LET r == row[Current(p)]
      skip == isLocked(r, clock) \/ (~force[p] /\ ~isDue(Current(p), r, clock)) IN
  /\ pc[p] = "look"
  /\ \/ /\ r = NoRow \/ ~skip
        /\ pc' = [pc EXCEPT ![p] = IF r = NoRow THEN "insert" ELSE "update"]
        /\ now' = [now EXCEPT ![p] = clock] /\ seen' = [seen EXCEPT ![p] = r]
        /\ UNCHANGED todo
     \/ r # NoRow /\ skip /\ NextJob(p)
  /\ UNCHANGED <<clock, row, force, crashes>>

\* The first claim.  A loop that lost the race violates the primary key: the
\* error is nobody's, and ends runDueHousekeeping with its remaining jobs.
Insert(p) ==
  LET j == Current(p) IN
  /\ pc[p] = "insert"
  /\ \/ /\ row[j] = NoRow
        /\ row' = [row EXCEPT ![j] = [started |-> now[p], finished |-> Never]]
        /\ pc' = [pc EXCEPT ![p] = "run"] /\ UNCHANGED <<todo, now, seen>>
     \/ row[j] # NoRow /\ Abandon(p) /\ UNCHANGED row
  /\ UNCHANGED <<clock, force, crashes>>

\* The guarded update, and affectedRows(claimed) > 0.
Unguarded(p, j) == TRUE  \* mutant: the update matches by id only
Guarded(p, j) == row[j].started = seen[p].started

Update(p) ==
  LET j == Current(p) IN
  /\ pc[p] = "update"
  /\ \/ /\ Guarded(p, j)
        /\ row' = [row EXCEPT ![j].started = now[p]]
        /\ \/ RowsReported > 0 /\ pc' = [pc EXCEPT ![p] = "run"] /\ UNCHANGED <<todo, now, seen>>
           \/ RowsReported = 0 /\ NextJob(p)
     \/ ~Guarded(p, j) /\ NextJob(p) /\ UNCHANGED row
  /\ UNCHANGED <<clock, force, crashes>>

\* The job ended, well or with an error: finishJob writes by id.
FinishSuccess(p) ==  \* mutant: a failed job is not finished
  /\ pc[p] = "run"
  /\ row' = [row EXCEPT ![Current(p)].finished = clock] \/ UNCHANGED row
  /\ NextJob(p)
  /\ UNCHANGED <<clock, force, crashes>>

Finish(p) ==
  /\ pc[p] = "run"
  /\ row' = [row EXCEPT ![Current(p)].finished = clock]
  /\ NextJob(p)
  /\ UNCHANGED <<clock, force, crashes>>

Crash(p) ==
  /\ pc[p] # "idle" /\ crashes < MaxCrashes
  /\ Abandon(p) /\ crashes' = crashes + 1
  /\ UNCHANGED <<clock, row, force>>

Pass ==
  /\ clock < MaxTime /\ clock' = clock + 1
  /\ UNCHANGED <<row, todo, force, pc, now, seen, crashes>>

Step(p) == Tick(p) \/ Look(p) \/ Insert(p) \/ Update(p) \/ Finish(p)

Next ==
  \/ \E p \in Loops : Step(p) \/ Post(p) \/ Crash(p)
  \/ Pass

Spec == Init /\ [][Next]_vars

\* setInterval fires again and again, and a job that runs ends.
FairSpec == Spec /\ \A p \in Timers : WF_vars(Step(p))

-----------------------------------------------------------------------------
(***************************************************************************)
(* Properties                                                              *)
(***************************************************************************)

TypeOK ==
  /\ clock \in Nat /\ crashes \in Nat
  /\ row \in [Jobs -> Rows]
  /\ todo \in [Loops -> Seq(Jobs)]
  /\ force \in [Loops -> BOOLEAN]
  /\ pc \in [Loops -> {"idle", "look", "insert", "update", "run"}]
  /\ now \in [Loops -> Nat]
  /\ seen \in [Loops -> Rows]
  /\ \A p \in Loops : pc[p] # "idle" => todo[p] # <<>>

Runs(p, j) == pc[p] = "run" /\ Current(p) = j

\* Two loops run one job at the same time only if the earlier run has
\* outstayed the stale lock, or one of them was forced.
OverlapNeedsStaleLock ==
  \A p, q \in Loops : \A j \in Jobs :
    p # q /\ Runs(p, j) /\ Runs(q, j) /\ now[p] <= now[q] =>
      now[q] - now[p] >= StaleLock \/ force[p] \/ force[q]

\* A loop that was not forced takes a job only an interval after it last
\* finished, however old the row is that the loop read.  The one exception: the
\* run it takes over had outstayed the stale lock and ended after the look.
NoEarlyRerun ==
  [][\A p \in Loops : \A j \in Jobs :
       Runs(p, j)' /\ ~Runs(p, j) /\ ~force[p] =>
         \/ row[j].finished = Never
         \/ now[p] - row[j].finished >= Interval[j]
         \/ row[j].finished >= now[p] /\ now[p] - row[j].started >= StaleLock]_vars

\* A claimed job is being run, as long as no loop dies ("The app process runs
\* due jobs about once a minute", self-host.mdx).
ClaimedMeansRunning ==
  \A j \in Jobs : row[j].finished < row[j].started /\ crashes = 0 => \E p \in Loops : Runs(p, j)

\* With the result node-postgres gives, a job runs once: a loop takes it up when it
\* inserts the job's row, and nobody does again.
FirstRunOnly ==
  [][\A p \in Loops : \A j \in Jobs : Runs(p, j)' /\ ~Runs(p, j) => row[j] = NoRow]_vars

\* Every registered job is started, though a lost race or a crash ends a loop
\* before its later jobs.
EveryJobStarts == \A i \in DOMAIN Registry : <>(row[Registry[i]] # NoRow)
=============================================================================
