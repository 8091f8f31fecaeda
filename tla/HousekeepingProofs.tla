-------------------------- MODULE HousekeepingProofs --------------------------
(* For any loops, jobs, registry, intervals and stops: two loops that nobody     *)
(* forced run one job together only when the earlier has outstayed the stale     *)
(* lock, no loop takes a job early, and a claimed job is being run. The claims   *)
(* of a job are ordered: an update hits only the start it has read, and it has   *)
(* read one that is an interval, or a stale lock, older than its own.            *)
EXTENDS Housekeeping, SequenceTheorems, TLAPS

\* The times of the rows are past.
RowsInv ==
  \A j \in Jobs : /\ row[j].started <= clock /\ row[j].finished <= clock
                  /\ row[j].started = Never => row[j] = NoRow
\* A loop that is about to update has read a start, and unless it is forced one
\* that leaves room; the end of the run before may come after the look.
UpdateInv(p) ==
  /\ seen[p].started # Never /\ seen[p].started <= now[p]
  /\ ~force[p] =>
       /\ now[p] - seen[p].started >= StaleLock
       /\ LET f == row[Current(p)].finished IN
            f = Never \/ now[p] - f >= Interval[Current(p)] \/ f >= now[p]
LoopInv(p) ==
  /\ now[p] <= clock
  /\ pc[p] = "update" => UpdateInv(p)
  /\ pc[p] = "run" => now[p] <= row[Current(p)].started
LoopsInv == \A p \in Loops : LoopInv(p)
HousekeepingInv == TypeOK /\ RowsInv /\ LoopsInv /\ OverlapNeedsStaleLock

Pcs == {"idle", "look", "insert", "update", "run"}
Forces == BOOLEAN
\* What a step of one loop leaves alone, and the shape of what it writes.
OnlyLoop(p) ==
  /\ todo' \in [Loops -> Seq(Jobs)] /\ pc' \in [Loops -> Pcs] /\ now' \in [Loops -> Nat]
  /\ seen' \in [Loops -> Rows] /\ force' \in [Loops -> Forces]
  /\ \A q \in Loops \ {p} : /\ todo'[q] = todo[q] /\ pc'[q] = pc[q] /\ now'[q] = now[q]
                           /\ seen'[q] = seen[q] /\ force'[q] = force[q]
OnlyJob(j) == row' \in [Jobs -> Rows] /\ \A i \in Jobs \ {j} : row'[i] = row[i]

LEMMA RowTypes == NoRow \in Rows /\ \A t \in Nat : t \in Times
  BY DEF NoRow, Rows, Times, Never
LEMMA TimeOrder == \A r \in Rows : /\ r.started \in Int /\ r.started >= Never
                                   /\ r.finished \in Int /\ r.finished >= Never
  BY DEF Rows, Times, Never
LEMMA TypeShape == TypeOK =>
  /\ clock \in Nat /\ row \in [Jobs -> Rows] /\ todo \in [Loops -> Seq(Jobs)] /\ pc \in [Loops -> Pcs]
  /\ now \in [Loops -> Nat] /\ seen \in [Loops -> Rows] /\ force \in [Loops -> Forces]
  /\ \A p \in Loops : pc[p] # "idle" => todo[p] # <<>> /\ Current(p) \in Jobs
  BY HeadTailProperties DEF TypeOK, Pcs, Forces, Current
LEMMA SetStarted ==
  ASSUME row \in [Jobs -> Rows], NEW j \in Jobs, NEW t \in Times, row' = [row EXCEPT ![j].started = t]
  PROVE  OnlyJob(j) /\ row'[j].started = t /\ row'[j].finished = row[j].finished
  BY DEF OnlyJob, Rows
LEMMA SetFinished ==
  ASSUME row \in [Jobs -> Rows], NEW j \in Jobs, NEW t \in Times, row' = [row EXCEPT ![j].finished = t]
  PROVE  OnlyJob(j) /\ row'[j].finished = t /\ row'[j].started = row[j].started
  BY DEF OnlyJob, Rows

\* A loop that goes on or ends.
Leaves(p) ==
  /\ OnlyLoop(p) /\ pc'[p] \in {"idle", "look"} /\ now'[p] = 0
  /\ pc'[p] = "look" => todo'[p] # <<>>
LEMMA LeavesLemma ==
  ASSUME TypeOK, NEW p \in Loops, pc[p] # "idle", UNCHANGED force, NextJob(p) \/ Abandon(p)
  PROVE  Leaves(p)
<1>1. todo[p] \in Seq(Jobs) /\ todo[p] # <<>>
  BY TypeShape
<1>2. /\ Tail(todo[p]) \in Seq(Jobs) /\ Len(todo[p]) \in Nat
      /\ Len(todo[p]) > 1 => Tail(todo[p]) # <<>>
  <2>1. Tail(todo[p]) \in Seq(Jobs) /\ Len(Tail(todo[p])) = Len(todo[p]) - 1
    BY <1>1, HeadTailProperties
  <2>2. Len(todo[p]) \in Nat
    BY <1>1, LenProperties
  <2>3. Len(todo[p]) > 1 => Tail(todo[p]) # <<>>
    <3> DEFINE rest == Tail(todo[p])  n == Len(todo[p])  m == Len(rest)
    <3>1. Len(<<>>) = 0
      BY EmptySeq
    <3>2. rest = <<>> => m = Len(<<>>)
      BY Zenon
    <3>3. n \in Nat /\ m = n - 1
      BY <2>1, <2>2
    <3> HIDE DEF rest, n, m
    <3>4. n > 1 => rest # <<>>
      BY <3>1, <3>2, <3>3
    <3>5. QED
      BY <3>4 DEF rest, n
  <2>4. QED
    BY <2>1, <2>2, <2>3
<1>3. <<>> \in Seq(Jobs) /\ {"idle", "look"} \subseteq Pcs
  BY EmptySeq DEF Pcs
<1>4. CASE NextJob(p)
  <2>1. PICK next \in {"idle", "look"} :
          /\ pc' = [pc EXCEPT ![p] = next]
          /\ next = "look" => Len(todo[p]) > 1
    BY <1>4 DEF NextJob
  <2>2. todo' = [todo EXCEPT ![p] = Tail(todo[p])] /\ now' = [now EXCEPT ![p] = 0]
        /\ seen' = [seen EXCEPT ![p] = NoRow]
    BY <1>4, Zenon DEF NextJob
  <2>3. QED
    BY <1>2, <1>3, <2>1, <2>2, TypeShape, RowTypes DEF Leaves, OnlyLoop
<1>5. CASE Abandon(p)
  BY <1>3, <1>5, TypeShape, RowTypes DEF Abandon, Leaves, OnlyLoop
<1>6. QED
  BY <1>4, <1>5

\* The step of one loop, by what it does to its own state and to its job's row.
Looks(p) ==
  /\ OnlyLoop(p) /\ UNCHANGED <<clock, row, todo, force>> /\ now'[p] = clock
  /\ \/ pc'[p] = "insert"
     \/ /\ pc'[p] = "update" /\ seen'[p] = row[Current(p)] /\ row[Current(p)] # NoRow
        /\ ~isLocked(row[Current(p)], clock) /\ (force[p] \/ isDue(Current(p), row[Current(p)], clock))
Stamps(p) ==
  /\ UNCHANGED clock /\ OnlyJob(Current(p)) /\ row'[Current(p)].started = now[p]
  /\ row'[Current(p)].finished = row[Current(p)].finished
Claims(p) == OnlyLoop(p) /\ UNCHANGED <<todo, now, seen, force>> /\ pc'[p] = "run" /\ Stamps(p)
Takes(p) ==
  /\ seen[p].started = row[Current(p)].started /\ Stamps(p)
  /\ Claims(p) \/ (RowsReported = 0 /\ Leaves(p))
Skips(p) == Leaves(p) /\ UNCHANGED <<clock, row>>
Ended(p) ==
  /\ Leaves(p) /\ UNCHANGED clock
  /\ OnlyJob(Current(p)) /\ row'[Current(p)].finished \in {row[Current(p)].finished, clock}
  /\ row'[Current(p)].started = row[Current(p)].started

LEMMA UpdateKinds ==
  ASSUME TypeOK, NEW p \in Loops, Update(p), NextJob(p) PROVE UNCHANGED row \/ RowsReported = 0
<1>1. pc[p] = "update" /\ pc \in [Loops -> Pcs]
  BY TypeShape DEF Update
<1>2. pc'[p] # "run"
  BY <1>1 DEF NextJob
<1>3. QED
  BY <1>1, <1>2 DEF Update
LEMMA Steps ==
  ASSUME TypeOK, NEW p \in Loops
  PROVE  /\ Tick(p) \/ Post(p) => /\ OnlyLoop(p) /\ UNCHANGED <<clock, row, now>> /\ pc[p] = "idle"
                                  /\ pc'[p] = "look" /\ todo'[p] # <<>>
         /\ Look(p) => pc[p] = "look" /\ (Looks(p) \/ Skips(p))
         /\ Insert(p) => /\ pc[p] = "insert"
                         /\ \/ row[Current(p)] = NoRow /\ Claims(p)
                            \/ Skips(p)
         /\ Update(p) => pc[p] = "update" /\ (Takes(p) \/ Skips(p))
         /\ Finish(p) => pc[p] = "run" /\ Ended(p) /\ row'[Current(p)].finished = clock
         /\ Crash(p) => Skips(p) /\ crashes' = crashes + 1
<1>1. ASSUME Tick(p) \/ Post(p) PROVE /\ OnlyLoop(p) /\ UNCHANGED <<clock, row, now>> /\ pc[p] = "idle"
                                      /\ pc'[p] = "look" /\ todo'[p] # <<>>
  <2> DEFINE Lists == {Registry} \cup {<<Registry[i]>> : i \in DOMAIN Registry}
  <2>1. PICK selected \in Lists : selected # <<>> /\ todo' = [todo EXCEPT ![p] = selected]
    BY <1>1, Zenon DEF Tick, Post
  <2>2. selected \in Seq(Jobs)
    <3>1. ASSUME NEW i \in DOMAIN Registry PROVE Registry[i] \in Jobs
      BY RegistryAssumption, ElementOfSeq, LenProperties
    <3>2. \A x \in Jobs : <<x>> \in Seq(Jobs)
      OBVIOUS
    <3>3. QED
      BY <3>1, <3>2, RegistryAssumption
  <2> HIDE DEF Lists
  <2>5. PICK forced \in BOOLEAN : force' = [force EXCEPT ![p] = forced]
    BY <1>1, Zenon DEF Tick, Post
  <2>3. pc' = [pc EXCEPT ![p] = "look"] /\ UNCHANGED <<clock, row, now, seen>> /\ pc[p] = "idle"
    BY <1>1 DEF Tick, Post
  <2>4. QED
    BY <2>1, <2>2, <2>3, <2>5, TypeShape DEF OnlyLoop, Pcs, Forces
<1>2. ASSUME Look(p) PROVE pc[p] = "look" /\ (Looks(p) \/ Skips(p))
  <2>1. pc[p] = "look" /\ UNCHANGED <<clock, row, force, crashes>>
    BY <1>2 DEF Look
  <2>2. CASE NextJob(p)
    BY <2>1, <2>2, LeavesLemma DEF Skips
  <2>3. CASE ~NextJob(p)
    <3> DEFINE r == row[Current(p)]
    <3>1. PICK next \in {"insert", "update"} :
            /\ pc' = [pc EXCEPT ![p] = next] /\ now' = [now EXCEPT ![p] = clock]
            /\ seen' = [seen EXCEPT ![p] = r] /\ UNCHANGED todo
            /\ next = "update" => /\ r # NoRow /\ ~isLocked(r, clock)
                                  /\ force[p] \/ isDue(Current(p), r, clock)
      BY <1>2, <2>3 DEF Look
    <3>2. r \in Rows
      BY <2>1, TypeShape
    <3>3. QED
      BY <2>1, <3>1, <3>2, TypeShape DEF Looks, OnlyLoop, Pcs
  <2>4. QED
    BY <2>2, <2>3
<1>3. ASSUME Insert(p) PROVE /\ pc[p] = "insert"
                                  /\ \/ row[Current(p)] = NoRow /\ Claims(p)
                                     \/ Skips(p)
  <2>1. pc[p] = "insert" /\ UNCHANGED <<clock, force, crashes>>
    BY <1>3 DEF Insert
  <2>2. CASE Abandon(p) /\ UNCHANGED row
    BY <2>1, <2>2, LeavesLemma DEF Skips
  <2>3. CASE ~(Abandon(p) /\ UNCHANGED row)
    <3>1. /\ row[Current(p)] = NoRow /\ pc' = [pc EXCEPT ![p] = "run"] /\ UNCHANGED <<todo, now, seen>>
          /\ row' = [row EXCEPT ![Current(p)] = [started |-> now[p], finished |-> Never]]
      BY <1>3, <2>3 DEF Insert
    <3>2. [started |-> now[p], finished |-> Never] \in Rows
      BY TypeShape DEF Rows, Times
    <3>3. OnlyLoop(p) /\ pc'[p] = "run"
      BY <2>1, <3>1, TypeShape DEF OnlyLoop, Pcs
    <3>4. Current(p) \in Jobs
      BY <2>1, TypeShape
    <3>5. OnlyJob(Current(p)) /\ row'[Current(p)].started = now[p] /\ row'[Current(p)].finished = Never
      BY <3>1, <3>2, <3>4, TypeShape DEF OnlyJob
    <3>6. QED
      BY <2>1, <3>1, <3>3, <3>5 DEF Claims, Stamps, NoRow
  <2>4. QED
    BY <2>2, <2>3
<1>4. ASSUME Update(p)
      PROVE  pc[p] = "update" /\ (Takes(p) \/ Skips(p))
  <2>1. pc[p] = "update" /\ UNCHANGED <<clock, force, crashes>>
    BY <1>4 DEF Update
  <2>2. CASE NextJob(p) /\ UNCHANGED row
    BY <2>1, <2>2, LeavesLemma DEF Skips
  <2>3. CASE ~(NextJob(p) /\ UNCHANGED row)
    <3>1. seen[p].started = row[Current(p)].started /\ row' = [row EXCEPT ![Current(p)].started = now[p]]
      BY <1>4, <2>3 DEF Update, Guarded
    <3>2. Current(p) \in Jobs /\ now[p] \in Times
      BY <2>1, TypeShape DEF Times
    <3>3. Stamps(p)
      BY <2>1, <3>1, <3>2, TypeShape, SetStarted DEF Stamps
    <3>4. CASE NextJob(p)
      BY <1>4, <2>1, <2>3, <3>1, <3>3, <3>4, LeavesLemma, UpdateKinds DEF Takes
    <3>5. CASE ~NextJob(p)
      <4>1. pc' = [pc EXCEPT ![p] = "run"] /\ UNCHANGED <<todo, now, seen>>
        BY <1>4, <3>5 DEF Update
      <4>2. OnlyLoop(p) /\ pc'[p] = "run"
        BY <2>1, <4>1, TypeShape DEF OnlyLoop, Pcs
      <4>3. QED
        BY <2>1, <3>1, <3>3, <4>1, <4>2 DEF Takes, Claims
    <3>6. QED
      BY <3>4, <3>5
  <2>4. QED
    BY <2>2, <2>3
<1>5. ASSUME Finish(p) PROVE pc[p] = "run" /\ Ended(p) /\ row'[Current(p)].finished = clock
  <2>1. /\ pc[p] = "run" /\ UNCHANGED <<clock, force, crashes>> /\ NextJob(p)
        /\ row' = [row EXCEPT ![Current(p)].finished = clock]
    BY <1>5 DEF Finish
  <2>2. Current(p) \in Jobs /\ clock \in Times /\ Leaves(p)
    BY <2>1, TypeShape, LeavesLemma DEF Times
  <2>3. QED
    BY <2>1, <2>2, TypeShape, SetFinished DEF Ended
<1>6. ASSUME Crash(p) PROVE Skips(p) /\ crashes' = crashes + 1
  BY <1>6, LeavesLemma DEF Crash, Skips
<1>7. QED
  BY <1>1, <1>2, <1>3, <1>4, <1>5, <1>6

-----------------------------------------------------------------------------
LEMMA HousekeepingInitially == Init => HousekeepingInv
<1> SUFFICES ASSUME Init PROVE HousekeepingInv
  OBVIOUS
<1>1. <<>> \in Seq(Jobs)
  BY EmptySeq
<1>2. row \in [Jobs -> Rows] /\ seen \in [Loops -> Rows]
  BY RowTypes DEF Init
<1>3. TypeOK
  BY <1>1, <1>2 DEF Init, TypeOK
<1>4. RowsInv
  BY DEF Init, RowsInv, NoRow, Never
<1>5. LoopsInv /\ OverlapNeedsStaleLock
  BY DEF Init, LoopsInv, LoopInv, OverlapNeedsStaleLock, Runs
<1>6. QED
  BY <1>3, <1>4, <1>5 DEF HousekeepingInv

\* What a step of one loop may do to a row: a later start, a later end.
RowsGrow ==
  /\ row' \in [Jobs -> Rows] /\ UNCHANGED clock
  /\ \A j \in Jobs : /\ row'[j].started >= row[j].started /\ row'[j].started <= clock
                     /\ row'[j].finished \in {row[j].finished, clock}
                     /\ row'[j].started = Never => row'[j] = NoRow

LEMMA GrowingRows == ASSUME HousekeepingInv, RowsGrow PROVE RowsInv'
<1>1. \A j \in Jobs : row[j] \in Rows /\ row[j].finished <= clock
  BY TypeShape DEF HousekeepingInv, RowsInv
<1>2. clock \in Nat
  BY TypeShape DEF HousekeepingInv
<1>3. QED
  BY <1>1, <1>2 DEF RowsGrow, RowsInv

LEMMA OthersKeep ==
  ASSUME HousekeepingInv, NEW p \in Loops, OnlyLoop(p), RowsGrow, NEW q \in Loops \ {p}
  PROVE  LoopInv(q)'
<1>1. LoopInv(q) /\ TypeOK
  BY DEF HousekeepingInv, LoopsInv
<1>2. /\ now'[q] = now[q] /\ pc'[q] = pc[q] /\ seen'[q] = seen[q] /\ force'[q] = force[q]
      /\ Current(q)' = Current(q)
  BY DEF OnlyLoop, Current
<1>3. CASE pc[q] \in {"idle", "look", "insert"}
  BY <1>1, <1>2, <1>3 DEF LoopInv, RowsGrow
<1>4. CASE pc[q] \in {"update", "run"}
  <2> DEFINE j == Current(q)
  <2>1. j \in Jobs /\ row[j] \in Rows /\ now[q] \in Nat /\ clock \in Nat /\ row'[j] \in Rows
    BY <1>1, <1>4, TypeShape DEF RowsGrow
  <2>2. row'[j].started >= row[j].started /\ row'[j].finished \in {row[j].finished, clock} /\ clock' = clock
    BY <2>1 DEF RowsGrow
  <2>3. now[q] <= clock
    BY <1>1 DEF LoopInv
  <2> HIDE DEF j
  <2>4. CASE pc[q] = "update"
    <3>1. UpdateInv(q)
      BY <1>1, <2>4 DEF LoopInv
    <3>2. UpdateInv(q)'
      BY <1>2, <2>1, <2>2, <2>3, <3>1 DEF UpdateInv, j
    <3>3. QED
      BY <1>2, <2>2, <2>3, <2>4, <3>2 DEF LoopInv
  <2>5. CASE pc[q] = "run"
    <3>1. now[q] <= row[j].started
      BY <1>1, <2>5 DEF LoopInv, j
    <3>2. now[q] <= row'[j].started
      BY <2>1, <2>2, <3>1, TimeOrder
    <3>3. QED
      BY <1>2, <2>2, <2>3, <2>5, <3>2 DEF LoopInv, j
  <2>6. QED
    BY <1>4, <2>4, <2>5
<1>5. QED
  BY <1>1, <1>3, <1>4, TypeShape DEF Pcs

\* A pair of loops without the one that steps.
LEMMA OldPairs ==
  ASSUME HousekeepingInv, NEW p \in Loops, OnlyLoop(p), UNCHANGED clock,
         pc'[p] = "run" =>
           \A q \in Loops \ {p} : pc[q] = "run" /\ Current(q) = Current(p)' =>
              /\ now[q] <= now'[p] => now'[p] - now[q] >= StaleLock \/ force'[p]
              /\ now'[p] <= now[q] => force'[p]
  PROVE  OverlapNeedsStaleLock'
<1> SUFFICES ASSUME NEW a \in Loops, NEW b \in Loops, NEW j \in Jobs, a # b, Runs(a, j)', Runs(b, j)',
                    now'[a] <= now'[b]
             PROVE  now'[b] - now'[a] >= StaleLock \/ force'[a] \/ force'[b]
  BY DEF OverlapNeedsStaleLock
<1>1. \A q \in Loops \ {p} : /\ now'[q] = now[q] /\ pc'[q] = pc[q] /\ force'[q] = force[q]
                            /\ Current(q)' = Current(q)
  BY DEF OnlyLoop, Current
<1>2. CASE a # p /\ b # p
  <2>1. Runs(a, j) /\ Runs(b, j) /\ now[a] <= now[b]
    BY <1>1, <1>2 DEF Runs
  <2>2. now[b] - now[a] >= StaleLock \/ force[a] \/ force[b]
    BY <2>1 DEF HousekeepingInv, OverlapNeedsStaleLock
  <2>3. QED
    BY <1>1, <1>2, <2>2
<1>3. CASE a = p
  BY <1>1, <1>3 DEF Runs
<1>4. CASE b = p
  BY <1>1, <1>4 DEF Runs
<1>5. QED
  BY <1>2, <1>3, <1>4

\* A loop that looks at a job: what it has read leaves room, unless it is forced.
LEMMA LookKeeps ==
  ASSUME HousekeepingInv, NEW p \in Loops, Looks(p), pc[p] = "look", crashes' \in Nat PROVE HousekeepingInv'
<1>1. TypeOK /\ OnlyLoop(p) /\ UNCHANGED <<clock, row, todo, force>> /\ now'[p] = clock
      /\ pc'[p] \in {"insert", "update"} /\ RowsInv
  BY DEF Looks, HousekeepingInv
<1>2. TypeOK'
  BY <1>1, TypeShape DEF TypeOK, OnlyLoop, Forces, Pcs, Looks
<1>3. RowsGrow
  BY <1>1, TypeShape, TimeOrder DEF RowsGrow, RowsInv
<1>4. RowsInv'
  BY <1>3, GrowingRows
<1>5. OverlapNeedsStaleLock'
  BY <1>1, OldPairs
<1>6. LoopInv(p)'
  <2> DEFINE j == Current(p)
  <2>1. j \in Jobs /\ row[j] \in Rows /\ clock \in Nat /\ Current(p)' = j
    BY <1>1, TypeShape DEF Current
  <2>2. CASE pc'[p] = "insert"
    BY <1>1, <2>1, <2>2 DEF LoopInv
  <2>3. CASE pc'[p] = "update"
    <3> DEFINE s == row[j].started  f == row[j].finished
    <3>1. /\ seen'[p] = row[j] /\ row[j] # NoRow /\ ~isLocked(row[j], clock)
          /\ force[p] \/ isDue(j, row[j], clock)
      BY <2>3 DEF Looks
    <3>2. /\ s \in Int /\ f \in Int /\ s <= clock /\ s # Never /\ f >= Never /\ s >= Never
      BY <1>1, <2>1, <3>1, TimeOrder DEF RowsInv
    <3>3. f >= s \/ clock - s >= StaleLock
      BY <2>1, <3>1, <3>2, TimingAssumption DEF isLocked
    <3>4. ~force[p] => f = Never \/ clock - f >= Interval[j]
      BY <3>1 DEF isDue
    <3>5. StaleLock \in Nat /\ Interval[j] \in Nat /\ StaleLock <= Interval[j]
      BY <2>1, TimingAssumption
    <3>6. ~force[p] => clock - s >= StaleLock
      <4> HIDE DEF s, f, j
      <4>1. QED
        BY <2>1, <3>2, <3>3, <3>4, <3>5 DEF Never
    <3>7. UpdateInv(p)'
      BY <1>1, <2>1, <3>1, <3>2, <3>4, <3>6 DEF UpdateInv
    <3>8. QED
      BY <1>1, <2>1, <2>3, <3>7 DEF LoopInv
  <2>4. QED
    BY <1>1, <2>2, <2>3
<1>7. QED
  BY <1>1, <1>2, <1>3, <1>4, <1>5, <1>6, OthersKeep DEF HousekeepingInv, LoopsInv

\* A loop that leaves its job, whatever it has written before.
LEMMA LeaveKeeps ==
  ASSUME HousekeepingInv, NEW p \in Loops, Leaves(p), RowsGrow, crashes' \in Nat PROVE HousekeepingInv'
<1>1. TypeOK /\ OnlyLoop(p) /\ pc'[p] \in {"idle", "look"} /\ now'[p] = 0 /\ UNCHANGED clock /\ clock \in Nat
  BY TypeShape DEF Leaves, HousekeepingInv, RowsGrow
<1>2. \A q \in Loops : pc'[q] # "idle" => todo'[q] # <<>>
  BY <1>1, TypeShape DEF OnlyLoop, Leaves
<1>3. TypeOK'
  BY <1>1, <1>2 DEF TypeOK, OnlyLoop, Forces, Pcs, RowsGrow
<1>4. LoopInv(p)'
  BY <1>1 DEF LoopInv
<1>5. QED
  BY <1>1, <1>3, <1>4, OthersKeep, OldPairs, GrowingRows DEF HousekeepingInv, LoopsInv

\* A loop that begins a job: of those that run it the last one has outstayed the lock.
LEMMA ClaimKeeps ==
  ASSUME HousekeepingInv, NEW p \in Loops, Claims(p), RowsGrow, crashes' \in Nat, pc[p] \in {"insert", "update"},
         \A q \in Loops \ {p} : pc[q] = "run" /\ Current(q) = Current(p) =>
           now[q] <= now[p] /\ (~force[p] => now[p] - now[q] >= StaleLock)
  PROVE  HousekeepingInv'
<1>1. TypeOK /\ OnlyLoop(p) /\ UNCHANGED <<clock, todo, now, seen, force>> /\ pc'[p] = "run" /\ LoopInv(p)
  BY DEF Claims, Stamps, HousekeepingInv, LoopsInv
<1>2. \A q \in Loops : pc'[q] # "idle" => todo'[q] # <<>>
  BY <1>1, TypeShape DEF OnlyLoop
<1>3. TypeOK'
  BY <1>1, <1>2 DEF TypeOK, OnlyLoop, Forces, Pcs, RowsGrow
<1>4. LoopInv(p)'
  <2>1. Current(p)' = Current(p) /\ row'[Current(p)].started = now[p] /\ now[p] \in Nat /\ now[p] <= clock
    BY <1>1, TypeShape DEF Claims, Stamps, Current, LoopInv
  <2>2. QED
    BY <1>1, <2>1 DEF LoopInv
<1>5. OverlapNeedsStaleLock'
  <2>1. Current(p)' = Current(p) /\ \A q \in Loops : now[q] \in Nat
    BY <1>1, TypeShape DEF Current
  <2>2. StaleLock \in Nat /\ StaleLock > 0
    BY TimingAssumption
  <2>3. QED
    BY <1>1, <2>1, <2>2, OldPairs
<1>6. QED
  BY <1>1, <1>3, <1>4, <1>5, OthersKeep, GrowingRows DEF HousekeepingInv, LoopsInv

\* What one loop's step does to the rows.
LEMMA StepGrows ==
  ASSUME HousekeepingInv, NEW p \in Loops
  PROVE  /\ UNCHANGED <<clock, row>> => RowsGrow
         /\ Insert(p) \/ Update(p) \/ Finish(p) => RowsGrow
<1>1. TypeOK /\ RowsInv /\ clock \in Nat /\ \A j \in Jobs : row[j] \in Rows
  BY TypeShape DEF HousekeepingInv
<1>2. UNCHANGED <<clock, row>> => RowsGrow
  BY <1>1, TypeShape, TimeOrder DEF RowsGrow, RowsInv
<1>3. ASSUME pc[p] # "idle", OnlyJob(Current(p)), UNCHANGED clock,
             row'[Current(p)].started >= row[Current(p)].started, row'[Current(p)].started <= clock,
             row'[Current(p)].finished \in {row[Current(p)].finished, clock},
             row'[Current(p)].started # Never \/ row'[Current(p)] = row[Current(p)]
      PROVE  RowsGrow
  <2>1. ASSUME NEW j \in Jobs
        PROVE  /\ row'[j].started >= row[j].started /\ row'[j].started <= clock
               /\ row'[j].finished \in {row[j].finished, clock}
               /\ row'[j].started = Never => row'[j] = NoRow
    <3>1. CASE j = Current(p)
      BY <1>1, <1>3, <3>1 DEF RowsInv
    <3>2. CASE j # Current(p)
      BY <1>1, <1>3, <3>2, TimeOrder DEF OnlyJob, RowsInv
    <3>3. QED
      BY <3>1, <3>2
  <2>2. QED
    BY <1>3, <2>1 DEF RowsGrow, OnlyJob
<1>4. LoopInv(p) /\ now[p] \in Nat /\ (pc[p] # "idle" => Current(p) \in Jobs)
  BY <1>1, TypeShape DEF HousekeepingInv, LoopsInv
<1>5. Insert(p) => RowsGrow
  <2> SUFFICES ASSUME Insert(p) PROVE RowsGrow
    OBVIOUS
  <2>1. CASE Skips(p)
    BY <1>2, <2>1 DEF Skips
  <2>2. CASE row[Current(p)] = NoRow /\ Claims(p)
    BY <1>1, <1>3, <1>4, <2>2, Steps DEF Claims, Stamps, NoRow, Never, LoopInv
  <2>3. QED
    BY <1>1, <2>1, <2>2, Steps
<1>6. Update(p) => RowsGrow
  <2> SUFFICES ASSUME Update(p) PROVE RowsGrow
    OBVIOUS
  <2>1. CASE Skips(p)
    BY <1>2, <2>1 DEF Skips
  <2>2. CASE Takes(p)
    BY <1>1, <1>3, <1>4, <2>2, Steps DEF Takes, Stamps, Never, LoopInv, UpdateInv
  <2>3. QED
    BY <1>1, <2>1, <2>2, Steps
<1>7. Finish(p) => RowsGrow
  <2> SUFFICES ASSUME Finish(p) PROVE RowsGrow
    OBVIOUS
  <2>1. pc[p] = "run" /\ Ended(p) /\ row'[Current(p)].finished = clock
    BY <1>1, Steps
  <2>2. row[Current(p)].started # Never
    BY <1>4, <2>1 DEF LoopInv, Never
  <2>3. QED
    BY <1>1, <1>3, <1>4, <2>1, <2>2, TimeOrder DEF Ended, RowsInv
<1>8. QED
  BY <1>2, <1>5, <1>6, <1>7

LEMMA HousekeepingKeeps == HousekeepingInv /\ [Next]_vars => HousekeepingInv'
<1> SUFFICES ASSUME HousekeepingInv, [Next]_vars PROVE HousekeepingInv'
  OBVIOUS
<1>1. TypeOK /\ LoopsInv /\ crashes \in Nat
  BY DEF HousekeepingInv, TypeOK
<1>2. CASE UNCHANGED vars
  BY <1>2 DEF vars, HousekeepingInv, TypeOK, RowsInv, LoopsInv, LoopInv, UpdateInv, OverlapNeedsStaleLock,
     Runs, Current
<1>3. CASE Pass
  <2>1. clock \in Nat /\ \A j \in Jobs : row[j] \in Rows
    BY <1>1, TypeShape
  <2>2. TypeOK' /\ RowsInv'
    BY <1>1, <1>3, <2>1, TimeOrder DEF Pass, TypeOK, HousekeepingInv, RowsInv
  <2>3. LoopsInv'
    BY <1>1, <1>3, <2>1, TypeShape DEF Pass, LoopsInv, LoopInv, UpdateInv, Current
  <2>4. QED
    BY <1>3, <2>2, <2>3 DEF Pass, HousekeepingInv, OverlapNeedsStaleLock, Runs, Current
<1>4. ASSUME NEW p \in Loops, Tick(p) \/ Post(p) PROVE HousekeepingInv'
  <2>1. /\ OnlyLoop(p) /\ UNCHANGED <<clock, row, now, crashes>>
        /\ pc'[p] = "look" /\ todo'[p] # <<>> /\ pc[p] = "idle"
    BY <1>1, <1>4, Steps DEF Tick, Post
  <2>2. \A q \in Loops : pc'[q] # "idle" => todo'[q] # <<>>
    BY <1>1, <2>1, TypeShape DEF OnlyLoop
  <2>3. TypeOK'
    BY <1>1, <2>1, <2>2 DEF TypeOK, OnlyLoop, Forces, Pcs
  <2>4. LoopInv(p)'
    BY <1>1, <2>1 DEF LoopInv, LoopsInv
  <2>5. RowsGrow
    BY <2>1, StepGrows
  <2>6. QED
    BY <2>1, <2>3, <2>4, <2>5, OthersKeep, OldPairs, GrowingRows DEF HousekeepingInv, LoopsInv
<1>5. ASSUME NEW p \in Loops, Skips(p), crashes' \in Nat PROVE HousekeepingInv'
  BY <1>5, StepGrows, LeaveKeeps DEF Skips
<1>6. ASSUME NEW p \in Loops, Look(p) PROVE HousekeepingInv'
  <2>1. crashes' = crashes
    BY <1>6 DEF Look
  <2>2. QED
    BY <1>1, <1>5, <1>6, <2>1, Steps, LookKeeps DEF Skips
<1>7. ASSUME NEW p \in Loops, Insert(p) PROVE HousekeepingInv'
  <2>1. crashes' = crashes /\ RowsGrow /\ pc[p] = "insert"
    BY <1>7, StepGrows DEF Insert
  <2>2. CASE row[Current(p)] = NoRow /\ Claims(p)
    <3>1. \A q \in Loops \ {p} : ~(pc[q] = "run" /\ Current(q) = Current(p))
      BY <1>1, <2>2, TypeShape DEF LoopsInv, LoopInv, NoRow, Never
    <3>2. QED
      BY <1>1, <2>1, <2>2, <3>1, ClaimKeeps
  <2>3. QED
    BY <1>1, <1>5, <1>7, <2>1, <2>2, Steps
<1>8. ASSUME NEW p \in Loops, Update(p) PROVE HousekeepingInv'
  <2>1. crashes' = crashes /\ RowsGrow /\ pc[p] = "update"
    BY <1>8, StepGrows DEF Update
  <2>2. CASE Takes(p)
    <3>1. CASE Leaves(p)
      BY <1>1, <2>1, <3>1, LeaveKeeps
    <3>2. CASE Claims(p)
      <4>1. ASSUME NEW q \in Loops \ {p}, pc[q] = "run", Current(q) = Current(p)
            PROVE  now[q] <= now[p] /\ (~force[p] => now[p] - now[q] >= StaleLock)
        <5>1. now[q] <= seen[p].started /\ UpdateInv(p)
          BY <1>1, <2>1, <2>2, <4>1 DEF LoopsInv, LoopInv, Takes
        <5>2. now[q] \in Nat /\ now[p] \in Nat /\ seen[p].started \in Int /\ StaleLock \in Nat
          BY <1>1, TypeShape, TimeOrder, TimingAssumption
        <5>3. QED
          BY <5>1, <5>2 DEF UpdateInv
      <4>2. QED
        BY <1>1, <2>1, <3>2, <4>1, ClaimKeeps
    <3>3. QED
      BY <2>2, <3>1, <3>2 DEF Takes
  <2>3. QED
    BY <1>1, <1>5, <1>8, <2>1, <2>2, Steps
<1>9. ASSUME NEW p \in Loops, Finish(p) \/ Crash(p) PROVE HousekeepingInv'
  <2>1. CASE Finish(p)
    BY <1>1, <2>1, Steps, StepGrows, LeaveKeeps DEF Ended, Finish
  <2>2. CASE Crash(p)
    BY <1>1, <1>5, <2>2, Steps
  <2>3. QED
    BY <1>9, <2>1, <2>2
<1>10. QED
  BY <1>2, <1>3, <1>4, <1>6, <1>7, <1>8, <1>9 DEF Next, Step

\* The rows, the loops and what they remember keep their types, whatever the order
\* of claims, ends and stops (claimJob, finishJob, runDueHousekeeping).
THEOREM HousekeepingTypes == Spec => []TypeOK
<1>1. HousekeepingInv => TypeOK
  BY DEF HousekeepingInv
<1>2. QED
  BY <1>1, HousekeepingInitially, HousekeepingKeeps, PTL DEF Spec

\* Two loops run one job together only past the stale lock, or forced (claimJob,
\* isLocked, isDue).
THEOREM OverlapTheorem == Spec => []OverlapNeedsStaleLock
<1>1. HousekeepingInv => OverlapNeedsStaleLock
  BY DEF HousekeepingInv
<1>2. QED
  BY <1>1, HousekeepingInitially, HousekeepingKeeps, PTL DEF Spec

\* No loop that is not forced takes a job early (claimJob, isDue): what it read is
\* still the start of the row, and an end it did not read is later than its look.
THEOREM NoEarlyTheorem == Spec => NoEarlyRerun
<1> DEFINE Early(p, j) == /\ Runs(p, j)' /\ ~Runs(p, j) /\ ~force[p]
                          /\ row[j].finished # Never /\ now[p] - row[j].finished < Interval[j]
                          /\ row[j].finished < now[p] \/ now[p] - row[j].started < StaleLock
<1>1. ASSUME HousekeepingInv, [Next]_vars, NEW p \in Loops, NEW j \in Jobs, Early(p, j) PROVE FALSE
  <2>1. TypeOK /\ LoopInv(p) /\ pc'[p] = "run" /\ j = Current(p)'
    BY <1>1 DEF HousekeepingInv, LoopsInv, Runs
  <2>2. CASE pc'[p] = pc[p] /\ todo'[p] = todo[p]
    BY <1>1, <2>2 DEF Runs, Current
  <2>3. CASE Insert(p) /\ Claims(p)
    BY <1>1, <2>1, <2>3, Steps DEF Claims, Leaves, Skips, Current, NoRow
  <2>4. CASE Update(p)
    <3>1. Takes(p) /\ Claims(p) /\ pc[p] = "update"
      BY <2>1, <2>4, Steps DEF Takes, Leaves, Skips
    <3>2. j = Current(p) /\ UpdateInv(p) /\ seen[p].started = row[j].started
      BY <2>1, <3>1 DEF Claims, Takes, LoopInv, Current
    <3>3. row[j] \in Rows /\ now[p] \in Nat /\ Interval[j] \in Nat /\ StaleLock \in Nat
      BY <2>1, TypeShape, TimingAssumption
    <3>4. QED
      BY <1>1, <3>2, <3>3, TimeOrder DEF UpdateInv
  <2>5. ASSUME NEW q \in Loops, Step(q) \/ Post(q) \/ Crash(q)
        PROVE  \/ pc'[p] = pc[p] /\ todo'[p] = todo[p]
               \/ Insert(p) /\ Claims(p)
               \/ Update(p)
    <3>1. CASE q # p
      <4>1. OnlyLoop(q)
        BY <2>1, <2>5, Steps DEF Step, Looks, Leaves, Claims, Takes, Skips, Ended
      <4>2. QED
        BY <3>1, <4>1 DEF OnlyLoop
    <3>2. CASE q = p
      BY <2>1, <2>5, <3>2, Steps DEF Step, Looks, Leaves, Skips, Ended
    <3>3. QED
      BY <3>1, <3>2
  <2>6. Pass \/ UNCHANGED vars => pc'[p] = pc[p] /\ todo'[p] = todo[p]
    BY DEF Pass, vars
  <2>7. QED
    BY <1>1, <2>2, <2>3, <2>4, <2>5, <2>6 DEF Next
<1>2. HousekeepingInv /\ [Next]_vars =>
        [\A p \in Loops : \A j \in Jobs :
           Runs(p, j)' /\ ~Runs(p, j) /\ ~force[p] =>
             \/ row[j].finished = Never
             \/ now[p] - row[j].finished >= Interval[j]
             \/ row[j].finished >= now[p] /\ now[p] - row[j].started >= StaleLock]_vars
  <2> SUFFICES ASSUME HousekeepingInv, [Next]_vars, NEW p \in Loops, NEW j \in Jobs,
                      Runs(p, j)', ~Runs(p, j), ~force[p]
               PROVE  \/ row[j].finished = Never
                      \/ now[p] - row[j].finished >= Interval[j]
                      \/ row[j].finished >= now[p] /\ now[p] - row[j].started >= StaleLock
    OBVIOUS
  <2>1. row[j] \in Rows /\ now[p] \in Nat /\ Interval[j] \in Nat /\ StaleLock \in Nat
    BY TypeShape, TimingAssumption DEF HousekeepingInv
  <2>2. ~Early(p, j)
    BY <1>1
  <2>3. QED
    BY <2>1, <2>2, TimeOrder
<1>3. QED
  BY <1>2, HousekeepingInitially, HousekeepingKeeps, PTL DEF Spec, NoEarlyRerun

\* With node-postgres, whose result has neither of the fields affectedRows reads, a
\* loop runs a job only through the insert of its row (claimJob): whatever the
\* schedule, the stale lock or `force`, nobody runs it again once it has a row.
THEOREM FirstRunTheorem == ASSUME RowsReported = 0 PROVE Spec => FirstRunOnly
<1>1. Init => HousekeepingInv
  BY HousekeepingInitially
<1>2. HousekeepingInv /\ [Next]_vars => HousekeepingInv'
  BY HousekeepingKeeps
<1>3. ASSUME HousekeepingInv, [Next]_vars
      PROVE  \A p \in Loops : \A j \in Jobs : Runs(p, j)' /\ ~Runs(p, j) => row[j] = NoRow
  <2> SUFFICES ASSUME NEW p \in Loops, NEW j \in Jobs, Runs(p, j)', ~Runs(p, j) PROVE row[j] = NoRow
    OBVIOUS
  <2>0. pc \in [Loops -> {"idle", "look", "insert", "update", "run"}] /\ todo \in [Loops -> Seq(Jobs)]
    BY <1>3 DEF HousekeepingInv, TypeOK
  <2>1. pc'[p] = "run" /\ (pc[p] # "run" \/ Head(todo[p]) # j) /\ Head(todo'[p]) = j
    BY DEF Runs, Current
  <2>2. ASSUME NEW q \in Loops, Insert(q) PROVE row[j] = NoRow
    <3>1. CASE q = p
      BY <2>0, <2>1, <2>2, <3>1 DEF Insert, Abandon, Current
    <3>2. CASE q # p
      BY <2>0, <2>1, <2>2, <3>2 DEF Insert, Abandon
    <3>3. QED
      BY <3>1, <3>2
  <2>3. ASSUME NEW q \in Loops, Tick(q) \/ Post(q) \/ Look(q) PROVE FALSE
    BY <2>0, <2>1, <2>3 DEF Tick, Post, Look, NextJob
  <2>4. ASSUME NEW q \in Loops, Update(q) PROVE FALSE
    BY RowsReported = 0, <2>0, <2>1, <2>4 DEF Update, NextJob
  <2>5. ASSUME NEW q \in Loops, Finish(q) \/ Crash(q) PROVE FALSE
    BY <2>0, <2>1, <2>5 DEF Finish, Crash, NextJob, Abandon
  <2>6. CASE Pass \/ UNCHANGED vars
    BY <2>1, <2>6 DEF Pass, vars
  <2>7. QED
    BY <1>3, <2>2, <2>3, <2>4, <2>5, <2>6 DEF Next, Step
<1>4. QED
  BY <1>1, <1>2, <1>3, PTL DEF Spec, FirstRunOnly
=============================================================================
