----------------------------- MODULE RateLimiter -----------------------------
(***************************************************************************)
(* createRateLimiter of apps/app/lib/reset-check-limit.ts: fixed windows   *)
(* per client key, in a JavaScript Map that holds at most MaxKeys of them. *)
(* It stands behind the reset-link check and the reset-email limit.        *)
(*                                                                         *)
(* `allow` runs to its end in one turn of the event loop, so a call is one *)
(* step.  A Map iterates its keys in the order they were inserted: seat[k] *)
(* is the place of k in that order.  Date.now is taken not to go back.     *)
(***************************************************************************)
EXTENDS Integers, FiniteSets

CONSTANTS
  Clients,   \* the keys the limiter is asked about
  Limit, WindowMs, MaxKeys,
  MaxTime,   \* bound on the clock
  MaxGrants  \* bound on the calls allowed at one instant, for the history

ASSUME LimiterAssumption ==
  /\ Limit \in Nat \ {0} /\ WindowMs \in Nat \ {0} /\ MaxKeys \in Nat \ {0}
  /\ MaxTime \in Nat /\ MaxGrants \in Nat

VARIABLES
  time,
  held,     \* keys of the Map
  count, resetAt, seat,  \* per key, meaningful while it is held
  nextSeat,
  granted,  \* history: per client and instant, the calls allowed in the WindowMs from then
  evicted   \* history: per client, how often its running window was deleted

Instants == 0..MaxTime
vars == <<time, held, count, resetAt, seat, nextSeat, granted, evicted>>

Init ==
  /\ time = 0
  /\ held = {}
  /\ count = [k \in Clients |-> 0]
  /\ resetAt = [k \in Clients |-> 0]
  /\ seat = [k \in Clients |-> 0]
  /\ nextSeat = 1
  /\ granted = [k \in Clients |-> [t \in Instants |-> 0]]
  /\ evicted = [k \in Clients |-> 0]

-----------------------------------------------------------------------------
\* makeRoom: the first loop deletes expired keys from the front until there is
\* room or it meets a live one; the second deletes from the front until there
\* is room.  Together they delete what is over, from the front.
Over(keys) == IF Cardinality(keys) < MaxKeys THEN 0 ELSE Cardinality(keys) - MaxKeys + 1
Ahead(keys, k) == {l \in keys : seat[l] < seat[k]}
MakeRoomNewest(keys) ==  \* mutant: the newest window goes
  {k \in keys : Cardinality({l \in keys : seat[l] > seat[k]}) >= Over(keys)}
MakeRoom(keys) == {k \in keys : Cardinality(Ahead(keys, k)) >= Over(keys)}

RunningLonger(k) == k \in held /\ resetAt[k] >= time  \* mutant: it ends one instant late
Running(k) == k \in held /\ resetAt[k] > time

\* entry.count += 1; return entry.count <= limit
AdmitsOne(n) == n <= Limit + 1  \* mutant: `<=` on the count before the call
Admits(n) == n <= Limit

\* The spans of WindowMs that an instant lies in.
Within(t) == t <= time /\ time < t + WindowMs
Record(k, n) ==
  granted' = IF Admits(n)
             THEN [granted EXCEPT ![k] = [t \in Instants |-> IF Within(t) THEN @[t] + 1 ELSE @[t]]]
             ELSE granted

\* A call in a window that is running.
Again(k) ==
  /\ Running(k) /\ granted[k][time] < MaxGrants
  /\ count' = [count EXCEPT ![k] = @ + 1]
  /\ count[k] <= Limit  \* bound: later calls of the window are refused alike
  /\ Record(k, count[k] + 1)
  /\ UNCHANGED <<time, held, resetAt, seat, nextSeat, evicted>>

\* A call that starts a window: windows.delete(key), makeRoom, windows.set.
SeatLast(k) == seat' = [seat EXCEPT ![k] = nextSeat]

FirstCount(k) == 1

Start(k) ==
  /\ ~Running(k) /\ granted[k][time] < MaxGrants
  /\ held' = MakeRoom(held \ {k}) \cup {k}
  /\ count' = [count EXCEPT ![k] = FirstCount(k)]
  /\ resetAt' = [resetAt EXCEPT ![k] = time + WindowMs]
  /\ SeatLast(k) /\ nextSeat' = nextSeat + 1
  /\ Record(k, FirstCount(k))
  /\ evicted' = [l \in Clients |->
       IF Running(l) /\ l \notin held' THEN evicted[l] + 1 ELSE evicted[l]]
  /\ UNCHANGED time

Pass ==
  /\ time < MaxTime /\ time' = time + 1
  /\ UNCHANGED <<held, count, resetAt, seat, nextSeat, granted, evicted>>

Next == (\E k \in Clients : Again(k) \/ Start(k)) \/ Pass

Spec == Init /\ [][Next]_vars

-----------------------------------------------------------------------------
(***************************************************************************)
(* Properties                                                              *)
(***************************************************************************)
TypeOK ==
  /\ time \in 0..MaxTime
  /\ held \in SUBSET Clients /\ IsFiniteSet(held)
  /\ count \in [Clients -> Nat] /\ resetAt \in [Clients -> Nat]
  /\ seat \in [Clients -> Nat] /\ nextSeat \in Nat
  /\ granted \in [Clients -> [Instants -> Nat]]
  /\ evicted \in [Clients -> Nat]

\* The Map never outgrows maxKeys, in whatever order windows start and end.
SizeBound == Cardinality(held) <= MaxKeys

\* Places in the Map are distinct and below the next one.
SeatsDistinct ==
  /\ \A k \in held : seat[k] < nextSeat
  /\ \A k, l \in held : seat[k] = seat[l] => k = l

\* "the map stays ordered by expiry: oldest first": makeRoom relies on it to
\* find expired windows at the front.
OldestFirst ==
  /\ \A k, l \in held : seat[k] < seat[l] => resetAt[k] <= resetAt[l]
  /\ \A k \in held : resetAt[k] <= time + WindowMs

\* The inductive invariant of RateLimiterProofs.
LimiterInv == TypeOK /\ SizeBound /\ SeatsDistinct /\ OldestFirst

\* "Drop expired windows first, then the oldest live ones": a running window is
\* deleted only when no expired one is kept and no running one is older.
LiveWindowsKept ==
  [][\A k \in held \ held' : Running(k) =>
       \A l \in held \cap held' : resetAt'[l] > time /\ resetAt[k] <= resetAt'[l]]_vars

\* "a flood of new keys can't reset everyone": one call costs one other client
\* its window at most.
OneEvictionAtMost ==
  [][\A k, l \in held \ held' : k = l]_vars

\* What the windows amount to, seen from a client: in any WindowMs of time it
\* gets through at most twice Limit, plus Limit for each time its running
\* window was evicted.
TwiceLimit == \A k \in Clients : \A t \in Instants : granted[k][t] <= Limit * (2 + evicted[k])

\* A client is refused only for its own calls, and not one instant after its
\* window: of those in the last WindowMs Limit were let through (line 50: a window
\* is over at its resetAt, whatever other clients do and windows are evicted).
RefusedForOwnCalls ==
  [][\A k \in Clients : count'[k] > count[k] /\ count'[k] > Limit =>
       \E t \in Instants : Within(t) /\ granted[k][t] >= Limit]_vars
=============================================================================
