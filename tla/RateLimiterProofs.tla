-------------------------- MODULE RateLimiterProofs --------------------------
(* Proofs about RateLimiter: its size bound, the order of its windows, and   *)
(* which windows it may delete.                                              *)
EXTENDS RateLimiter, FiniteSetTheorems, WellFoundedInduction, TLAPS

\* A non-empty set of numbers has a smallest one.
LEMMA Smallest ==
  ASSUME NEW T, T \subseteq Nat, T # {}
  PROVE  \E x \in T : \A y \in T : x <= y
<1>1. \E x \in T : \A y \in T : ~ (<<y, x>> \in OpToRel(<, Nat))
  BY NatLessThanWellFounded, WFMin
<1>2. ASSUME NEW x \in Nat, NEW y \in Nat, y < x
      PROVE  <<y, x>> \in OpToRel(<, Nat)
  BY <1>2 DEF OpToRel
<1>3. PICK x \in T : \A y \in T : ~ (<<y, x>> \in OpToRel(<, Nat))
  BY <1>1
<1>4. ASSUME NEW y \in T PROVE x <= y
  <2>1. x \in Nat /\ y \in Nat /\ ~(y < x)
    BY <1>2, <1>3
  <2> QED
    BY <2>1
<1> QED
  BY <1>4

\* A set of held keys that is not empty has one that was seated first.
LEMMA FirstSeated ==
  ASSUME NEW keys, keys \subseteq Clients, keys # {}, seat \in [Clients -> Nat]
  PROVE  \E m \in keys : \A l \in keys : seat[m] <= seat[l]
<1>1. {seat[l] : l \in keys} \subseteq Nat /\ {seat[l] : l \in keys} # {}
  OBVIOUS
<1>2. PICK x \in {seat[l] : l \in keys} : \A y \in {seat[l] : l \in keys} : x <= y
  BY <1>1, Smallest
<1> QED
  BY <1>2

\* makeRoom deletes nothing while there is room, and else the key that was
\* seated first and no other.
LEMMA MakeRoomDeletesOldest ==
  ASSUME NEW keys, keys \subseteq Clients, IsFiniteSet(keys),
         Cardinality(keys) <= MaxKeys, seat \in [Clients -> Nat],
         \A k, l \in keys : seat[k] = seat[l] => k = l
  PROVE  \/ Cardinality(keys) < MaxKeys /\ MakeRoom(keys) = keys
         \/ /\ Cardinality(keys) = MaxKeys
            /\ \E m \in keys : /\ \A l \in keys : seat[m] <= seat[l]
                               /\ MakeRoom(keys) = keys \ {m}
<1>0. Cardinality(keys) \in Nat /\ MaxKeys \in Nat \ {0}
  BY FS_CardinalityType, LimiterAssumption
<1>1. \A k \in keys : IsFiniteSet(Ahead(keys, k)) /\ Cardinality(Ahead(keys, k)) \in Nat
  BY FS_Subset, FS_CardinalityType DEF Ahead
<1>2. CASE Cardinality(keys) < MaxKeys
  BY <1>0, <1>1, <1>2 DEF MakeRoom, Over
<1>3. CASE Cardinality(keys) = MaxKeys
  <2>1. Over(keys) = 1
    BY <1>0, <1>3 DEF Over
  <2>2. keys # {}
    BY <1>0, <1>3, FS_EmptySet
  <2>3. PICK m \in keys : \A l \in keys : seat[m] <= seat[l]
    BY <2>2, FirstSeated
  <2>4. Ahead(keys, m) = {}
    BY <2>3 DEF Ahead
  <2>5. Cardinality(Ahead(keys, m)) = 0
    BY <2>4, FS_EmptySet
  <2>6. ASSUME NEW k \in keys, k # m
        PROVE  Cardinality(Ahead(keys, k)) >= 1
    <3>1. m \in Ahead(keys, k)
      BY <2>3, <2>6 DEF Ahead
    <3>2. Cardinality(Ahead(keys, k)) # 0
      BY <1>1, <3>1, FS_EmptySet
    <3> QED
      BY <1>1, <3>2
  <2>7. MakeRoom(keys) = keys \ {m}
    BY <2>1, <2>5, <2>6 DEF MakeRoom
  <2> QED
    BY <1>3, <2>3, <2>7
<1> QED
  BY <1>0, <1>2, <1>3

-----------------------------------------------------------------------------
\* The keys a new window finds in the Map, once its own is deleted.
LEMMA OthersFit ==
  ASSUME LimiterInv, NEW k \in Clients
  PROVE  /\ held \ {k} \subseteq Clients /\ IsFiniteSet(held \ {k})
         /\ Cardinality(held \ {k}) <= Cardinality(held)
         /\ Cardinality(held \ {k}) <= MaxKeys
         /\ \A i, j \in held \ {k} : seat[i] = seat[j] => i = j
<1>1. IsFiniteSet(held) /\ Cardinality(held) \in Nat /\ MaxKeys \in Nat
  BY FS_CardinalityType, LimiterAssumption DEF LimiterInv, TypeOK
<1>2. IsFiniteSet(held \ {k}) /\ Cardinality(held \ {k}) <= Cardinality(held)
  BY <1>1, FS_Subset
<1>3. Cardinality(held \ {k}) \in Nat
  BY <1>2, FS_CardinalityType
<1> QED
  BY <1>1, <1>2, <1>3 DEF LimiterInv, TypeOK, SizeBound, SeatsDistinct

\* What a call that starts a window leaves in the Map: the caller, and the
\* others but one at most, which is the first seated.
LEMMA StartKeeps ==
  ASSUME LimiterInv, NEW k \in Clients, Start(k)
  PROVE  /\ held' \subseteq Clients /\ IsFiniteSet(held')
         /\ k \in held' /\ held' \subseteq held \cup {k}
         /\ Cardinality(held') <= MaxKeys
         /\ \A i, j \in held \ held' : i = j
         /\ \A i \in held \ held' : \A l \in held \ {k} : seat[i] <= seat[l]
<1> DEFINE others == held \ {k}
<1>0. /\ others \subseteq Clients /\ IsFiniteSet(others)
      /\ Cardinality(others) <= MaxKeys
      /\ \A i, j \in others : seat[i] = seat[j] => i = j
      /\ Cardinality(others) \in Nat /\ MaxKeys \in Nat \ {0}
  BY OthersFit, FS_CardinalityType, LimiterAssumption
<1>1. seat \in [Clients -> Nat]
  BY DEF LimiterInv, TypeOK
<1>2. held' = MakeRoom(others) \cup {k}
  BY DEF Start
<1> HIDE DEF others
<1>3. CASE Cardinality(others) < MaxKeys /\ MakeRoom(others) = others
  <2>1. k \notin others
    BY DEF others
  <2>2. IsFiniteSet(held') /\ Cardinality(held') = Cardinality(others) + 1
    BY <1>0, <1>2, <1>3, <2>1, FS_AddElement
  <2> QED
    BY <1>0, <1>2, <1>3, <2>2 DEF others
<1>4. ASSUME NEW m \in others, \A l \in others : seat[m] <= seat[l],
             MakeRoom(others) = others \ {m}, Cardinality(others) = MaxKeys
      PROVE  /\ held' \subseteq Clients /\ IsFiniteSet(held')
             /\ k \in held' /\ held' \subseteq held \cup {k}
             /\ Cardinality(held') <= MaxKeys
             /\ \A i, j \in held \ held' : i = j
             /\ \A i \in held \ held' : \A l \in held \ {k} : seat[i] <= seat[l]
  <2>1. IsFiniteSet(others \ {m}) /\ Cardinality(others \ {m}) = Cardinality(others) - 1
    BY <1>0, <1>4, FS_RemoveElement
  <2>2. k \notin others \ {m}
    BY DEF others
  <2>3. /\ IsFiniteSet((others \ {m}) \cup {k})
        /\ Cardinality((others \ {m}) \cup {k}) = Cardinality(others \ {m}) + 1
    BY <2>1, <2>2, FS_AddElement
  <2>4. held' = (others \ {m}) \cup {k}
    BY <1>2, <1>4
  <2>5. Cardinality(held') <= MaxKeys
    BY <1>0, <1>4, <2>1, <2>3, <2>4
  <2>6. \A i \in held \ held' : i = m
    BY <2>4 DEF others
  <2> QED
    BY <1>0, <1>4, <2>3, <2>4, <2>5, <2>6 DEF others
<1> QED
  BY <1>0, <1>1, <1>3, <1>4, MakeRoomDeletesOldest

-----------------------------------------------------------------------------
\* Init establishes the invariant.
LEMMA InitLimiter == Init => LimiterInv
<1> SUFFICES ASSUME Init PROVE LimiterInv
  OBVIOUS
<1>1. IsFiniteSet({}) /\ Cardinality({}) = 0
  BY FS_EmptySet
<1> QED
  BY <1>1, LimiterAssumption
  DEF Init, LimiterInv, TypeOK, SizeBound, SeatsDistinct, OldestFirst

\* The history stays a table of counts, and a call that is allowed is in the spans
\* that hold its instant.
LEMMA RecordSpans ==
  ASSUME NEW k \in Clients, NEW n, granted \in [Clients -> [Instants -> Nat]], Record(k, n)
  PROVE  /\ granted' \in [Clients -> [Instants -> Nat]]
         /\ \A l \in Clients \ {k} : granted'[l] = granted[l]
         /\ \A t \in Instants : granted'[k][t] = IF Admits(n) /\ Within(t)
                                               THEN granted[k][t] + 1 ELSE granted[k][t]
<1> DEFINE f == [t \in Instants |-> IF Within(t) THEN granted[k][t] + 1 ELSE granted[k][t]]
<1>1. granted[k] \in [Instants -> Nat]
  OBVIOUS
<1>2. \A t \in Instants : granted[k][t] \in Nat /\ granted[k][t] + 1 \in Nat
  BY <1>1
<1>3. f \in [Instants -> Nat] /\ \A t \in Instants : f[t] = IF Within(t) THEN granted[k][t] + 1 ELSE granted[k][t]
  BY <1>2
<1>4. CASE Admits(n)
  <2>1. granted' = [granted EXCEPT ![k] = f]
    BY <1>4 DEF Record
  <2> HIDE DEF f
  <2>2. QED
    BY <1>3, <1>4, <2>1
<1>5. CASE ~Admits(n)
  BY <1>5 DEF Record
<1> QED
  BY <1>4, <1>5

\* A call in a running window counts; it moves nothing in the Map.
LEMMA AgainLimiter ==
  ASSUME LimiterInv, NEW k \in Clients, Again(k)
  PROVE  LimiterInv'
<1>1. granted' \in [Clients -> [Instants -> Nat]]
  BY RecordSpans DEF Again, LimiterInv, TypeOK
<1>2. count' \in [Clients -> Nat]
  BY DEF Again, LimiterInv, TypeOK
<1>3. TypeOK'
  BY <1>1, <1>2 DEF Again, LimiterInv, TypeOK
<1> QED
  BY <1>3 DEF Again, LimiterInv, SizeBound, SeatsDistinct, OldestFirst

\* A call that starts a window seats its caller last, and ends last.
LEMMA StartLimiter ==
  ASSUME LimiterInv, NEW k \in Clients, Start(k)
  PROVE  LimiterInv'
<1>1. /\ held' \subseteq Clients /\ IsFiniteSet(held') /\ k \in held'
      /\ held' \subseteq held \cup {k}
      /\ Cardinality(held') <= MaxKeys
  BY StartKeeps
<1>2. /\ seat' = [seat EXCEPT ![k] = nextSeat] /\ nextSeat' = nextSeat + 1
      /\ resetAt' = [resetAt EXCEPT ![k] = time + WindowMs] /\ time' = time
  BY DEF Start, SeatLast
<1>3. TypeOK'
  <2>1. granted' \in [Clients -> [Instants -> Nat]]
    BY RecordSpans DEF Start, LimiterInv, TypeOK
  <2>2. count' \in [Clients -> Nat] /\ evicted' \in [Clients -> Nat]
    BY DEF Start, FirstCount, LimiterInv, TypeOK
  <2>3. time \in 0..MaxTime /\ time \in Nat /\ time + WindowMs \in Nat /\ nextSeat + 1 \in Nat
    BY LimiterAssumption DEF LimiterInv, TypeOK
  <2>4. resetAt' \in [Clients -> Nat] /\ seat' \in [Clients -> Nat]
    BY <1>2, <2>3 DEF LimiterInv, TypeOK
  <2> QED
    BY <1>1, <1>2, <2>1, <2>2, <2>3, <2>4 DEF TypeOK
<1>4. SizeBound'
  BY <1>1 DEF SizeBound
<1>5. SeatsDistinct'
  BY <1>1, <1>2 DEF LimiterInv, TypeOK, SeatsDistinct
<1>6. OldestFirst'
  <2>1. \A l \in held' \ {k} : l \in held /\ seat'[l] = seat[l] /\ resetAt'[l] = resetAt[l]
    BY <1>1, <1>2 DEF LimiterInv, TypeOK
  <2>2. seat'[k] = nextSeat /\ resetAt'[k] = time + WindowMs
    BY <1>2 DEF LimiterInv, TypeOK
  <2>3. /\ time \in Nat /\ WindowMs \in Nat /\ nextSeat \in Nat
        /\ \A l \in held : seat[l] \in Nat /\ resetAt[l] \in Nat
        /\ \A l \in held : seat[l] < nextSeat /\ resetAt[l] <= time + WindowMs
    BY LimiterAssumption DEF LimiterInv, TypeOK, SeatsDistinct, OldestFirst
  <2>4. ASSUME NEW i \in held', NEW j \in held', seat'[i] < seat'[j]
        PROVE  resetAt'[i] <= resetAt'[j]
    <3>1. CASE i = k
      BY <2>1, <2>2, <2>3, <2>4, <3>1
    <3>2. CASE i # k /\ j = k
      BY <2>1, <2>2, <2>3, <3>2
    <3>3. CASE i # k /\ j # k
      BY <2>1, <2>4, <3>3 DEF LimiterInv, OldestFirst
    <3> QED
      BY <3>1, <3>2, <3>3
  <2>5. \A l \in held' : resetAt'[l] <= time' + WindowMs
    BY <1>2, <2>1, <2>2, <2>3
  <2> QED
    BY <2>4, <2>5 DEF OldestFirst
<1> QED
  BY <1>3, <1>4, <1>5, <1>6 DEF LimiterInv

\* Time only loosens the bound on the ends of windows.
LEMMA PassLimiter ==
  ASSUME LimiterInv, Pass
  PROVE  LimiterInv'
<1>1. TypeOK'
  BY LimiterAssumption DEF Pass, LimiterInv, TypeOK
<1> QED
  BY <1>1, LimiterAssumption
  DEF Pass, LimiterInv, TypeOK, SizeBound, SeatsDistinct, OldestFirst

\* Every step preserves the invariant.
LEMMA NextLimiter == LimiterInv /\ [Next]_vars => LimiterInv'
<1> SUFFICES ASSUME LimiterInv, [Next]_vars PROVE LimiterInv'
  OBVIOUS
<1>1. CASE UNCHANGED vars
  BY <1>1 DEF vars, LimiterInv, TypeOK, SizeBound, SeatsDistinct, OldestFirst
<1> QED
  BY <1>1, AgainLimiter, StartLimiter, PassLimiter DEF Next

\* The Map never outgrows maxKeys, stays ordered by expiry, and its places are
\* distinct, for any clients, limits and sizes.
THEOREM Limiter == Spec => []LimiterInv
<1> QED
  BY InitLimiter, NextLimiter, PTL DEF Spec

\* makeRoom keeps the Map at or below maxKeys windows.
THEOREM SizeTheorem == Spec => []SizeBound
<1>1. LimiterInv => SizeBound
  BY DEF LimiterInv
<1> QED
  BY <1>1, Limiter, PTL

-----------------------------------------------------------------------------
\* A running window is deleted only when no expired one is kept and no running
\* one is older: what the order of the Map is for.
THEOREM LiveTheorem == Spec => LiveWindowsKept
<1> DEFINE Kept ==
      \A k \in held \ held' : Running(k) =>
        \A l \in held \cap held' : resetAt'[l] > time /\ resetAt[k] <= resetAt'[l]
<1>1. LimiterInv /\ [Next]_vars => [Kept]_vars
  <2> SUFFICES ASSUME LimiterInv, Next PROVE Kept
    BY DEF LimiterInv
  <2>1. ASSUME NEW c \in Clients, Start(c) PROVE Kept
    <3> SUFFICES ASSUME NEW k \in held \ held', Running(k), NEW l \in held \cap held'
                 PROVE  resetAt'[l] > time /\ resetAt[k] <= resetAt'[l]
      OBVIOUS
    <3>1. c \in held' /\ \A j \in held \ {c} : seat[k] <= seat[j]
      BY <2>1, StartKeeps
    <3>2. resetAt' = [resetAt EXCEPT ![c] = time + WindowMs]
      BY <2>1 DEF Start
    <3>3. /\ resetAt[k] > time /\ resetAt[k] <= time + WindowMs /\ k # l
          /\ time \in Nat /\ resetAt \in [Clients -> Nat] /\ seat \in [Clients -> Nat]
          /\ k \in Clients /\ l \in Clients
      BY DEF Running, LimiterInv, TypeOK, OldestFirst
    <3>4. CASE l = c
      BY <3>2, <3>3, <3>4, LimiterAssumption
    <3>5. CASE l # c
      <4>1. seat[k] < seat[l]
        BY <3>1, <3>3, <3>5 DEF LimiterInv, SeatsDistinct
      <4>2. resetAt[k] <= resetAt[l]
        BY <4>1 DEF LimiterInv, OldestFirst
      <4> QED
        BY <3>2, <3>3, <3>5, <4>2
    <3> QED
      BY <3>4, <3>5
  <2>2. ASSUME NEW c \in Clients, Again(c) PROVE Kept
    BY <2>2 DEF Again
  <2>3. CASE Pass
    BY <2>3 DEF Pass
  <2> QED
    BY <2>1, <2>2, <2>3 DEF Next
<1> QED
  BY <1>1, Limiter, PTL DEF Spec, LiveWindowsKept, Kept

\* One call costs one other client its window at most.
THEOREM EvictionTheorem == Spec => OneEvictionAtMost
<1> DEFINE Single == \A k, l \in held \ held' : k = l
<1>1. LimiterInv /\ [Next]_vars => [Single]_vars
  <2> SUFFICES ASSUME LimiterInv, Next PROVE Single
    OBVIOUS
  <2>1. ASSUME NEW c \in Clients, Start(c) PROVE Single
    BY <2>1, StartKeeps
  <2>2. ASSUME NEW c \in Clients, Again(c) PROVE Single
    BY <2>2 DEF Again
  <2>3. CASE Pass
    BY <2>3 DEF Pass
  <2> QED
    BY <2>1, <2>2, <2>3 DEF Next
<1> QED
  BY <1>1, Limiter, PTL DEF Spec, OneEvictionAtMost, Single

-----------------------------------------------------------------------------
(* What a client gets through, span by span. A span that began before the       *)
(* running window holds at most one window more; a span that is over holds two. *)

\* Of the calls counted in a window those within Limit were allowed.
Counted(k) == IF count[k] <= Limit THEN count[k] ELSE Limit
\* What the windows that were evicted may have let through.
Evictions(k) == Limit * evicted[k]
Started(k) == resetAt[k] - WindowMs

SpanInv(k, t) ==
  /\ t > time => granted[k][t] = 0
  /\ Within(t) /\ Running(k) => granted[k][t] <= Counted(k) + Evictions(k) + Limit
  /\ Within(t) /\ Running(k) /\ Started(k) <= t => granted[k][t] <= Counted(k) + Evictions(k)
  /\ Within(t) /\ ~Running(k) => granted[k][t] <= Evictions(k) + Limit
  /\ Within(t) /\ ~Running(k) /\ t = time => granted[k][t] <= Evictions(k)
  /\ t + WindowMs <= time => granted[k][t] <= 2 * Limit + Evictions(k)
OwnInv(k) == Running(k) => /\ Started(k) \in Instants /\ Within(Started(k))
                           /\ Counted(k) <= granted[k][Started(k)]
CallerInv(k) == OwnInv(k) /\ \A t \in Instants : SpanInv(k, t)
CallersInv == \A k \in Clients : CallerInv(k)

\* The numbers of the invariant are numbers.
Numbers(k, t) ==
  /\ Limit \in Nat \ {0} /\ WindowMs \in Nat \ {0} /\ time \in Nat /\ t \in Nat
  /\ Counted(k) \in Nat /\ Counted(k) <= Limit /\ Evictions(k) \in Nat /\ Started(k) \in Int
  /\ granted[k][t] \in Nat
LEMMA CallerTypes ==
  ASSUME LimiterInv, NEW k \in Clients
  PROVE  /\ Limit \in Nat \ {0} /\ WindowMs \in Nat \ {0} /\ time \in Nat /\ time \in Instants
         /\ MaxTime \in Nat /\ Instants = 0..MaxTime
         /\ count[k] \in Nat /\ resetAt[k] \in Nat /\ evicted[k] \in Nat /\ Evictions(k) \in Nat
         /\ Counted(k) \in Nat /\ Counted(k) <= Limit /\ Started(k) \in Int
         /\ \A t \in Instants : t \in Nat /\ granted[k][t] \in Nat
         /\ Running(k) => resetAt[k] <= time + WindowMs /\ resetAt[k] > time
<1>1. /\ Limit \in Nat \ {0} /\ WindowMs \in Nat \ {0} /\ time \in Nat /\ time \in Instants
      /\ MaxTime \in Nat /\ Instants = 0..MaxTime
      /\ count[k] \in Nat /\ resetAt[k] \in Nat /\ evicted[k] \in Nat
  BY LimiterAssumption DEF LimiterInv, TypeOK, Instants
<1>2. \A n \in Nat : Limit * n \in Nat
  BY <1>1
<1>3. Evictions(k) \in Nat /\ Counted(k) \in Nat /\ Counted(k) <= Limit /\ Started(k) \in Int
  BY <1>1, <1>2 DEF Evictions, Counted, Started
<1>4. granted[k] \in [Instants -> Nat]
  BY DEF LimiterInv, TypeOK
<1>5. \A t \in Instants : t \in Nat /\ granted[k][t] \in Nat
  BY <1>1, <1>4
<1>6. Running(k) => resetAt[k] <= time + WindowMs /\ resetAt[k] > time
  BY DEF LimiterInv, OldestFirst, Running
<1> QED
  BY <1>1, <1>3, <1>5, <1>6

LEMMA CallerNumbers ==
  ASSUME LimiterInv, NEW k \in Clients, NEW t \in Instants
  PROVE  Numbers(k, t)
BY CallerTypes DEF Numbers

LEMMA InitCallers == Init => CallersInv
<1> SUFFICES ASSUME Init, NEW k \in Clients PROVE CallerInv(k)
  BY DEF CallersInv
<1>1. LimiterInv
  BY InitLimiter
<1>2. ~Running(k) /\ \A t \in Instants : granted[k][t] = 0
  BY DEF Init, Running
<1>3. \A t \in Instants : SpanInv(k, t)
  BY <1>1, <1>2, CallerTypes DEF SpanInv
<1> QED
  BY <1>2, <1>3 DEF CallerInv, OwnInv

\* A client that neither calls nor is evicted keeps what it has.
LEMMA StaysCaller ==
  ASSUME LimiterInv, NEW k \in Clients, CallerInv(k), time' = time, Running(k)' <=> Running(k),
         granted'[k] = granted[k], count'[k] = count[k], resetAt'[k] = resetAt[k],
         evicted'[k] = evicted[k]
  PROVE  CallerInv(k)'
<1>1. /\ Started(k)' = Started(k) /\ Counted(k)' = Counted(k) /\ Evictions(k)' = Evictions(k)
      /\ Instants' = Instants
  BY DEF Started, Counted, Evictions, Instants
<1>2. \A t \in Instants : SpanInv(k, t)'
  BY <1>1 DEF CallerInv, SpanInv, Within
<1>3. OwnInv(k)'
  BY <1>1 DEF CallerInv, OwnInv, Within
<1> QED
  BY <1>1, <1>2, <1>3 DEF CallerInv

\* A client whose window is evicted.
LEMMA EvictedCaller ==
  ASSUME LimiterInv, LimiterInv', NEW k \in Clients, CallerInv(k), time' = time, Running(k), ~Running(k)',
         granted'[k] = granted[k], evicted'[k] = evicted[k] + 1
  PROVE  CallerInv(k)'
<1>1. Evictions(k)' = Evictions(k) + Limit
  <2>1. Limit \in Nat /\ evicted[k] \in Nat
    BY CallerTypes
  <2>2. \A n \in Nat : Limit * (n + 1) = Limit * n + Limit
    BY <2>1
  <2> QED
    BY <2>1, <2>2 DEF Evictions
<1>2. Instants' = Instants
  BY DEF Instants
<1>3. ASSUME NEW t \in Instants PROVE SpanInv(k, t)'
  <2>1. SpanInv(k, t)
    BY DEF CallerInv
  <2>2. Within(t)' <=> Within(t)
    BY DEF Within
  <2>3. t = time => Started(k) <= t
    BY CallerTypes DEF Started
  <2> QED
    BY <1>1, <2>1, <2>2, <2>3, CallerNumbers DEF SpanInv, Numbers
<1>4. OwnInv(k)'
  BY DEF OwnInv
<1> QED
  BY <1>2, <1>3, <1>4 DEF CallerInv

\* A call in a running window is allowed while the count is within Limit.
LEMMA AgainCaller ==
  ASSUME LimiterInv, LimiterInv', CallersInv, NEW k \in Clients, Again(k)
  PROVE  CallerInv(k)'
<1>1. /\ time' = time /\ held' = held /\ resetAt' = resetAt /\ evicted' = evicted
      /\ Running(k) /\ count'[k] = count[k] + 1 /\ Record(k, count[k] + 1)
  BY DEF Again, LimiterInv, TypeOK
<1>2. /\ Started(k)' = Started(k) /\ Evictions(k)' = Evictions(k) /\ Running(k)' /\ Instants' = Instants
      /\ \A t : Within(t)' <=> Within(t)
  BY <1>1 DEF Started, Evictions, Running, Within, Instants
<1>3. \A t \in Instants : granted'[k][t] = IF Admits(count[k] + 1) /\ Within(t)
                                        THEN granted[k][t] + 1 ELSE granted[k][t]
  BY <1>1, RecordSpans DEF LimiterInv, TypeOK
<1>4. Counted(k)' = IF Admits(count[k] + 1) THEN Counted(k) + 1 ELSE Counted(k)
  BY <1>1, CallerTypes DEF Counted, Admits
<1>5. CallerInv(k)
  BY DEF CallersInv
<1>6. ASSUME NEW t \in Instants PROVE SpanInv(k, t)'
  <2>1. SpanInv(k, t)
    BY <1>5 DEF CallerInv
  <2>2. Within(t) => ~(t > time) /\ ~(t + WindowMs <= time)
    BY CallerTypes DEF Within
  <2>3. t > time \/ t + WindowMs <= time => ~Within(t)
    BY CallerTypes DEF Within
  <2> QED
    BY <1>1, <1>2, <1>3, <1>4, <2>1, <2>2, <2>3, CallerNumbers DEF SpanInv, Numbers
<1>7. OwnInv(k)'
  BY <1>1, <1>2, <1>3, <1>4, <1>5, CallerTypes DEF CallerInv, OwnInv
<1> QED
  BY <1>2, <1>6, <1>7 DEF CallerInv

\* The first call of a window is allowed.
LEMMA StartCaller ==
  ASSUME LimiterInv, LimiterInv', CallersInv, NEW k \in Clients, Start(k)
  PROVE  CallerInv(k)'
<1>1. /\ time' = time /\ k \in held' /\ ~Running(k) /\ resetAt'[k] = time + WindowMs
      /\ count'[k] = 1 /\ Record(k, 1) /\ evicted'[k] = evicted[k]
  BY StartKeeps DEF Start, LimiterInv, TypeOK, FirstCount
<1>2. /\ Started(k)' = time /\ Counted(k)' = 1 /\ Admits(1)
      /\ Evictions(k)' = Evictions(k) /\ Running(k)' /\ Instants' = Instants
      /\ \A t : Within(t)' <=> Within(t)
  BY <1>1, CallerTypes DEF Started, Counted, Admits, Evictions, Running, Within, Instants
<1>3. \A t \in Instants : granted'[k][t] = IF Within(t) THEN granted[k][t] + 1 ELSE granted[k][t]
  BY <1>1, <1>2, RecordSpans DEF LimiterInv, TypeOK
<1>4. CallerInv(k)
  BY DEF CallersInv
<1>5. ASSUME NEW t \in Instants PROVE SpanInv(k, t)'
  <2>1. SpanInv(k, t)
    BY <1>4 DEF CallerInv
  <2>2. Within(t) => ~(t > time) /\ ~(t + WindowMs <= time) /\ t <= time
    BY CallerTypes DEF Within
  <2>3. t > time \/ t + WindowMs <= time => ~Within(t)
    BY CallerTypes DEF Within
  <2> QED
    BY <1>1, <1>2, <1>3, <2>1, <2>2, <2>3, CallerNumbers DEF SpanInv, Numbers
<1>6. OwnInv(k)'
  <2>1. time \in Instants /\ Within(time)
    BY CallerTypes DEF Within
  <2> QED
    BY <1>2, <1>3, <2>1, CallerTypes DEF OwnInv
<1> QED
  BY <1>2, <1>5, <1>6 DEF CallerInv

\* As time passes a window ends, spans begin, and spans are over.
LEMMA PassCaller ==
  ASSUME LimiterInv, LimiterInv', CallersInv, NEW k \in Clients, Pass
  PROVE  CallerInv(k)'
<1>1. /\ time' = time + 1 /\ held' = held /\ resetAt' = resetAt /\ count' = count
      /\ granted' = granted /\ evicted' = evicted
  BY DEF Pass
<1>2. /\ Started(k)' = Started(k) /\ Counted(k)' = Counted(k)
      /\ Evictions(k)' = Evictions(k) /\ Instants' = Instants
  BY <1>1 DEF Started, Counted, Evictions, Instants
<1>3. Running(k)' => Running(k) /\ resetAt[k] > time + 1
  BY <1>1, CallerTypes DEF Running
<1>4. Running(k) /\ ~Running(k)' => Started(k) + WindowMs = time + 1
  BY <1>1, CallerTypes DEF Running, Started
<1>5. CallerInv(k)
  BY DEF CallersInv
<1>6. ASSUME NEW t \in Instants PROVE SpanInv(k, t)'
  <2>1. SpanInv(k, t)
    BY <1>5 DEF CallerInv
  <2>2. CASE t > time
    BY <1>1, <1>2, <2>1, <2>2, CallerNumbers DEF SpanInv, Within, Numbers
  <2>3. CASE Within(t)
    BY <1>1, <1>2, <1>3, <1>4, <2>1, <2>3, CallerNumbers DEF SpanInv, Within, Numbers
  <2>4. CASE t + WindowMs <= time
    BY <1>1, <1>2, <2>1, <2>4, CallerNumbers DEF SpanInv, Within, Numbers
  <2> QED
    BY <2>2, <2>3, <2>4, CallerTypes DEF Within
<1>7. OwnInv(k)'
  BY <1>1, <1>2, <1>3, <1>5, CallerTypes DEF CallerInv, OwnInv, Within, Started
<1> QED
  BY <1>2, <1>6, <1>7 DEF CallerInv

\* Every step keeps what is counted of every client.
LEMMA NextCallers == LimiterInv /\ CallersInv /\ [Next]_vars => CallersInv'
<1> SUFFICES ASSUME LimiterInv, CallersInv, [Next]_vars, NEW k \in Clients PROVE CallerInv(k)'
  BY DEF CallersInv
<1>1. LimiterInv' /\ CallerInv(k)
  BY NextLimiter DEF CallersInv
<1>2. CASE UNCHANGED vars
  BY <1>1, <1>2, StaysCaller DEF vars, Running
<1>3. ASSUME NEW c \in Clients \ {k}, Again(c) PROVE CallerInv(k)'
  <2>1. granted'[k] = granted[k] /\ count'[k] = count[k]
    BY <1>3, RecordSpans DEF Again, LimiterInv, TypeOK
  <2> QED
    BY <1>1, <1>3, <2>1, StaysCaller DEF Again, Running
<1>4. ASSUME NEW c \in Clients \ {k}, Start(c) PROVE CallerInv(k)'
  <2>1. /\ granted'[k] = granted[k] /\ count'[k] = count[k] /\ resetAt'[k] = resetAt[k] /\ time' = time
        /\ evicted'[k] = IF Running(k) /\ k \notin held' THEN evicted[k] + 1 ELSE evicted[k]
    BY <1>4, RecordSpans DEF Start, LimiterInv, TypeOK
  <2>2. k \in held' => k \in held
    BY <1>4, StartKeeps
  <2>3. CASE Running(k) /\ k \notin held'
    BY <1>1, <2>1, <2>3, EvictedCaller DEF Running
  <2>4. CASE ~(Running(k) /\ k \notin held')
    BY <1>1, <2>1, <2>2, <2>4, StaysCaller DEF Running
  <2> QED
    BY <2>3, <2>4
<1>5. CASE Pass
  BY <1>1, <1>5, PassCaller
<1> QED
  BY <1>1, <1>2, <1>3, <1>4, <1>5, AgainCaller, StartCaller DEF Next

\* What a span that has not ended holds is less than one that has.
LEMMA SpansBound == LimiterInv /\ CallersInv => TwiceLimit
<1> SUFFICES ASSUME LimiterInv, CallersInv PROVE TwiceLimit
  OBVIOUS
<1>1. ASSUME NEW k \in Clients, NEW t \in Instants PROVE granted[k][t] <= Limit * (2 + evicted[k])
  <2>1. SpanInv(k, t)
    BY DEF CallersInv, CallerInv
  <2>2. granted[k][t] <= 2 * Limit + Evictions(k)
    BY <2>1, CallerNumbers DEF SpanInv, Within, Numbers
  <2>3. \A n \in Nat : Limit * (2 + n) = 2 * Limit + Limit * n
    BY CallerTypes
  <2> QED
    BY <2>2, <2>3, CallerTypes DEF Evictions
<1> QED
  BY <1>1 DEF TwiceLimit

\* In any WindowMs of time a client gets through at most twice Limit, and Limit more
\* for each window of its own that was evicted while it ran (allow, makeRoom).
THEOREM TwiceTheorem == Spec => []TwiceLimit
<1> QED
  BY InitLimiter, NextLimiter, InitCallers, NextCallers, SpansBound, PTL DEF Spec

\* A client is refused only when it has got Limit calls through in the last WindowMs:
\* no call of another client is counted in its window, and no window outlives its
\* end (allow).
THEOREM RefusedTheorem == Spec => RefusedForOwnCalls
<1>1. ASSUME LimiterInv, CallersInv, Next, NEW k \in Clients, count'[k] > count[k], count'[k] > Limit
      PROVE  \E t \in Instants : Within(t) /\ granted[k][t] >= Limit
  <2>1. ASSUME Again(k) PROVE \E t \in Instants : Within(t) /\ granted[k][t] >= Limit
    <3>1. Running(k) /\ count'[k] = count[k] + 1
      BY <1>1, <2>1 DEF Again, LimiterInv, TypeOK
    <3>2. Counted(k) = Limit
      BY <1>1, <3>1, CallerTypes DEF Counted
    <3>3. Started(k) \in Instants /\ Within(Started(k)) /\ Limit <= granted[k][Started(k)]
      BY <1>1, <3>1, <3>2 DEF CallersInv, CallerInv, OwnInv
    <3> QED
      BY <3>3, CallerTypes, <1>1
  <2>2. ~Start(k)
    <3> SUFFICES ASSUME Start(k) PROVE FALSE
      OBVIOUS
    <3>1. count'[k] = 1
      BY <1>1 DEF Start, FirstCount, LimiterInv, TypeOK
    <3> QED
      BY <1>1, <3>1, LimiterAssumption
  <2>3. ASSUME NEW c \in Clients \ {k}, Again(c) \/ Start(c) PROVE FALSE
    <3>1. count'[k] = count[k]
      BY <1>1, <2>3 DEF Again, Start, LimiterInv, TypeOK
    <3> QED
      BY <1>1, <3>1, CallerTypes
  <2>4. ~Pass
    BY <1>1, CallerTypes DEF Pass
  <2> QED
    BY <1>1, <2>1, <2>2, <2>3, <2>4 DEF Next
<1>2. LimiterInv /\ CallersInv /\ [Next]_vars =>
        [\A k \in Clients : count'[k] > count[k] /\ count'[k] > Limit =>
           \E t \in Instants : Within(t) /\ granted[k][t] >= Limit]_vars
  BY <1>1
<1> QED
  BY <1>2, InitLimiter, NextLimiter, InitCallers, NextCallers, PTL DEF Spec, RefusedForOwnCalls
=============================================================================
