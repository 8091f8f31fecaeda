---------------------------- MODULE OutboundProofs ----------------------------
(* One outbound call, for every policy, target, answer of the resolver and      *)
(* choice of the two timers: the request is sent on one connection at most, and *)
(* a gRPC connection that stays open is the one the plugin was given.           *)
EXTENDS Outbound, FiniteSetTheorems, SequenceTheorems, TLAPS

Stages == Running \cup {"done"}
Results == {"none", "ok", "bad_url", "scheme", "userinfo", "refused", "resolve",
            "redirect", "size", "timeout", "connect", "aborted"}
Statuses == {"connecting", "failed", "abandoned", "open", "closed"}
Calls == [kind : CallKinds, url : Urls, stage : Stages, result : Results]
TriesFun == [1..at -> Statuses]

\* Where the call stands, and what the attempts have come to.
CallIs(stage, result) ==
  call' \in Calls /\ call'.kind = call.kind /\ call'.stage = stage /\ call'.result = result
LEMMA SetStage ==
  ASSUME call \in Calls, NEW s \in Stages, Go(s)
  PROVE  CallIs(s, call.result)
  BY DEF Calls, CallIs, Go
LEMMA SetResult ==
  ASSUME call \in Calls, NEW r \in Results, Done(r)
  PROVE  CallIs("done", r)
<1> DEFINE done == "done"
<1>1. done \in Stages
  BY DEF Stages
<1>2. call' = [call EXCEPT !.stage = done, !.result = r]
  BY DEF Done
<1> HIDE DEF done
<1>3. call' \in Calls /\ call'.kind = call.kind /\ call'.stage = done /\ call'.result = r
  BY <1>1, <1>2 DEF Calls
<1>4. QED
  BY <1>3 DEF CallIs, done
LEMMA SetTry ==
  ASSUME tries \in TriesFun, at' = at, NEW i, NEW s \in Statuses, tries' = [tries EXCEPT ![i] = s]
  PROVE  /\ tries' \in TriesFun' /\ DOMAIN tries' = DOMAIN tries
         /\ \A j \in DOMAIN tries : tries'[j] = IF j = i THEN s ELSE tries[j]
  BY DEF TriesFun
LEMMA NewTry ==
  ASSUME tries \in TriesFun, at \in Nat, at' = at + 1, NEW s \in Statuses, tries' = Append(tries, s)
  PROVE  /\ tries' \in TriesFun' /\ DOMAIN tries' = 1..(at + 1)
         /\ \A j \in DOMAIN tries' : tries'[j] = IF j = at + 1 THEN s ELSE tries[j]
<1>1. tries \in Seq(Statuses) /\ Len(tries) = at
  BY DEF TriesFun
<1>2. tries' \in Seq(Statuses) /\ Len(tries') = at + 1
  BY <1>1
<1>3. \A j \in 1..(at + 1) : tries'[j] = IF j = at + 1 THEN s ELSE tries[j]
  BY <1>1
<1>4. QED
  BY <1>2, <1>3, LenProperties DEF TriesFun

\* A fetch has written its request at the attempt it is at, or nowhere; a dial
\* has an open connection only when it has ended with it.
SentHere ==
  call.kind = "fetch" =>
    \A i \in DOMAIN tries :
      /\ tries[i] # "abandoned"
      /\ tries[i] \in {"open", "closed"} => call.stage \in {"connected", "done"} /\ i = at
OpenHere ==
  call.kind = "dial" =>
    \A i \in DOMAIN tries : tries[i] = "open" => call.stage = "done" /\ call.result = "ok" /\ i = at
OutboundInv ==
  /\ call \in Calls /\ at \in Nat /\ tries \in TriesFun
  /\ SentHere /\ OpenHere

LEMMA OutboundInitially == OutboundInit => OutboundInv
<1> SUFFICES ASSUME OutboundInit PROVE OutboundInv
  OBVIOUS
<1>1. at = 0 /\ tries = <<>> /\ 1..at = {}
  BY DEF OutboundInit
<1>2. tries \in TriesFun /\ DOMAIN tries = {}
  BY <1>1 DEF TriesFun
<1>3. call \in Calls
  BY DEF OutboundInit, Calls, Stages, Running, Results
<1>4. QED
  BY <1>1, <1>2, <1>3 DEF OutboundInv, SentHere, OpenHere

\* The call goes on or ends before anything was tried at this place.
LEMMA BeforeKeeps ==
  ASSUME OutboundInv, call.stage \in {"parse", "resolve", "next"}, UNCHANGED <<at, tries>>,
         \/ \E s \in {"resolve", "next"} : Go(s)
         \/ \E r \in Results : Done(r)
  PROVE  OutboundInv'
<1>1. \A s \in {"resolve", "next"} : s \in Stages
  BY DEF Stages, Running
<1>2. call' \in Calls /\ call'.kind = call.kind
  BY <1>1, SetStage, SetResult DEF OutboundInv, CallIs
<1>3. tries' \in TriesFun' /\ DOMAIN tries' = DOMAIN tries
  BY DEF OutboundInv, TriesFun
<1>4. QED
  BY <1>2, <1>3 DEF OutboundInv, SentHere, OpenHere

\* The attempt the call is at comes to something, and the call goes on or ends.
LEMMA AttemptKeeps ==
  ASSUME OutboundInv, NEW status \in Statuses, NEW stage \in Stages, NEW r \in Results,
         call.stage \in {"connecting", "connected"}, at' = at, tries' = Tried(status), CallIs(stage, r),
         call.kind \in {"fetch", "dial"},
         call.kind = "fetch" /\ call.stage = "connected" => stage \in {"connected", "done"},
         call.kind = "fetch" => status # "abandoned",
         call.kind = "fetch" /\ status \in {"open", "closed"} => stage \in {"connected", "done"},
         call.kind = "dial" /\ status = "open" => stage = "done" /\ r = "ok"
  PROVE  OutboundInv'
<1>1. /\ tries' \in TriesFun' /\ DOMAIN tries' = DOMAIN tries
      /\ \A j \in DOMAIN tries : tries'[j] = IF j = at THEN status ELSE tries[j]
  <2>1. tries' = [tries EXCEPT ![at] = status]
    BY DEF Tried
  <2>2. QED
    BY <2>1, SetTry DEF OutboundInv
<1>2. SentHere'
  <2> SUFFICES ASSUME call.kind = "fetch", NEW i \in DOMAIN tries
               PROVE  /\ tries'[i] # "abandoned"
                      /\ tries'[i] \in {"open", "closed"} => call'.stage \in {"connected", "done"} /\ i = at
    BY <1>1 DEF SentHere, CallIs
  <2>1. /\ tries[i] # "abandoned"
        /\ tries[i] \in {"open", "closed"} => call.stage \in {"connected", "done"} /\ i = at
    BY DEF OutboundInv, SentHere
  <2>2. tries'[i] = IF i = at THEN status ELSE tries[i]
    BY <1>1
  <2>3. QED
    BY <2>1, <2>2 DEF CallIs
<1>3. OpenHere'
  <2> SUFFICES ASSUME call.kind = "dial", NEW i \in DOMAIN tries, tries'[i] = "open"
               PROVE  call'.stage = "done" /\ call'.result = "ok" /\ i = at
    BY <1>1 DEF OpenHere, CallIs
  <2>1. tries[i] # "open"
    BY DEF OutboundInv, OpenHere
  <2>2. i = at /\ status = "open"
    BY <1>1, <2>1
  <2>3. QED
    BY <2>2 DEF CallIs
<1>4. QED
  BY <1>1, <1>2, <1>3 DEF OutboundInv, CallIs

LEMMA OutboundKeeps == OutboundInv /\ [OutboundNext]_outboundVars => OutboundInv'
<1> SUFFICES ASSUME OutboundInv, [OutboundNext]_outboundVars PROVE OutboundInv'
  OBVIOUS
<1>1. CASE UNCHANGED outboundVars
  BY <1>1 DEF OutboundInv, SentHere, OpenHere, TriesFun, outboundVars
<1>2. CASE Parse
  <2>1. call.stage = "parse" /\ UNCHANGED <<at, tries>>
    BY <1>2 DEF Parse
  <2>2. (\E s \in {"resolve", "next"} : Go(s)) \/ (\E r \in Results : Done(r))
    BY <1>2 DEF Parse, Results
  <2>3. QED
    BY <2>1, <2>2, BeforeKeeps
<1>3. CASE Resolve
  <2>1. call.stage = "resolve" /\ UNCHANGED <<at, tries>>
    BY <1>3 DEF Resolve
  <2>2. (\E s \in {"resolve", "next"} : Go(s)) \/ (\E r \in Results : Done(r))
    BY <1>3 DEF Resolve, Results
  <2>3. QED
    BY <2>1, <2>2, BeforeKeeps
<1>4. CASE TryNext
  <2>1. CASE at' = at + 1 /\ tries' = Append(tries, "connecting") /\ Go("connecting")
    <3>1. "connecting" \in Statuses /\ "connecting" \in Stages
      BY DEF Statuses, Stages, Running
    <3>2. CallIs("connecting", call.result)
      BY <2>1, <3>1, SetStage DEF OutboundInv
    <3>3. /\ tries' \in TriesFun' /\ DOMAIN tries' = 1..(at + 1)
          /\ \A j \in DOMAIN tries' : tries'[j] = IF j = at + 1 THEN "connecting" ELSE tries[j]
      BY <2>1, <3>1, NewTry DEF OutboundInv
    <3>4. DOMAIN tries = 1..at /\ at \in Nat /\ call.stage = "next"
      BY <1>4 DEF OutboundInv, TriesFun, TryNext
    <3>5. \A j \in DOMAIN tries' : j = at + 1 \/ j \in DOMAIN tries
      BY <3>3, <3>4
    <3>6. SentHere'
      BY <3>2, <3>3, <3>4, <3>5 DEF OutboundInv, SentHere, CallIs
    <3>7. OpenHere'
      BY <3>2, <3>3, <3>4, <3>5 DEF OutboundInv, OpenHere, CallIs
    <3>8. QED
      BY <2>1, <3>2, <3>3, <3>4, <3>6, <3>7 DEF OutboundInv, CallIs
  <2>2. CASE UNCHANGED <<at, tries>> /\ \E r \in {"timeout", "connect"} : Done(r)
    <3>1. call.stage = "next" /\ {"timeout", "connect"} \subseteq Results
      BY <1>4 DEF TryNext, Results
    <3>2. QED
      BY <2>2, <3>1, BeforeKeeps
  <2>3. QED
    BY <1>4, <2>1, <2>2 DEF TryNext
<1>5. CASE FetchConnects
  <2>1. /\ call.kind = "fetch" /\ call.stage = "connecting" /\ tries' = Tried("open") /\ at' = at
        /\ Go("connected")
    BY <1>5 DEF FetchConnects
  <2>2. "open" \in Statuses /\ "connected" \in Stages /\ call.result \in Results
    BY DEF Statuses, Stages, Running, OutboundInv, Calls
  <2>3. CallIs("connected", call.result)
    BY <2>1, <2>2, SetStage DEF OutboundInv
  <2>4. QED
    BY <2>1, <2>2, <2>3, AttemptKeeps
<1>6. CASE FetchFails
  <2>1. /\ call.kind = "fetch" /\ call.stage \in {"connecting", "connected"} /\ at' = at
        /\ call.stage = "connected" => tries' = Tried("closed") /\ Done("connect")
        /\ call.stage = "connecting" => tries' = Tried("failed") /\ Go("next")
    BY <1>6 DEF FetchFails, MayTryNext
  <2>2. /\ {"closed", "failed"} \subseteq Statuses /\ {"next", "done"} \subseteq Stages
        /\ "connect" \in Results /\ call.result \in Results
    BY DEF Statuses, Stages, Running, Results, OutboundInv, Calls
  <2>3. CASE call.stage = "connected"
    <3>1. CallIs("done", "connect")
      BY <2>1, <2>2, <2>3, SetResult DEF OutboundInv
    <3>2. QED
      BY <2>1, <2>2, <2>3, <3>1, AttemptKeeps
  <2>4. CASE call.stage = "connecting"
    <3>1. CallIs("next", call.result)
      BY <2>1, <2>2, <2>4, SetStage DEF OutboundInv
    <3>2. QED
      BY <2>1, <2>2, <2>4, <3>1, AttemptKeeps
  <2>5. QED
    BY <2>1, <2>3, <2>4
<1>7. CASE ConnectTimerFires \/ DialFails \/ DialTimesOut
  <2>1. PICK status \in {"failed", "abandoned"} :
          /\ call.stage = "connecting" /\ tries' = Tried(status) /\ at' = at /\ Go("next")
          /\ (call.kind = "fetch" /\ status = "failed") \/ call.kind = "dial"
    BY <1>7 DEF ConnectTimerFires, DialFails, DialTimesOut
  <2>2. /\ status \in Statuses /\ "next" \in Stages /\ call.result \in Results
    BY DEF Statuses, Stages, Running, OutboundInv, Calls
  <2>3. CallIs("next", call.result)
    BY <2>1, <2>2, SetStage DEF OutboundInv
  <2>4. QED
    BY <2>1, <2>2, <2>3, AttemptKeeps
<1>8. CASE Respond
  <2>1. PICK r \in {"ok", "redirect", "size"} : Done(r)
    BY <1>8 DEF Respond
  <2>2. call.kind = "fetch" /\ call.stage = "connected" /\ tries' = Tried("closed") /\ at' = at
    BY <1>8 DEF Respond
  <2>3. "closed" \in Statuses /\ "done" \in Stages /\ r \in Results
    BY DEF Statuses, Stages, Results
  <2>4. CallIs("done", r)
    BY <2>1, <2>3, SetResult DEF OutboundInv
  <2>5. QED
    BY <2>2, <2>3, <2>4, AttemptKeeps
<1>9. ASSUME NEW r \in {"timeout", "aborted"}, Stop(r) PROVE OutboundInv'
  <2>1. Done(r) /\ at' = at /\ call.kind = "fetch" /\ r \in Results /\ "done" \in Stages
    BY <1>9 DEF Stop, Results, Stages
  <2>2. CASE call.stage = "resolve"
    <3>1. tries' = tries
      BY <1>9, <2>2 DEF Stop
    <3>2. QED
      BY <2>1, <2>2, <3>1, BeforeKeeps
  <2>3. CASE call.stage \in {"connecting", "connected"}
    <3>1. PICK status \in {"closed", "failed"} : tries' = Tried(status)
      BY <1>9, <2>3 DEF Stop
    <3>2. status \in Statuses
      BY DEF Statuses
    <3>3. CallIs("done", r)
      BY <2>1, SetResult DEF OutboundInv
    <3>4. QED
      BY <2>1, <2>3, <3>1, <3>2, <3>3, AttemptKeeps
  <2>4. QED
    BY <1>9, <2>2, <2>3 DEF Stop, HearsStop
<1>10. CASE DialConnects
  <2>1. call.kind = "dial" /\ call.stage = "connecting" /\ tries' = Tried("open") /\ at' = at /\ Done("ok")
    BY <1>10 DEF DialConnects
  <2>2. "open" \in Statuses /\ "done" \in Stages /\ "ok" \in Results
    BY DEF Statuses, Stages, Results
  <2>3. CallIs("done", "ok")
    BY <2>1, <2>2, SetResult DEF OutboundInv
  <2>4. QED
    BY <2>1, <2>2, <2>3, AttemptKeeps
\* A dial's attempt is closed, or comes to nothing, when the call has left it.
<1>11. ASSUME NEW i, NEW status \in {"closed", "failed"}, tries' = [tries EXCEPT ![i] = status],
              UNCHANGED <<call, at>>, call.kind = "fetch" => tries[i] = "abandoned" /\ i \in DOMAIN tries
       PROVE  OutboundInv'
  <2>1. status \in Statuses
    BY DEF Statuses
  <2>2. /\ tries' \in TriesFun' /\ DOMAIN tries' = DOMAIN tries
        /\ \A j \in DOMAIN tries : tries'[j] = IF j = i THEN status ELSE tries[j]
    BY <1>11, <2>1, SetTry DEF OutboundInv
  <2>3. call.kind # "fetch"
    BY <1>11 DEF OutboundInv, SentHere
  <2>4. OpenHere'
    BY <1>11, <2>2 DEF OutboundInv, OpenHere
  <2>5. QED
    BY <1>11, <2>2, <2>3, <2>4 DEF OutboundInv, SentHere
<1>12. CASE PluginCloses
  <2>1. call.kind = "dial" /\ tries' = [tries EXCEPT ![at] = "closed"] /\ UNCHANGED <<call, at>>
    BY <1>12 DEF PluginCloses, Tried
  <2>2. QED
    BY <1>11, <2>1
<1>13. CASE \E i \in 1..at : LateAttempt(i)
  <2>1. PICK i \in 1..at : LateAttempt(i)
    BY <1>13
  <2>2. PICK status \in {"closed", "failed"} : tries' = [tries EXCEPT ![i] = status]
    BY <2>1 DEF LateAttempt, Discarded
  <2>3. tries[i] = "abandoned" /\ i \in DOMAIN tries /\ UNCHANGED <<call, at>>
    BY <2>1 DEF LateAttempt, OutboundInv, TriesFun
  <2>4. QED
    BY <1>11, <2>2, <2>3
<1>14. QED
  BY <1>1, <1>2, <1>3, <1>4, <1>5, <1>6, <1>7, <1>8, <1>9, <1>10, <1>12, <1>13
     DEF OutboundNext, TotalTimerFires, CallerAborts

\* Whatever fails and whenever, checkedFetch writes the request on one
\* connection at most: a resume or an event is not sent twice.
THEOREM SentTheorem == OutboundSpec => []SentAtMostOnce
<1>1. OutboundInv => SentAtMostOnce
  <2> SUFFICES ASSUME OutboundInv, call.kind = "fetch"
               PROVE  Cardinality({i \in DOMAIN tries : tries[i] \in {"open", "closed"}}) <= 1
    BY DEF SentAtMostOnce
  <2>1. {i \in DOMAIN tries : tries[i] \in {"open", "closed"}} \subseteq {at}
    BY DEF OutboundInv, SentHere
  <2>2. IsFiniteSet({at}) /\ Cardinality({at}) = 1
    BY FS_Singleton
  <2>3. QED
    BY <2>1, <2>2, FS_Subset
<1>2. QED
  BY <1>1, OutboundInitially, OutboundKeeps, PTL DEF OutboundSpec

\* A connection connectInOrder leaves open is the one it returned; one that
\* opened after its attempt was given up is closed.
THEOREM OpenTheorem == OutboundSpec => []OpenIsReturned
<1>1. OutboundInv => OpenIsReturned
  BY DEF OutboundInv, OpenHere, OpenIsReturned
<1>2. QED
  BY <1>1, OutboundInitially, OutboundKeeps, PTL DEF OutboundSpec

-----------------------------------------------------------------------------
(***************************************************************************)
(* No address that is tried stands for one the policy refuses              *)
(***************************************************************************)

\* The four ways an IPv6 address carries an IPv4 one tell themselves apart by
\* their first group, and each is sorted by what it carries.
SixToFour(g) == StartsWith(g, <<8194>>)
LEMMA FirstGroups ==
  ASSUME NEW g
  PROVE  /\ IPv4Written(g) => g[1] = 0
         /\ BehindNat64(g) => g[1] = 100
         /\ SixToFour(g) => g[1] = 8194
<1>1. IPv4Written(g) => g[1] = 0
  BY DEF IPv4Written, StartsWith
<1>2. BehindNat64(g) => g[1] = 100
  BY DEF BehindNat64, WellKnownNat64, StartsWith
<1>3. SixToFour(g) => g[1] = 8194
  BY DEF SixToFour, StartsWith
<1>4. QED
  BY <1>1, <1>2, <1>3
LEMMA SortedByCarried ==
  ASSUME NEW g
  PROVE  /\ IPv4Written(g) => ClassifyIPv6(g) = PrivateUnlessMulticast(g[7], g[8])
         /\ BehindNat64(g) => ClassifyIPv6(g) = ClassifyIPv4(EmbeddedIPv4(g[7], g[8]))
         /\ SixToFour(g) => ClassifyIPv6(g) = ClassifyIPv4(EmbeddedIPv4(g[2], g[3]))
<1> DEFINE multi == g[1] \div 256 = 255
           six == g[1] = 8194
           nat == BehindNat64(g)
           written == IPv4Written(g)
           localNat == BehindLocalNat64(g)
           reserved == g[1] \div 512 = 126 \/ g[1] \div 64 \in {1018, 1019}
           a == PrivateUnlessMulticast(g[7], g[8])
           b == ClassifyIPv4(EmbeddedIPv4(g[2], g[3]))
           c == ClassifyIPv4(EmbeddedIPv4(g[7], g[8]))
<1>1. ClassifyIPv6(g) =
        CASE multi -> "multicast" [] written -> a [] six -> b [] nat -> c
          [] localNat -> "private" [] reserved -> "private" [] OTHER -> "public"
  BY DEF ClassifyIPv6
<1>2. g[1] = 0 \/ g[1] = 100 \/ g[1] = 8194 => ~multi /\ ~reserved
  OBVIOUS
<1>3. (written => g[1] = 0) /\ (nat => g[1] = 100) /\ (SixToFour(g) => g[1] = 8194)
  BY FirstGroups
<1>4. (localNat => g[1] = 100) /\ (nat => ~localNat)
  <2>1. (localNat => g[1] = 100) /\ (localNat => g[3] = 1)
    BY DEF BehindLocalNat64, StartsWith, WellKnownNat64
  <2>2. nat => g[3] = 0
    BY DEF BehindNat64
  <2>3. QED
    BY <2>1, <2>2
<1>5. /\ written => ~multi /\ ~reserved /\ ~six /\ ~nat /\ ~localNat
      /\ nat => ~multi /\ ~reserved /\ ~six /\ ~written /\ ~localNat
      /\ SixToFour(g) => six /\ ~multi /\ ~reserved /\ ~written /\ ~nat /\ ~localNat
  BY <1>2, <1>3, <1>4
<1> HIDE DEF multi, six, nat, written, localNat, reserved, a, b, c
<1>6. (written => ClassifyIPv6(g) = a) /\ (nat => ClassifyIPv6(g) = c) /\ (SixToFour(g) => ClassifyIPv6(g) = b)
  BY <1>1, <1>5
<1>7. QED
  BY <1>6 DEF nat, written, a, b, c
LEMMA LayoutsWritten ==
  ASSUME NEW g
  PROVE  (\E p \in Layouts : StartsWith(g, p)) => IPv4Written(g) \/ BehindNat64(g)
<1>1. StartsWith(g, <<100, 65435, 0, 0, 0, 0>>) => BehindNat64(g)
  BY DEF BehindNat64, WellKnownNat64, StartsWith
<1>2. QED
  BY <1>1 DEF IPv4Written, Layouts

\* A class the policy lets through.
ClassAllowed(class) == class # "multicast" /\ (class = "private" => AllowPrivate)
LEMMA CarriedAllowed ==
  ASSUME NEW t, ~AddressRefused(t), NEW o \in Carried(t)
  PROVE  ClassAllowed(ClassifyIPv4(o))
<1>1. CASE t.family = 4
  <2>1. o = t.octets
    BY <1>1 DEF Carried
  <2>2. ClassifyAddress(t) = ClassifyIPv4(t.octets)
    BY <1>1 DEF AddressRefused, ClassifyAddress
  <2>3. QED
    BY <2>1, <2>2 DEF AddressRefused, ClassAllowed
<1>2. CASE t.family # 4
  <2> DEFINE g == ParseIPv6(t)
             layout == \E p \in Layouts : StartsWith(g, p)
             last == EmbeddedIPv4(g[7], g[8])
             second == EmbeddedIPv4(g[2], g[3])
  <2>1. ClassAllowed(ClassifyIPv6(g))
    BY <1>2 DEF AddressRefused, ClassifyAddress, ClassAllowed
  <2>2. layout => IPv4Written(g) \/ BehindNat64(g)
    BY LayoutsWritten
  <2>3. layout => ~SixToFour(g)
    BY <2>2, FirstGroups
  <2>4. Carried(t) = CASE t.family = 4 -> {t.octets} [] t.family # 4 /\ layout -> {last}
                       [] t.family # 4 /\ SixToFour(g) -> {second} [] OTHER -> {}
    BY DEF Carried, SixToFour
  <2>5. (layout => o = last) /\ (~layout => SixToFour(g) /\ o = second)
    <3> HIDE DEF g, layout, last, second
    <3>1. QED
      BY <1>2, <2>3, <2>4
  <2> HIDE DEF g, layout
  <2>6. CASE layout
    <3>1. CASE IPv4Written(g)
      BY <2>1, <2>5, <2>6, <3>1, SortedByCarried DEF PrivateUnlessMulticast, ClassAllowed
    <3>2. CASE BehindNat64(g)
      BY <2>1, <2>5, <2>6, <3>2, SortedByCarried
    <3>3. QED
      BY <2>2, <2>6, <3>1, <3>2
  <2>7. CASE ~layout
    BY <2>1, <2>5, <2>7, SortedByCarried
  <2>8. QED
    BY <2>6, <2>7
<1>3. QED
  BY <1>1, <1>2

\* The answers the call goes through were all checked, under the policy it
\* still has, before the first of them is tried; and only those are tried.
CheckedInv ==
  /\ at \in Nat /\ Len(answer) \in Nat /\ at <= Len(answer) /\ DOMAIN tries = 1..at
  /\ \A i \in 1..Len(answer) : ~AddressRefused(answer[i])
  /\ call.stage \in {"parse", "resolve"} => at = 0
LEMMA CheckedInitially == OutboundInit => CheckedInv
<1> SUFFICES ASSUME OutboundInit PROVE CheckedInv
  OBVIOUS
<1>1. at = 0 /\ answer = <<>> /\ tries = <<>> /\ Len(answer) = 0 /\ 1..0 = {} /\ DOMAIN tries = {}
  BY DEF OutboundInit
<1>2. QED
  BY <1>1 DEF CheckedInv

\* The policy is read once, when the process starts; only the check
\* fills the list of answers, and nothing was tried before it.
LEMMA AnswerKept ==
  ASSUME CheckedInv, policy' = policy, answer' = answer, at' = at, DOMAIN tries' = DOMAIN tries,
         call'.stage \in {"parse", "resolve"} => call.stage \in {"parse", "resolve"}
  PROVE  CheckedInv'
<1>1. \A i \in 1..Len(answer) : ~AddressRefused(answer[i])'
  <2> SUFFICES ASSUME NEW i \in 1..Len(answer) PROVE ~AddressRefused(answer[i])'
    OBVIOUS
  <2>1. ~AddressRefused(answer[i])
    BY DEF CheckedInv
  <2>2. QED
    BY <2>1 DEF AddressRefused, AllowPrivate
<1>2. QED
  BY <1>1 DEF CheckedInv
LEMMA AnswerChecked ==
  ASSUME CheckedInv, policy' = policy, UNCHANGED <<at, tries>>, at = 0, Len(answer') \in Nat,
         \A i \in 1..Len(answer') : ~AddressRefused(answer'[i])
  PROVE  CheckedInv'
<1>1. \A i \in 1..Len(answer') : ~AddressRefused(answer[i])'
  <2> SUFFICES ASSUME NEW i \in 1..Len(answer') PROVE ~AddressRefused(answer[i])'
    OBVIOUS
  <2>1. ~AddressRefused(answer'[i])
    OBVIOUS
  <2>2. QED
    BY <2>1 DEF AddressRefused, AllowPrivate
<1>2. QED
  BY <1>1 DEF CheckedInv
LEMMA Went ==
  ASSUME NEW s, Go(s), call \in Calls PROVE call'.stage = s
BY DEF Go, Calls
LEMMA Ended ==
  ASSUME NEW r, Done(r), call \in Calls PROVE call'.stage = "done"
<1> DEFINE done == "done"
<1>1. call' = [call EXCEPT !.stage = done, !.result = r]
  BY DEF Done
<1> HIDE DEF done
<1>2. call'.stage = done
  BY <1>1 DEF Calls
<1>3. QED
  BY <1>2 DEF done

LEMMA CheckedKeeps ==
  OutboundInv /\ CheckedInv /\ [OutboundNext]_outboundVars => CheckedInv'
<1> SUFFICES ASSUME OutboundInv, CheckedInv, [OutboundNext]_outboundVars PROVE CheckedInv'
  OBVIOUS
<1>1. call \in Calls /\ tries \in TriesFun /\ DOMAIN tries = 1..at
  BY DEF OutboundInv, CheckedInv
<1>2. CASE UNCHANGED outboundVars
  BY <1>2, AnswerKept DEF outboundVars
<1>3. CASE Parse
  <2>1. policy' = policy /\ UNCHANGED <<at, tries>> /\ call.stage = "parse" /\ at = 0
    BY <1>3 DEF Parse, CheckedInv
  <2>2. CASE answer' = answer
    <3>1. CheckedInv'
      BY <2>1, <2>2, AnswerKept
    <3>2. QED
      BY <3>1
  <2>3. CASE \E a \in Literals : ~AddressRefused(a) /\ answer' = <<a>>
    <3>1. PICK a \in Literals : ~AddressRefused(a) /\ answer' = <<a>>
      BY <2>3
    <3>2. Len(answer') = 1 /\ answer'[1] = a /\ \A i \in 1..1 : i = 1
      BY <3>1
    <3>3. \A i \in 1..Len(answer') : ~AddressRefused(answer'[i])
      BY <3>1, <3>2
    <3>4. QED
      BY <2>1, <3>2, <3>3, AnswerChecked
  <2>4. QED
    BY <1>3, <2>2, <2>3 DEF Parse
<1>4. CASE Resolve
  <2>1. policy' = policy /\ UNCHANGED <<at, tries>> /\ call.stage = "resolve" /\ at = 0
    BY <1>4 DEF Resolve, CheckedInv
  <2>2. CASE answer' = answer
    BY <2>1, <2>2, AnswerKept
  <2>3. CASE \E s \in NameAnswers : s # <<>> /\ ~AnswerRefused(s) /\ answer' = s
    <3>1. PICK s \in NameAnswers : ~AnswerRefused(s) /\ answer' = s
      BY <2>3
    <3>2. Len(answer') \in Nat
      BY <3>1, OutboundAssumption, LenProperties
    <3>3. \A i \in 1..Len(answer') : ~AddressRefused(answer'[i])
      BY <3>1 DEF AnswerRefused
    <3>4. QED
      BY <2>1, <3>2, <3>3, AnswerChecked
  <2>4. QED
    BY <1>4, <2>2, <2>3 DEF Resolve
<1>5. CASE TryNext
  <2>1. policy' = policy /\ answer' = answer /\ call.stage = "next"
    BY <1>5 DEF TryNext
  <2>2. CASE at < Len(answer) /\ at' = at + 1 /\ tries' = Append(tries, "connecting") /\ Go("connecting")
    <3>1. call'.stage = "connecting"
      BY <1>1, <2>2, Went
    <3>2. "connecting" \in Statuses /\ at \in Nat /\ Len(answer) \in Nat
      BY DEF Statuses, CheckedInv
    <3>3. DOMAIN tries' = 1..(at + 1)
      BY <1>1, <2>2, <3>2, NewTry
    <3>4. at' \in Nat /\ at' <= Len(answer')
      BY <2>1, <2>2, <3>2
    <3>5. \A i \in 1..Len(answer) : ~AddressRefused(answer[i])'
      BY <2>1 DEF CheckedInv, AddressRefused, AllowPrivate
    <3>6. QED
      BY <2>1, <2>2, <3>1, <3>2, <3>3, <3>4, <3>5 DEF CheckedInv
  <2>3. CASE UNCHANGED <<at, tries>> /\ \E r \in {"timeout", "connect"} : Done(r)
    <3>1. call'.stage = "done"
      BY <1>1, <2>3, Ended
    <3>2. QED
      BY <2>1, <2>3, <3>1, AnswerKept
  <2>4. QED
    BY <1>5, <2>2, <2>3 DEF TryNext
<1>6. ASSUME UNCHANGED <<policy, answer, at>>, NEW i, NEW s, tries' = [tries EXCEPT ![i] = s],
             \/ call' = call \/ \E stage \in {"connected", "next"} : Go(stage) \/ \E r \in Results : Done(r)
      PROVE  CheckedInv'
  <2>1. DOMAIN tries' = DOMAIN tries
    BY <1>1, <1>6 DEF TriesFun
  <2>2. call' = call \/ call'.stage \in {"connected", "next", "done"}
    BY <1>1, <1>6, Went, Ended
  <2>3. call'.stage \in {"parse", "resolve"} => call.stage \in {"parse", "resolve"}
    BY <2>2
  <2>4. QED
    BY <1>6, <2>1, <2>3, AnswerKept
<1>7. CASE FetchConnects \/ ConnectTimerFires \/ DialFails \/ DialTimesOut
  <2>1. \E s, stage \in {"open", "failed", "abandoned", "connected", "next"} :
          /\ UNCHANGED <<policy, answer, at>> /\ tries' = [tries EXCEPT ![at] = s]
          /\ stage \in {"connected", "next"} /\ Go(stage)
    BY <1>7 DEF FetchConnects, ConnectTimerFires, DialFails, DialTimesOut, Tried
  <2>2. QED
    BY <1>6, <2>1
<1>8. CASE FetchFails \/ Respond \/ DialConnects
  <2>1. \E s \in {"open", "failed", "closed"} :
          /\ UNCHANGED <<policy, answer, at>> /\ tries' = [tries EXCEPT ![at] = s]
          /\ Go("next") \/ \E r \in {"connect", "ok", "redirect", "size"} : Done(r)
    BY <1>8 DEF FetchFails, Respond, DialConnects, Tried
  <2>2. {"connect", "ok", "redirect", "size"} \subseteq Results
    BY DEF Results
  <2>3. QED
    BY <1>6, <2>1, <2>2
<1>9. ASSUME NEW r \in {"timeout", "aborted"}, Stop(r) PROVE CheckedInv'
  <2>1. UNCHANGED <<policy, answer, at>> /\ Done(r) /\ r \in Results
    BY <1>9 DEF Stop, Results
  <2>2. CASE tries' = tries
    <3>1. call'.stage = "done"
      BY <1>1, <2>1, Ended
    <3>2. QED
      BY <2>1, <2>2, <3>1, AnswerKept
  <2>3. CASE \E s \in {"closed", "failed"} : tries' = [tries EXCEPT ![at] = s]
    BY <1>6, <2>1, <2>3
  <2>4. QED
    BY <1>9, <2>2, <2>3 DEF Stop, Tried
<1>10. CASE PluginCloses
  BY <1>6, <1>10 DEF PluginCloses, Tried
<1>11. CASE \E i \in 1..at : LateAttempt(i)
  BY <1>6, <1>11 DEF LateAttempt
<1>12. QED
  BY <1>2, <1>3, <1>4, <1>5, <1>7, <1>8, <1>9, <1>10, <1>11
     DEF OutboundNext, TotalTimerFires, CallerAborts

\* resolveAndCheck: whatever the resolver answers, in whatever notation and at
\* whatever place, and whichever answers are tried after failures, the server
\* contacts no address that stands for one its policy refuses.
THEOREM ContactsTheorem == OutboundSpec => []ContactsAllowed
<1>1. CheckedInv => ContactsAllowed
  <2> SUFFICES ASSUME CheckedInv, NEW i \in DOMAIN tries, NEW o \in Carried(answer[i])
               PROVE  ClassAllowed(ClassifyIPv4(o))
    BY DEF ContactsAllowed, ClassAllowed
  <2>1. i \in 1..Len(answer)
    BY DEF CheckedInv
  <2>2. ~AddressRefused(answer[i])
    BY <2>1 DEF CheckedInv
  <2>3. QED
    BY <2>2, CarriedAllowed
<1>2. QED
  BY <1>1, OutboundInitially, OutboundKeeps, CheckedInitially, CheckedKeeps, PTL DEF OutboundSpec

-----------------------------------------------------------------------------
(***************************************************************************)
(* The budget of connectInOrder, and the types                             *)
(***************************************************************************)
BudgetInv == policy \in Policies /\ spent \in 0..TotalTime
LEMMA BudgetKeeps == BudgetInv /\ [OutboundNext]_outboundVars => BudgetInv'
<1> SUFFICES ASSUME BudgetInv, [OutboundNext]_outboundVars PROVE BudgetInv'
  OBVIOUS
<1>1. spent \in Nat /\ TotalTime \in Nat /\ spent <= TotalTime /\ AttemptTime \in Nat \ {0}
  BY OutboundAssumption DEF BudgetInv
<1>2. AttemptLimit \in Nat /\ spent + AttemptLimit <= TotalTime
  <2>1. CASE TotalTime - spent < AttemptTime
    BY <1>1, <2>1 DEF AttemptLimit
  <2>2. CASE ~(TotalTime - spent < AttemptTime)
    BY <1>1, <2>2 DEF AttemptLimit
  <2>3. QED
    BY <2>1, <2>2
<1>3. CASE UNCHANGED <<policy, spent>>
  BY <1>3 DEF BudgetInv
<1>4. CASE DialFails
  <2>1. PICK t \in 0..(AttemptLimit - 1) : spent' = spent + t
    BY <1>4 DEF DialFails
  <2>2. spent' \in Nat /\ spent' <= TotalTime
    BY <1>1, <1>2, <2>1
  <2>3. QED
    BY <1>1, <1>4, <2>2 DEF DialFails, BudgetInv
<1>5. CASE DialTimesOut
  BY <1>1, <1>2, <1>5 DEF DialTimesOut, BudgetInv
<1>6. QED
  BY <1>3, <1>4, <1>5
     DEF OutboundNext, outboundVars, Parse, Resolve, TryNext, FetchConnects, FetchFails, ConnectTimerFires,
         Respond, TotalTimerFires, CallerAborts, Stop, DialConnects, PluginCloses, LateAttempt

\* Every variable of a call keeps its type: the list of answers is not run past,
\* and the attempts of connectInOrder take no more than the time there is.
THEOREM OutboundTypes == OutboundSpec => []OutboundTypeOK
<1>1. OutboundInit => BudgetInv
  BY OutboundAssumption DEF OutboundInit, BudgetInv
<1>2. OutboundInv /\ CheckedInv /\ BudgetInv => OutboundTypeOK
  <2> SUFFICES ASSUME OutboundInv, CheckedInv, BudgetInv PROVE OutboundTypeOK
    OBVIOUS
  <2>1. at \in 0..Len(answer)
    BY DEF CheckedInv
  <2>2. /\ call.kind \in CallKinds /\ call.url \in Urls
        /\ call.stage \in Stages /\ call.result \in Results
    BY DEF OutboundInv, Calls
  <2>3. tries \in TriesFun
    BY DEF OutboundInv
  <2>4. QED
    BY <2>1, <2>2, <2>3 DEF OutboundTypeOK, BudgetInv, Stages, Results, TriesFun, Statuses
<1>3. QED
  BY <1>1, <1>2, OutboundInitially, OutboundKeeps, CheckedInitially, CheckedKeeps, BudgetKeeps, PTL
     DEF OutboundSpec
=============================================================================
