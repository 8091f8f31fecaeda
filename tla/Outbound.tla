------------------------------- MODULE Outbound -------------------------------
(* One call the server makes to a place it was configured with: checkedFetch   *)
(* (evidence sinks, exporters, HTTP plugins) or connectInOrder (Temporal and   *)
(* OpenShell over gRPC), both behind the destination check. The name is        *)
(* resolved once, every answer is checked, and the answers are tried in order. *)
(* The other side may refuse, stay silent, answer late, or break off.          *)
EXTENDS Addresses, FiniteSets

CONSTANTS
  Policies,       \* environments to start in: "development", "production", "allowed"
  CallKinds,      \* "fetch" and "dial"
  Urls,           \* what the configured target looks like
  Literals,       \* addresses written as the host of a URL
  NameAnswers,    \* what the resolver may answer for a name: sequences of addresses
  AttemptTime,    \* most time for one attempt of connectInOrder
  TotalTime       \* most time for all of them

ASSUME OutboundAssumption ==
  /\ Policies \subseteq {"development", "production", "allowed"}
  /\ CallKinds \subseteq {"fetch", "dial"}
  /\ Urls \subseteq {"bad_url", "scheme", "userinfo", "localhost", "literal", "name"}
  /\ Literals \subseteq AddressTexts /\ NameAnswers \subseteq Seq(AddressTexts)
  /\ AttemptTime \in Nat \ {0} /\ TotalTime \in Nat \ {0}

VARIABLES
  policy,
  call,    \* kind, what the target is, where the call is, the result it had
  answer,  \* the addresses to try: the literal, or the resolver's answer
  at,      \* the answer that is tried
  tries,   \* what became of each answer that was tried
  spent    \* time connectInOrder has used
outboundVars == <<policy, call, answer, at, tries, spent>>

Running == {"parse", "resolve", "next", "connecting", "connected"}
OutboundTypeOK ==
  /\ policy \in Policies
  /\ call.kind \in CallKinds /\ call.url \in Urls
  /\ call.stage \in Running \cup {"done"}
  /\ call.result \in {"none", "ok", "bad_url", "scheme", "userinfo", "refused", "resolve",
                      "redirect", "size", "timeout", "connect", "aborted"}
  /\ at \in 0..Len(answer)
  /\ tries \in [1..at -> {"connecting", "failed", "abandoned", "open", "closed"}]
  /\ spent \in 0..TotalTime

OutboundInit ==
  /\ policy \in Policies
  /\ \E k \in CallKinds, u \in Urls :
       call = [kind |-> k, url |-> u, stage |-> "parse", result |-> "none"]
  /\ answer = <<>> /\ at = 0 /\ tries = <<>> /\ spent = 0

\* resolveDestinationPolicy
AllowPrivate == policy # "production"
\* classRefused, addressRefused
AddressRefused(a) ==
  \/ ClassifyAddress(a) \in {"multicast", "invalid"}
  \/ ClassifyAddress(a) = "private" /\ ~AllowPrivate

Done(result) == call' = [call EXCEPT !.stage = "done", !.result = result]
Go(stage) == call' = [call EXCEPT !.stage = stage]

\* parseCheckedUrl, parseHostPort: a gRPC target has no scheme, path or user.
Parse ==
  /\ call.stage = "parse" /\ UNCHANGED <<policy, at, tries, spent>>
  /\ \/ /\ call.url \in {"bad_url", "scheme", "userinfo"} /\ UNCHANGED answer
        /\ Done(IF call.kind = "fetch" THEN call.url ELSE "bad_url")
     \/ /\ call.url = "localhost" /\ ~AllowPrivate /\ Done("refused") /\ UNCHANGED answer
     \/ /\ call.url = "literal"
        /\ \E a \in Literals :
             IF AddressRefused(a) THEN Done("refused") /\ UNCHANGED answer
             ELSE answer' = <<a>> /\ Go("next")
     \/ /\ call.url = "name" \/ (call.url = "localhost" /\ AllowPrivate)
        /\ Go("resolve") /\ UNCHANGED answer

\* resolveAndCheck: every answer, not the first.
AnswerRefused(s) == \E i \in 1..Len(s) : AddressRefused(s[i])
Resolve ==
  /\ call.stage = "resolve" /\ UNCHANGED <<policy, at, tries, spent>>
  /\ \E s \in NameAnswers :
       CASE s = <<>> -> Done("resolve") /\ UNCHANGED answer
         [] s # <<>> /\ AnswerRefused(s) -> Done("refused") /\ UNCHANGED answer
         [] OTHER -> answer' = s /\ Go("next")

Tried(status) == [tries EXCEPT ![at] = status]
\* The next answer; none left is the last error, which is a timeout if the last
\* attempt ran into its limit.
LastTimedOut == at > 0 /\ tries[at] = "abandoned"
TryNext ==
  /\ call.stage = "next" /\ UNCHANGED <<policy, answer, spent>>
  /\ \/ /\ at < Len(answer) /\ (call.kind = "dial" => spent < TotalTime)
        /\ at' = at + 1 /\ tries' = Append(tries, "connecting") /\ Go("connecting")
     \/ /\ at = Len(answer) \/ (call.kind = "dial" /\ spent >= TotalTime)
        /\ Done(IF call.kind = "dial" /\ (spent >= TotalTime \/ LastTimedOut) THEN "timeout"
                ELSE "connect")
        /\ UNCHANGED <<at, tries>>

\* pinnedNodeTransport: the socket opens and the request is written on it.
FetchConnects ==
  /\ call.kind = "fetch" /\ call.stage = "connecting"
  /\ tries' = Tried("open") /\ Go("connected") /\ UNCHANGED <<policy, answer, at, spent>>
\* markNotConnected: only a failure of a socket that never opened lets
\* checkedFetch go on to the next answer.
\* mutant: whatever failed, the next answer is tried
MayTryNextAlways == TRUE
MayTryNext == call.stage = "connecting"
FetchFails ==
  /\ call.kind = "fetch" /\ call.stage \in {"connecting", "connected"}
  /\ tries' = Tried(IF call.stage = "connected" THEN "closed" ELSE "failed")
  /\ IF MayTryNext THEN Go("next") ELSE Done("connect")
  /\ UNCHANGED <<policy, answer, at, spent>>
ConnectTimerFires ==
  /\ call.kind = "fetch" /\ call.stage = "connecting"
  /\ tries' = Tried("failed") /\ Go("next") /\ UNCHANGED <<policy, answer, at, spent>>
\* An answer, a redirect, more bytes than the cap.
Respond ==
  /\ call.kind = "fetch" /\ call.stage = "connected" /\ tries' = Tried("closed")
  /\ \E result \in {"ok", "redirect", "size"} : Done(result)
  /\ UNCHANGED <<policy, answer, at, spent>>
\* The total timer, or the caller's signal: both abort the controller, and
\* checkedFetch hears of it while it resolves and while a request is under way.
HearsStop == call.stage \in {"resolve", "connecting", "connected"}
Stop(result) ==
  /\ call.kind = "fetch" /\ HearsStop
  /\ tries' = IF call.stage = "resolve" THEN tries
              ELSE Tried(IF call.stage = "connected" THEN "closed" ELSE "failed")
  /\ Done(result) /\ UNCHANGED <<policy, answer, at, spent>>
TotalTimerFires == Stop("timeout")
CallerAborts == Stop("aborted")

-----------------------------------------------------------------------------
\* connectInOrder: an attempt that opens in time is returned to the plugin.
\* Each takes no longer than its own limit and what is left of the total.
\* mutant: every attempt has its full time
AttemptLimitFull == AttemptTime
AttemptLimit == IF TotalTime - spent < AttemptTime THEN TotalTime - spent ELSE AttemptTime
DialConnects ==
  /\ call.kind = "dial" /\ call.stage = "connecting"
  /\ tries' = Tried("open") /\ Done("ok") /\ UNCHANGED <<policy, answer, at, spent>>
DialFails ==
  /\ call.kind = "dial" /\ call.stage = "connecting"
  /\ \E t \in 0..(AttemptLimit - 1) : spent' = spent + t
  /\ tries' = Tried("failed") /\ Go("next") /\ UNCHANGED <<policy, answer, at>>
DialTimesOut ==
  /\ call.kind = "dial" /\ call.stage = "connecting" /\ spent' = spent + AttemptLimit
  /\ tries' = Tried("abandoned") /\ Go("next") /\ UNCHANGED <<policy, answer, at>>
\* An attempt nobody waits for any more: the connection it opens is discarded.
\* No event comes in between an attempt that fails and the next one.
\* mutant: a late connection is left open
DiscardedLeft == "open"
Discarded == "closed"
LateAttempt(i) ==
  /\ tries[i] = "abandoned" /\ call.stage # "next"
  /\ \E status \in {Discarded, "failed"} : tries' = [tries EXCEPT ![i] = status]
  /\ UNCHANGED <<policy, call, answer, at, spent>>
\* The plugin may close its connection: OpenShell does when its call is answered,
\* but not for an answer it has no call for, and Temporal's resume never does.
PluginCloses ==
  /\ call.kind = "dial" /\ call.stage = "done" /\ call.result = "ok" /\ tries[at] = "open"
  /\ tries' = Tried("closed") /\ UNCHANGED <<policy, call, answer, at, spent>>

OutboundNext ==
  \/ Parse \/ Resolve \/ TryNext
  \/ FetchConnects \/ FetchFails \/ ConnectTimerFires \/ Respond
  \/ TotalTimerFires \/ CallerAborts
  \/ DialConnects \/ DialFails \/ DialTimesOut \/ PluginCloses
  \/ \E i \in 1..at : LateAttempt(i)
OutboundSpec == OutboundInit /\ [][OutboundNext]_outboundVars

-----------------------------------------------------------------------------
\* Whatever fails and whenever, the request is written on one connection at
\* most: the approval is resumed once, the event is posted once.
SentAtMostOnce ==
  call.kind = "fetch" => Cardinality({i \in DOMAIN tries : tries[i] \in {"open", "closed"}}) <= 1

\* The IPv4 addresses an IPv6 address stands for: mapped, compatible,
\* translated, NAT64 and 6to4, as the RFCs lay them out.
Layouts == {<<0, 0, 0, 0, 0, 0>>, <<0, 0, 0, 0, 0, 65535>>, <<0, 0, 0, 0, 65535, 0>>,
            <<100, 65435, 0, 0, 0, 0>>}
Carried(a) ==
  LET g == ParseIPv6(a) IN
  CASE a.family = 4 -> {a.octets}
    [] a.family # 4 /\ (\E p \in Layouts : StartsWith(g, p)) -> {EmbeddedIPv4(g[7], g[8])}
    [] a.family # 4 /\ StartsWith(g, <<8194>>) -> {EmbeddedIPv4(g[2], g[3])}
    [] OTHER -> {}
\* No address the server tries, however the resolver writes it and wherever it
\* stands in the answer, stands for one the policy refuses.
ContactsAllowed == \A i \in DOMAIN tries : \A o \in Carried(answer[i]) :
  ClassifyIPv4(o) # "multicast" /\ (ClassifyIPv4(o) = "private" => AllowPrivate)

\* A connection connectInOrder opened is the one it returned, and the plugin
\* has it; one that opened too late is nobody's and is closed.
OpenIsReturned ==
  call.kind = "dial" =>
    \A i \in DOMAIN tries : tries[i] = "open" => call.result = "ok" /\ i = at
=============================================================================
