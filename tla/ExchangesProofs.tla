---------------------------- MODULE ExchangesProofs ----------------------------
(* For all values of the constants: what the exchanges with another machine keep *)
(* to. Four parts that share no state: signing out, the trace export, the        *)
(* evidence store, and the interceptor of an OpenShell gateway. With the modules *)
(* AnswerFormsProofs and OutboundProofs these are the six parts of MCExchanges:  *)
(* the last section proves that each of them moves there as it moves alone.      *)
EXTENDS MCExchanges, AnswerFormsProofs, OutboundProofs

-----------------------------------------------------------------------------
(* Signing out. A tab that is sent to the login page has lost the session its   *)
(* request named. The route believes what it saw, and what it saw stays true: a *)
(* session that is gone does not come back, because signing in makes one that   *)
(* no request under way has named.                                              *)
\* What the route has found out is true, and only a tab whose route found the
\* session gone is redirected.
FoundIsGone == \A t \in Tabs : click[t].deleted => click[t].of \notin live
RedirectedFound == \A t \in Tabs : returned[t] = "redirected" => click[t].deleted
SignOutInv == SignOutTypeOK /\ FoundIsGone /\ RedirectedFound

LEMMA SignOutInitially == SignOutInit => SignOutInv
  BY SignOutAssumption DEF SignOutInit, SignOutInv, SignOutTypeOK, FoundIsGone, RedirectedFound

\* A tab's own step.
LEMMA TabStep ==
  ASSUME SignOutInv, NEW t \in Tabs,
         Click(t) \/ Revoke(t) \/ LookAgain(t) \/ RouteReplies(t) \/ GiveUpWaiting(t) \/ Refuse(t)
  PROVE  SignOutInv'
<1> USE SignOutAssumption DEF SignOutInv, SignOutTypeOK, FoundIsGone, RedirectedFound
<1>1. CASE Click(t)
  BY <1>1 DEF Click
<1>2. CASE Revoke(t)
  BY <1>2 DEF Revoke
<1>3. CASE LookAgain(t)
  BY <1>3 DEF LookAgain, LooksGone
<1>4. CASE RouteReplies(t)
  BY <1>4 DEF RouteReplies, ExpiredCookie
<1>5. CASE GiveUpWaiting(t)
  BY <1>5 DEF GiveUpWaiting
<1>6. CASE Refuse(t)
  BY <1>6 DEF Refuse
<1>7. QED
  BY <1>1, <1>2, <1>3, <1>4, <1>5, <1>6

\* A session that is signed in to is named by no request that is under way or over.
LEMMA SignInStep ==
  ASSUME SignOutInv, SignInAgain
  PROVE  SignOutInv'
<1> USE SignOutAssumption DEF SignOutInv
<1>1. PICK s \in Sessions \ live : /\ \A t \in Tabs : click[t].of # s
                                   /\ live' = live \cup {s} /\ cookie' = s
  BY DEF SignInAgain
<1>2. SignOutTypeOK'
  BY <1>1 DEF SignInAgain, SignOutTypeOK
<1>3. FoundIsGone'
  BY <1>1 DEF SignInAgain, FoundIsGone
<1>4. RedirectedFound'
  BY DEF SignInAgain, SignOutTypeOK, RedirectedFound
<1>5. QED
  BY <1>2, <1>3, <1>4

LEMMA SignOutKeeps == SignOutInv /\ [SignOutNext]_signOutVars => SignOutInv'
<1> SUFFICES ASSUME SignOutInv, [SignOutNext]_signOutVars PROVE SignOutInv'
  OBVIOUS
<1>1. CASE \E t \in Tabs : \/ Click(t) \/ Revoke(t) \/ LookAgain(t)
                           \/ RouteReplies(t) \/ GiveUpWaiting(t) \/ Refuse(t)
  BY <1>1, TabStep
<1>2. CASE SignInAgain
  BY <1>2, SignInStep
<1>3. CASE UNCHANGED signOutVars
  BY <1>3 DEF signOutVars, SignOutInv, SignOutTypeOK, FoundIsGone, RedirectedFound
<1>4. QED
  BY <1>1, <1>2, <1>3 DEF SignOutNext

\* A redirected tab's session is gone from the server (performSignOut,
\* handleSignOut), whoever else signs in or out meanwhile.
THEOREM RedirectTheorem == SignOutSpec => []RedirectedMeansGone
<1>1. SignOutInv => RedirectedMeansGone
  BY DEF SignOutInv, FoundIsGone, RedirectedFound, RedirectedMeansGone
<1>2. QED
  BY <1>1, SignOutInitially, SignOutKeeps, PTL DEF SignOutSpec

-----------------------------------------------------------------------------
(* The trace export. An export that is over has brought the span to every      *)
(* exporter it read that takes one. Exports share the exporters' rows with the  *)
(* settings page, which changes them at any time; what an export has read is    *)
(* its own.                                                                     *)
\* What an export still has to do and what it has done make up what it read.
ExportInv(e) ==
  /\ export[e].left \subseteq export[e].read
  /\ export[e].got = (export[e].read \ export[e].left) \ down
  /\ export[e].at = "over" => export[e].left = {}
  /\ export[e].at \in {"none", "started"} => export[e].read = {} /\ export[e].left = {}
TraceInv == TraceTypeOK /\ \A e \in TraceEvents : ExportInv(e)

\* The trace of a span is one the origin or the envelope gave, or its own.
LEMMA SpanTraceType ==
  ASSUME NEW e \in TraceEvents, NEW origin \in OriginTraces, NEW envelope \in OriginTraces
  PROVE  SpanTrace(e, origin, envelope) \in Traces
  BY DEF SpanTrace, Traces

LEMMA TraceInitially == TraceInit => TraceInv
  BY TraceExportAssumption
  DEF TraceInit, TraceInv, TraceTypeOK, ExportInv, NoPage, NoExport

LEMMA PageKeepsExports ==
  ASSUME TraceInv, PageStep
  PROVE  TraceInv'
<1> USE TraceExportAssumption DEF TraceInv
<1>1. PICK a \in Admins : AddExporter(a) \/ ToggleRead(a) \/ ToggleWrite(a) \/ DeleteExporter(a)
  BY DEF PageStep
<1>2. UNCHANGED <<down, export>>
  BY <1>1 DEF AddExporter, ToggleRead, ToggleWrite, DeleteExporter
<1>3. TraceTypeOK'
  <2> USE DEF TraceTypeOK, MaySubmit, NoPage
  <2>1. CASE AddExporter(a)
    BY <2>1 DEF AddExporter
  <2>2. CASE ToggleRead(a)
    BY <2>2 DEF ToggleRead
  <2>3. CASE ToggleWrite(a)
    BY <2>3 DEF ToggleWrite
  <2>4. CASE DeleteExporter(a)
    BY <2>4 DEF DeleteExporter
  <2>5. QED
    BY <1>1, <2>1, <2>2, <2>3, <2>4
<1>4. QED
  BY <1>2, <1>3 DEF ExportInv

LEMMA ExportKeeps ==
  ASSUME TraceInv, NEW e \in TraceEvents, StartExport(e) \/ ExportStep(e)
  PROVE  TraceInv'
<1> USE TraceExportAssumption DEF TraceInv, TraceTypeOK, ExportInv
<1>1. CASE StartExport(e)
  BY <1>1 DEF StartExport
<1>2. CASE LoadExporters(e)
  <2>1. EnabledExporters \subseteq Exporters
    BY DEF EnabledExporters
  <2>2. CASE export' = [export EXCEPT ![e].at = "over"]
    BY <1>2, <2>2 DEF LoadExporters
  <2>3. CASE \E origin, envelope \in OriginTraces :
               export' = [export EXCEPT ![e] =
                 [at |-> IF EnabledExporters = {} THEN "over" ELSE "posting", read |-> EnabledExporters,
                  left |-> EnabledExporters, got |-> {}, trace |-> SpanTrace(e, origin, envelope)]]
    BY <1>2, <2>1, <2>3, SpanTraceType DEF LoadExporters
  <2>4. QED
    BY <1>2, <2>2, <2>3 DEF LoadExporters
<1>3. ASSUME NEW x \in Exporters, PostTrace(e, x) PROVE TraceInv'
  <2> DEFINE after == LeftAfter(e, x)
             now == [at |-> IF after = {} THEN "over" ELSE export[e].at, read |-> export[e].read,
                     left |-> after, got |-> export[e].got \cup ({x} \ down),
                     trace |-> export[e].trace]
  <2>1. after \subseteq export[e].left /\ x \in export[e].left /\ export[e].at = "posting"
    BY <1>3 DEF PostTrace, LeftAfter
  <2>2. export' = [export EXCEPT ![e] = now]
    BY <1>3 DEF PostTrace
  <2>3. export[e].read \subseteq Exporters /\ export[e].got \subseteq Exporters
        /\ export[e].trace \in Traces \cup {NoTrace}
    OBVIOUS
  <2>4. now \in [at : {"none", "started", "posting", "over"}, read : SUBSET Exporters,
                 left : SUBSET Exporters, got : SUBSET Exporters, trace : Traces \cup {NoTrace}]
    BY <2>1, <2>3
  <2>5. now.got = (now.read \ now.left) \ down
    BY <2>1 DEF LeftAfter
  <2>6. now.left \subseteq now.read /\ (now.at = "over" => now.left = {})
        /\ now.at \notin {"none", "started"}
    BY <2>1
  <2> HIDE DEF now
  <2>7. UNCHANGED <<exporters, down, page, pageWork>>
    BY <1>3 DEF PostTrace
  <2>8. TraceTypeOK'
    BY <2>2, <2>4, <2>7
  <2>9. \A f \in TraceEvents : export'[f] = IF f = e THEN now ELSE export[f]
    BY <2>2
  <2>10. QED
    BY <2>5, <2>6, <2>7, <2>8, <2>9
<1>4. QED
  BY <1>1, <1>2, <1>3 DEF ExportStep

LEMMA TraceKeeps == TraceInv /\ [TraceNext]_traceVars => TraceInv'
<1> SUFFICES ASSUME TraceInv, [TraceNext]_traceVars PROVE TraceInv'
  OBVIOUS
<1>1. CASE PageStep
  BY <1>1, PageKeepsExports
<1>2. CASE \E e \in TraceEvents : StartExport(e) \/ ExportStep(e)
  BY <1>2, ExportKeeps
<1>3. CASE UNCHANGED traceVars
  BY <1>3 DEF traceVars, TraceInv, TraceTypeOK, ExportInv
<1>4. QED
  BY <1>1, <1>2, <1>3 DEF TraceNext

\* Every exporter that was enabled when the export read them, and that takes
\* spans, has the span when the export is over (exportOtelTrace).
THEOREM NoneSkippedTheorem == TraceSpec => []NoneSkipped
<1>1. TraceInv => NoneSkipped
  BY DEF TraceInv, ExportInv, NoneSkipped
<1>2. QED
  BY <1>1, TraceInitially, TraceKeeps, PTL DEF TraceSpec

-----------------------------------------------------------------------------
(* The evidence store. A receipt stands for an event the store holds whole, and *)
(* the committed receipts of an approval are one chain. The chain of the store  *)
(* itself need not be one (ChainPageLinks): what HITLy gave up waiting for may  *)
(* be stored all the same.                                                      *)
Events == [seq : 1..MaxAppends, prev : 0..MaxAppends]
States == {"unsent", "coming", "writing", "answered", "refused", "gone"}
Held == kept \o fresh

\* An event that was answered for is whole, and so is one with a receipt.
AnsweredInv == \A id \in 1..MaxAppends : post[id] = "answered" => stored[id] = "whole"
\* Receipts are for events that were sent, each naming the one before it.
HeldInv ==
  \A i \in 1..Len(Held) :
    /\ Held[i] \in 1..Len(sentEvents) /\ stored[Held[i]] = "whole"
    /\ sentEvents[Held[i]].prev = IF i = 1 THEN 0 ELSE Held[i - 1]
\* The event under way names the last receipt.
SendingInv == sending # 0 => sentEvents[sending].prev = LatestReceipt
\* An event's place is not past the number of events.
SeqInv == \A id \in 1..Len(sentEvents) : sentEvents[id].seq <= id

EvidenceInv ==
  EvidenceTypeOK /\ Len(sentEvents) <= MaxAppends /\ AnsweredInv /\ HeldInv /\ SendingInv /\ SeqInv

-----------------------------------------------------------------------------
LEMMA HeldType ==
  ASSUME EvidenceTypeOK
  PROVE  /\ Held \in Seq(1..MaxAppends) /\ Len(Held) = Len(kept) + Len(fresh)
         /\ \A i \in 1..Len(Held) : Held[i] = IF i <= Len(kept) THEN kept[i] ELSE fresh[i - Len(kept)]
  BY DEF EvidenceTypeOK, Held

\* The committed receipts come first.
LEMMA HeldGrows ==
  ASSUME EvidenceTypeOK
  PROVE  Len(kept) \in Nat /\ Len(kept) <= Len(Held) /\ \A i \in 1..Len(kept) : Held[i] = kept[i]
<1>1. Len(kept) \in Nat /\ Len(fresh) \in Nat
  BY DEF EvidenceTypeOK
<1>2. QED
  BY <1>1, HeldType

LEMMA LatestIsLast ==
  ASSUME EvidenceTypeOK
  PROVE  LatestReceipt = IF Len(Held) = 0 THEN 0 ELSE Held[Len(Held)]
<1>1. Held \in Seq(1..MaxAppends)
  BY HeldType
<1>2. Held = <<>> <=> Len(Held) = 0
  BY <1>1
<1>3. QED
  BY <1>2 DEF LatestReceipt, Held

LEMMA EvidenceInitially == EvidenceInit => EvidenceInv
<1> SUFFICES ASSUME EvidenceInit PROVE EvidenceInv
  OBVIOUS
<1>1. EvidenceTypeOK
  BY EvidenceAssumption DEF EvidenceInit, EvidenceTypeOK
<1>2. Held = <<>>
  BY DEF EvidenceInit, Held
<1>3. QED
  BY <1>1, <1>2, EvidenceAssumption
  DEF EvidenceInit, EvidenceInv, AnsweredInv, HeldInv, SendingInv, SeqInv

\* Steps of the store: nothing that is whole becomes less.
LEMMA StoreKeeps ==
  ASSUME EvidenceInv, NEW id \in 1..MaxAppends,
         ReceiveEvent(id) \/ WriteEvent(id) \/ PutObject(id)
  PROVE  EvidenceInv'
<1> USE EvidenceAssumption
<1>1. UNCHANGED <<sinkConfig, sentEvents, sending, kept, fresh, stops>>
  BY DEF ReceiveEvent, WriteEvent, PutObject
<1>2. EvidenceTypeOK' /\ AnsweredInv' /\ \A j \in 1..MaxAppends : stored[j] = "whole" => stored'[j] = "whole"
  <2>1. CASE ReceiveEvent(id)
    BY <2>1 DEF ReceiveEvent, EvidenceInv, EvidenceTypeOK, AnsweredInv
  <2>2. CASE WriteEvent(id)
    BY <2>2 DEF WriteEvent, EvidenceInv, EvidenceTypeOK, AnsweredInv
  <2>3. CASE PutObject(id)
    BY <2>3 DEF PutObject, EvidenceInv, EvidenceTypeOK, AnsweredInv
  <2>4. QED
    BY <2>1, <2>2, <2>3
<1>3. Held' = Held /\ LatestReceipt' = LatestReceipt
  BY <1>1 DEF Held, LatestReceipt
<1>4. HeldInv'
  <2>1. \A i \in 1..Len(Held) : Held[i] \in 1..MaxAppends
    BY HeldType DEF EvidenceInv
  <2>2. QED
    BY <1>1, <1>2, <1>3, <2>1 DEF EvidenceInv, HeldInv
<1>5. QED
  BY <1>1, <1>2, <1>3, <1>4 DEF EvidenceInv, SendingInv, SeqInv

LEMMA StopKeeps == ASSUME EvidenceInv, StoreStops PROVE EvidenceInv'
<1> USE EvidenceAssumption
<1>1. UNCHANGED <<sinkConfig, sentEvents, stored, sending, kept, fresh>>
  BY DEF StoreStops
<1>2. EvidenceTypeOK' /\ AnsweredInv'
  BY DEF StoreStops, EvidenceInv, EvidenceTypeOK, AnsweredInv
<1>3. Held' = Held /\ LatestReceipt' = LatestReceipt
  BY <1>1 DEF Held, LatestReceipt
<1>4. QED
  BY <1>1, <1>2, <1>3 DEF EvidenceInv, HeldInv, SendingInv, SeqInv

LEMMA AppendKeeps == ASSUME EvidenceInv, AppendEvent PROVE EvidenceInv'
<1> USE EvidenceAssumption
<1> DEFINE n == Len(sentEvents) + 1
<1>1. /\ sending = 0 /\ n \in 1..MaxAppends /\ sentEvents' = Append(sentEvents, NextEvent) /\ sending' = n
      /\ post' = [post EXCEPT ![n] = "coming"] /\ UNCHANGED <<sinkConfig, stored, kept, fresh, stops>>
  BY DEF AppendEvent, EvidenceInv, EvidenceTypeOK
<1>2. LatestReceipt \in 0..Len(sentEvents)
  <2>1. Len(Held) \in Nat
    BY HeldType DEF EvidenceInv
  <2>2. Len(Held) # 0 => Held[Len(Held)] \in 1..Len(sentEvents)
    BY <2>1 DEF EvidenceInv, HeldInv
  <2>3. LatestReceipt = IF Len(Held) = 0 THEN 0 ELSE Held[Len(Held)]
    BY LatestIsLast DEF EvidenceInv
  <2>4. Len(sentEvents) \in Nat
    BY DEF EvidenceInv, EvidenceTypeOK
  <2>5. QED
    BY <2>1, <2>2, <2>3, <2>4
<1>3. sentEvents \in Seq(Events)
  BY DEF EvidenceInv, EvidenceTypeOK, Events
<1>4. NextEvent \in Events /\ NextEvent.prev = LatestReceipt /\ NextEvent.seq <= n
  <2>1. CASE LatestReceipt = 0
    BY <1>1, <1>3, <2>1 DEF NextEvent, Events
  <2>2. CASE LatestReceipt # 0
    <3>1. LatestReceipt \in 1..Len(sentEvents)
      BY <1>2, <1>3, <2>2
    <3>2. sentEvents[LatestReceipt].seq \in 1..Len(sentEvents)
      <4>1. sentEvents[LatestReceipt] \in Events
        BY <1>3, <3>1
      <4>2. sentEvents[LatestReceipt].seq \in 1..MaxAppends
        BY <4>1 DEF Events
      <4>3. sentEvents[LatestReceipt].seq <= LatestReceipt
        BY <3>1 DEF EvidenceInv, SeqInv
      <4>4. QED
        BY <1>3, <3>1, <4>2, <4>3
    <3>3. QED
      <4> DEFINE s == sentEvents[LatestReceipt].seq + 1
      <4>1. NextEvent = [seq |-> s, prev |-> LatestReceipt]
        BY <2>2 DEF NextEvent
      <4>2. s \in 1..MaxAppends /\ s <= n /\ LatestReceipt \in 0..MaxAppends
        BY <1>1, <1>3, <3>1, <3>2
      <4> HIDE DEF s
      <4>3. QED
        BY <4>1, <4>2 DEF Events
  <2>3. QED
    BY <2>1, <2>2
<1>5. /\ sentEvents' \in Seq(Events) /\ Len(sentEvents') = n /\ sentEvents'[n] = NextEvent
      /\ \A id \in 1..Len(sentEvents) : sentEvents'[id] = sentEvents[id]
  BY <1>1, <1>3, <1>4
<1>6. EvidenceTypeOK'
  BY <1>1, <1>3, <1>5 DEF EvidenceInv, EvidenceTypeOK, Events
<1>7. Held' = Held /\ LatestReceipt' = LatestReceipt
  BY <1>1 DEF Held, LatestReceipt
<1>8. AnsweredInv'
  BY <1>1 DEF EvidenceInv, EvidenceTypeOK, AnsweredInv
<1>9. HeldInv'
  BY <1>1, <1>3, <1>5, <1>7 DEF EvidenceInv, HeldInv
<1>10. SendingInv' /\ SeqInv' /\ Len(sentEvents') <= MaxAppends
  BY <1>1, <1>3, <1>4, <1>5, <1>7 DEF EvidenceInv, SendingInv, SeqInv
<1>11. QED
  BY <1>6, <1>8, <1>9, <1>10 DEF EvidenceInv

LEMMA ReceiptKeeps == ASSUME EvidenceInv, ReceiveReceipt PROVE EvidenceInv'
<1> USE EvidenceAssumption
<1>1. /\ sending # 0 /\ post[sending] = "answered" /\ fresh' = Append(fresh, sending) /\ sending' = 0
      /\ UNCHANGED <<sinkConfig, sentEvents, stored, post, kept, stops>>
  BY DEF ReceiveReceipt, Taken
<1>2. sending \in 1..Len(sentEvents) /\ sending \in 1..MaxAppends
  BY <1>1 DEF EvidenceInv, EvidenceTypeOK
<1>3. EvidenceTypeOK'
  BY <1>1, <1>2 DEF EvidenceInv, EvidenceTypeOK
<1>4. Held \in Seq(1..MaxAppends) /\ Held' = Append(Held, sending)
  <2>1. kept \in Seq(1..MaxAppends) /\ fresh \in Seq(1..MaxAppends)
    BY DEF EvidenceInv, EvidenceTypeOK
  <2>2. kept \o Append(fresh, sending) = Append(kept \o fresh, sending)
    <3> DEFINE x == kept \o Append(fresh, sending)
               y == Append(kept \o fresh, sending)
    <3>1. x \in Seq(1..MaxAppends) /\ y \in Seq(1..MaxAppends) /\ Len(x) = Len(y)
      BY <1>2, <2>1
    <3>2. \A i \in 1..Len(x) : x[i] = y[i]
      BY <1>2, <2>1
    <3> HIDE DEF x, y
    <3>3. x = y
      BY <3>1, <3>2, SeqEqual
    <3>4. QED
      BY <3>3 DEF x, y
  <2>3. QED
    BY <1>1, <2>1, <2>2 DEF Held
<1>5. HeldInv'
  <2>1. stored[sending] = "whole"
    BY <1>1, <1>2 DEF EvidenceInv, AnsweredInv
  <2>2. sentEvents[sending].prev = IF Len(Held) = 0 THEN 0 ELSE Held[Len(Held)]
    BY <1>1, LatestIsLast DEF EvidenceInv, SendingInv
  <2>3. SUFFICES ASSUME NEW i \in 1..Len(Held')
                 PROVE  /\ Held'[i] \in 1..Len(sentEvents) /\ stored[Held'[i]] = "whole"
                        /\ sentEvents[Held'[i]].prev = IF i = 1 THEN 0 ELSE Held'[i - 1]
    BY <1>1 DEF HeldInv
  <2>4. CASE i = Len(Held) + 1
    BY <1>2, <1>4, <2>1, <2>2, <2>4
  <2>5. CASE i \in 1..Len(Held)
    BY <1>4, <2>5 DEF EvidenceInv, HeldInv
  <2>6. QED
    BY <1>4, <2>3, <2>4, <2>5
<1>6. QED
  BY <1>1, <1>3, <1>5 DEF EvidenceInv, AnsweredInv, SendingInv, SeqInv

LEMMA FailKeeps == ASSUME EvidenceInv, AppendFails PROVE EvidenceInv'
<1> USE EvidenceAssumption
<1>1. /\ sending' = 0 /\ fresh' \in {fresh, <<>>}
      /\ UNCHANGED <<sinkConfig, sentEvents, stored, post, kept, stops>>
  BY DEF AppendFails
<1>2. EvidenceTypeOK'
  <2>a. <<>> \in Seq(1..MaxAppends)
    OBVIOUS
  <2>b. fresh \in Seq(1..MaxAppends) /\ Len(sentEvents) \in Nat
    BY DEF EvidenceInv, EvidenceTypeOK
  <2>1. fresh' \in Seq(1..MaxAppends) /\ Len(sentEvents) \in Nat
    BY <1>1, <2>a, <2>b
  <2>2. QED
    BY <1>1, <2>1 DEF EvidenceInv, EvidenceTypeOK
<1>3. Len(Held') <= Len(Held) /\ \A i \in 1..Len(Held') : Held'[i] = Held[i]
  <2>1. CASE fresh' = fresh
    BY <1>1, <2>1, HeldType DEF EvidenceInv, Held
  <2>2. CASE fresh' = <<>>
    <3>1. Held' = kept
      BY <1>1, <2>2 DEF EvidenceInv, EvidenceTypeOK, Held
    <3>2. QED
      BY <3>1, HeldGrows DEF EvidenceInv
  <2>3. QED
    BY <1>1, <2>1, <2>2
<1>4. HeldInv'
  <2>1. Len(Held) \in Nat /\ Len(Held') \in Nat
    <3>1. Held' \in Seq(1..MaxAppends)
      BY <1>2 DEF EvidenceTypeOK, Held
    <3>2. QED
      BY <3>1, HeldType DEF EvidenceInv
  <2>2. SUFFICES ASSUME NEW i \in 1..Len(Held')
                 PROVE  /\ Held'[i] \in 1..Len(sentEvents) /\ stored[Held'[i]] = "whole"
                        /\ sentEvents[Held'[i]].prev = IF i = 1 THEN 0 ELSE Held'[i - 1]
    BY <1>1 DEF HeldInv
  <2>3. i \in 1..Len(Held) /\ (i # 1 => i - 1 \in 1..Len(Held'))
    BY <1>3, <2>1
  <2>4. Held'[i] = Held[i] /\ (i # 1 => Held'[i - 1] = Held[i - 1])
    BY <1>3, <2>3
  <2>5. QED
    BY <2>3, <2>4 DEF EvidenceInv, HeldInv
<1>5. QED
  BY <1>1, <1>2, <1>4 DEF EvidenceInv, AnsweredInv, SendingInv, SeqInv

LEMMA CommitKeeps == ASSUME EvidenceInv, CommitReceipts PROVE EvidenceInv'
<1> USE EvidenceAssumption
<1>1. /\ kept' = kept \o fresh /\ fresh' = <<>> /\ sending = 0
      /\ UNCHANGED <<sinkConfig, sentEvents, stored, post, sending, stops>>
  BY DEF CommitReceipts
<1>2. EvidenceTypeOK'
  BY <1>1 DEF EvidenceInv, EvidenceTypeOK
<1>3. Held' = Held
  BY <1>1 DEF EvidenceInv, EvidenceTypeOK, Held
<1>4. QED
  BY <1>1, <1>2, <1>3 DEF EvidenceInv, AnsweredInv, HeldInv, SendingInv, SeqInv

LEMMA EvidenceKeeps == EvidenceInv /\ [EvidenceNext]_evidenceVars => EvidenceInv'
<1> SUFFICES ASSUME EvidenceInv, [EvidenceNext]_evidenceVars PROVE EvidenceInv'
  OBVIOUS
<1>1. CASE UNCHANGED evidenceVars
  BY <1>1 DEF evidenceVars, EvidenceInv, EvidenceTypeOK, AnsweredInv, HeldInv, SendingInv, SeqInv, Held, LatestReceipt
<1>2. QED
  BY <1>1, AppendKeeps, StopKeeps, ReceiptKeeps, FailKeeps, CommitKeeps, StoreKeeps DEF EvidenceNext

\* Every receipt HITLy holds, committed or not yet, is for an event the store
\* holds whole (HttpEvidenceSink.append, S3EvidenceSink.append, POST /events).
THEOREM ReceiptTheorem == EvidenceSpec => []ReceiptMeansStored
<1>1. EvidenceInv => ReceiptMeansStored
  BY DEF EvidenceInv, HeldInv, Held, ReceiptMeansStored
<1>2. QED
  BY <1>1, EvidenceInitially, EvidenceKeeps, PTL DEF EvidenceSpec

\* The committed receipts of an approval are one chain from its first event
\* (loadLatestReceipt, appendEvidence).
THEOREM ReceiptChainTheorem == EvidenceSpec => []ReceiptsAreOneChain
<1>1. ASSUME EvidenceInv PROVE ReceiptsAreOneChain
  <2>1. Len(kept) \in Nat /\ Len(kept) <= Len(Held) /\ \A i \in 1..Len(kept) : Held[i] = kept[i]
    BY <1>1, HeldGrows DEF EvidenceInv
  <2>2. Len(Held) \in Nat
    BY <1>1, HeldType DEF EvidenceInv
  <2>3. ASSUME NEW i \in 1..Len(kept)
        PROVE  sentEvents[kept[i]].prev = IF i = 1 THEN 0 ELSE kept[i - 1]
    <3>1. i \in 1..Len(Held) /\ Held[i] = kept[i]
      BY <2>1, <2>2
    <3>2. i # 1 => Held[i - 1] = kept[i - 1]
      BY <2>1
    <3>3. sentEvents[Held[i]].prev = IF i = 1 THEN 0 ELSE Held[i - 1]
      BY <1>1, <3>1 DEF EvidenceInv, HeldInv
    <3>4. QED
      BY <3>1, <3>2, <3>3
  <2>4. QED
    BY <2>3 DEF ReceiptsAreOneChain
<1>2. QED
  BY <1>1, EvidenceInitially, EvidenceKeeps, PTL DEF EvidenceSpec

-----------------------------------------------------------------------------
(* The refinement of EvidenceContract. An event is built when it is sent, naming *)
(* the last receipt; a file that becomes whole is a Keep, an answer HITLy hears  *)
(* a Receive, and what fails is a stutter or a RollBack. What is needed beside   *)
(* EvidenceInv: only events that were built have a request.                     *)
Built == {[id |-> id, prev |-> sentEvents[id].prev] : id \in 1..Len(sentEvents)}
PostedInv == \A id \in 1..MaxAppends : post[id] # "unsent" => id \in 1..Len(sentEvents)
PromiseInv == EvidenceInv /\ PostedInv

LEMMA PromiseInitially == EvidenceInit => PromiseInv /\ Promise!PromiseInit
<1> SUFFICES ASSUME EvidenceInit PROVE PromiseInv /\ Promise!PromiseInit
  OBVIOUS
<1>1. EvidenceInv
  BY EvidenceInitially
<1>2. PostedInv
  BY DEF EvidenceInit, PostedInv
<1>3. Built = {} /\ WholeEvents = {}
  BY DEF EvidenceInit, Built, WholeEvents
<1>4. Promise!PromiseInit
  BY <1>3 DEF Promise!PromiseInit, Built, EvidenceInit
<1>5. QED
  BY <1>1, <1>2, <1>4 DEF PromiseInv

\* A request is made with its event, and the others only go on with one.
LEMMA PostedKeeps == ASSUME PromiseInv, [EvidenceNext]_evidenceVars PROVE PostedInv'
<1> USE EvidenceAssumption
<1>1. CASE AppendEvent
  <2>1. /\ sending' = Len(sentEvents) + 1 /\ post' = [post EXCEPT ![sending'] = "coming"]
        /\ sentEvents' = Append(sentEvents, NextEvent)
    BY <1>1 DEF AppendEvent
  <2>2. Len(sentEvents) \in Nat /\ Len(sentEvents') = Len(sentEvents) + 1
    BY <2>1 DEF PromiseInv, EvidenceInv, EvidenceTypeOK
  <2>3. QED
    BY <2>1, <2>2 DEF PromiseInv, PostedInv, EvidenceInv, EvidenceTypeOK
<1>2. ASSUME NEW id \in 1..MaxAppends, ReceiveEvent(id) \/ WriteEvent(id) \/ PutObject(id)
      PROVE  PostedInv'
  <2>1. post[id] # "unsent" /\ sentEvents' = sentEvents
        /\ \A other \in 1..MaxAppends \ {id} : post'[other] = post[other]
    BY <1>2 DEF ReceiveEvent, WriteEvent, PutObject, PromiseInv, EvidenceInv, EvidenceTypeOK
  <2>2. QED
    BY <2>1 DEF PromiseInv, PostedInv
<1>3. CASE StoreStops
  BY <1>3 DEF StoreStops, PromiseInv, PostedInv
<1>4. CASE ReceiveReceipt \/ AppendFails \/ CommitReceipts \/ UNCHANGED evidenceVars
  BY <1>4 DEF ReceiveReceipt, AppendFails, CommitReceipts, evidenceVars, PromiseInv, PostedInv
<1>5. QED
  BY <1>1, <1>2, <1>3, <1>4 DEF EvidenceNext

\* An event that is sent names the last receipt: a Build.
LEMMA AppendMaps ==
  ASSUME PromiseInv, AppendEvent
  PROVE  \E e \in 1..MaxAppends : Promise!Build(e)
<1> USE EvidenceAssumption
<1>1. /\ Len(sentEvents) < MaxAppends /\ sentEvents' = Append(sentEvents, NextEvent)
      /\ UNCHANGED <<stored, kept, fresh>>
  BY DEF AppendEvent
<1>2. /\ Len(sentEvents) \in Nat /\ Len(sentEvents') = Len(sentEvents) + 1
      /\ \A id \in 1..Len(sentEvents) : sentEvents'[id] = sentEvents[id]
      /\ sentEvents'[Len(sentEvents) + 1] = NextEvent
  BY <1>1 DEF PromiseInv, EvidenceInv, EvidenceTypeOK
<1>3. PICK next \in 1..MaxAppends : next = Len(sentEvents) + 1
  BY <1>1, <1>2
<1>4. NextEvent.prev = LatestReceipt
  BY DEF NextEvent
<1>5. Built' = Built \cup {[id |-> next, prev |-> LatestReceipt]}
  <2>1. 1..Len(sentEvents') = (1..Len(sentEvents)) \cup {next}
    BY <1>2, <1>3
  <2>2. QED
    BY <1>2, <1>3, <1>4, <2>1 DEF Built
<1>6. \A b \in Built : b.id # next
  BY <1>2, <1>3 DEF Built
<1>7. UNCHANGED <<WholeEvents, kept, fresh>>
  BY <1>1 DEF WholeEvents
<1>8. Promise!Build(next)
  BY <1>5, <1>6, <1>7 DEF Promise!Build, Promise!LastReceipt, LatestReceipt, Built
<1>9. QED
  BY <1>8

\* A file that becomes whole is a Keep; anything else the store does is not seen.
LEMMA StoreMaps ==
  ASSUME PromiseInv, NEW id \in 1..MaxAppends,
         ReceiveEvent(id) \/ WriteEvent(id) \/ PutObject(id)
  PROVE  Promise!Keep(id) \/ UNCHANGED Promise!promise
<1>1. post[id] # "unsent" /\ UNCHANGED <<sentEvents, kept, fresh>>
  BY DEF ReceiveEvent, WriteEvent, PutObject
<1>2. Built' = Built
  BY <1>1 DEF Built
<1>3. \E b \in Built : b.id = id
  <2>1. [id |-> id, prev |-> sentEvents[id].prev] \in Built
    BY <1>1 DEF PromiseInv, PostedInv, Built
  <2>2. QED
    BY <2>1
<1>4. WholeEvents' = WholeEvents \/ WholeEvents' = WholeEvents \cup {id}
  <2>1. stored \in [1..MaxAppends -> {"absent", "partial", "whole"}]
    BY DEF PromiseInv, EvidenceInv, EvidenceTypeOK
  <2>2. /\ \A other \in 1..MaxAppends \ {id} : stored'[other] = stored[other]
        /\ stored[id] = "whole" => stored'[id] = "whole"
    BY <2>1 DEF ReceiveEvent, WriteEvent, PutObject
  <2>3. CASE stored'[id] = "whole"
    BY <2>2, <2>3 DEF WholeEvents
  <2>4. CASE stored'[id] # "whole"
    BY <2>2, <2>4 DEF WholeEvents
  <2>5. QED
    BY <2>3, <2>4
<1>5. CASE WholeEvents' = WholeEvents
  BY <1>1, <1>2, <1>5 DEF Promise!promise, Built
<1>6. CASE WholeEvents' = WholeEvents \cup {id}
  BY <1>1, <1>2, <1>3, <1>6 DEF Promise!Keep, Built
<1>7. QED
  BY <1>4, <1>5, <1>6

\* An answer HITLy hears is a Receive.
LEMMA ReceiptMaps ==
  ASSUME PromiseInv, ReceiveReceipt
  PROVE  \E e \in 1..MaxAppends : Promise!Receive(e)
<1>1. /\ sending # 0 /\ post[sending] = "answered" /\ fresh' = Append(fresh, sending)
      /\ UNCHANGED <<sentEvents, stored, kept>>
  BY DEF ReceiveReceipt, Taken
<1>2. sending \in 1..Len(sentEvents) /\ sending \in 1..MaxAppends
  BY <1>1, EvidenceAssumption DEF PromiseInv, EvidenceInv, EvidenceTypeOK
<1>3. sending \in WholeEvents
  BY <1>1, <1>2 DEF PromiseInv, EvidenceInv, AnsweredInv, WholeEvents
<1>4. [id |-> sending, prev |-> LatestReceipt] \in Built
  BY <1>1, <1>2 DEF PromiseInv, EvidenceInv, SendingInv, Built
<1>5. UNCHANGED <<Built, WholeEvents, kept>>
  BY <1>1 DEF Built, WholeEvents
<1>6. Promise!Receive(sending)
  BY <1>1, <1>3, <1>4, <1>5 DEF Promise!Receive, Promise!LastReceipt, LatestReceipt, Built
<1>7. QED
  BY <1>2, <1>6

LEMMA PromiseSteps ==
  ASSUME PromiseInv, [EvidenceNext]_evidenceVars
  PROVE  [Promise!PromiseNext]_(Promise!promise)
<1>1. CASE AppendEvent
  BY <1>1, AppendMaps DEF Promise!PromiseNext
<1>2. ASSUME NEW id \in 1..MaxAppends, ReceiveEvent(id) \/ WriteEvent(id) \/ PutObject(id)
      PROVE  [Promise!PromiseNext]_(Promise!promise)
  BY <1>2, StoreMaps DEF Promise!PromiseNext
<1>3. CASE StoreStops \/ UNCHANGED evidenceVars
  <2>1. UNCHANGED <<sentEvents, stored, kept, fresh>>
    BY <1>3 DEF StoreStops, evidenceVars
  <2>2. UNCHANGED <<Built, WholeEvents>>
    BY <2>1 DEF Built, WholeEvents
  <2>3. QED
    BY <2>1, <2>2 DEF Promise!promise, Built
<1>4. CASE ReceiveReceipt
  BY <1>4, ReceiptMaps DEF Promise!PromiseNext
<1>5. CASE AppendFails
  <2>1. UNCHANGED <<sentEvents, stored, kept>> /\ (fresh' = fresh \/ fresh' = <<>>)
    BY <1>5 DEF AppendFails
  <2>2. UNCHANGED <<Built, WholeEvents>>
    BY <2>1 DEF Built, WholeEvents
  <2>3. CASE fresh' = fresh
    BY <2>1, <2>2, <2>3 DEF Promise!promise, Built
  <2>4. CASE fresh' = <<>>
    <3>1. Promise!RollBack
      BY <2>1, <2>2, <2>4 DEF Promise!RollBack, Built
    <3>2. QED
      BY <3>1 DEF Promise!PromiseNext
  <2>5. QED
    BY <2>1, <2>3, <2>4
<1>6. CASE CommitReceipts
  <2>1. kept' = kept \o fresh /\ fresh' = <<>> /\ UNCHANGED <<sentEvents, stored>>
    BY <1>6 DEF CommitReceipts
  <2>2. UNCHANGED <<Built, WholeEvents>>
    BY <2>1 DEF Built, WholeEvents
  <2>3. Promise!Commit
    BY <2>1, <2>2 DEF Promise!Commit, Built
  <2>4. QED
    BY <2>3 DEF Promise!PromiseNext
<1>7. QED
  BY <1>1, <1>2, <1>3, <1>4, <1>5, <1>6 DEF EvidenceNext

\* Requests, half-written files, late answers, stops of the store and rollbacks
\* together keep the promise of a chain of receipts (appendEvidence, the sinks'
\* append, the store's POST handler).
THEOREM PromiseTheorem == EvidenceSpec => KeepsPromise
<1>1. PromiseInv /\ [EvidenceNext]_evidenceVars => PromiseInv'
  BY EvidenceKeeps, PostedKeeps DEF PromiseInv
<1>2. PromiseInv /\ [EvidenceNext]_evidenceVars => [Promise!PromiseNext]_(Promise!promise)
  BY PromiseSteps
<1>3. QED
  BY <1>1, <1>2, PromiseInitially, PTL DEF EvidenceSpec, KeepsPromise, Promise!PromiseSpec

-----------------------------------------------------------------------------
(* The interceptor of a gateway. What it let through stays answered for,        *)
(* because records are only added; and as long as no resume has failed, every   *)
(* approval it can read is open and without a decision.                         *)

\* Somebody has answered so that the command may be done.
Fits(m) == IF m = "approve" THEN {"accept"} ELSE {"reject", "cancel"}
AnsweredFor(m) == \E a \in Asks : asked[a].answers \cap Fits(m) # {}
LetIsAnswered ==
  mode = "closed" =>
    /\ \A c \in toGateway : c.at = "let" => AnsweredFor(c.command)
    /\ \A m \in Commands : chunk = Outcome(m) => AnsweredFor(m)
\* Before the first resume fails.
NoneFailed == \A a \in Asks : ~asked[a].failed
NoneDone(a) == asked[a].status \notin {"decided", "failed_resume"} /\ deciding[a].reply # "ok"
NothingBefore ==
  mode = "closed" /\ NoneFailed =>
    (\A a \in Asks : NoneDone(a)) /\ \A c \in toGateway : c.at = "sent"
\* A transaction that is open has an answer.
HasAnswer == \A a \in Asks : ~Unlocked(a) => deciding[a].answer \in OpenshellAnswers
GatewayInv == GatewayTypeOK /\ HasAnswer /\ LetIsAnswered /\ NothingBefore

LEMMA GatewayInitially == GatewayInit => GatewayInv
<1> SUFFICES ASSUME GatewayInit PROVE GatewayInv
  OBVIOUS
<1>1. GatewayTypeOK
  <2>1. [status |-> "none", answers |-> {}, failed |-> FALSE] \in AskRows
    BY DEF AskRows
  <2>2. NoDecision \in Transactions
    BY GatewayAssumption DEF NoDecision, Transactions
  <2> HIDE DEF NoDecision
  <2>3. asked \in [Asks -> AskRows]
    BY <2>1 DEF GatewayInit
  <2>4. deciding \in [Asks -> Transactions]
    BY <2>2 DEF GatewayInit
  <2>5. /\ mode \in Modes /\ chunk = "pending" /\ polled = FALSE /\ latest = NoApproval
        /\ resumes = 0 /\ toGateway = {}
    BY DEF GatewayInit
  <2>6. resumes \in 0..MaxResumes
    BY <2>5, GatewayAssumption
  <2>7. QED
    BY <2>3, <2>4, <2>5, <2>6, Zenon DEF GatewayTypeOK
<1>2. HasAnswer /\ LetIsAnswered
  BY DEF GatewayInit, HasAnswer, LetIsAnswered, Unlocked, NoDecision, Outcome, Commands
<1>3. ASSUME NEW a \in Asks PROVE NoneDone(a)
  BY DEF GatewayInit, NoneDone, NoDecision
<1>4. QED
  BY <1>1, <1>2, <1>3 DEF GatewayInit, GatewayInv, NothingBefore

\* What the steps make of a row and of the transaction of a decision.
AskStatuses == {"none", "pending", "decided", "failed_resume", "cancelled", "expired"}
AnswerSets == SUBSET OpenshellAnswers
Flags == BOOLEAN
SomeAnswers == OpenshellAnswers \cup {NoAnswer}
Tries == 0..MaxResumes
Replies == {"none", "waiting", "ok", "denied", "failed"}
AskFun == [Asks -> [status : AskStatuses, answers : AnswerSets, failed : Flags]]
DecidingFun == [Asks -> [answer : SomeAnswers, try : Tries, reply : Replies]]
AskIs(a, status, answers, failed) ==
  /\ asked' \in AskFun /\ \A b \in Asks \ {a} : asked'[b] = asked[b]
  /\ asked'[a].status = status /\ asked'[a].answers = answers /\ asked'[a].failed = failed
DecidingIs(a, given, try, reply) ==
  /\ deciding' \in DecidingFun /\ \A b \in Asks \ {a} : deciding'[b] = deciding[b]
  /\ deciding'[a].answer = given /\ deciding'[a].try = try /\ deciding'[a].reply = reply

GatewayShape ==
  /\ mode \in Modes /\ chunk \in {"pending", "approved", "rejected"} /\ polled \in BOOLEAN
  /\ asked \in AskFun /\ latest \in Asks \cup {NoApproval} /\ deciding \in DecidingFun
  /\ resumes \in 0..MaxResumes /\ toGateway \subseteq GatewayCalls
LEMMA AskType == (GatewayTypeOK <=> GatewayShape) /\ (GatewayTypeOK' <=> GatewayShape')
  BY DEF GatewayTypeOK, GatewayShape, AskFun, DecidingFun, AskRows, Transactions, AskStatuses,
     AnswerSets, Flags, SomeAnswers, Tries, Replies
LEMMA SetAskStatus ==
  ASSUME asked \in AskFun, NEW a \in Asks, NEW v \in AskStatuses, asked' = [asked EXCEPT ![a].status = v]
  PROVE  AskIs(a, v, asked[a].answers, asked[a].failed)
  BY DEF AskFun, AskIs
LEMMA SetAskCancelled ==
  ASSUME asked \in AskFun, NEW a \in Asks, NEW v \in AskStatuses, NEW w \in AnswerSets,
         asked' = [asked EXCEPT ![a].status = v, ![a].answers = w]
  PROVE  AskIs(a, v, w, asked[a].failed)
  BY DEF AskFun, AskIs
LEMMA SetAskCommitted ==
  ASSUME asked \in AskFun, NEW a \in Asks, NEW v \in AskStatuses, NEW w \in AnswerSets, NEW f \in Flags,
         asked' = [asked EXCEPT ![a].status = v, ![a].answers = w, ![a].failed = f]
  PROVE  AskIs(a, v, w, f)
  BY DEF AskFun, AskIs
LEMMA SetReply ==
  ASSUME deciding \in DecidingFun, NEW a \in Asks, NEW v \in Replies,
         deciding' = [deciding EXCEPT ![a].reply = v]
  PROVE  DecidingIs(a, deciding[a].answer, deciding[a].try, v)
  BY DEF DecidingFun, DecidingIs
LEMMA SetDeciding ==
  ASSUME deciding \in DecidingFun, NEW a \in Asks, NEW d \in SomeAnswers, NEW n \in Tries, NEW v \in Replies,
         deciding' = [deciding EXCEPT ![a] = [answer |-> d, try |-> n, reply |-> v]]
  PROVE  DecidingIs(a, d, n, v)
  BY DEF DecidingFun, DecidingIs

\* Each step of an approval, by what it does to its row and its transaction.
LEMMA AskSteps ==
  ASSUME GatewayTypeOK, HasAnswer, NEW a \in Asks
  PROVE  /\ CommitAnswer(a) =>
              /\ AskIs(a, IF deciding[a].reply = "ok" THEN "decided" ELSE "failed_resume",
                       asked[a].answers \cup {deciding[a].answer}, asked[a].failed \/ deciding[a].reply # "ok")
              /\ DecidingIs(a, NoAnswer, 0, "none")
         /\ RollBackAnswer(a) => DecidingIs(a, NoAnswer, 0, "none")
         /\ CallBreaks(a) => DecidingIs(a, deciding[a].answer, deciding[a].try, "failed")
         /\ CancelAsk(a) => AskIs(a, "cancelled", asked[a].answers \cup {"cancel"}, asked[a].failed)
         /\ ExpireAsk(a) => AskIs(a, "expired", asked[a].answers, asked[a].failed)
         /\ \A d \in OpenshellAnswers : AnswerAsk(a, d) =>
              DecidingIs(a, d, resumes + 1, IF d = "respond" THEN "failed" ELSE "waiting")
<1>1. /\ asked \in AskFun /\ deciding \in DecidingFun
      /\ {"decided", "failed_resume", "cancelled", "expired"} \subseteq AskStatuses
      /\ {"none", "waiting", "failed"} \subseteq Replies /\ 0 \in Tries /\ NoAnswer \in SomeAnswers
  BY AskType, GatewayAssumption DEF GatewayShape, AskStatuses, Replies, Tries, SomeAnswers
<1>2. /\ asked[a].answers \in AnswerSets /\ asked[a].answers \cup {"cancel"} \in AnswerSets
      /\ asked[a].failed \in Flags /\ deciding[a].answer \in SomeAnswers
  BY <1>1 DEF AskFun, DecidingFun, AnswerSets, OpenshellAnswers
<1>3. ASSUME CommitAnswer(a)
      PROVE  /\ AskIs(a, IF deciding[a].reply = "ok" THEN "decided" ELSE "failed_resume",
                      asked[a].answers \cup {deciding[a].answer}, asked[a].failed \/ deciding[a].reply # "ok")
             /\ DecidingIs(a, NoAnswer, 0, "none")
  <2> DEFINE st == IF deciding[a].reply = "ok" THEN "decided" ELSE "failed_resume"
             an == asked[a].answers \cup {deciding[a].answer}
             fl == asked[a].failed \/ deciding[a].reply # "ok"
  <2>1. st \in AskStatuses /\ an \in AnswerSets /\ fl \in Flags
    BY <1>2, <1>3 DEF CommitAnswer, HasAnswer, Unlocked, AskStatuses, AnswerSets, Flags
  <2>2. /\ asked' = [asked EXCEPT ![a].status = st, ![a].answers = an, ![a].failed = fl]
        /\ deciding' = [deciding EXCEPT ![a] = NoDecision]
    BY <1>3, Zenon DEF CommitAnswer
  <2> HIDE DEF st, an, fl
  <2>3. AskIs(a, st, an, fl)
    BY <1>1, <2>1, <2>2, SetAskCommitted
  <2>4. DecidingIs(a, NoAnswer, 0, "none")
    BY <1>1, <2>2, SetDeciding DEF NoDecision
  <2>5. QED
    BY <2>3, <2>4 DEF st, an, fl
<1>4. RollBackAnswer(a) => DecidingIs(a, NoAnswer, 0, "none")
  BY <1>1, SetDeciding DEF RollBackAnswer, NoDecision
<1>5. CallBreaks(a) => DecidingIs(a, deciding[a].answer, deciding[a].try, "failed")
  BY <1>1, SetReply DEF CallBreaks
<1>6. CancelAsk(a) => AskIs(a, "cancelled", asked[a].answers \cup {"cancel"}, asked[a].failed)
  BY <1>1, <1>2, SetAskCancelled DEF CancelAsk
<1>7. ExpireAsk(a) => AskIs(a, "expired", asked[a].answers, asked[a].failed)
  BY <1>1, SetAskStatus DEF ExpireAsk
<1>8. ASSUME NEW d \in OpenshellAnswers, AnswerAsk(a, d)
      PROVE  DecidingIs(a, d, resumes + 1, IF d = "respond" THEN "failed" ELSE "waiting")
  <2>1. d \in SomeAnswers /\ resumes + 1 \in Tries
    BY <1>8, AskType, GatewayAssumption DEF GatewayShape, SomeAnswers, AnswerAsk, Tries
  <2>2. QED
    BY <1>1, <1>8, <2>1, SetDeciding DEF AnswerAsk
<1>9. QED
  BY <1>3, <1>4, <1>5, <1>6, <1>7, <1>8

\* What the gateway does with a call.
LEMMA CallSteps ==
  ASSUME GatewayTypeOK, NEW c \in toGateway
  PROVE  /\ Intercept(c) =>
              \/ /\ toGateway' = (toGateway \ {c}) \cup {[c EXCEPT !.at = "let"]} /\ UNCHANGED deciding
                 /\ mode # "closed" \/ (latest \in Asks /\ \E d \in Reported(latest) : Lets(c, d))
              \/ Deny(c)
         /\ \A v \in {"ok", "denied", "failed"} : Answered(c, v) =>
              \/ UNCHANGED deciding
              \/ /\ Awaited(c) /\ c.by \in Asks
                 /\ DecidingIs(c.by, deciding[c.by].answer, deciding[c.by].try, v)
<1>1. ASSUME Intercept(c), ~Deny(c)
      PROVE  /\ toGateway' = (toGateway \ {c}) \cup {[c EXCEPT !.at = "let"]} /\ UNCHANGED deciding
             /\ mode # "closed" \/ (latest \in Asks /\ \E d \in Reported(latest) : Lets(c, d))
  BY <1>1 DEF Intercept, LetThrough, GatewayTypeOK
<1>2. ASSUME NEW v \in {"ok", "denied", "failed"}, Answered(c, v), ~UNCHANGED deciding
      PROVE  /\ Awaited(c) /\ c.by \in Asks
             /\ DecidingIs(c.by, deciding[c.by].answer, deciding[c.by].try, v)
  <2>1. Awaited(c) /\ deciding' = [deciding EXCEPT ![c.by].reply = v]
    BY <1>2 DEF Answered
  <2>2. c.by \in Asks /\ deciding \in DecidingFun /\ v \in Replies
    BY <1>2, <2>1, AskType DEF GatewayShape, Awaited, GatewayCalls, Replies
  <2>3. QED
    BY <2>1, <2>2, SetReply
<1>3. QED
  BY <1>1, <1>2

\* Who writes the row of an approval.
LEMMA RowWriters ==
  ASSUME GatewayNext
  PROVE  \/ UNCHANGED asked \/ AskHitly
         \/ \E b \in Asks : CommitAnswer(b) \/ CancelAsk(b) \/ ExpireAsk(b)
<1>1. ASSUME NEW b \in Asks, \/ RollBackAnswer(b) \/ CallBreaks(b) \/ Delegate(b)
                           \/ \E d \in OpenshellAnswers : AnswerAsk(b, d)
      PROVE  UNCHANGED asked
  BY <1>1, Zenon DEF RollBackAnswer, CallBreaks, Delegate, AnswerAsk
<1>2. ASSUME NEW c \in toGateway, Intercept(c) \/ Handle(c) \/ LoseCall(c) PROVE UNCHANGED asked
  BY <1>2, Zenon DEF Intercept, Handle, LoseCall
<1>3. PollChunk \/ (\E m \in Commands : OtherCall(m)) => UNCHANGED asked
  BY DEF PollChunk, OtherCall
<1>4. QED
  BY <1>1, <1>2, <1>3, Zenon DEF GatewayNext

LEMMA DecidingWriters ==
  ASSUME GatewayNext
  PROVE  \/ UNCHANGED deciding
         \/ \E b \in Asks : \/ CommitAnswer(b) \/ RollBackAnswer(b) \/ CallBreaks(b)
                            \/ \E d \in OpenshellAnswers : AnswerAsk(b, d)
         \/ \E c \in toGateway : Intercept(c) \/ Handle(c)
<1>1. ASSUME NEW b \in Asks, CancelAsk(b) \/ ExpireAsk(b) \/ Delegate(b) PROVE UNCHANGED deciding
  BY <1>1, Zenon DEF CancelAsk, ExpireAsk, Delegate
<1>2. PollChunk \/ AskHitly \/ (\E m \in Commands : OtherCall(m)) \/ (\E c \in toGateway : LoseCall(c))
      => UNCHANGED deciding
  BY Zenon DEF PollChunk, AskHitly, OtherCall, LoseCall
<1>3. QED
  BY <1>1, <1>2, Zenon DEF GatewayNext

\* Records are never taken away, and that a resume has failed is never forgotten.
LEMMA RecordsStay ==
  ASSUME GatewayTypeOK, HasAnswer, GatewayNext, NEW a \in Asks
  PROVE  asked[a].answers \subseteq asked'[a].answers /\ (asked[a].failed => asked'[a].failed)
<1>1. CASE UNCHANGED asked
  BY <1>1
<1>2. CASE AskHitly /\ ~UNCHANGED asked
  <2>1. PICK b \in Asks : asked' = [asked EXCEPT ![b].status = "pending"]
    BY <1>2, Zenon DEF AskHitly
  <2>2. AskIs(b, "pending", asked[b].answers, asked[b].failed)
    BY <2>1, AskType, SetAskStatus DEF GatewayShape, AskStatuses
  <2>3. QED
    BY <2>2 DEF AskIs
<1>3. ASSUME NEW b \in Asks, CommitAnswer(b) \/ CancelAsk(b) \/ ExpireAsk(b)
      PROVE  asked[a].answers \subseteq asked'[a].answers /\ (asked[a].failed => asked'[a].failed)
  BY <1>3, AskSteps DEF AskIs
<1>4. QED
  BY <1>1, <1>2, <1>3, RowWriters, Zenon
LEMMA AnsweredStays ==
  ASSUME GatewayTypeOK, HasAnswer, GatewayNext
  PROVE  \A m \in Commands : AnsweredFor(m) => AnsweredFor(m)'
  BY RecordsStay DEF AnsweredFor

\* The type invariant, and the answer of an open transaction.
LEMMA GatewayTypeKeeps ==
  ASSUME GatewayTypeOK, HasAnswer, GatewayNext PROVE GatewayTypeOK' /\ HasAnswer'
<1> USE AskType DEF GatewayShape
<1>1. CASE PollChunk
  BY <1>1 DEF PollChunk, HasAnswer, Unlocked
<1>2. CASE AskHitly
  <2>1. asked' \in AskFun
    <3>1. ASSUME NEW a \in Asks, asked' = [asked EXCEPT ![a].status = "pending"] PROVE asked' \in AskFun
      BY <3>1, SetAskStatus DEF AskStatuses, AskIs
    <3>2. QED
      BY <1>2, <3>1, Zenon DEF AskHitly
  <2>2. latest' \in Asks \cup {NoApproval} /\ polled' \in BOOLEAN
    BY <1>2, Zenon DEF AskHitly
  <2>3. QED
    BY <1>2, <2>1, <2>2 DEF AskHitly, HasAnswer, Unlocked
<1>3. ASSUME NEW a \in Asks, CommitAnswer(a) \/ RollBackAnswer(a) \/ CallBreaks(a)
      PROVE  GatewayTypeOK' /\ HasAnswer'
  <2>1. asked' \in AskFun /\ deciding' \in DecidingFun
    BY <1>3, AskSteps DEF AskIs, DecidingIs, RollBackAnswer, CallBreaks
  <2>2. \A b \in Asks : ~Unlocked(b)' => deciding'[b].answer \in OpenshellAnswers
    BY <1>3, AskSteps DEF DecidingIs, HasAnswer, Unlocked, CallBreaks
  <2>3. latest' \in Asks \cup {NoApproval} /\ UNCHANGED <<mode, chunk, polled, resumes, toGateway>>
    BY <1>3 DEF CommitAnswer, RollBackAnswer, CallBreaks
  <2>4. QED
    BY <2>1, <2>2, <2>3 DEF HasAnswer
<1>4. ASSUME NEW a \in Asks, CancelAsk(a) \/ ExpireAsk(a) \/ Delegate(a)
      PROVE  GatewayTypeOK' /\ HasAnswer'
  <2>1. asked' \in AskFun
    BY <1>4, AskSteps DEF AskIs, Delegate
  <2>2. latest' = a /\ UNCHANGED <<mode, chunk, polled, deciding, resumes, toGateway>>
    BY <1>4 DEF CancelAsk, ExpireAsk, Delegate
  <2>3. QED
    BY <2>1, <2>2 DEF HasAnswer, Unlocked
<1>5. ASSUME NEW a \in Asks, NEW d \in OpenshellAnswers, AnswerAsk(a, d)
      PROVE  GatewayTypeOK' /\ HasAnswer'
  <2>1. DecidingIs(a, d, resumes + 1, IF d = "respond" THEN "failed" ELSE "waiting")
    BY <1>5, AskSteps
  <2>2. resumes' \in 0..MaxResumes /\ resumes' = resumes + 1 /\ UNCHANGED <<mode, chunk, polled, asked, latest>>
    BY <1>5, GatewayAssumption DEF AnswerAsk
  <2>3. [by |-> a, try |-> resumes + 1, command |-> CommandOf(d), at |-> "sent"] \in GatewayCalls
    BY <2>2 DEF GatewayCalls, CommandOf, Commands
  <2>4. toGateway' \subseteq GatewayCalls
    BY <1>5, <2>3 DEF AnswerAsk
  <2>5. HasAnswer'
    BY <2>1 DEF DecidingIs, HasAnswer, Unlocked
  <2>6. QED
    BY <2>1, <2>2, <2>4, <2>5 DEF DecidingIs
<1>6. ASSUME NEW m \in Commands, OtherCall(m) PROVE GatewayTypeOK' /\ HasAnswer'
  <2>1. [by |-> NoApproval, try |-> 0, command |-> m, at |-> "sent"] \in GatewayCalls
    BY GatewayAssumption DEF GatewayCalls
  <2>2. QED
    BY <1>6, <2>1 DEF OtherCall, HasAnswer, Unlocked
<1>7. ASSUME NEW c \in toGateway, Intercept(c) \/ Handle(c) \/ LoseCall(c)
      PROVE  GatewayTypeOK' /\ HasAnswer'
  <2>1. [c EXCEPT !.at = "let"] \in GatewayCalls
    BY DEF GatewayCalls
  <2>2. toGateway' \subseteq GatewayCalls
    BY <1>7, <2>1, CallSteps DEF Deny, Handle, LoseCall
  <2>3. UNCHANGED deciding \/ \E v \in {"ok", "denied", "failed"} : Answered(c, v)
    BY <1>7, CallSteps DEF Deny, Handle, LoseCall
  <2>4. deciding' \in DecidingFun /\ HasAnswer'
    BY <2>3, CallSteps DEF DecidingIs, HasAnswer, Unlocked, Awaited
  <2>5. chunk' \in {"pending", "approved", "rejected"} /\ UNCHANGED <<mode, polled, asked, latest, resumes>>
    BY <1>7 DEF Intercept, Handle, LoseCall, Outcome
  <2>6. QED
    BY <2>2, <2>4, <2>5
<1>8. QED
  BY <1>1, <1>2, <1>3, <1>4, <1>5, <1>6, <1>7, Zenon DEF GatewayNext

\* Where a call that is let through, and an outcome, come from.
LEMMA Newcomers ==
  ASSUME GatewayTypeOK, GatewayNext, mode = "closed"
  PROVE  /\ \A c \in toGateway' : c.at = "let" /\ c \notin toGateway =>
              \E b \in toGateway : /\ latest \in Asks /\ c.command = b.command
                                  /\ \E d \in Reported(latest) : Lets(b, d)
         /\ chunk' # chunk => \E c \in toGateway : c.at = "let" /\ chunk' = Outcome(c.command)
<1>1. CASE PollChunk \/ AskHitly
  BY <1>1 DEF PollChunk, AskHitly
<1>2. CASE \E a \in Asks : \/ CommitAnswer(a) \/ RollBackAnswer(a) \/ CallBreaks(a)
                          \/ CancelAsk(a) \/ ExpireAsk(a) \/ Delegate(a)
  BY <1>2, Zenon DEF CommitAnswer, RollBackAnswer, CallBreaks, CancelAsk, ExpireAsk, Delegate
<1>3. CASE (\E a \in Asks, d \in OpenshellAnswers : AnswerAsk(a, d)) \/ \E m \in Commands : OtherCall(m)
  BY <1>3 DEF AnswerAsk, OtherCall
<1>4. ASSUME NEW b \in toGateway, Intercept(b)
      PROVE  /\ UNCHANGED chunk
             /\ \A c \in toGateway' : c.at = "let" /\ c \notin toGateway =>
                  /\ latest \in Asks /\ c.command = b.command
                  /\ \E d \in Reported(latest) : Lets(b, d)
  <2>1. b \in GatewayCalls
    BY DEF GatewayTypeOK
  <2>2. [b EXCEPT !.at = "let"].command = b.command
    BY <2>1 DEF GatewayCalls
  <2>3. UNCHANGED chunk
    BY <1>4 DEF Intercept
  <2>4. QED
    BY <1>4, <2>2, <2>3, CallSteps DEF Deny
<1>5. ASSUME NEW b \in toGateway, Handle(b) \/ LoseCall(b)
      PROVE  /\ toGateway' \subseteq toGateway
             /\ chunk' # chunk => b.at = "let" /\ chunk' = Outcome(b.command)
  BY <1>5 DEF Handle, LoseCall
<1>6. QED
  BY <1>1, <1>2, <1>3, <1>4, <1>5, Zenon DEF GatewayNext

LEMMA LetKeeps ==
  ASSUME GatewayTypeOK, HasAnswer, LetIsAnswered, GatewayNext PROVE LetIsAnswered'
<1> SUFFICES ASSUME mode' = "closed"
             PROVE  /\ \A c \in toGateway' : c.at = "let" => AnsweredFor(c.command)'
                    /\ \A m \in Commands : chunk' = Outcome(m) => AnsweredFor(m)'
  BY DEF LetIsAnswered
<1>1. mode = "closed"
  BY DEF GatewayNext, PollChunk, AskHitly, CommitAnswer, RollBackAnswer, CallBreaks, CancelAsk, ExpireAsk,
     Delegate, AnswerAsk, OtherCall, Intercept, Handle, LoseCall
<1>2. \A c \in toGateway \cup toGateway' : c.command \in Commands
  BY GatewayTypeKeeps DEF GatewayTypeOK, GatewayCalls
<1>3. ASSUME NEW c \in toGateway', c.at = "let" PROVE AnsweredFor(c.command)'
  <2>1. CASE c \in toGateway
    BY <1>1, <1>2, <1>3, <2>1, AnsweredStays DEF LetIsAnswered
  <2>2. CASE c \notin toGateway
    <3>1. PICK b \in toGateway : /\ latest \in Asks /\ c.command = b.command
                                /\ \E d \in Reported(latest) : Lets(b, d)
      BY <1>1, <1>3, <2>2, Newcomers
    <3>2. PICK d \in Reported(latest) : Lets(b, d)
      BY <3>1
    <3>3. d \in asked[latest].answers \cap Fits(b.command)
      BY <3>2, GatewayAssumption DEF Lets, LetsThrough, Reported, Fits, OpenshellAnswers
    <3>4. QED
      BY <1>2, <3>1, <3>3, AnsweredStays DEF AnsweredFor
  <2>3. QED
    BY <2>1, <2>2
<1>4. ASSUME NEW m \in Commands, chunk' = Outcome(m) PROVE AnsweredFor(m)'
  <2>1. CASE chunk' = chunk
    BY <1>1, <1>4, <2>1, AnsweredStays DEF LetIsAnswered
  <2>2. CASE chunk' # chunk
    <3>1. PICK c \in toGateway : c.at = "let" /\ chunk' = Outcome(c.command)
      BY <1>1, <2>2, Newcomers
    <3>2. c.command = m
      BY <1>2, <1>4, <3>1 DEF Commands, Outcome
    <3>3. QED
      BY <1>1, <3>1, <3>2, AnsweredStays DEF LetIsAnswered
  <2>3. QED
    BY <2>1, <2>2
<1>5. QED
  BY <1>3, <1>4

LEMMA NothingKeeps ==
  ASSUME GatewayInv, GatewayNext PROVE NothingBefore'
<1> SUFFICES ASSUME mode' = "closed", NoneFailed'
             PROVE  (\A a \in Asks : NoneDone(a)') /\ \A c \in toGateway' : c.at = "sent"
  BY DEF NothingBefore
<1>1. mode = "closed" /\ GatewayTypeOK /\ HasAnswer
  BY DEF GatewayInv, GatewayNext, PollChunk, AskHitly, CommitAnswer, RollBackAnswer, CallBreaks, CancelAsk,
     ExpireAsk, Delegate, AnswerAsk, OtherCall, Intercept, Handle, LoseCall
<1>2. (\A a \in Asks : NoneDone(a)) /\ \A c \in toGateway : c.at = "sent"
  <2>1. NoneFailed
    BY <1>1, RecordsStay DEF NoneFailed
  <2>2. QED
    BY <1>1, <2>1 DEF GatewayInv, NothingBefore
\* No call is let through: there is nothing yet to let it through for.
<1>3. ASSUME NEW c \in toGateway', c.at # "sent" PROVE FALSE
  <2>1. c.at = "let"
    BY GatewayTypeKeeps, <1>1, <1>3 DEF GatewayTypeOK, GatewayCalls
  <2>2. PICK b \in toGateway : latest \in Asks /\ \E d \in Reported(latest) : Lets(b, d)
    BY <1>1, <1>2, <1>3, <2>1, Newcomers
  <2>3. QED
    BY <1>2, <2>2 DEF Lets, LetsThrough, NoneDone
\* So no resume is answered with success, and none is committed as one.
<1>4. ASSUME NEW a \in Asks PROVE NoneDone(a)'
  <2>1. deciding'[a].reply # "ok"
    <3>1. CASE UNCHANGED deciding
      BY <1>2, <3>1 DEF NoneDone
    <3>2. ASSUME NEW b \in Asks, \/ CommitAnswer(b) \/ RollBackAnswer(b) \/ CallBreaks(b)
                               \/ \E d \in OpenshellAnswers : AnswerAsk(b, d)
          PROVE  deciding'[a].reply # "ok"
      BY <1>1, <1>2, <3>2, AskSteps DEF DecidingIs, NoneDone
    <3>3. ASSUME NEW c \in toGateway, Intercept(c) \/ Handle(c), ~UNCHANGED deciding
          PROVE  deciding'[a].reply # "ok"
      BY <1>1, <1>2, <3>3, CallSteps DEF Deny, DecidingIs, NoneDone, Handle
    <3>4. QED
      BY <3>1, <3>2, <3>3, DecidingWriters, Zenon
  <2>2. asked'[a].status \notin {"decided", "failed_resume"}
    <3>1. CASE UNCHANGED asked
      BY <1>2, <3>1 DEF NoneDone
    <3>2. CASE AskHitly /\ ~UNCHANGED asked
      <4>1. PICK b \in Asks : asked' = [asked EXCEPT ![b].status = "pending"]
        BY <3>2, Zenon DEF AskHitly
      <4>2. AskIs(b, "pending", asked[b].answers, asked[b].failed)
        BY <1>1, <4>1, AskType, SetAskStatus DEF GatewayShape, AskStatuses
      <4>3. QED
        BY <1>2, <4>2 DEF AskIs, NoneDone
    <3>3. ASSUME NEW b \in Asks, CommitAnswer(b) PROVE FALSE
      BY <1>1, <1>2, <3>3, AskSteps DEF AskIs, NoneDone, NoneFailed, CommitAnswer
    <3>4. ASSUME NEW b \in Asks, CancelAsk(b) \/ ExpireAsk(b)
          PROVE  asked'[a].status \notin {"decided", "failed_resume"}
      BY <1>1, <1>2, <3>4, AskSteps DEF AskIs, NoneDone
    <3>5. QED
      BY <3>1, <3>2, <3>3, <3>4, RowWriters, Zenon
  <2>3. QED
    BY <2>1, <2>2 DEF NoneDone
<1>5. QED
  BY <1>3, <1>4

LEMMA GatewayKeeps == GatewayInv /\ [GatewayNext]_gatewayVars => GatewayInv'
<1> SUFFICES ASSUME GatewayInv, [GatewayNext]_gatewayVars PROVE GatewayInv'
  OBVIOUS
<1>1. CASE UNCHANGED gatewayVars
  BY <1>1 DEF gatewayVars, GatewayInv, GatewayTypeOK, HasAnswer, Unlocked, LetIsAnswered, AnsweredFor,
     NothingBefore, NoneFailed, NoneDone
<1>2. CASE GatewayNext
  BY <1>2, GatewayTypeKeeps, LetKeeps, NothingKeeps DEF GatewayInv
<1>3. QED
  BY <1>1, <1>2

\* Behind an interceptor that fails closed a chunk is committed only as a reviewer
\* answered it (HitlyInterceptor.intercept, applyDecisionMatrix, by-run-id).
THEOREM CommittedOnAnAnswerTheorem == GatewaySpec => []CommittedOnAnAnswer
<1>1. GatewayInv => CommittedOnAnAnswer
  BY DEF GatewayInv, LetIsAnswered, CommittedOnAnAnswer, AnsweredFor, Fits, Outcome, Commands
<1>2. QED
  BY <1>1, GatewayInitially, GatewayKeeps, PTL DEF GatewaySpec

\* Behind one that fails closed nothing is decided before a resume has failed
\* (decideApproval, whose record is committed after the plugin's call).
THEOREM DecidedAfterAFailureTheorem == GatewaySpec => []DecidedAfterAFailure
<1>1. GatewayInv => DecidedAfterAFailure
  BY DEF GatewayInv, NothingBefore, NoneFailed, NoneDone, DecidedAfterAFailure
<1>2. QED
  BY <1>1, GatewayInitially, GatewayKeeps, PTL DEF GatewaySpec

-----------------------------------------------------------------------------
(* The six parts together. A step of one part leaves the variables of the other *)
(* five alone, so the run in which they take turns is a run of each of them, and *)
(* what was proved of a part alone holds of it there.                            *)
LEMMA PartSteps ==
  ASSUME [ExchangeNext]_exchangeVars
  PROVE  /\ [SignOutNext]_signOutVars /\ [AnswerNext]_answerVars /\ [EvidenceNext]_evidenceVars
         /\ [OutboundNext]_outboundVars /\ [TraceNext]_traceVars /\ [GatewayNext]_gatewayVars
<1>1. CASE UNCHANGED exchangeVars
  BY <1>1 DEF exchangeVars
<1>2. CASE ExchangeNext
  BY <1>2 DEF ExchangeNext
<1>3. QED
  BY <1>1, <1>2

\* The run in which the parts take turns is a run of each of them.
THEOREM PartsRun ==
  ExchangeSpec => SignOutSpec /\ AnswerSpec /\ EvidenceSpec /\ OutboundSpec /\ TraceSpec /\ GatewaySpec
<1>1. ExchangeInit => SignOutInit /\ AnswerInit /\ EvidenceInit /\ OutboundInit /\ TraceInit /\ GatewayInit
  BY DEF ExchangeInit
<1>2. QED
  BY <1>1, PartSteps, PTL
     DEF ExchangeSpec, SignOutSpec, AnswerSpec, EvidenceSpec, OutboundSpec, TraceSpec, GatewaySpec

\* The shape of every part's state, whichever part moves.
THEOREM ExchangeTypes == ExchangeSpec => []ExchangeTypeOK
<1>1. SignOutSpec => []SignOutTypeOK
  <2>1. SignOutInv => SignOutTypeOK
    BY DEF SignOutInv
  <2>2. QED
    BY <2>1, SignOutInitially, SignOutKeeps, PTL DEF SignOutSpec
<1>2. TraceSpec => []TraceTypeOK
  <2>1. TraceInv => TraceTypeOK
    BY DEF TraceInv
  <2>2. QED
    BY <2>1, TraceInitially, TraceKeeps, PTL DEF TraceSpec
<1>3. EvidenceSpec => []EvidenceTypeOK
  <2>1. EvidenceInv => EvidenceTypeOK
    BY DEF EvidenceInv
  <2>2. QED
    BY <2>1, EvidenceInitially, EvidenceKeeps, PTL DEF EvidenceSpec
<1>4. GatewaySpec => []GatewayTypeOK
  <2>1. GatewayInv => GatewayTypeOK
    BY DEF GatewayInv
  <2>2. QED
    BY <2>1, GatewayInitially, GatewayKeeps, PTL DEF GatewaySpec
<1>5. ExchangeTypeOK <=> /\ SignOutTypeOK /\ AnswerTypeOK /\ EvidenceTypeOK /\ OutboundTypeOK
                         /\ TraceTypeOK /\ GatewayTypeOK
  BY DEF ExchangeTypeOK
<1>6. QED
  BY <1>1, <1>2, <1>3, <1>4, <1>5, PartsRun, AnswerTypes, OutboundTypes, PTL
==============================================================================
