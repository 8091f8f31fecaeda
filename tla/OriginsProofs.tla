----------------------------- MODULE OriginsProofs -----------------------------
(* For any approvals, answers asked for, tries, runs, attempts, restarts and    *)
(* rotations, and whichever plugin: a run acts on a yes that was said of an     *)
(* approval for it, and once, but for calls that overlap on a LangGraph thread  *)
(* and the attempts of a Temporal activity. What is held at the other end (a    *)
(* call, the box, a run's word, the poller) means yes only if somebody said it. *)
EXTENDS Origins, TLAPS

RunPcs == {"none", "start", "asked", "paused", "going"} \cup Ended
RunNames == 0..MaxLives
RunItems == Items \cup {None}
RunWords == Words \cup {None}
AnswerSets == SUBSET Answers
Statuses == {"none", "pending", "resuming", "decided", "ignored", "failed_resume"}
TryCounts == 0..MaxTries
Flags == BOOLEAN
Calls == [item : Items, try : 1..MaxTries, word : Words, secret : 0..MaxRotations]
CardFiles == SUBSET Items
HookStates == {NoHook} \cup [pc : {"load", "save"}, item : Items, file : CardFiles]
PollStates == [pc : {"idle", "unblock", "load", "save", "forget"}, left : CardFiles,
               item : RunItems, file : CardFiles]
SecretPairs == [hitly : 0..MaxRotations, agent : 0..MaxRotations]
LEMMA RunShape == Runs = [pc : RunPcs, name : RunNames, item : RunItems, word : RunWords, acts : Nat]
  BY DEF Runs, RunPcs, RunNames, RunItems, RunWords
LEMMA ApprovalShape == Approval = [status : Statuses, life : RunNames, name : RunNames, process : Nat,
                                   allowed : AnswerSets, url : Flags, yes : Flags, try : TryCounts]
  BY DEF Approval, Statuses, RunNames, AnswerSets, Flags, TryCounts

\* An approval that was made is of a run; what was said of it was said then.
Made(a) == items[a].status # "none"
ApprovalInv(a) == /\ Made(a) => items[a].life # 0
                  /\ items[a].yes => Made(a)
                  /\ origin \in {"temporal", "hermes"} => items[a].allowed \subseteq {"accept", "reject"}
\* The words the other end takes for a yes.
MeansYes(w) ==
  CASE origin = "mastra" -> w = "approved"
    [] origin = "langgraph" -> Approves(w)
    [] origin = "temporal" -> w \notin {None, "reject"}
    [] origin \in {"hermes", "kanban"} -> w \in AcceptDecisions
    [] OTHER -> w = "accept"
Sent(c) == Made(c.item) /\ (MeansYes(c.word) => items[c.item].yes)
BoxInv(a) == origin \in {"hermes", "kanban"} /\ box[a] \in AcceptDecisions => items[a].yes
SomeYes == \E a \in Items : items[a].yes
PollerInv == /\ poller # NoPoll => origin = "kanban"
             /\ poller.pc = "unblock" => SomeYes
HasYes(l) == \E a \in Items : ApprovalOf(a, l) /\ items[a].yes
\* The run holds a yes.
Holds(p, w) ==
  CASE origin = "temporal" -> w \notin {None, "reject"} \/ p = "going"
    [] origin = "hermes" -> w \in AcceptDecisions
    [] OTHER -> FALSE
RunInv(l) ==
  LET r == runs[l]
  IN /\ r.pc = "none" => r.item = None /\ r.word = None /\ r.acts = 0
     /\ r.item # None => Made(r.item) /\ (origin = "hermes" => items[r.item].name = r.name)
     /\ Holds(r.pc, r.word) \/ r.acts > 0 => HasYes(l)
     /\ origin = "temporal" \/ overlapped \/ r.acts = (IF r.pc = "acted" THEN 1 ELSE 0)
\* Runs are started one after the other.
InTurn == \A k, l \in Lives : k < l /\ runs[k].pc = "none" => runs[l].pc = "none"
\* A call that is alone in the thread has it at its interrupt.
InsideInv ==
  /\ inside # {} => origin = "langgraph"
  /\ inside # {} /\ ~overlapped => /\ \A c, d \in inside : c = d
                                   /\ \E l \in Lives : Latest(l) /\ runs[l].pc = "paused"
OriginsInv ==
  /\ OriginsTypeOK /\ PollerInv /\ InTurn /\ InsideInv
  /\ \A a \in Items : ApprovalInv(a) /\ BoxInv(a)
  /\ \A c \in calls : Sent(c)
  /\ \A l \in Lives : RunInv(l)

\* What a step has to leave behind, group by group.
ShellOK == /\ origin' = origin /\ process' \in 0..MaxRestarts /\ secrets' \in SecretPairs
Grows ==
  /\ items' \in [Items -> Approval]
  /\ \A a \in Items : ApprovalInv(a)'
  /\ \A a \in Items : Made(a) => /\ Made(a)' /\ items'[a].life = items[a].life
                                 /\ items'[a].name = items[a].name /\ (items[a].yes => items'[a].yes)
CallsOK == calls' \subseteq Calls /\ \A c \in calls' : Sent(c)'
BoxOK == box' \in [Items -> RunWords] /\ \A a \in Items : BoxInv(a)'
KanbanOK == cards' \subseteq Items /\ hook' \in HookStates /\ poller' \in PollStates /\ PollerInv'
InsideOK == inside' \subseteq calls' /\ overlapped' \in BOOLEAN /\ InsideInv'
RunsOK == runs' \in [Lives -> Runs] /\ InTurn' /\ \A l \in Lives : RunInv(l)'

Shaped ==
  /\ origin \in OriginKinds /\ runs \in [Lives -> Runs] /\ items \in [Items -> Approval]
  /\ calls \subseteq Calls /\ inside \subseteq calls /\ overlapped \in BOOLEAN
  /\ box \in [Items -> RunWords] /\ cards \subseteq Items /\ hook \in HookStates /\ poller \in PollStates
  /\ process \in 0..MaxRestarts /\ secrets \in SecretPairs
LEMMA OriginShape == (OriginsTypeOK <=> Shaped) /\ (OriginsTypeOK' <=> Shaped')
  BY DEF OriginsTypeOK, Shaped, Calls, HookStates, PollStates, CardFiles, SecretPairs, RunItems, RunWords
LEMMA Assembled ==
  ASSUME OriginsInv, ShellOK, Grows, CallsOK, BoxOK, KanbanOK, InsideOK, RunsOK
  PROVE  OriginsInv'
<1>1. origin' \in OriginKinds
  BY OriginShape DEF OriginsInv, ShellOK, Shaped
<1>2. OriginsTypeOK'
  BY <1>1, OriginShape DEF ShellOK, Grows, CallsOK, BoxOK, KanbanOK, InsideOK, RunsOK, Shaped
<1>3. QED
  BY <1>2 DEF OriginsInv, Grows, CallsOK, BoxOK, KanbanOK, InsideOK, RunsOK

-----------------------------------------------------------------------------
(* What stays                                                                  *)

\* Nothing that was said is unsaid.
LEMMA YesStays ==
  ASSUME OriginsInv, Grows, origin' = origin
  PROVE  /\ \A l \in Lives : HasYes(l) /\ runs'[l].name = runs[l].name => HasYes(l)'
         /\ SomeYes => SomeYes'
<1>1. \A a \in Items : items[a].yes => /\ items'[a].yes /\ items'[a].life = items[a].life
                                       /\ items'[a].name = items[a].name
  BY DEF OriginsInv, ApprovalInv, Grows
<1>2. SomeYes => SomeYes'
  BY <1>1 DEF SomeYes
<1>3. ASSUME NEW l \in Lives, HasYes(l), runs'[l].name = runs[l].name PROVE HasYes(l)'
  <2>1. PICK a \in Items : ApprovalOf(a, l) /\ items[a].yes
    BY <1>3 DEF HasYes
  <2>2. ApprovalOf(a, l)'
    BY <1>1, <1>3, <2>1 DEF ApprovalOf
  <2>3. QED
    BY <1>1, <2>1, <2>2 DEF HasYes
<1>4. QED
  BY <1>2, <1>3
LEMMA SameWords ==
  ASSUME origin' = origin
  PROVE  \A w : (MeansYes(w)' <=> MeansYes(w)) /\ \A p : Holds(p, w)' <=> Holds(p, w)
  BY DEF MeansYes, Holds, Approves, AcceptDecisions
LEMMA ItemsStay == ASSUME OriginsInv, origin' = origin, items' = items PROVE Grows
<1>1. items \in [Items -> Approval]
  BY OriginShape DEF OriginsInv, Shaped
<1>2. QED
  BY <1>1 DEF OriginsInv, Grows, ApprovalInv, Made
LEMMA CallsStay ==
  ASSUME OriginsInv, Grows, origin' = origin, calls' \subseteq calls
  PROVE  CallsOK
<1>1. calls \subseteq Calls
  BY OriginShape DEF OriginsInv, Shaped
<1>2. ASSUME NEW c \in calls PROVE Sent(c)'
  <2>1. c.item \in Items /\ Sent(c)
    BY <1>1 DEF Calls, OriginsInv
  <2>2. QED
    BY <2>1, SameWords DEF Sent, Grows
<1>3. QED
  BY <1>1, <1>2 DEF CallsOK
LEMMA BoxStays ==
  ASSUME OriginsInv, Grows, origin' = origin, box' \in [Items -> RunWords],
         \A a \in Items : box'[a] \in {None, box[a]}
  PROVE  BoxOK
<1>1. None \notin AcceptDecisions
  BY OriginsAssumption DEF AcceptDecisions, Answers
<1>2. ASSUME NEW a \in Items PROVE BoxInv(a)'
  BY <1>1 DEF OriginsInv, BoxInv, Grows, ApprovalInv, AcceptDecisions
<1>3. QED
  BY <1>2 DEF BoxOK
LEMMA BoxUnmoved ==
  ASSUME OriginsInv, Grows, origin' = origin, box' = box
  PROVE  BoxOK
<1>1. box \in [Items -> RunWords]
  BY OriginShape DEF OriginsInv, Shaped
<1>2. QED
  BY <1>1, BoxStays
LEMMA KanbanStays ==
  ASSUME OriginsInv, Grows, origin' = origin, cards' \subseteq Items, hook' \in HookStates, poller' = poller
  PROVE  KanbanOK
<1>1. poller \in PollStates
  BY OriginShape DEF OriginsInv, Shaped
<1>2. PollerInv'
  BY YesStays DEF OriginsInv, PollerInv, NoPoll
<1>3. QED
  BY <1>1, <1>2 DEF KanbanOK
LEMMA KanbanUnmoved ==
  ASSUME OriginsInv, Grows, origin' = origin, UNCHANGED kanban
  PROVE  KanbanOK
<1>1. cards \subseteq Items /\ hook \in HookStates
  BY OriginShape DEF OriginsInv, Shaped
<1>2. QED
  BY <1>1, KanbanStays DEF kanban
LEMMA ShellStays ==
  ASSUME OriginsInv, origin' = origin, process' = process, secrets' = secrets
  PROVE  ShellOK
  BY OriginShape DEF OriginsInv, Shaped, ShellOK

-----------------------------------------------------------------------------
(* What a run becomes                                                          *)

Becomes(l, p, i, w, n) ==
  /\ runs' \in [Lives -> Runs] /\ \A k \in Lives : k # l => runs'[k] = runs[k]
  /\ runs'[l].pc = p /\ runs'[l].name = runs[l].name /\ runs'[l].item = i
  /\ runs'[l].word = w /\ runs'[l].acts = n
LEMMA PutRun ==
  ASSUME runs \in [Lives -> Runs], NEW l \in Lives, NEW r \in Runs, runs' = [runs EXCEPT ![l] = r],
         r.name = runs[l].name
  PROVE  Becomes(l, r.pc, r.item, r.word, r.acts)
  BY DEF Becomes
LEMMA RunParts ==
  ASSUME runs \in [Lives -> Runs], NEW l \in Lives
  PROVE  /\ runs[l].pc \in RunPcs /\ runs[l].name \in RunNames /\ runs[l].item \in RunItems
         /\ runs[l].word \in RunWords /\ runs[l].acts \in Nat
<1>1. runs[l] \in Runs
  OBVIOUS
<1>2. QED
  BY <1>1, RunShape
LEMMA NewPc ==
  ASSUME runs \in [Lives -> Runs], NEW l \in Lives, NEW p \in RunPcs, runs' = [runs EXCEPT ![l].pc = p]
  PROVE  Becomes(l, p, runs[l].item, runs[l].word, runs[l].acts)
<1> DEFINE r == [runs[l] EXCEPT !.pc = p]
<1>1. runs[l] \in Runs
  OBVIOUS
<1>2. /\ r \in Runs /\ r.pc = p /\ r.name = runs[l].name /\ r.item = runs[l].item
      /\ r.word = runs[l].word /\ r.acts = runs[l].acts
  BY <1>1, RunShape
<1>3. runs' = [runs EXCEPT ![l] = r]
  BY Zenon
<1> HIDE DEF r
<1>4. Becomes(l, r.pc, r.item, r.word, r.acts)
  BY <1>2, <1>3, PutRun
<1>5. QED
  BY <1>2, <1>4
LEMMA NewPcItem ==
  ASSUME runs \in [Lives -> Runs], NEW l \in Lives, NEW p \in RunPcs, NEW a \in RunItems,
         runs' = [runs EXCEPT ![l].pc = p, ![l].item = a]
  PROVE  Becomes(l, p, a, runs[l].word, runs[l].acts)
<1> DEFINE r == [runs[l] EXCEPT !.pc = p, !.item = a]
<1>1. runs[l] \in Runs
  OBVIOUS
<1>2. /\ r \in Runs /\ r.pc = p /\ r.name = runs[l].name /\ r.item = a
      /\ r.word = runs[l].word /\ r.acts = runs[l].acts
  BY <1>1, RunShape
<1>3. runs' = [runs EXCEPT ![l] = r]
  BY <1>1, RunShape
<1> HIDE DEF r
<1>4. Becomes(l, r.pc, r.item, r.word, r.acts)
  BY <1>2, <1>3, PutRun
<1>5. QED
  BY <1>2, <1>4
LEMMA NewPcWord ==
  ASSUME runs \in [Lives -> Runs], NEW l \in Lives, NEW p \in RunPcs, NEW w \in RunWords,
         runs' = [runs EXCEPT ![l].pc = p, ![l].word = w]
  PROVE  Becomes(l, p, runs[l].item, w, runs[l].acts)
<1> DEFINE r == [runs[l] EXCEPT !.pc = p, !.word = w]
<1>1. runs[l] \in Runs
  OBVIOUS
<1>2. /\ r \in Runs /\ r.pc = p /\ r.name = runs[l].name /\ r.item = runs[l].item
      /\ r.word = w /\ r.acts = runs[l].acts
  BY <1>1, RunShape
<1>3. runs' = [runs EXCEPT ![l] = r]
  BY <1>1, RunShape
<1> HIDE DEF r
<1>4. Becomes(l, r.pc, r.item, r.word, r.acts)
  BY <1>2, <1>3, PutRun
<1>5. QED
  BY <1>2, <1>4
LEMMA NewWord ==
  ASSUME runs \in [Lives -> Runs], NEW l \in Lives, NEW w \in RunWords, runs' = [runs EXCEPT ![l].word = w]
  PROVE  Becomes(l, runs[l].pc, runs[l].item, w, runs[l].acts)
<1> DEFINE r == [runs[l] EXCEPT !.word = w]
<1>1. runs[l] \in Runs
  OBVIOUS
<1>2. /\ r \in Runs /\ r.pc = runs[l].pc /\ r.name = runs[l].name /\ r.item = runs[l].item
      /\ r.word = w /\ r.acts = runs[l].acts
  BY <1>1, RunShape
<1>3. runs' = [runs EXCEPT ![l] = r]
  BY Zenon
<1> HIDE DEF r
<1>4. Becomes(l, r.pc, r.item, r.word, r.acts)
  BY <1>2, <1>3, PutRun
<1>5. QED
  BY <1>2, <1>4
LEMMA NewPcActs ==
  ASSUME runs \in [Lives -> Runs], NEW l \in Lives, NEW p \in RunPcs,
         runs' = [runs EXCEPT ![l].acts = @ + 1, ![l].pc = p]
  PROVE  Becomes(l, p, runs[l].item, runs[l].word, runs[l].acts + 1)
<1> DEFINE n == runs[l].acts + 1
<1>0. n \in Nat
  BY RunParts
<1> HIDE DEF n
<1> DEFINE r == [runs[l] EXCEPT !.acts = n, !.pc = p]
<1>1. runs[l] \in Runs
  OBVIOUS
<1>2. /\ r \in Runs /\ r.pc = p /\ r.name = runs[l].name /\ r.item = runs[l].item
      /\ r.word = runs[l].word /\ r.acts = n
  BY <1>0, <1>1, RunShape
<1>3. runs' = [runs EXCEPT ![l] = r]
  BY <1>1, RunShape DEF n
<1> HIDE DEF r
<1>4. Becomes(l, r.pc, r.item, r.word, r.acts)
  BY <1>2, <1>3, PutRun
<1>5. QED
  BY <1>2, <1>4 DEF n
LEMMA OverRun ==
  ASSUME runs \in [Lives -> Runs], NEW l \in Lives, NEW p \in RunPcs
  PROVE  /\ Over(l, p) \in [Lives -> Runs]
         /\ \A k \in Lives : k # l => Over(l, p)[k] = runs[k]
         /\ Over(l, p)[l].pc = p /\ Over(l, p)[l].name = runs[l].name /\ Over(l, p)[l].item = None
         /\ Over(l, p)[l].word = None /\ Over(l, p)[l].acts = runs[l].acts
<1> DEFINE r == [runs[l] EXCEPT !.pc = p, !.item = None, !.word = None]
<1>1. runs[l] \in Runs /\ None \in RunItems /\ None \in RunWords
  BY DEF RunItems, RunWords
<1>2. /\ r \in Runs /\ r.pc = p /\ r.name = runs[l].name /\ r.item = None
      /\ r.word = None /\ r.acts = runs[l].acts
  BY <1>1, RunShape
<1>3. Over(l, p) = [runs EXCEPT ![l] = r]
  BY <1>1, RunShape DEF Over
<1> HIDE DEF r
<1>4. QED
  BY <1>2, <1>3
LEMMA OverBecomes ==
  ASSUME runs \in [Lives -> Runs], NEW l \in Lives, NEW p \in RunPcs, runs' = Over(l, p)
  PROVE  Becomes(l, p, None, None, runs[l].acts)
  BY OverRun DEF Becomes
LEMMA EndsBecomes ==
  ASSUME runs \in [Lives -> Runs], NEW l \in Lives, NEW yes \in BOOLEAN, Ends(l, yes)
  PROVE  /\ yes => Becomes(l, "acted", None, None, runs[l].acts + 1)
         /\ ~yes => Becomes(l, "refused", None, None, runs[l].acts)
<1>0. "acted" \in RunPcs /\ "refused" \in RunPcs
  BY DEF RunPcs, Ended
<1>1. CASE yes
  <2> DEFINE o == Over(l, "acted")
             n == o[l].acts + 1
             r == [o[l] EXCEPT !.acts = n]
  <2>1. o \in [Lives -> Runs] /\ runs[l].acts \in Nat
    BY <1>0, OverRun, RunParts
  <2>2. /\ \A k \in Lives : k # l => o[k] = runs[k]
        /\ o[l].pc = "acted" /\ o[l].name = runs[l].name /\ o[l].item = None /\ o[l].word = None
        /\ o[l].acts = runs[l].acts
    BY <1>0, OverRun, Zenon
  <2>3. runs' = [o EXCEPT ![l] = r]
    BY <1>1, Zenon DEF Ends
  <2> HIDE DEF o
  <2>4. n \in Nat /\ n = runs[l].acts + 1 /\ o[l] \in Runs
    BY <2>1, <2>2
  <2> HIDE DEF n
  <2>5. r \in Runs /\ r.pc = o[l].pc /\ r.name = o[l].name /\ r.item = o[l].item /\ r.word = o[l].word /\ r.acts = n
    BY <2>4, RunShape
  <2> HIDE DEF r
  <2>6. runs' \in [Lives -> Runs] /\ runs'[l] = r /\ \A k \in Lives : k # l => runs'[k] = o[k]
    BY <2>1, <2>3, <2>5
  <2>7. QED
    BY <1>1, <2>2, <2>4, <2>5, <2>6 DEF Becomes
<1>2. CASE ~yes
  BY <1>0, <1>2, OverBecomes DEF Ends
<1>3. QED
  BY <1>1, <1>2

\* A run that goes on holds a yes, and has acted, only if one was said for it.
LEMMA BecomesKeeps ==
  ASSUME OriginsInv, Grows, origin' = origin, overlapped' \in BOOLEAN, overlapped => overlapped',
         NEW l \in Lives, NEW p, NEW i, NEW w, NEW n \in Nat, Becomes(l, p, i, w, n),
         runs[l].pc # "none", p # "none",
         i # None => i \in Items /\ Made(i)' /\ (origin = "hermes" => items'[i].name = runs[l].name),
         Holds(p, w) \/ n > 0 => HasYes(l),
         origin = "temporal" \/ overlapped' \/ n = (IF p = "acted" THEN 1 ELSE 0)
  PROVE  RunsOK
<1>1. InTurn'
  BY DEF OriginsInv, InTurn, Becomes
<1>2. RunInv(l)'
  BY YesStays, SameWords DEF RunInv, Becomes
<1>3. ASSUME NEW k \in Lives, k # l PROVE RunInv(k)'
  <2>1. RunInv(k) /\ runs'[k] = runs[k]
    BY <1>3 DEF OriginsInv, Becomes
  <2>2. runs[k].item # None => runs[k].item \in Items
    BY OriginShape, RunParts DEF OriginsInv, Shaped, RunItems
  <2>3. QED
    BY <2>1, <2>2, YesStays, SameWords DEF RunInv, Grows
<1>4. QED
  BY <1>1, <1>2, <1>3 DEF RunsOK, Becomes
LEMMA RunsStay ==
  ASSUME OriginsInv, Grows, origin' = origin, overlapped' \in BOOLEAN, overlapped => overlapped', runs' = runs
  PROVE  RunsOK
<1>0. runs \in [Lives -> Runs]
  BY OriginShape DEF OriginsInv, Shaped
<1>1. InTurn'
  BY DEF OriginsInv, InTurn
<1>2. ASSUME NEW k \in Lives PROVE RunInv(k)'
  <2>1. RunInv(k)
    BY DEF OriginsInv
  <2>2. runs[k].item # None => runs[k].item \in Items
    BY <1>0, RunParts DEF RunItems
  <2>3. QED
    BY <2>1, <2>2, YesStays, SameWords DEF RunInv, Grows
<1>3. QED
  BY <1>0, <1>1, <1>2 DEF RunsOK

\* The calls inside a thread stay there as long as its run stays paused.
LEMMA InsideStays ==
  ASSUME OriginsInv, origin' = origin, inside' = inside, overlapped' = overlapped, inside \subseteq calls',
         \A l \in Lives : /\ runs'[l].pc = "none" <=> runs[l].pc = "none"
                          /\ origin = "langgraph" /\ runs[l].pc = "paused" => runs'[l].pc = "paused"
  PROVE  InsideOK
<1>1. overlapped \in BOOLEAN
  BY OriginShape DEF OriginsInv, Shaped
<1>2. \A l \in Lives : Latest(l)' <=> Latest(l)
  BY DEF Latest
<1>3. InsideInv'
  BY <1>2 DEF OriginsInv, InsideInv
<1>4. QED
  BY <1>1, <1>3 DEF InsideOK
LEMMA NobodyInside ==
  ASSUME OriginsInv, origin' = origin, origin # "langgraph", UNCHANGED <<inside, overlapped>>
  PROVE  InsideOK /\ inside = {}
<1>1. overlapped \in BOOLEAN /\ inside = {}
  BY OriginShape DEF OriginsInv, Shaped, InsideInv
<1>2. QED
  BY <1>1 DEF InsideInv, InsideOK

-----------------------------------------------------------------------------
(* The initial state, and the frames of the steps                              *)

LEMMA OriginsInitially == OriginsInit => OriginsInv
<1> SUFFICES ASSUME OriginsInit PROVE OriginsInv
  OBVIOUS
<1>0. MaxLives \in Nat \ {0} /\ MaxTries \in Nat \ {0} /\ MaxRestarts \in Nat /\ MaxRotations \in Nat
  BY OriginsAssumption
<1>1. /\ "none" \in RunPcs /\ 0 \in RunNames /\ None \in RunItems /\ None \in RunWords
      /\ "none" \in Statuses /\ {} \in AnswerSets /\ FALSE \in Flags /\ 0 \in TryCounts
      /\ 0 \in 0..MaxRestarts /\ 0 \in 0..MaxRotations
  BY <1>0 DEF RunPcs, RunNames, RunItems, RunWords, Statuses, AnswerSets, Flags, TryCounts
<1>2. runs \in [Lives -> Runs]
  BY <1>1, RunShape DEF OriginsInit
<1>3. items \in [Items -> Approval]
  BY <1>1, ApprovalShape DEF OriginsInit
<1>4. box \in [Items -> RunWords] /\ secrets \in SecretPairs /\ process \in 0..MaxRestarts
  BY <1>1 DEF OriginsInit, SecretPairs
<1>5. hook \in HookStates /\ poller \in PollStates
  BY <1>1 DEF OriginsInit, NoHook, NoPoll, HookStates, PollStates, CardFiles
<1>6. /\ origin \in OriginKinds /\ calls = {} /\ inside = {} /\ overlapped = FALSE /\ cards = {}
      /\ poller = NoPoll
  BY DEF OriginsInit
<1>7. OriginsTypeOK
  BY <1>2, <1>3, <1>4, <1>5, <1>6, OriginShape DEF Shaped
<1>8. /\ \A l \in Lives : runs[l].pc = "none" /\ runs[l].item = None /\ runs[l].word = None /\ runs[l].acts = 0
      /\ \A a \in Items : ~Made(a) /\ items[a].allowed = {} /\ ~items[a].yes /\ box[a] = None
  BY DEF OriginsInit, Made
<1>9. None \notin AcceptDecisions
  BY OriginsAssumption DEF AcceptDecisions, Answers
<1>10. \A a \in Items : ApprovalInv(a) /\ BoxInv(a)
  BY <1>8, <1>9 DEF ApprovalInv, BoxInv
<1>11. \A l \in Lives : RunInv(l)
  BY <1>8, <1>9 DEF RunInv, Holds
<1>12. PollerInv /\ InTurn /\ InsideInv
  BY <1>6, <1>8 DEF PollerInv, InTurn, InsideInv, NoPoll
<1>13. QED
  BY <1>6, <1>7, <1>10, <1>11, <1>12 DEF OriginsInv

\* Steps that leave the approvals, the calls and the process alone.
LEMMA AsideStays ==
  ASSUME OriginsInv, UNCHANGED aside
  PROVE  /\ ShellOK /\ Grows /\ CallsOK /\ origin' = origin /\ overlapped' \in BOOLEAN
         /\ inside' = inside /\ overlapped' = overlapped /\ inside \subseteq calls'
<1>1. /\ origin' = origin /\ items' = items /\ calls' = calls /\ inside' = inside
      /\ overlapped' = overlapped /\ process' = process /\ secrets' = secrets
  BY DEF aside
<1>2. Grows /\ ShellOK
  BY <1>1, ItemsStay, ShellStays
<1>3. overlapped \in BOOLEAN /\ inside \subseteq calls
  BY OriginShape DEF OriginsInv, Shaped
<1>4. QED
  BY <1>1, <1>2, <1>3, CallsStay
LEMMA RunMoves ==
  ASSUME OriginsInv, UNCHANGED aside, BoxOK, KanbanOK,
         NEW l \in Lives, NEW p, NEW i, NEW w, NEW n \in Nat, Becomes(l, p, i, w, n),
         runs[l].pc # "none", p # "none", origin = "langgraph" => runs[l].pc # "paused",
         i # None => i \in Items /\ Made(i) /\ (origin = "hermes" => items[i].name = runs[l].name),
         Holds(p, w) \/ n > 0 => HasYes(l),
         origin = "temporal" \/ overlapped \/ n = (IF p = "acted" THEN 1 ELSE 0)
  PROVE  OriginsInv'
<1>1. /\ ShellOK /\ Grows /\ CallsOK /\ origin' = origin /\ overlapped' \in BOOLEAN
      /\ inside' = inside /\ overlapped' = overlapped /\ inside \subseteq calls' /\ items' = items
  BY AsideStays DEF aside
<1>2. RunsOK
  BY <1>1, BecomesKeeps DEF Made
<1>3. InsideOK
  BY <1>1, InsideStays DEF Becomes
<1>4. QED
  BY <1>1, <1>2, <1>3, Assembled

\* What a run keeps while it goes on.
LEMMA RunHad ==
  ASSUME OriginsInv, NEW l \in Lives
  PROVE  /\ runs \in [Lives -> Runs] /\ runs[l].acts \in Nat /\ runs[l].word \in RunWords
         /\ runs[l].pc \in RunPcs
         /\ runs[l].item # None => /\ runs[l].item \in Items /\ Made(runs[l].item)
                                   /\ origin = "hermes" => items[runs[l].item].name = runs[l].name
         /\ Holds(runs[l].pc, runs[l].word) \/ runs[l].acts > 0 => HasYes(l)
         /\ origin = "temporal" \/ overlapped \/ runs[l].acts = (IF runs[l].pc = "acted" THEN 1 ELSE 0)
<1>1. runs \in [Lives -> Runs] /\ RunInv(l)
  BY OriginShape DEF OriginsInv, Shaped
<1>2. QED
  BY <1>1, RunParts DEF RunInv, RunItems
LEMMA NoneHolds == ~Holds("refused", None) /\ ~Holds("failed", None) /\ ~Holds("acted", None)
<1>1. None \notin AcceptDecisions
  BY OriginsAssumption DEF AcceptDecisions, Answers
<1>2. QED
  BY <1>1 DEF Holds
\* A run ends, with the deed on a yes that was said for it.
LEMMA EndKeeps ==
  ASSUME OriginsInv, ShellOK, Grows, CallsOK, BoxOK, KanbanOK, InsideOK, overlapped' = overlapped,
         NEW l \in Lives, NEW yes \in BOOLEAN, Ends(l, yes), yes => HasYes(l), runs[l].pc # "none",
         runs[l].pc # "acted" \/ overlapped
  PROVE  OriginsInv'
<1>1. origin' = origin /\ overlapped' \in BOOLEAN
  BY DEF ShellOK, InsideOK
<1>2. CASE yes
  <2>0. runs \in [Lives -> Runs] /\ runs[l].acts + 1 \in Nat
    BY RunHad
  <2>1. Becomes(l, "acted", None, None, runs[l].acts + 1) /\ runs[l].acts + 1 \in Nat
    BY <1>2, <2>0, EndsBecomes
  <2>2. origin = "temporal" \/ overlapped \/ runs[l].acts + 1 = 1
    BY RunHad
  <2>3. RunsOK
    BY <1>1, <1>2, <2>1, <2>2, BecomesKeeps
  <2>4. QED
    BY <2>3, Assembled
<1>3. CASE ~yes
  <2>1. Becomes(l, "refused", None, None, runs[l].acts) /\ runs[l].acts \in Nat
    BY <1>3, EndsBecomes, RunHad
  <2>2. origin = "temporal" \/ overlapped \/ runs[l].acts = 0
    BY RunHad
  <2>3. ~Holds("refused", None) /\ (runs[l].acts > 0 => HasYes(l))
    BY RunHad, NoneHolds
  <2>4. RunsOK
    BY <1>1, <2>1, <2>2, <2>3, BecomesKeeps
  <2>5. QED
    BY <2>4, Assembled
<1>4. QED
  BY <1>2, <1>3

-----------------------------------------------------------------------------
(* The start of a run and its own steps                                        *)

LEMMA StartKeeps ==
  ASSUME OriginsInv, NEW l \in Lives, StartRun(l)
  PROVE  OriginsInv'
<1>1. /\ runs[l].pc = "none" /\ (l = 1 \/ \E k \in Lives : k + 1 = l /\ Free(k))
      /\ UNCHANGED aside /\ UNCHANGED kanban /\ box' = box
  BY DEF StartRun, aside, agent
<1>2. PICK n \in NamesOf(l) : runs' = [runs EXCEPT ![l].pc = "start", ![l].name = n]
  BY DEF StartRun
<1>3. runs \in [Lives -> Runs] /\ MaxLives \in Nat /\ l \in 1..MaxLives
  BY OriginShape, OriginsAssumption DEF OriginsInv, Shaped, Lives
<1>4. n \in RunNames
  BY <1>2, <1>3 DEF NamesOf, RunNames
<1> DEFINE r == [runs[l] EXCEPT !.pc = "start", !.name = n]
<1>5. runs[l] \in Runs /\ "start" \in RunPcs
  BY <1>3 DEF RunPcs
<1>6. /\ r \in Runs /\ r.pc = "start" /\ r.name = n /\ r.item = runs[l].item
      /\ r.word = runs[l].word /\ r.acts = runs[l].acts
  BY <1>4, <1>5, RunShape
<1>7. runs' = [runs EXCEPT ![l] = r]
  BY <1>2, <1>5, RunShape
<1> HIDE DEF r
<1>8. runs' \in [Lives -> Runs] /\ runs'[l] = r /\ \A k \in Lives : k # l => runs'[k] = runs[k]
  BY <1>3, <1>6, <1>7
<1>9. /\ ShellOK /\ Grows /\ CallsOK /\ origin' = origin /\ overlapped' \in BOOLEAN /\ items' = items
      /\ inside' = inside /\ overlapped' = overlapped /\ inside \subseteq calls'
  BY <1>1, AsideStays DEF aside
<1>10. RunInv(l)'
  <2>1. r.item = None /\ r.word = None /\ r.acts = 0 /\ r.pc = "start"
    BY <1>1, <1>6 DEF OriginsInv, RunInv
  <2>2. ~Holds("start", None)'
    BY <1>9, NoneHolds, SameWords DEF Holds
  <2>3. QED
    BY <1>8, <2>1, <2>2 DEF RunInv
<1>11. ASSUME NEW k \in Lives, k # l PROVE RunInv(k)'
  <2>1. RunInv(k) /\ runs'[k] = runs[k]
    BY <1>8, <1>11 DEF OriginsInv
  <2>2. runs[k].item # None => runs[k].item \in Items
    BY <1>3, RunParts DEF RunItems
  <2>3. QED
    BY <1>9, <2>1, <2>2, YesStays, SameWords DEF RunInv, Grows
<1>12. \A k \in Lives : k < l => runs[k].pc # "none"
  <2> SUFFICES ASSUME NEW k \in Lives, k < l PROVE runs[k].pc # "none"
    OBVIOUS
  <2>1. k \in Nat \ {0} /\ l \in Nat
    BY <1>3 DEF Lives
  <2>2. PICK j \in Lives : j + 1 = l /\ Free(j)
    BY <1>1, <2>1
  <2>3. runs[j].pc # "none"
    BY <2>2 DEF Free, Ended
  <2>4. j \in Nat /\ (k = j \/ k < j)
    BY <2>1, <2>2 DEF Lives
  <2>5. QED
    BY <2>3, <2>4 DEF OriginsInv, InTurn
<1>13. InTurn'
  BY <1>8, <1>12, <1>6 DEF OriginsInv, InTurn
<1>14. RunsOK
  BY <1>8, <1>10, <1>11, <1>13 DEF RunsOK
<1>15. InsideInv'
  <2>1. CASE inside # {} /\ ~overlapped
    <3>1. PICK m \in Lives : Latest(m) /\ runs[m].pc = "paused"
      BY <2>1 DEF OriginsInv, InsideInv
    <3>2. m \in Nat /\ l \in Nat /\ m # 0 /\ m # l
      BY <1>1, <1>3, <3>1 DEF Lives
    <3>3. ~(l < m)
      BY <1>1, <3>1 DEF OriginsInv, InTurn
    <3>9. l # 1
      BY <3>2, <3>3
    <3>4. PICK j \in Lives : j + 1 = l /\ Free(j)
      BY <1>1, <3>9
    <3>5. origin = "langgraph" /\ runs[j].pc \in Ended
      BY <2>1, <3>4 DEF OriginsInv, InsideInv, Free
    <3>6. j \in Nat /\ m < j
      BY <3>1, <3>2, <3>3, <3>4, <3>5 DEF Lives, Ended
    <3>7. runs[j].pc = "none"
      BY <3>1, <3>6 DEF Latest
    <3>8. QED
      BY <3>5, <3>7 DEF Ended
  <2>2. QED
    BY <1>9, <2>1 DEF OriginsInv, InsideInv
<1>16. InsideOK
  BY <1>9, <1>15 DEF InsideOK
<1>17. QED
  BY <1>1, <1>9, <1>14, <1>16, BoxUnmoved, KanbanUnmoved, Assembled

\* The asking of the run: it waits, fails, asks again or is denied.
LEMMA AskPcs ==
  /\ Heard \in RunPcs \ {"none", "acted", "going"} /\ Unheard \in RunPcs \ {"none", "acted", "going"}
  BY DEF Heard, Unheard, RunPcs, Ended
LEMMA SameHolds ==
  ASSUME NEW p, NEW q, p # "going", NEW w, Holds(p, w)
  PROVE  Holds(q, w)
  BY DEF Holds
\* A run that goes on without acting.
LEMMA GoesOn ==
  ASSUME OriginsInv, UNCHANGED aside, BoxOK, KanbanOK,
         NEW l \in Lives, NEW p \in RunPcs \ {"none", "acted", "going"},
         runs[l].pc \notin {"none", "acted", "going"}, origin = "langgraph" => runs[l].pc # "paused",
         \/ Becomes(l, p, runs[l].item, runs[l].word, runs[l].acts)
         \/ Becomes(l, p, None, None, runs[l].acts) /\ p \in Ended
  PROVE  OriginsInv'
<1>1. /\ runs[l].acts \in Nat
      /\ runs[l].item # None => /\ runs[l].item \in Items /\ Made(runs[l].item)
                                /\ origin = "hermes" => items[runs[l].item].name = runs[l].name
      /\ Holds(runs[l].pc, runs[l].word) \/ runs[l].acts > 0 => HasYes(l)
      /\ origin = "temporal" \/ overlapped \/ runs[l].acts = 0
  BY RunHad
<1>2. Holds(p, runs[l].word) => HasYes(l)
  BY <1>1, SameHolds
<1>3. p \in Ended => ~Holds(p, None)
  <2>1. None \notin AcceptDecisions
    BY OriginsAssumption DEF AcceptDecisions, Answers
  <2>2. QED
    BY <2>1 DEF Holds, Ended
<1>4. CASE Becomes(l, p, runs[l].item, runs[l].word, runs[l].acts)
  BY <1>1, <1>2, <1>4, RunMoves
<1>5. CASE Becomes(l, p, None, None, runs[l].acts) /\ p \in Ended
  BY <1>1, <1>3, <1>5, RunMoves
<1>6. QED
  BY <1>4, <1>5
LEMMA FramesStay ==
  ASSUME OriginsInv, UNCHANGED aside
  PROVE  (box' = box => BoxOK) /\ (UNCHANGED kanban => KanbanOK)
  BY AsideStays, BoxUnmoved, KanbanUnmoved
LEMMA AskFailsKeeps ==
  ASSUME OriginsInv, NEW l \in Lives, AskFails(l)
  PROVE  OriginsInv'
<1>1. /\ runs[l].pc = "start" /\ runs' = [runs EXCEPT ![l].pc = Unheard] /\ UNCHANGED aside
      /\ box' = box /\ UNCHANGED kanban
  BY DEF AskFails, HearsNothing, aside, kanban
<1>2. Becomes(l, Unheard, runs[l].item, runs[l].word, runs[l].acts)
  BY <1>1, RunHad, AskPcs, NewPc
<1>3. QED
  BY <1>1, <1>2, FramesStay, AskPcs, GoesOn
LEMMA PauseKeeps ==
  ASSUME OriginsInv, NEW l \in Lives, Pause(l)
  PROVE  OriginsInv'
<1>1. /\ runs[l].pc = "asked" /\ runs' = [runs EXCEPT ![l].pc = "paused"] /\ UNCHANGED aside
      /\ box' = box /\ UNCHANGED kanban
  BY DEF Pause, aside, agent
<1>2. "paused" \in RunPcs \ {"none", "acted", "going"}
  BY DEF RunPcs
<1>3. Becomes(l, "paused", runs[l].item, runs[l].word, runs[l].acts)
  BY <1>1, <1>2, RunHad, NewPc
<1>4. QED
  BY <1>1, <1>2, <1>3, FramesStay, GoesOn
LEMMA TimesOutKeeps ==
  ASSUME OriginsInv, NEW l \in Lives, ConditionTimesOut(l)
  PROVE  OriginsInv'
<1>1. /\ runs[l].pc = "paused" /\ runs' = Over(l, "failed") /\ UNCHANGED aside /\ origin # "langgraph"
      /\ box' = box /\ UNCHANGED kanban
  BY DEF ConditionTimesOut, aside, agent
<1>2. "failed" \in RunPcs \ {"none", "acted", "going"} /\ "failed" \in Ended
  BY DEF RunPcs, Ended
<1>3. Becomes(l, "failed", None, None, runs[l].acts)
  BY <1>1, <1>2, RunHad, OverBecomes
<1>4. QED
  BY <1>1, <1>2, <1>3, FramesStay, GoesOn
LEMMA RefundKeeps ==
  ASSUME OriginsInv, NEW l \in Lives, RefundWorkflow(l)
  PROVE  OriginsInv'
<1>1. /\ runs[l].pc = "paused" /\ origin = "temporal" /\ UNCHANGED aside /\ runs[l].word # None
      /\ box' = box /\ UNCHANGED kanban
      /\ runs' = IF runs[l].word = "reject" THEN Over(l, "refused") ELSE Over(l, "going")
  BY DEF RefundWorkflow, aside, agent
<1>2. "refused" \in RunPcs \ {"none", "acted", "going"} /\ "refused" \in Ended /\ "going" \in RunPcs
  BY DEF RunPcs, Ended
<1>3. CASE runs[l].word = "reject"
  <2>1. Becomes(l, "refused", None, None, runs[l].acts)
    BY <1>1, <1>2, <1>3, RunHad, OverBecomes
  <2>2. QED
    BY <1>1, <1>2, <2>1, FramesStay, GoesOn
<1>4. CASE runs[l].word # "reject"
  <2>1. Becomes(l, "going", None, None, runs[l].acts)
    BY <1>1, <1>2, <1>4, RunHad, OverBecomes
  <2>2. HasYes(l) /\ runs[l].acts \in Nat
    BY <1>1, <1>4, RunHad DEF Holds
  <2>3. QED
    BY <1>1, <2>1, <2>2, FramesStay, RunMoves
<1>5. QED
  BY <1>3, <1>4
LEMMA IssueKeeps ==
  ASSUME OriginsInv, NEW l \in Lives, IssueRefund(l)
  PROVE  OriginsInv'
<1>1. PICK reported \in BOOLEAN :
        runs' = [runs EXCEPT ![l].acts = @ + 1, ![l].pc = IF reported THEN "acted" ELSE "going"]
  BY DEF IssueRefund
<1>2. /\ runs[l].pc = "going" /\ origin = "temporal" /\ UNCHANGED aside
      /\ box' = box /\ UNCHANGED kanban
  BY DEF IssueRefund, aside, agent
<1> DEFINE p == IF reported THEN "acted" ELSE "going"
<1>3. p \in RunPcs /\ p # "none" /\ runs' = [runs EXCEPT ![l].acts = @ + 1, ![l].pc = p]
  BY <1>1 DEF RunPcs, Ended
<1> HIDE DEF p
<1>4. Becomes(l, p, runs[l].item, runs[l].word, runs[l].acts + 1)
  BY <1>3, RunHad, NewPcActs
<1>5. HasYes(l) /\ runs[l].acts + 1 \in Nat
  BY <1>2, RunHad DEF Holds
<1>6. /\ runs[l].item # None => /\ runs[l].item \in Items /\ Made(runs[l].item)
                                /\ origin = "hermes" => items[runs[l].item].name = runs[l].name
  BY RunHad
<1>7. QED
  BY <1>2, <1>3, <1>4, <1>5, <1>6, FramesStay, RunMoves
LEMMA PresentKeeps ==
  ASSUME OriginsInv, NEW l \in Lives, Present(l)
  PROVE  OriginsInv'
<1>1. PICK a \in Mine(l) : box[a] # None /\ runs' = [runs EXCEPT ![l].pc = "going", ![l].word = box[a]]
  BY DEF Present
<1>2. /\ runs[l].pc = "paused" /\ origin = "hermes" /\ UNCHANGED aside
      /\ box' = box /\ UNCHANGED kanban
  BY DEF Present, aside, agent
<1>3. a \in Items /\ a = runs[l].item /\ a # None
  BY <1>1, OriginsAssumption DEF Mine
<1>4. box[a] \in RunWords /\ "going" \in RunPcs
  BY <1>3, OriginShape DEF OriginsInv, Shaped, RunPcs
<1>5. Becomes(l, "going", runs[l].item, box[a], runs[l].acts)
  BY <1>1, <1>4, RunHad, NewPcWord
<1>6. /\ Made(a) /\ items[a].name = runs[l].name /\ runs[l].acts \in Nat
      /\ overlapped \/ runs[l].acts = 0
  BY <1>2, <1>3, RunHad
<1>7. Holds("going", box[a]) => HasYes(l)
  <2>1. Holds("going", box[a]) => items[a].yes
    BY <1>2, <1>3 DEF OriginsInv, BoxInv, Holds
  <2>2. ApprovalOf(a, l)
    BY <1>2, <1>3, <1>6 DEF OriginsInv, ApprovalInv, ApprovalOf
  <2>3. QED
    BY <1>3, <2>1, <2>2 DEF HasYes
<1>8. runs[l].acts > 0 => HasYes(l)
  BY RunHad
<1>9. QED
  BY <1>2, <1>3, <1>5, <1>6, <1>7, <1>8, FramesStay, RunMoves
LEMMA RespondKeeps ==
  ASSUME OriginsInv, NEW l \in Lives, Respond(l) \/ PresentTimesOut(l)
  PROVE  OriginsInv'
<1>1. /\ runs[l].pc \in {"paused", "going"} /\ origin = "hermes" /\ UNCHANGED aside /\ Removed(l)
      /\ UNCHANGED kanban
  BY DEF Respond, PresentTimesOut, aside
<1>2. (Ends(l, TRUE) /\ runs[l].word \in AcceptDecisions) \/ Ends(l, FALSE)
  BY DEF Respond, PresentTimesOut, Ends
<1>3. runs[l].word \in AcceptDecisions => HasYes(l)
  BY <1>1, RunHad DEF Holds
<1>4. /\ ShellOK /\ Grows /\ CallsOK /\ origin' = origin /\ overlapped' \in BOOLEAN
      /\ inside' = inside /\ overlapped' = overlapped
  BY <1>1, AsideStays
<1>5. BoxOK
  <2>1. box \in [Items -> RunWords] /\ None \in RunWords
    BY OriginShape DEF OriginsInv, Shaped, RunWords
  <2>2. box' \in [Items -> RunWords] /\ \A a \in Items : box'[a] \in {None, box[a]}
    BY <1>1, <2>1 DEF Removed
  <2>3. QED
    BY <1>4, <2>2, BoxStays
<1>6. KanbanOK /\ InsideOK
  BY <1>1, <1>4, FramesStay, NobodyInside
<1>7. QED
  BY <1>1, <1>2, <1>3, <1>4, <1>5, <1>6, EndKeeps

-----------------------------------------------------------------------------
(* The decisions, and the calls that arrive                                    *)

LEMMA SetStatus ==
  ASSUME OriginsInv, origin' = origin, NEW a \in Items, Made(a), NEW s \in Statuses, s # "none",
         items' = [items EXCEPT ![a].status = s]
  PROVE  Grows
<1> DEFINE q == [items[a] EXCEPT !.status = s]
<1>1. items \in [Items -> Approval] /\ items[a] \in Approval
  BY OriginShape DEF OriginsInv, Shaped
<1>2. /\ q \in Approval /\ q.status = s /\ q.life = items[a].life /\ q.name = items[a].name
      /\ q.yes = items[a].yes /\ q.allowed = items[a].allowed
  BY <1>1, ApprovalShape
<1>3. items' = [items EXCEPT ![a] = q]
  BY Zenon
<1> HIDE DEF q
<1>4. items' \in [Items -> Approval] /\ items'[a] = q /\ \A b \in Items : b # a => items'[b] = items[b]
  BY <1>1, <1>2, <1>3
<1>5. \A b \in Items : ApprovalInv(b)
  BY DEF OriginsInv
<1>6. \A b \in Items : ApprovalInv(b)'
  BY <1>2, <1>4, <1>5 DEF ApprovalInv, Made
<1>7. QED
  BY <1>2, <1>4, <1>6 DEF Grows, Made
LEMMA ReplyKeeps ==
  ASSUME OriginsInv, origin' = origin, NEW c \in calls, NEW ok \in BOOLEAN, Reply(c, ok)
  PROVE  Grows /\ CallsOK /\ calls' = calls \ {c}
<1>1. c.item \in Items /\ Made(c.item) /\ calls' = calls \ {c}
  BY OriginShape DEF OriginsInv, Shaped, Calls, Sent, Reply
<1>2. PICK s \in {"decided", "failed_resume"} :
        items' = items \/ items' = [items EXCEPT ![c.item].status = s]
  BY DEF Reply
<1>3. s \in Statuses /\ s # "none"
  BY DEF Statuses
<1>4. Grows
  BY <1>1, <1>2, <1>3, SetStatus, ItemsStay
<1>5. QED
  BY <1>1, <1>4, CallsStay
LEMMA CallYes ==
  ASSUME OriginsInv, NEW c \in calls, MeansYes(c.word), NEW l \in Lives,
         origin \in {"langgraph", "temporal"} \/ l = RunOf(c), origin # "hermes"
  PROVE  HasYes(l)
<1>1. c.item \in Items /\ Made(c.item) /\ items[c.item].yes
  BY OriginShape DEF OriginsInv, Shaped, Calls, Sent
<1>2. ApprovalOf(c.item, l)
  BY <1>1 DEF OriginsInv, ApprovalInv, ApprovalOf, RunOf
<1>3. QED
  BY <1>1, <1>2 DEF HasYes

\* A call is taken by a run that waits, or is refused.
LEMMA TakenKeeps ==
  ASSUME OriginsInv, NEW c \in calls, NEW l \in Lives,
         MastraResumed(c, l) \/ HttpResumed(c, l) \/ GatewayDecided(c, l)
  PROVE  OriginsInv'
<1>1. /\ origin \in {"mastra", "http", "openshell"} /\ l = RunOf(c) /\ UNCHANGED <<origin, agent, secrets>>
  BY DEF MastraResumed, HttpResumed, GatewayDecided
<1>2. \E ok \in BOOLEAN : Reply(c, ok)
  BY DEF MastraResumed, HttpResumed, GatewayDecided
<1>3. /\ origin' = origin /\ secrets' = secrets /\ process' = process /\ box' = box
      /\ inside' = inside /\ overlapped' = overlapped /\ UNCHANGED kanban
  BY <1>1 DEF agent
<1>4. Grows /\ CallsOK /\ calls' = calls \ {c}
  BY <1>2, <1>3, ReplyKeeps
<1>5. ShellOK /\ BoxOK /\ KanbanOK /\ InsideOK /\ overlapped' \in BOOLEAN
  BY <1>1, <1>3, <1>4, ShellStays, BoxUnmoved, KanbanUnmoved, NobodyInside DEF InsideOK
<1>6. CASE runs' = runs
  <2>1. RunsOK
    BY <1>3, <1>4, <1>5, <1>6, RunsStay
  <2>2. QED
    BY <1>4, <1>5, <2>1, Assembled
<1>7. CASE runs' = Over(l, "failed") /\ runs[l].pc = "paused"
  <2>1. "failed" \in RunPcs
    BY DEF RunPcs, Ended
  <2>2. Becomes(l, "failed", None, None, runs[l].acts) /\ runs[l].acts \in Nat
    BY <1>7, <2>1, RunHad, OverBecomes
  <2>3. (runs[l].acts > 0 => HasYes(l)) /\ (origin = "temporal" \/ overlapped \/ runs[l].acts = 0)
    BY <1>7, RunHad
  <2>4. RunsOK
    BY <1>3, <1>4, <1>5, <1>7, <2>2, <2>3, NoneHolds, BecomesKeeps
  <2>5. QED
    BY <1>4, <1>5, <2>4, Assembled
<1>8. CASE /\ runs[l].pc \in {"start", "paused"}
           /\ (Ends(l, TRUE) /\ MeansYes(c.word)) \/ Ends(l, FALSE)
  <2>1. CASE Ends(l, TRUE) /\ MeansYes(c.word)
    <3>1. HasYes(l)
      BY <1>1, <2>1, CallYes
    <3>2. QED
      BY <1>3, <1>4, <1>5, <1>8, <2>1, <3>1, EndKeeps
  <2>2. CASE Ends(l, FALSE)
    BY <1>3, <1>4, <1>5, <1>8, <2>2, EndKeeps
  <2>3. QED
    BY <1>8, <2>1, <2>2
<1>9. CASE MastraResumed(c, l)
  BY <1>6, <1>7, <1>8, <1>9 DEF MastraResumed, MeansYes, Ends
<1>10. CASE HttpResumed(c, l)
  BY <1>6, <1>8, <1>10 DEF HttpResumed, MeansYes, Ends
<1>11. CASE GatewayDecided(c, l)
  BY <1>6, <1>8, <1>11 DEF GatewayDecided, MeansYes, Ends
<1>12. QED
  BY <1>9, <1>10, <1>11

\* A call goes into the thread, beside others or alone, or finds none.
LEMMA EnterKeeps ==
  ASSUME OriginsInv, NEW c \in calls, NEW l \in Lives, LanggraphResumed(c, l)
  PROVE  OriginsInv'
<1>1. /\ origin = "langgraph" /\ c \notin inside /\ Latest(l) /\ origin' = origin /\ runs' = runs
      /\ box' = box /\ UNCHANGED kanban /\ process' = process /\ secrets' = secrets
  BY DEF LanggraphResumed
<1>2. overlapped \in BOOLEAN /\ inside \subseteq calls
  BY OriginShape DEF OriginsInv, Shaped
<1>3. ShellOK
  BY <1>1, ShellStays
<1>4. CASE /\ ThreadIsPaused(l) /\ inside' = inside \cup {c} /\ overlapped' = (overlapped \/ inside # {})
           /\ UNCHANGED <<items, calls>>
  <2>1. Grows /\ CallsOK
    BY <1>1, <1>4, ItemsStay, CallsStay
  <2>2. BoxOK /\ KanbanOK
    BY <1>1, <2>1, BoxUnmoved, KanbanUnmoved
  <2>3. Latest(l)' /\ runs'[l].pc = "paused"
    BY <1>1, <1>4 DEF Latest, ThreadIsPaused
  <2>4. ~overlapped' => inside' = {c}
    BY <1>4
  <2>5. InsideInv'
    BY <1>1, <2>3, <2>4 DEF InsideInv
  <2>6. InsideOK /\ (overlapped => overlapped') /\ overlapped' \in BOOLEAN
    BY <1>2, <1>4, <2>5 DEF InsideOK
  <2>7. RunsOK
    BY <1>1, <2>1, <2>6, RunsStay
  <2>8. QED
    BY <1>3, <2>1, <2>2, <2>6, <2>7, Assembled
<1>5. CASE (\E ok \in BOOLEAN : Reply(c, ok)) /\ UNCHANGED <<inside, overlapped>>
  <2>1. Grows /\ CallsOK /\ calls' = calls \ {c}
    BY <1>1, <1>5, ReplyKeeps
  <2>2. BoxOK /\ KanbanOK
    BY <1>1, <2>1, BoxUnmoved, KanbanUnmoved
  <2>3. InsideOK
    BY <1>1, <1>2, <1>5, <2>1, InsideStays
  <2>4. RunsOK
    BY <1>1, <1>2, <1>5, <2>1, RunsStay
  <2>5. QED
    BY <1>3, <2>1, <2>2, <2>3, <2>4, Assembled
<1>6. QED
  BY <1>4, <1>5 DEF LanggraphResumed, ThreadNotFound
\* A call that is alone in the thread finds it at its interrupt.
LEMMA GraphKeeps ==
  ASSUME OriginsInv, NEW c \in calls, NEW l \in Lives, GraphResumes(c, l)
  PROVE  OriginsInv'
<1>1. /\ c \in inside /\ Latest(l) /\ origin' = origin /\ inside' = inside \ {c}
      /\ overlapped' = overlapped /\ Reply(c, TRUE)
      /\ box' = box /\ UNCHANGED kanban /\ process' = process /\ secrets' = secrets
  BY DEF GraphResumes
<1>2. overlapped \in BOOLEAN /\ inside \subseteq calls /\ origin = "langgraph"
  BY <1>1, OriginShape DEF OriginsInv, Shaped, InsideInv
<1>3. Grows /\ CallsOK /\ calls' = calls \ {c}
  BY <1>1, ReplyKeeps
<1>4. ShellOK /\ BoxOK /\ KanbanOK
  BY <1>1, <1>3, ShellStays, BoxUnmoved, KanbanUnmoved
<1>5. ~overlapped => inside' = {}
  BY <1>1 DEF OriginsInv, InsideInv
<1>6. InsideOK
  BY <1>1, <1>2, <1>3, <1>5 DEF InsideOK, InsideInv
<1>7. runs[l].pc # "none" /\ (runs[l].pc # "acted" \/ overlapped)
  <2>1. CASE ~overlapped
    <3>1. PICK m \in Lives : Latest(m) /\ runs[m].pc = "paused"
      BY <1>1, <2>1 DEF OriginsInv, InsideInv
    <3>2. m \in Nat /\ l \in Nat
      BY DEF Lives
    <3>3. m = l
      BY <1>1, <3>1, <3>2 DEF Latest
    <3>4. QED
      BY <3>1, <3>3
  <2>2. QED
    BY <1>1, <2>1 DEF Latest
<1>8. (Ends(l, TRUE) /\ Approves(c.word)) \/ Ends(l, FALSE)
  BY DEF GraphResumes, Ends
<1>9. Approves(c.word) => HasYes(l)
  BY <1>2, CallYes DEF MeansYes
<1>10. QED
  BY <1>1, <1>3, <1>4, <1>6, <1>7, <1>8, <1>9, EndKeeps
LEMMA SignalKeeps ==
  ASSUME OriginsInv, NEW c \in calls, NEW l \in Lives, TemporalSignalled(c, l)
  PROVE  OriginsInv'
<1>1. /\ origin = "temporal" /\ Latest(l) /\ origin' = origin /\ (\E ok \in BOOLEAN : Reply(c, ok))
      /\ box' = box /\ UNCHANGED kanban /\ process' = process /\ secrets' = secrets
      /\ inside' = inside /\ overlapped' = overlapped
      /\ runs' = runs \/ runs' = [runs EXCEPT ![l].word = c.word]
      /\ runs[l].pc = "going" => runs' = runs
      /\ runs[l].pc \in Ended => runs' = runs
  BY DEF TemporalSignalled, agent
<1>2. Grows /\ CallsOK /\ calls' = calls \ {c}
  BY <1>1, ReplyKeeps
<1>3. ShellOK /\ BoxOK /\ KanbanOK /\ InsideOK /\ overlapped' \in BOOLEAN
  BY <1>1, <1>2, ShellStays, BoxUnmoved, KanbanUnmoved, NobodyInside DEF InsideOK
<1>4. CASE runs' = runs
  BY <1>1, <1>2, <1>3, <1>4, RunsStay, Assembled
<1>5. CASE runs' = [runs EXCEPT ![l].word = c.word] /\ runs[l].pc \notin Ended \cup {"going"}
  <2>1. c.word \in RunWords
    BY OriginShape DEF OriginsInv, Shaped, Calls, RunWords
  <2>2. Becomes(l, runs[l].pc, runs[l].item, c.word, runs[l].acts) /\ runs[l].acts \in Nat
    BY <1>5, <2>1, RunHad, NewWord
  <2>3. Holds(runs[l].pc, c.word) => MeansYes(c.word)
    BY <1>1, <1>5 DEF Holds, MeansYes
  <2>4. MeansYes(c.word) => HasYes(l)
    BY <1>1, CallYes
  <2>5. runs[l].acts > 0 => HasYes(l)
    BY RunHad
  <2>6. runs[l].item # None => runs[l].item \in Items /\ items'[runs[l].item].status # "none"
    BY <1>2, RunHad DEF Grows, Made
  <2>7. runs[l].pc # "none"
    BY <1>1 DEF Latest
  <2>8. origin = "temporal" \/ overlapped \/ runs[l].acts = (IF runs[l].pc = "acted" THEN 1 ELSE 0)
    BY <1>1
  <2>10. RunsOK
    BY <1>1, <1>2, <1>3, <2>2, <2>3, <2>4, <2>5, <2>6, <2>7, <2>8, BecomesKeeps DEF Made
  <2>9. QED
    BY <1>2, <1>3, <2>10, Assembled
<1>6. QED
  BY <1>1, <1>4, <1>5
LEMMA HermesKeeps ==
  ASSUME OriginsInv, NEW c \in calls, HermesCalled(c)
  PROVE  OriginsInv'
<1>1. /\ origin \in {"hermes", "kanban"} /\ origin' = origin /\ (\E ok \in BOOLEAN : Reply(c, ok))
      /\ UNCHANGED kanban /\ process' = process /\ secrets' = secrets /\ runs' = runs
      /\ inside' = inside /\ overlapped' = overlapped
      /\ box' = box \/ box' = [box EXCEPT ![c.item] = c.word]
  BY DEF HermesCalled
<1>2. Grows /\ CallsOK /\ calls' = calls \ {c}
  BY <1>1, ReplyKeeps
<1>3. ShellOK /\ KanbanOK /\ InsideOK /\ overlapped' \in BOOLEAN
  BY <1>1, <1>2, ShellStays, KanbanUnmoved, NobodyInside DEF InsideOK
<1>4. RunsOK
  BY <1>1, <1>2, <1>3, RunsStay
<1>5. CASE box' = box
  BY <1>1, <1>2, <1>3, <1>4, <1>5, BoxUnmoved, Assembled
<1>6. CASE box' = [box EXCEPT ![c.item] = c.word]
  <2>1. c.item \in Items /\ c.word \in RunWords /\ Sent(c) /\ box \in [Items -> RunWords]
    BY OriginShape DEF OriginsInv, Shaped, Calls, RunWords
  <2>2. /\ box' \in [Items -> RunWords] /\ box'[c.item] = c.word
        /\ \A a \in Items : a # c.item => box'[a] = box[a]
    BY <1>6, <2>1
  <2>3. c.word \in AcceptDecisions => items'[c.item].yes
    BY <1>1, <1>2, <2>1 DEF Sent, MeansYes, Grows
  <2>4. ASSUME NEW a \in Items PROVE BoxInv(a)'
    <3>1. CASE a = c.item
      BY <2>2, <2>3, <3>1 DEF BoxInv, AcceptDecisions
    <3>2. CASE a # c.item
      BY <1>1, <1>2, <2>2, <3>2 DEF BoxInv, AcceptDecisions, OriginsInv, ApprovalInv, Grows
    <3>3. QED
      BY <3>1, <3>2
  <2>5. BoxOK
    BY <2>2, <2>4 DEF BoxOK
  <2>6. QED
    BY <1>2, <1>3, <1>4, <2>5, Assembled
<1>7. QED
  BY <1>1, <1>5, <1>6
\* Steps that touch the approvals and the calls only.
LEMMA OutsideKeeps ==
  ASSUME OriginsInv, Grows, CallsOK, UNCHANGED <<origin, runs, agent, secrets>>, inside \subseteq calls'
  PROVE  OriginsInv'
<1>1. /\ origin' = origin /\ runs' = runs /\ box' = box /\ UNCHANGED kanban /\ process' = process
      /\ secrets' = secrets /\ inside' = inside /\ overlapped' = overlapped
  BY DEF agent
<1>2. overlapped \in BOOLEAN
  BY OriginShape DEF OriginsInv, Shaped
<1>3. ShellOK /\ BoxOK /\ KanbanOK /\ InsideOK
  BY <1>1, ShellStays, BoxUnmoved, KanbanUnmoved, InsideStays
<1>4. RunsOK
  BY <1>1, <1>2, RunsStay
<1>5. QED
  BY <1>3, <1>4, Assembled
LEMMA LoseKeeps ==
  ASSUME OriginsInv, NEW c \in calls, Lose(c)
  PROVE  OriginsInv'
<1>1. /\ c \notin inside /\ calls' = calls \ {c} /\ items' = items /\ origin' = origin
      /\ UNCHANGED <<origin, runs, agent, secrets>>
  BY DEF Lose
<1>2. inside \subseteq calls' /\ Grows
  BY <1>1, OriginShape, ItemsStay DEF OriginsInv, Shaped
<1>3. CallsOK
  BY <1>1, <1>2, CallsStay
<1>4. QED
  BY <1>1, <1>2, <1>3, OutsideKeeps
LEMMA GiveUpKeeps ==
  ASSUME OriginsInv, NEW a \in Items, GiveUp(a)
  PROVE  OriginsInv'
<1>1. /\ Made(a) /\ items' = [items EXCEPT ![a].status = "failed_resume"] /\ calls' = calls
      /\ origin' = origin /\ UNCHANGED <<origin, runs, agent, secrets>>
  BY DEF GiveUp, Made
<1>2. "failed_resume" \in Statuses
  BY DEF Statuses
<1>3. Grows
  BY <1>1, <1>2, SetStatus
<1>4. inside \subseteq calls'
  BY <1>1, OriginShape DEF OriginsInv, Shaped
<1>5. QED
  BY <1>1, <1>3, <1>4, CallsStay, OutsideKeeps

\* A yes is what the other end takes for one, of the answers a plugin lets through.
LEMMA WordMeans ==
  ASSUME OriginsInv, NEW a \in Items, NEW d \in Answers, d \in items[a].allowed, d # "ignore",
         MeansYes(Word(d))
  PROVE  d \in Assent
<1>1. origin \in {"temporal", "hermes"} => d \in {"accept", "reject"}
  BY DEF OriginsInv, ApprovalInv
<1>2. QED
  BY <1>1 DEF MeansYes, Word, Assent, DecisionResumeData, HumanResponse, Approves, AcceptDecisions, Answers
LEMMA DecideKeeps ==
  ASSUME OriginsInv, NEW a \in Items, NEW d \in Answers, Decide(a, d)
  PROVE  OriginsInv'
<1> DEFINE sends == d # "ignore" /\ Sends(a, d)
           s == CASE d = "ignore" -> "ignored" [] sends -> "resuming" [] OTHER -> "failed_resume"
           c == [item |-> a, try |-> items[a].try + 1, word |-> Word(d), secret |-> secrets.hitly]
           y == items[a].yes \/ d \in Assent
           n == items[a].try + 1
           q == [items[a] EXCEPT !.yes = y, !.try = n, !.status = s]
<1>1. /\ Made(a) /\ d \in items[a].allowed /\ items[a].try < MaxTries
      /\ items' = [items EXCEPT ![a].yes = @ \/ d \in Assent, ![a].try = @ + 1, ![a].status = s]
      /\ calls' = (IF sends THEN calls \cup {c} ELSE calls)
      /\ origin' = origin /\ UNCHANGED <<origin, runs, agent, secrets>>
  <2>1. items[a].try < MaxTries
    BY OriginsAssumption, OriginShape, ApprovalShape DEF Decide, OriginsInv, Shaped, TryCounts
  <2>2. QED
    BY <2>1 DEF Decide, Made
<1>2. items \in [Items -> Approval] /\ items[a] \in Approval /\ calls \subseteq Calls /\ inside \subseteq calls
  BY OriginShape DEF OriginsInv, Shaped
<1>3. s \in Statuses /\ s # "none" /\ y \in Flags
  BY DEF Statuses, Flags
<1>4. n \in TryCounts /\ n \in 1..MaxTries
  BY <1>1, <1>2, OriginsAssumption, ApprovalShape DEF TryCounts
<1>5. items' = [items EXCEPT ![a] = q]
  BY <1>1, <1>2, ApprovalShape
<1>6. ApprovalInv(a) /\ \A b \in Items : ApprovalInv(b)
  BY DEF OriginsInv
<1>7. c \in Calls /\ c.item = a /\ c.word = Word(d)
  <2>1. Word(d) \in Words
    BY DEF Word, DecisionResumeData, HumanResponse, Words, Answers
  <2>2. secrets.hitly \in 0..MaxRotations
    BY OriginShape DEF OriginsInv, Shaped, SecretPairs
  <2>3. QED
    BY <1>4, <2>1, <2>2 DEF Calls
<1>8. MeansYes(Word(d)) /\ sends => y
  BY <1>1, WordMeans
<1>9. calls' \subseteq calls \cup {c} /\ (c \in calls' => c \in calls \/ sends) /\ calls \subseteq calls'
  BY <1>1
<1> HIDE DEF sends, s, c, y, n
<1>10. /\ q \in Approval /\ q.status = s /\ q.life = items[a].life /\ q.name = items[a].name
       /\ q.yes = y /\ q.allowed = items[a].allowed
  BY <1>2, <1>3, <1>4, ApprovalShape
<1> HIDE DEF q
<1>11. items' \in [Items -> Approval] /\ items'[a] = q /\ \A b \in Items : b # a => items'[b] = items[b]
  BY <1>2, <1>5, <1>10
<1>12. items[a].yes => y
  BY DEF y
<1>13. \A b \in Items : ApprovalInv(b)'
  BY <1>1, <1>3, <1>6, <1>10, <1>11 DEF ApprovalInv, Made
<1>14. Grows
  BY <1>3, <1>10, <1>11, <1>12, <1>13 DEF Grows, Made
<1>15. ASSUME NEW e \in calls' PROVE Sent(e)'
  <2>1. CASE e \in calls
    <3>1. e.item \in Items /\ Sent(e)
      BY <1>2, <2>1 DEF Calls, OriginsInv
    <3>2. QED
      BY <1>1, <1>14, <3>1, SameWords DEF Sent, Grows
  <2>2. CASE e \notin calls
    <3>1. e = c /\ sends
      BY <1>9, <2>2
    <3>2. Made(a)'
      BY <1>3, <1>10, <1>11 DEF Made
    <3>3. MeansYes(Word(d))' <=> MeansYes(Word(d))
      BY <1>1 DEF MeansYes, Word, DecisionResumeData, HumanResponse, Approves, AcceptDecisions
    <3>4. MeansYes(Word(d)) => items'[a].yes
      BY <1>8, <1>10, <1>11, <3>1
    <3>5. MeansYes(e.word)' => MeansYes(Word(d))
      BY <1>1, <1>7, <3>1, SameWords
    <3>6. QED
      BY <1>7, <3>1, <3>2, <3>4, <3>5 DEF Sent
  <2>3. QED
    BY <2>1, <2>2
<1>16. calls' \subseteq Calls
  BY <1>2, <1>7, <1>9
<1>17. CallsOK /\ inside \subseteq calls'
  BY <1>2, <1>9, <1>15, <1>16 DEF CallsOK
<1>18. QED
  BY <1>1, <1>14, <1>17, OutsideKeeps

-----------------------------------------------------------------------------
(* The asks that are taken                                                     *)

\* A plugin lets known answers through; temporal and hermes those two only.
LEMMA IngestAllows ==
  ASSUME NEW b \in Bodies
  PROVE  /\ Ingest(b) \in AnswerSets
         /\ origin \in {"temporal", "hermes"} => Ingest(b) \subseteq {"accept", "reject"}
<1>1. b.asks \subseteq Answers /\ b.asks \in AnswerSets
  BY DEF Bodies, AnswerSets
<1>2. \A s \in AnswerSets : Asked(b, s) \in AnswerSets
  BY <1>1 DEF Asked
<1>3. /\ {} \in AnswerSets /\ {"accept", "reject", "edit"} \in AnswerSets /\ {"accept", "ignore"} \in AnswerSets
      /\ {"accept", "reject"} \in AnswerSets /\ {"accept", "reject", "respond"} \in AnswerSets
  BY DEF AnswerSets, Answers
<1>4. IngestMastra(b) \in AnswerSets /\ IngestHttp(b) \in AnswerSets /\ IngestOpenshell(b) \in AnswerSets
  BY <1>2, <1>3 DEF IngestMastra, IngestHttp, IngestOpenshell
<1>5. IngestTemporal(b) \in AnswerSets /\ IngestHermes(b) \in AnswerSets
  BY <1>3 DEF IngestTemporal, IngestHermes
<1>6. IngestLanggraph(b) \in AnswerSets
  <2> DEFINE asked == Asked(b, {"accept", "ignore"})
  <2>1. asked \in AnswerSets
    BY <1>2, <1>3
  <2>2. IngestLanggraph(b) = IF ~b.run THEN {}
                             ELSE (asked \ {"reject"}) \cup (IF "ignore" \in asked THEN {"reject"} ELSE {})
    BY DEF IngestLanggraph
  <2> HIDE DEF asked
  <2>3. QED
    BY <2>1, <2>2 DEF AnswerSets, Answers
<1>7. Ingest(b) \in AnswerSets
  BY <1>4, <1>5, <1>6 DEF Ingest
<1>8. origin \in {"temporal", "hermes"} => Ingest(b) \subseteq {"accept", "reject"}
  BY DEF Ingest, IngestTemporal, IngestHermes
<1>9. QED
  BY <1>7, <1>8
\* The run that asked hears of its approval or not, and the hook of a card goes on.
LEMMA AskedKeeps ==
  ASSUME OriginsInv, Grows, NEW l \in Lives, NEW a \in Items, runs[l].pc = "start",
         items'[a].status # "none", origin = "hermes" => items'[a].name = runs[l].name,
         Hears(l, a) \/ HearsNothing(l),
         UNCHANGED <<origin, calls, inside, overlapped, box, cards, poller, process, secrets>>
  PROVE  OriginsInv'
<1>1. /\ origin' = origin /\ calls' = calls /\ inside' = inside /\ overlapped' = overlapped /\ box' = box
      /\ cards' = cards /\ poller' = poller /\ process' = process /\ secrets' = secrets
  OBVIOUS
<1>2. /\ overlapped \in BOOLEAN /\ inside \subseteq calls /\ cards \subseteq Items /\ hook \in HookStates
  BY OriginShape DEF OriginsInv, Shaped
<1>3. hook' \in HookStates
  BY <1>2 DEF Hears, HearsNothing, NoHook, HookStates, CardFiles
<1>4. ShellOK /\ CallsOK /\ BoxOK /\ KanbanOK
  BY <1>1, <1>2, <1>3, ShellStays, CallsStay, BoxUnmoved, KanbanStays
<1>5. /\ runs[l].acts \in Nat
      /\ runs[l].item # None => /\ runs[l].item \in Items /\ Made(runs[l].item)
                                /\ origin = "hermes" => items[runs[l].item].name = runs[l].name
      /\ Holds(runs[l].pc, runs[l].word) \/ runs[l].acts > 0 => HasYes(l)
      /\ origin = "temporal" \/ overlapped \/ runs[l].acts = 0
  BY RunHad
<1>6. \A p \in {Heard, Unheard} : Holds(p, runs[l].word) => HasYes(l)
  BY <1>5, AskPcs, SameHolds
<1>7. CASE Hears(l, a)
  <2>1. Becomes(l, Heard, a, runs[l].word, runs[l].acts)
    BY <1>7, RunHad, AskPcs, NewPcItem DEF Hears, RunItems
  <2>2. RunsOK
    BY <1>1, <1>2, <1>5, <1>6, <2>1, AskPcs, BecomesKeeps DEF Made
  <2>3. InsideOK
    BY <1>1, <1>2, <2>1, AskPcs, InsideStays DEF Becomes
  <2>4. QED
    BY <1>4, <2>2, <2>3, Assembled
<1>8. CASE HearsNothing(l)
  <2>1. Becomes(l, Unheard, runs[l].item, runs[l].word, runs[l].acts)
    BY <1>8, RunHad, AskPcs, NewPc DEF HearsNothing
  <2>2. runs[l].item # None => /\ runs[l].item \in Items /\ items'[runs[l].item].status # "none"
                               /\ origin = "hermes" => items'[runs[l].item].name = runs[l].name
    BY <1>5 DEF Grows, Made
  <2>3. RunsOK
    BY <1>1, <1>2, <1>5, <1>6, <2>1, <2>2, AskPcs, BecomesKeeps DEF Made
  <2>4. InsideOK
    BY <1>1, <1>2, <2>1, AskPcs, InsideStays DEF Becomes
  <2>5. QED
    BY <1>4, <2>3, <2>4, Assembled
<1>9. QED
  BY <1>7, <1>8
LEMMA FoundKeeps ==
  ASSUME OriginsInv, NEW l \in Lives, NEW a \in Items, AskFound(l, a)
  PROVE  OriginsInv'
<1>1. /\ runs[l].pc = "start" /\ a \in Found(l) /\ (Hears(l, a) \/ HearsNothing(l)) /\ items' = items
      /\ UNCHANGED <<origin, calls, inside, overlapped, box, cards, poller, process, secrets>>
  BY DEF AskFound, Asks
<1>2. Open(a) /\ items[a].name = runs[l].name
  BY <1>1 DEF Found
<1>3. items'[a].status # "none" /\ items'[a].name = runs[l].name
  BY <1>1, <1>2 DEF Open
<1>4. Grows
  BY <1>1, ItemsStay
<1>5. QED
  BY <1>1, <1>3, <1>4, AskedKeeps
LEMMA TakenAskKeeps ==
  ASSUME OriginsInv, NEW l \in Lives, AskTaken(l)
  PROVE  OriginsInv'
<1>0. PICK a : a = CHOOSE x \in New : TRUE
  OBVIOUS
<1>1. /\ runs[l].pc = "start" /\ New # {} /\ (Hears(l, a) \/ HearsNothing(l))
      /\ UNCHANGED <<origin, calls, inside, overlapped, box, cards, poller, process, secrets>>
  BY <1>0 DEF AskTaken, Asks
<1>2. PICK b \in Bodies :
        items' = [items EXCEPT ![a] =
          [status |-> "pending", life |-> l, name |-> runs[l].name, process |-> process,
           url |-> b.url, allowed |-> Ingest(b), yes |-> FALSE, try |-> 0]]
  BY <1>0 DEF AskTaken
<1>3. a \in New
  BY <1>0, <1>1
<1>4. a \in Items /\ ~Made(a)
  BY <1>3 DEF New, Made
<1> DEFINE q == [status |-> "pending", life |-> l, name |-> runs[l].name, process |-> process,
                 url |-> b.url, allowed |-> Ingest(b), yes |-> FALSE, try |-> 0]
<1>5. q \in Approval
  <2>1. runs[l].name \in RunNames /\ process \in Nat /\ l \in RunNames
    BY OriginShape, RunParts, OriginsAssumption DEF OriginsInv, Shaped, RunNames, Lives
  <2>2. "pending" \in Statuses /\ b.url \in Flags /\ FALSE \in Flags /\ 0 \in TryCounts
    BY OriginsAssumption DEF Statuses, Bodies, Flags, TryCounts
  <2>3. QED
    BY <2>1, <2>2, IngestAllows, ApprovalShape
<1>6. /\ q.status = "pending" /\ q.life = l /\ q.name = runs[l].name /\ q.allowed = Ingest(b) /\ q.yes = FALSE
      /\ items' = [items EXCEPT ![a] = q]
  BY <1>2
<1> HIDE DEF q
<1>7. items' \in [Items -> Approval] /\ items'[a] = q /\ \A x \in Items : x # a => items'[x] = items[x]
  BY <1>4, <1>5, <1>6, OriginShape DEF OriginsInv, Shaped
<1>8. origin' = origin
  BY <1>1
<1>9. l # 0
  BY DEF Lives
<1>10. ApprovalInv(a)'
  <2>1. (origin \in {"temporal", "hermes"}) => Ingest(b) \subseteq {"accept", "reject"}
    BY IngestAllows
  <2>2. items'[a].life # 0 /\ items'[a].yes = FALSE /\ items'[a].allowed = Ingest(b)
    BY <1>6, <1>7, <1>9
  <2> SUFFICES /\ items'[a].life # 0 /\ ~items'[a].yes
               /\ origin' \in {"temporal", "hermes"} => items'[a].allowed \subseteq {"accept", "reject"}
    BY <1>4 DEF ApprovalInv
  <2>3. QED
    BY <1>8, <2>1, <2>2
<1>11. Grows
  BY <1>4, <1>7, <1>8, <1>10 DEF OriginsInv, ApprovalInv, Grows, Made
<1>12. items'[a].status # "none" /\ items'[a].name = runs[l].name
  BY <1>6, <1>7
<1>13. QED
  BY <1>1, <1>4, <1>11, <1>12, AskedKeeps

-----------------------------------------------------------------------------
(* The file of cards, and restarts                                             *)

\* What leaves the runs alone too.
LEMMA RunsAside ==
  ASSUME OriginsInv, UNCHANGED aside, runs' = runs, BoxOK, KanbanOK
  PROVE  OriginsInv'
<1>1. /\ ShellOK /\ Grows /\ CallsOK /\ origin' = origin /\ overlapped' \in BOOLEAN
      /\ inside' = inside /\ overlapped' = overlapped /\ inside \subseteq calls'
  BY AsideStays
<1>2. RunsOK
  BY <1>1, RunsStay
<1>3. InsideOK
  BY <1>1, InsideStays
<1>4. QED
  BY <1>1, <1>2, <1>3, Assembled
LEMMA OnWithTyped ==
  ASSUME NEW left, left \subseteq Items
  PROVE  OnWith(left) \in PollStates /\ OnWith(left).pc = "idle"
  BY DEF OnWith, NoPoll, PollStates, CardFiles, RunItems
LEMMA PollerMoves ==
  ASSUME OriginsInv, UNCHANGED aside, origin = "kanban", cards' \subseteq Items, hook' = hook,
         poller' \in PollStates, poller'.pc = "unblock" => SomeYes
  PROVE  KanbanOK
<1>1. SomeYes => SomeYes'
  BY AsideStays, YesStays
<1>2. hook' \in HookStates /\ origin' = origin
  BY OriginShape DEF OriginsInv, Shaped, aside
<1>3. QED
  BY <1>1, <1>2 DEF KanbanOK, PollerInv
LEMMA Polling ==
  ASSUME OriginsInv, poller.pc # "idle" \/ poller.left # {} \/ origin = "kanban"
  PROVE  /\ origin = "kanban" /\ poller \in PollStates /\ poller.left \subseteq Items /\ poller.file \subseteq Items
         /\ cards \subseteq Items /\ hook \in HookStates
<1>1. poller \in PollStates /\ cards \subseteq Items /\ hook \in HookStates
  BY OriginShape DEF OriginsInv, Shaped
<1>2. origin = "kanban"
  BY DEF OriginsInv, PollerInv, NoPoll
<1>3. QED
  BY <1>1, <1>2 DEF PollStates, CardFiles
\* The steps that read and write the file.
LEMMA FileKeeps ==
  ASSUME OriginsInv,
         RememberLoad \/ RememberSave \/ PollLoad \/ PollEnds \/ DropLoad \/ DropSave \/ ForgetAnswer
  PROVE  OriginsInv'
<1>0. /\ poller \in PollStates /\ cards \subseteq Items /\ hook \in HookStates /\ box \in [Items -> RunWords]
      /\ None \in RunWords
  BY OriginShape DEF OriginsInv, Shaped, RunWords
<1>1. UNCHANGED aside /\ runs' = runs
  BY DEF RememberLoad, RememberSave, PollLoad, PollEnds, DropLoad, DropSave, ForgetAnswer
<1>2. Grows /\ origin' = origin /\ (box' = box => BoxOK)
  BY <1>1, AsideStays, BoxUnmoved
<1>3. \A f \in Reads(poller.pc = "save") \cup Reads(hook.pc = "save") : f \in CardFiles
  BY <1>0 DEF Reads, CardFiles
<1>4. CASE RememberLoad
  <2>1. PICK f \in Reads(poller.pc = "save") : hook' = [hook EXCEPT !.pc = "save", !.file = f]
    BY <1>4 DEF RememberLoad
  <2>2. hook' \in HookStates
    <3>1. hook \in [pc : {"load", "save"}, item : Items, file : CardFiles]
      <4>1. hook = NoHook \/ hook \in [pc : {"load", "save"}, item : Items, file : CardFiles]
        BY <1>0 DEF HookStates
      <4>2. NoHook.pc = "idle" /\ hook.pc = "load"
        BY <1>4 DEF RememberLoad, NoHook
      <4>3. QED
        BY <4>1, <4>2
    <3>2. f \in CardFiles
      BY <1>3
    <3>3. QED
      BY <2>1, <3>1, <3>2 DEF HookStates
  <2>3. KanbanOK
    BY <1>0, <1>2, <1>4, <2>2, KanbanStays DEF RememberLoad
  <2>4. QED
    BY <1>1, <1>2, <1>4, <2>3, RunsAside DEF RememberLoad
<1>5. CASE RememberSave
  <2>1. hook' = NoHook /\ NoHook \in HookStates /\ poller' = poller /\ box' = box
    BY <1>5 DEF RememberSave, HookStates
  <2>2. hook.item \in Items /\ hook.file \subseteq Items
    BY <1>0, <1>5 DEF RememberSave, NoHook, HookStates, CardFiles
  <2>3. cards' \subseteq Items
    BY <1>5, <2>2 DEF RememberSave
  <2>4. KanbanOK
    BY <1>2, <2>1, <2>3, KanbanStays
  <2>5. QED
    BY <1>1, <1>2, <2>1, <2>4, RunsAside
<1>6. CASE PollLoad \/ PollEnds
  <2>1. origin = "kanban"
    BY <1>6, Polling DEF PollLoad, PollEnds
  <2>2. poller' \in PollStates /\ poller'.pc = "idle"
    BY <1>0, <1>6, OnWithTyped DEF PollLoad, PollEnds, NoPoll, PollStates, CardFiles, RunItems
  <2>3. cards' = cards /\ hook' = hook /\ box' = box
    BY <1>6 DEF PollLoad, PollEnds
  <2>4. KanbanOK
    BY <1>0, <1>1, <2>1, <2>2, <2>3, PollerMoves
  <2>5. QED
    BY <1>1, <1>2, <2>3, <2>4, RunsAside
<1>7. CASE DropLoad \/ DropSave
  <2>1. origin = "kanban" /\ poller.left \subseteq Items /\ poller.file \subseteq Items
    BY <1>7, Polling DEF DropLoad, DropSave
  <2>2. cards' \subseteq Items /\ hook' = hook /\ box' = box
    BY <1>0, <1>7, <2>1 DEF DropLoad, DropSave
  <2>3. poller' \in PollStates /\ poller'.pc # "unblock"
    <3>1. CASE poller' = OnWith(poller.left)
      BY <2>1, <3>1, OnWithTyped
    <3>2. CASE \E f \in Reads(hook.pc = "save") : poller' = [poller EXCEPT !.pc = "save", !.file = f]
      BY <1>0, <1>3, <3>2 DEF PollStates
    <3>3. CASE poller' = [poller EXCEPT !.pc = "forget", !.file = {}]
      BY <1>0, <3>3 DEF PollStates, CardFiles
    <3>4. QED
      BY <1>7, <3>1, <3>2, <3>3 DEF DropLoad, DropSave
  <2>4. KanbanOK
    BY <1>1, <2>1, <2>2, <2>3, PollerMoves
  <2>5. QED
    BY <1>1, <1>2, <2>2, <2>4, RunsAside
<1>8. CASE ForgetAnswer
  <2>1. origin = "kanban" /\ poller.left \subseteq Items
    BY <1>8, Polling DEF ForgetAnswer
  <2>2. /\ cards' = cards /\ hook' = hook /\ poller' = OnWith(poller.left)
        /\ box' = [box EXCEPT ![poller.item] = None]
    BY <1>8 DEF ForgetAnswer
  <2>3. KanbanOK
    BY <1>0, <1>1, <2>1, <2>2, OnWithTyped, PollerMoves
  <2>4. box' \in [Items -> RunWords] /\ \A a \in Items : box'[a] \in {None, box[a]}
    BY <1>0, <2>2
  <2>5. BoxOK
    BY <1>2, <2>4, BoxStays
  <2>6. QED
    BY <1>1, <2>3, <2>5, RunsAside
<1>9. QED
  BY <1>4, <1>5, <1>6, <1>7, <1>8
LEMMA PollNextKeeps ==
  ASSUME OriginsInv, NEW a \in Items, PollNext(a)
  PROVE  OriginsInv'
<1>1. /\ a \in poller.left /\ UNCHANGED aside /\ box' = box /\ cards' = cards /\ hook' = hook
      /\ poller' = [poller EXCEPT !.left = @ \ {a}, !.item = a,
                                  !.pc = IF box[a] \in AcceptDecisions THEN "unblock" ELSE "load"]
      /\ runs' = [l \in Lives |-> IF Latest(l) /\ runs[l].pc = "paused" /\ box[a] \notin AcceptDecisions
                                  THEN Over(l, "refused")[l] ELSE runs[l]]
  BY DEF PollNext
<1>2. /\ origin = "kanban" /\ poller \in PollStates /\ poller.left \subseteq Items /\ cards \subseteq Items
  BY <1>1, Polling
<1>3. box[a] \in AcceptDecisions => SomeYes
  BY <1>2 DEF OriginsInv, BoxInv, SomeYes
<1>4. poller' \in PollStates /\ (poller'.pc = "unblock" => SomeYes)
  <2>1. poller.left \ {a} \in CardFiles /\ a \in RunItems
    BY <1>2 DEF CardFiles, RunItems
  <2>2. QED
    BY <1>1, <1>2, <1>3, <2>1 DEF PollStates
<1>5. BoxOK /\ KanbanOK
  BY <1>1, <1>2, <1>4, FramesStay, PollerMoves
<1>6. runs \in [Lives -> Runs] /\ "refused" \in RunPcs \ {"none", "acted", "going"} /\ "refused" \in Ended
  BY OriginShape DEF OriginsInv, Shaped, RunPcs, Ended
<1>7. CASE \E l \in Lives : Latest(l) /\ runs[l].pc = "paused" /\ box[a] \notin AcceptDecisions
  <2>1. PICK l \in Lives : Latest(l) /\ runs[l].pc = "paused" /\ box[a] \notin AcceptDecisions
    BY <1>7
  <2>2. \A k \in Lives : k # l => ~Latest(k)
    BY <2>1 DEF Latest, Lives
  <2>3. /\ runs'[l] = Over(l, "refused")[l] /\ \A k \in Lives : k # l => runs'[k] = runs[k]
    BY <1>1, <2>1, <2>2
  <2>4. Over(l, "refused") \in [Lives -> Runs]
    BY <1>6, OverRun
  <2>5. runs' \in [Lives -> Runs]
    <3>1. \A k \in Lives : runs'[k] \in Runs
      BY <1>6, <2>3, <2>4
    <3>2. QED
      BY <1>1, <3>1
  <2>6. Becomes(l, "refused", None, None, runs[l].acts)
    BY <1>6, <2>3, <2>5, OverRun DEF Becomes
  <2>7. QED
    BY <1>1, <1>2, <1>5, <1>6, <2>1, <2>6, GoesOn
<1>8. CASE ~\E l \in Lives : Latest(l) /\ runs[l].pc = "paused" /\ box[a] \notin AcceptDecisions
  <2>1. runs' = runs
    BY <1>1, <1>6, <1>8
  <2>2. QED
    BY <1>1, <1>5, <2>1, RunsAside
<1>9. QED
  BY <1>7, <1>8
LEMMA UnblockKeeps ==
  ASSUME OriginsInv, NEW l \in Lives, Unblock(l)
  PROVE  OriginsInv'
<1>1. /\ poller.pc = "unblock" /\ Latest(l) /\ UNCHANGED aside /\ box' = box /\ cards' = cards /\ hook' = hook
      /\ \/ poller' = OnWith(poller.left) /\ runs' = runs
         \/ /\ poller' = [poller EXCEPT !.pc = "load"]
            /\ runs' = runs \/ (Ends(l, TRUE) /\ runs[l].pc \in {"start", "paused", "refused"})
  BY DEF Unblock
<1>2. /\ origin = "kanban" /\ poller \in PollStates /\ poller.left \subseteq Items /\ cards \subseteq Items
  BY <1>1, Polling
<1>3. poller' \in PollStates /\ poller'.pc # "unblock"
  <2>1. CASE poller' = OnWith(poller.left)
    BY <1>2, <2>1, OnWithTyped
  <2>2. CASE poller' = [poller EXCEPT !.pc = "load"]
    BY <1>2, <2>2 DEF PollStates
  <2>3. QED
    BY <1>1, <2>1, <2>2
<1>4. BoxOK /\ KanbanOK
  BY <1>1, <1>2, <1>3, FramesStay, PollerMoves
<1>5. CASE runs' = runs
  BY <1>1, <1>4, <1>5, RunsAside
<1>6. CASE Ends(l, TRUE) /\ runs[l].pc \in {"start", "paused", "refused"}
  <2>1. PICK a \in Items : items[a].yes
    BY <1>1 DEF OriginsInv, PollerInv, SomeYes
  <2>2. HasYes(l)
    BY <1>2, <2>1 DEF OriginsInv, ApprovalInv, ApprovalOf, HasYes
  <2>3. ShellOK /\ Grows /\ CallsOK /\ overlapped' = overlapped
    BY <1>1, AsideStays
  <2>4. InsideOK
    BY <1>1, <1>2, NobodyInside DEF aside
  <2>5. QED
    BY <1>4, <1>6, <2>2, <2>3, <2>4, EndKeeps
<1>7. QED
  BY <1>1, <1>5, <1>6

\* What a process that starts again leaves of the runs.
LEMMA SurvivesAs ==
  ASSUME NEW l \in Lives, runs[l].pc \in RunPcs
  PROVE  /\ Survives(l) \in RunPcs /\ (Survives(l) = "none" <=> runs[l].pc = "none")
         /\ Survives(l) = "acted" <=> runs[l].pc = "acted"
         /\ Survives(l) = "going" => runs[l].pc = "going"
  BY DEF Survives, RunPcs, Ended
LEMMA RestartKeeps ==
  ASSUME OriginsInv, Restart
  PROVE  OriginsInv'
<1>1. /\ process < MaxRestarts /\ process' = process + 1 /\ origin' = origin /\ items' = items
      /\ runs' = [l \in Lives |-> [runs[l] EXCEPT !.pc = Survives(l)]]
      /\ box' = [a \in Items |-> None] /\ calls' = calls \ inside /\ inside' = {}
      /\ hook' = NoHook /\ poller' = NoPoll /\ cards' \in Reads(hook.pc = "save" \/ poller.pc = "save")
      /\ overlapped' = overlapped /\ secrets' = secrets
  BY DEF Restart
<1>2. /\ process \in 0..MaxRestarts /\ secrets \in SecretPairs /\ cards \subseteq Items
      /\ runs \in [Lives -> Runs] /\ overlapped \in BOOLEAN
  BY OriginShape DEF OriginsInv, Shaped
<1>3. ShellOK
  BY <1>1, <1>2, OriginsAssumption DEF ShellOK
<1>4. Grows
  BY <1>1, ItemsStay
<1>5. CallsOK
  BY <1>1, <1>4, CallsStay
<1>6. BoxOK
  <2>1. box' \in [Items -> RunWords] /\ \A a \in Items : box'[a] \in {None, box[a]}
    BY <1>1 DEF RunWords
  <2>2. QED
    BY <1>1, <1>4, <2>1, BoxStays
<1>7. KanbanOK
  <2>1. cards' \subseteq Items
    BY <1>1, <1>2 DEF Reads
  <2>2. NoPoll \in PollStates /\ NoPoll.pc = "idle"
    BY DEF NoPoll, PollStates, CardFiles, RunItems
  <2>3. QED
    BY <1>1, <2>1, <2>2 DEF KanbanOK, PollerInv, HookStates
<1>8. InsideOK
  BY <1>1, <1>2 DEF InsideOK, InsideInv
<1>9. ASSUME NEW l \in Lives
      PROVE  /\ runs'[l] \in Runs /\ runs'[l].pc = Survives(l) /\ runs'[l].name = runs[l].name
             /\ runs'[l].item = runs[l].item /\ runs'[l].word = runs[l].word /\ runs'[l].acts = runs[l].acts
  <2>1. runs[l] \in Runs /\ Survives(l) \in RunPcs /\ runs'[l] = [runs[l] EXCEPT !.pc = Survives(l)]
    BY <1>1, <1>2, RunParts, SurvivesAs
  <2>2. QED
    BY <2>1, RunShape
<1>10. runs' \in [Lives -> Runs]
  BY <1>1, <1>9
<1>11. \A l \in Lives : runs'[l].pc = "none" <=> runs[l].pc = "none"
  BY <1>2, <1>9, RunParts, SurvivesAs
<1>12. ASSUME NEW l \in Lives PROVE RunInv(l)'
  <2>1. RunInv(l) /\ origin # "temporal"
    BY DEF OriginsInv, Restart
  <2>2. Holds(Survives(l), runs[l].word) => Holds(runs[l].pc, runs[l].word)
    BY <2>1 DEF Holds
  <2>3. (Survives(l) = "acted" <=> runs[l].pc = "acted") /\ (Survives(l) = "none" <=> runs[l].pc = "none")
    BY <1>2, RunParts, SurvivesAs
  <2>4. HasYes(l) => HasYes(l)'
    BY <1>1, <1>4, <1>9, YesStays
  <2>5. (Holds(runs[l].pc, runs[l].word))' => HasYes(l)'
    BY <1>1, <1>9, <2>1, <2>2, <2>4 DEF RunInv, Holds
  <2>6. QED
    BY <1>1, <1>9, <2>1, <2>3, <2>4, <2>5 DEF RunInv, Made
<1>13. InTurn'
  BY <1>11 DEF OriginsInv, InTurn
<1>14. RunsOK
  BY <1>10, <1>12, <1>13 DEF RunsOK
<1>15. QED
  BY <1>3, <1>4, <1>5, <1>6, <1>7, <1>8, <1>14, Assembled
LEMMA SecretKeeps ==
  ASSUME OriginsInv, Rotate \/ CopySecret
  PROVE  OriginsInv'
<1>1. /\ origin' = origin /\ runs' = runs /\ items' = items /\ calls' = calls /\ inside' = inside
      /\ overlapped' = overlapped /\ box' = box /\ UNCHANGED kanban /\ process' = process
  BY DEF Rotate, CopySecret, agent
<1>2. /\ secrets \in SecretPairs /\ process \in 0..MaxRestarts /\ overlapped \in BOOLEAN /\ inside \subseteq calls
  BY OriginShape DEF OriginsInv, Shaped
<1>3. secrets' \in SecretPairs
  BY <1>2, OriginsAssumption DEF Rotate, CopySecret, SecretPairs
<1>4. ShellOK /\ Grows
  BY <1>1, <1>2, <1>3, ItemsStay DEF ShellOK
<1>5. CallsOK /\ BoxOK /\ KanbanOK /\ InsideOK /\ RunsOK
  BY <1>1, <1>2, <1>4, CallsStay, BoxUnmoved, KanbanUnmoved, InsideStays, RunsStay
<1>6. QED
  BY <1>4, <1>5, Assembled

-----------------------------------------------------------------------------
LEMMA OriginsKeeps == OriginsInv /\ [OriginsNext]_originVars => OriginsInv'
<1> SUFFICES ASSUME OriginsInv, [OriginsNext]_originVars PROVE OriginsInv'
  OBVIOUS
<1>1. CASE CallArrives
  <2>1. PICK c \in calls : Resumed(c) \/ Lose(c)
    BY <1>1 DEF CallArrives
  <2>2. QED
    BY <2>1, LoseKeeps, TakenKeeps, EnterKeeps, GraphKeeps, SignalKeeps, HermesKeeps DEF Resumed
<1>2. CASE CardStep
  BY <1>2, FileKeeps, PollNextKeeps, UnblockKeeps DEF CardStep
<1>3. CASE RunStep
  BY <1>2, <1>3, AskFailsKeeps, TakenAskKeeps, FoundKeeps, PauseKeeps, RefundKeeps, IssueKeeps,
     TimesOutKeeps, PresentKeeps, RespondKeeps DEF RunStep
<1>4. CASE \E l \in Lives : StartRun(l)
  BY <1>4, StartKeeps
<1>5. CASE \E a \in Items : GiveUp(a) \/ \E d \in Answers : Decide(a, d)
  BY <1>5, GiveUpKeeps, DecideKeeps
<1>6. CASE Restart \/ Rotate \/ CopySecret
  BY <1>6, RestartKeeps, SecretKeeps
<1>7. CASE UNCHANGED originVars
  <2>1. UNCHANGED aside /\ runs' = runs /\ box' = box /\ UNCHANGED kanban
    BY <1>7 DEF originVars, agent, aside
  <2>2. QED
    BY <2>1, FramesStay, RunsAside
<1>8. QED
  BY <1>1, <1>3, <1>4, <1>5, <1>6, <1>7 DEF OriginsNext

\* A run acts only if a person said yes to an approval that is for it, whatever
\* was lost, sent again, changed, replayed or held over a restart: of the plugins'
\* words (mastra index.ts, hitly.py, the bridge) only those of a yes make it act.
THEOREM OwnYesTheorem == OriginsSpec => []ActsOnItsOwnYes
<1>1. OriginsInv => ActsOnItsOwnYes
  BY RunHad DEF ActsOnItsOwnYes, HasYes
<1>2. QED
  BY <1>1, OriginsInitially, OriginsKeeps, PTL DEF OriginsSpec

\* A run acts once, however often its decision is sent: mastra, n8n and the
\* gateway take a decision of a run that waits only, a hermes loop reads one
\* answer, a card that goes on is not blocked. LangGraph calls that overlap and
\* the attempts of issueRefundActivity are left out, and only they.
THEOREM ActsOnceTheorem == OriginsSpec => []ActsOnce
<1>1. OriginsInv => ActsOnce
  BY RunHad DEF ActsOnce
<1>2. QED
  BY <1>1, OriginsInitially, OriginsKeeps, PTL DEF OriginsSpec
=============================================================================
