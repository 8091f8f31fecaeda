-------------------------------- MODULE Origins --------------------------------
(* What a decision does at the other end: the runs of an agent that pause, ask  *)
(* HITLy, and are resumed through one of the origin plugins under packages,     *)
(* against the agents of examples/. HITLy's own side is Approvals; here it is   *)
(* an approval that is pending, being resumed, decided or failed_resume. A      *)
(* resume call can be late or its answer lost, and the answer given again can   *)
(* be another one. The engines that are not in the repository are external:     *)
(* Mastra and n8n resume a run only while it waits, the OpenShell gateway knows *)
(* a chunk it has settled, Temporal runs one workflow per id and tries an       *)
(* activity again, LangGraph resumes an interrupt for every call that finds it. *)
EXTENDS Naturals

CONSTANTS
  OriginKinds,  \* the plugins to consider, a subset of Plugins
  Items,        \* approvals that may be made
  Overrides,    \* <<plugin, set of answers a body asks for>> (allowedActions, config)
  MaxTries,     \* resume calls per approval
  Retried,      \* the approvals that are answered more than once
  MaxLives,     \* runs that are started
  MaxAttempts,  \* attempts of a Temporal activity
  MaxRestarts,  \* restarts of the agent's process
  Restarting,   \* the plugins whose agent restarts
  MaxRotations, \* rotations of the project's resume secret
  None

Plugins == {"mastra", "langgraph", "temporal", "http", "hermes", "kanban", "openshell"}
Answers == {"accept", "edit", "respond", "reject", "ignore"}
ASSUME OriginsAssumption ==
  /\ OriginKinds \subseteq Plugins /\ Overrides \subseteq Plugins \X SUBSET Answers
  /\ {MaxTries, MaxLives, MaxAttempts} \subseteq Nat \ {0}
  /\ {MaxRestarts, MaxRotations} \subseteq Nat
  /\ None \notin Items \cup Answers \cup {"approved", "response"}

VARIABLES
  origin,     \* the plugin of the project, for good
  runs,       \* Lives -> a run: where it is, its name, its approval, its answer
  items,      \* Items -> the approval: its run, the process it is to call, its state
  calls,      \* resume calls that are under way: [item, try, word, secret]
  inside,     \* the calls that are resuming a LangGraph thread
  overlapped, \* one of them came while another was inside
  box,        \* Items -> the word the agent's process holds for it (hermes, kanban)
  cards,      \* the approvals in the file of kanban cards
  hook,       \* the thread that adds one: its approval, and the file as it read it
  poller,     \* the thread that applies answers to cards
  process,    \* which process of the agent is running
  secrets     \* the resume secret HITLy signs with, and the agent's own
kanban == <<cards, hook, poller>>
agent == <<inside, overlapped, box, kanban, process>>
originVars == <<origin, runs, items, calls, agent, secrets>>

Lives == 1..MaxLives
Ended == {"acted", "refused", "failed", "gone"}
Words == Answers \cup {"approved", "response"}
Runs == [pc : {"none", "start", "asked", "paused", "going"} \cup Ended, name : 0..MaxLives,
         item : Items \cup {None}, word : Words \cup {None}, acts : Nat]
Approval == [status : {"none", "pending", "resuming", "decided", "ignored", "failed_resume"},
             life : 0..MaxLives, name : 0..MaxLives, process : Nat, allowed : SUBSET Answers,
             url : BOOLEAN, yes : BOOLEAN, try : 0..MaxTries]
NoHook == [pc |-> "idle", item |-> None, file |-> {}]
OriginsTypeOK ==
  /\ origin \in OriginKinds /\ runs \in [Lives -> Runs] /\ items \in [Items -> Approval]
  /\ calls \subseteq [item : Items, try : 1..MaxTries, word : Words, secret : 0..MaxRotations]
  /\ inside \subseteq calls /\ overlapped \in BOOLEAN
  /\ box \in [Items -> Words \cup {None}] /\ cards \subseteq Items
  /\ hook \in {NoHook} \cup [pc : {"load", "save"}, item : Items, file : SUBSET Items]
  /\ poller \in [pc : {"idle", "unblock", "load", "save", "forget"}, left : SUBSET Items,
                 item : Items \cup {None}, file : SUBSET Items]
  /\ process \in 0..MaxRestarts
  /\ secrets \in [hitly : 0..MaxRotations, agent : 0..MaxRotations]

NoPoll == [pc |-> "idle", left |-> {}, item |-> None, file |-> {}]
OriginsInit ==
  /\ origin \in OriginKinds
  /\ runs = [l \in Lives |-> [pc |-> "none", name |-> 0, item |-> None, word |-> None, acts |-> 0]]
  /\ items = [a \in Items |-> [status |-> "none", life |-> 0, name |-> 0, process |-> 0, allowed |-> {},
                               url |-> FALSE, yes |-> FALSE, try |-> 0]]
  /\ calls = {} /\ inside = {} /\ overlapped = FALSE /\ box = [a \in Items |-> None]
  /\ cards = {} /\ hook = NoHook /\ poller = NoPoll
  /\ process = 0 /\ secrets = [hitly |-> 0, agent |-> 0]

-----------------------------------------------------------------------------
(* The start of a run                                                          *)

\* What the run goes by: nothing tells apart the runs of one Temporal workflow
\* id, of one thread id (a server counts them from one again) or of one card. A
\* hermes request goes by its own id or its session's, an n8n execution by its
\* own id or that of the page it is about: 0 stands for a name that is shared.
NamesOf(l) == IF origin \in {"hermes", "kanban", "http"} THEN {0, l} ELSE {0}
\* When another run of the name can start: a workflow id is free again, a server
\* is new, a card was unblocked; requests and executions run side by side.
Free(k) == CASE origin \in {"hermes", "http"} -> runs[k].pc # "none"
             [] origin = "temporal" -> runs[k].pc \in Ended
             [] origin = "langgraph" -> runs[k].pc \in Ended /\ k <= process
             [] origin = "kanban" -> runs[k].pc = "acted"
             [] OTHER -> FALSE
StartRun(l) ==
  /\ runs[l].pc = "none" /\ (l = 1 \/ \E k \in Lives : k + 1 = l /\ Free(k))
  /\ \E n \in NamesOf(l) : runs' = [runs EXCEPT ![l].pc = "start", ![l].name = n]
  /\ UNCHANGED <<origin, items, calls, agent, secrets>>
Latest(l) == runs[l].pc # "none" /\ \A k \in Lives : k > l => runs[k].pc = "none"

-----------------------------------------------------------------------------
(* ingest: which bodies a plugin takes, and the answers it then allows. A body *)
(* may leave out the run's id, the workflow, agent, task or chunk it belongs   *)
(* to, and the address to resume at, and may ask for other answers.            *)
Bodies == [run : BOOLEAN, target : BOOLEAN, url : BOOLEAN,
           asks : {s \in SUBSET Answers : s = {} \/ <<origin, s>> \in Overrides}]
Asked(b, else) == IF b.asks = {} THEN else ELSE b.asks
IngestMastra(b) == IF b.run /\ b.target THEN Asked(b, {"accept", "reject", "edit"}) ELSE {}
\* The graph's config: allow_ignore stands for reject and ignore.
IngestLanggraph(b) ==
  IF ~b.run THEN {}
  ELSE LET asked == Asked(b, {"accept", "ignore"})
       IN (asked \ {"reject"}) \cup (IF "ignore" \in asked THEN {"reject"} ELSE {})
IngestTemporal(b) == IF b.run THEN {"accept", "reject"} ELSE {}
IngestHttp(b) == IF b.url /\ b.run THEN Asked(b, {"accept", "reject"}) ELSE {}
IngestHermes(b) ==
  IF ~b.url THEN {}
  ELSE IF origin = "kanban" THEN IF b.target THEN {"accept", "reject", "respond"} ELSE {}
  ELSE IF b.run THEN {"accept", "reject"} ELSE {}
IngestOpenshell(b) == IF b.run /\ b.target THEN Asked(b, {"accept", "reject", "respond"}) ELSE {}
Ingest(b) ==
  CASE origin = "mastra" -> IngestMastra(b)
    [] origin = "langgraph" -> IngestLanggraph(b)
    [] origin = "temporal" -> IngestTemporal(b)
    [] origin = "http" -> IngestHttp(b)
    [] origin \in {"hermes", "kanban"} -> IngestHermes(b)
    [] OTHER -> IngestOpenshell(b)

\* A run that is answered waits; one that is not fails with its step (mastra,
\* langgraph, http), asks again (temporal, an activity), is denied at once
\* (hermes), or waits for an answer nobody will bring (kanban, openshell).
Heard == IF origin \in {"mastra", "langgraph", "http"} THEN "asked" ELSE "paused"
Unheard ==
  CASE origin \in {"mastra", "langgraph", "http"} -> "failed"
    [] origin = "temporal" -> "start"
    [] origin = "hermes" -> "refused"
    [] OTHER -> "paused"
\* The run hears of its approval, or not; the hook of a card goes on to note it.
Hears(l, a) == /\ runs' = [runs EXCEPT ![l].pc = Heard, ![l].item = a]
               /\ hook' = IF origin = "kanban" THEN [NoHook EXCEPT !.pc = "load", !.item = a] ELSE hook
HearsNothing(l) == runs' = [runs EXCEPT ![l].pc = Unheard] /\ UNCHANGED hook

\* The agent's POST /api/v1/approvals: refused, or lost on the way.
AskFails(l) ==
  /\ runs[l].pc = "start" /\ Unheard # "start" /\ HearsNothing(l)
  /\ UNCHANGED <<origin, items, calls, inside, overlapped, box, cards, poller, process, secrets>>
\* These send an Idempotency-Key, the name of the run or of the chunk: an open
\* approval of the name is given to whoever asks.
Open(a) == items[a].status \in {"pending", "resuming", "failed_resume"}
Found(l) == IF origin \in {"hermes", "kanban", "http", "openshell"}
            THEN {a \in Items : Open(a) /\ items[a].name = runs[l].name} ELSE {}
Asks(l) == runs[l].pc = "start" /\ (origin = "kanban" => hook.pc = "idle")
AskFound(l, a) ==
  /\ Asks(l) /\ a \in Found(l) /\ (Hears(l, a) \/ HearsNothing(l))
  /\ UNCHANGED <<origin, items, calls, inside, overlapped, box, cards, poller, process, secrets>>
\* Or it makes one (the answers to an activity would be lost as long as there
\* are Items).
New == {a \in Items : items[a].status = "none"}
AskTaken(l) ==
  /\ Asks(l) /\ Found(l) = {} /\ New # {}
  /\ LET a == CHOOSE a \in New : TRUE
     IN /\ \E b \in Bodies :
             /\ Ingest(b) # {}
             /\ items' = [items EXCEPT ![a] =
                  [status |-> "pending", life |-> l, name |-> runs[l].name, process |-> process,
                   url |-> b.url, allowed |-> Ingest(b), yes |-> FALSE, try |-> 0]]
        /\ Hears(l, a) \/ (HearsNothing(l) /\ (Unheard # "start" \/ New # {a}))
  /\ UNCHANGED <<origin, calls, inside, overlapped, box, cards, poller, process, secrets>>
\* The engine suspends the step, or the graph's thread is put in `threads`.
Pause(l) ==
  /\ runs[l].pc = "asked" /\ runs' = [runs EXCEPT ![l].pc = "paused"]
  /\ UNCHANGED <<origin, items, calls, agent, secrets>>

-----------------------------------------------------------------------------
(* resume: what a plugin sends for a decision                                  *)

AcceptDecisions == {"accept", "respond", "edit"}
DecisionResumeData(d) == IF d \in {"accept", "edit", "respond"} THEN "approved" ELSE "reject"
HumanResponse(d) ==
  CASE d \in {"accept", "edit"} -> d [] d = "respond" -> "response" [] OTHER -> "ignore"
Word(d) ==
  CASE origin = "mastra" -> DecisionResumeData(d)
    [] origin = "langgraph" -> HumanResponse(d)
    [] origin \in {"hermes", "kanban"} -> IF d \in AcceptDecisions THEN "accept" ELSE "reject"
    [] OTHER -> d
\* langgraph, temporal and openshell refuse by themselves without an address,
\* openshell an answer the gateway has no call for. mastra falls back to the
\* project's base URL.
Sends(a, d) ==
  CASE origin = "mastra" -> TRUE
    [] origin = "openshell" -> items[a].url /\ d \in {"accept", "reject"}
    [] OTHER -> items[a].url

\* The answers that mean yes: mastra documents `respond` as an approval with a
\* message, and a card goes on with one.
Assent == {"accept", "edit"} \cup (IF origin \in {"mastra", "kanban"} THEN {"respond"} ELSE {})
\* A reviewer's answer, the first or one after a failed resume; a retry gives
\* the same answer again. `ignore` decides the approval and calls nobody.
Decide(a, d) ==
  LET i == items[a]
      sends == d # "ignore" /\ Sends(a, d)
  IN /\ i.status \in {"pending", "failed_resume"} /\ d \in i.allowed /\ i.try < (IF a \in Retried THEN MaxTries ELSE 1)
     /\ items' = [items EXCEPT ![a].yes = @ \/ d \in Assent, ![a].try = @ + 1,
          ![a].status = CASE d = "ignore" -> "ignored" [] sends -> "resuming"
                          [] OTHER -> "failed_resume"]
     /\ calls' = IF sends THEN calls \cup {[item |-> a, try |-> i.try + 1, word |-> Word(d),
                                            secret |-> secrets.hitly]} ELSE calls
     /\ UNCHANGED <<origin, runs, agent, secrets>>
\* The call fails or takes longer than its timeout; it may still arrive.
GiveUp(a) ==
  /\ items[a].status = "resuming"
  /\ items' = [items EXCEPT ![a].status = "failed_resume"]
  /\ UNCHANGED <<origin, runs, calls, agent, secrets>>
Lose(c) ==
  /\ c \notin inside /\ (items[c.item].status # "resuming" \/ items[c.item].try # c.try)
  /\ calls' = calls \ {c} /\ UNCHANGED <<origin, runs, items, agent, secrets>>

-----------------------------------------------------------------------------
(* The other end                                                               *)

\* The answer reaches HITLy if it still waits for this call.
Reply(c, ok) ==
  /\ calls' = calls \ {c}
  /\ items' = IF items[c.item].status = "resuming" /\ items[c.item].try = c.try
              THEN [items EXCEPT ![c.item].status = IF ok THEN "decided" ELSE "failed_resume"]
              ELSE items
Over(l, pc) == [runs EXCEPT ![l].pc = pc, ![l].item = None, ![l].word = None]
Ends(l, yes) == runs' = IF yes THEN [Over(l, "acted") EXCEPT ![l].acts = @ + 1] ELSE Over(l, "refused")
Verified(c) == c.secret = secrets.agent
RunOf(c) == items[c.item].life

\* The step or tool runs again with resumeData; a signature that does not verify
\* throws, and Mastra reports a failed run.
MastraResumed(c, l) ==
  /\ origin = "mastra" /\ l = RunOf(c)
  /\ \/ runs[l].pc = "paused" /\ Verified(c) /\ Ends(l, c.word = "approved") /\ Reply(c, TRUE)
     \/ /\ runs[l].pc = "paused" /\ ~Verified(c)
        /\ runs' = Over(l, "failed") /\ Reply(c, FALSE)
     \/ runs[l].pc # "paused" /\ UNCHANGED runs /\ Reply(c, FALSE)
  /\ UNCHANGED <<origin, agent, secrets>>

\* resume_thread. A thread that is not in `threads` is a 404. Otherwise the graph
\* is invoked, without a lock: every call that finds the thread at its interrupt
\* goes through the node, also while another one does. A signature that does not
\* verify ends the graph, and the answer is 200 all the same.
ThreadIsPausedKnown(l) == runs[l].pc \in {"paused", "acted"}  \* mutant: the interrupt is not looked at
ThreadIsPaused(l) == runs[l].pc = "paused"
ThreadNotFoundOk(c) == Reply(c, TRUE)  \* mutant: an unknown thread is answered 200
ThreadNotFound(c) == Reply(c, FALSE)
LanggraphResumed(c, l) ==
  /\ origin = "langgraph" /\ c \notin inside /\ Latest(l)
  /\ \/ /\ ThreadIsPaused(l)
        /\ inside' = inside \cup {c} /\ overlapped' = (overlapped \/ inside # {})
        /\ UNCHANGED <<items, calls>>
     \/ /\ ~ThreadIsPaused(l) /\ runs[l].pc \in {"acted", "refused"}
        /\ \E ok \in BOOLEAN : Reply(c, ok)
        /\ UNCHANGED <<inside, overlapped>>
     \/ /\ runs[l].pc \in {"start", "asked", "failed", "gone"} /\ ThreadNotFound(c)
        /\ UNCHANGED <<inside, overlapped>>
  /\ UNCHANGED <<origin, runs, box, kanban, process, secrets>>
Approves(word) == word \in {"accept", "edit"}
GraphResumes(c, l) ==
  /\ c \in inside /\ Latest(l)
  /\ Ends(l, Verified(c) /\ Approves(c.word)) /\ Reply(c, TRUE) /\ inside' = inside \ {c}
  /\ UNCHANGED <<origin, overlapped, box, kanban, process, secrets>>

\* n8n's Wait goes on once; every execution has an address of its own.
HttpResumed(c, l) ==
  /\ origin = "http" /\ l = RunOf(c)
  /\ \/ runs[l].pc = "paused" /\ Ends(l, c.word = "accept") /\ Reply(c, TRUE)
     \/ runs[l].pc # "paused" /\ UNCHANGED runs /\ Reply(c, FALSE)
  /\ UNCHANGED <<origin, agent, secrets>>

\* The signal goes to whichever run has the workflow's id. A later one overwrites.
TemporalSignalled(c, l) ==
  /\ origin = "temporal" /\ Latest(l)
  /\ \/ /\ runs[l].pc \notin Ended /\ Reply(c, TRUE)
        /\ runs' = IF runs[l].pc = "going" THEN runs ELSE [runs EXCEPT ![l].word = c.word]
     \/ runs[l].pc \in Ended /\ UNCHANGED runs /\ Reply(c, FALSE)
  /\ UNCHANGED <<origin, agent, secrets>>
\* The workflow reads the decision once; issueRefundActivity is tried again as
\* long as its attempts do not report back, whatever they have done.
RefundWorkflow(l) ==
  /\ origin = "temporal" /\ runs[l].pc = "paused" /\ runs[l].word # None
  /\ runs' = IF runs[l].word = "reject" THEN Over(l, "refused") ELSE Over(l, "going")
  /\ UNCHANGED <<origin, items, calls, agent, secrets>>
IssueRefund(l) ==
  /\ origin = "temporal" /\ runs[l].pc = "going"
  /\ \E reported \in BOOLEAN :
       /\ reported \/ runs[l].acts + 1 < MaxAttempts
       /\ runs' = [runs EXCEPT ![l].acts = @ + 1, ![l].pc = IF reported THEN "acted" ELSE "going"]
  /\ UNCHANGED <<origin, items, calls, agent, secrets>>
\* condition() gives up after five minutes and the workflow fails.
ConditionTimesOut(l) ==
  /\ origin = "temporal" /\ runs[l].pc = "paused" /\ runs[l].word = None
  /\ runs' = Over(l, "failed")
  /\ UNCHANGED <<origin, items, calls, agent, secrets>>

\* The gateway knows a request id it has served, and refuses what is settled.
GatewayDecided(c, l) ==
  /\ origin = "openshell" /\ l = RunOf(c)
  /\ \/ runs[l].pc \in {"start", "paused"} /\ Ends(l, c.word = "accept") /\ Reply(c, TRUE)
     \/ /\ runs[l].pc \in Ended /\ UNCHANGED runs
        /\ Reply(c, runs[l].pc = IF c.word = "accept" THEN "acted" ELSE "refused")
  /\ UNCHANGED <<origin, agent, secrets>>

\* do_POST keeps the body; nothing listens on the port of a process that is gone.
HermesCalled(c) ==
  /\ origin \in {"hermes", "kanban"}
  /\ \/ /\ items[c.item].process = process
        /\ box' = [box EXCEPT ![c.item] = c.word] /\ Reply(c, TRUE)
     \/ items[c.item].process # process /\ UNCHANGED box /\ Reply(c, FALSE)
  /\ UNCHANGED <<origin, runs, inside, overlapped, kanban, process, secrets>>
\* present: the loop reads the answer to its approval, and then removes it; or
\* its time runs out and it denies.
MineAny(l) == Items  \* mutant: any answer that is kept is taken
Mine(l) == {runs[l].item} \cap Items
Present(l) ==
  /\ origin = "hermes" /\ runs[l].pc = "paused"
  /\ \E a \in Mine(l) : box[a] # None /\ runs' = [runs EXCEPT ![l].pc = "going", ![l].word = box[a]]
  /\ UNCHANGED <<origin, items, calls, agent, secrets>>
Removed(l) == box' = [a \in Items |-> IF a = runs[l].item THEN None ELSE box[a]]
Respond(l) ==
  /\ origin = "hermes" /\ runs[l].pc = "going"
  /\ Ends(l, runs[l].word \in AcceptDecisions) /\ Removed(l)
  /\ UNCHANGED <<origin, items, calls, inside, overlapped, kanban, process, secrets>>
PresentTimesOut(l) ==
  /\ origin = "hermes" /\ runs[l].pc = "paused" /\ Ends(l, FALSE) /\ Removed(l)
  /\ UNCHANGED <<origin, items, calls, inside, overlapped, kanban, process, secrets>>

-----------------------------------------------------------------------------
(* The file of kanban cards, which the hook of a blocked card and the poller    *)
(* each read and write back whole: the lock around it is a new one every time,  *)
(* and a file that is being written may read as none.                           *)

OnWith(left) == [NoPoll EXCEPT !.left = left]
aside == <<origin, items, calls, inside, overlapped, process, secrets>>
Reads(saving) == {cards} \cup (IF saving THEN {{}} ELSE {})
RememberLoad ==
  /\ hook.pc = "load"
  /\ \E f \in Reads(poller.pc = "save") : hook' = [hook EXCEPT !.pc = "save", !.file = f]
  /\ UNCHANGED <<aside, runs, box, cards, poller>>
RememberSave ==
  /\ hook.pc = "save" /\ hook' = NoHook
  /\ cards' = {a \in hook.file : items[a].name # items[hook.item].name} \cup {hook.item}
  /\ UNCHANGED <<aside, runs, box, poller>>
PollLoad ==
  /\ origin = "kanban" /\ poller.pc = "idle" /\ poller.left = {} /\ cards # {}
  /\ poller' = OnWith(cards)
  /\ UNCHANGED <<aside, runs, box, cards, hook>>
\* An answer, if there is one, is commented on the card. A rejected card stays
\* blocked. Cards without an answer are passed over.
PollNext(a) ==
  /\ poller.pc = "idle" /\ a \in poller.left /\ box[a] # None
  /\ poller' = [poller EXCEPT !.left = @ \ {a}, !.item = a,
                              !.pc = IF box[a] \in AcceptDecisions THEN "unblock" ELSE "load"]
  /\ runs' = [l \in Lives |-> IF Latest(l) /\ runs[l].pc = "paused" /\ box[a] \notin AcceptDecisions
                              THEN Over(l, "refused")[l] ELSE runs[l]]
  /\ UNCHANGED <<aside, box, cards, hook>>
PollEnds ==
  /\ poller.pc = "idle" /\ poller.left # {} /\ poller' = NoPoll
  /\ UNCHANGED <<aside, runs, box, cards, hook>>
\* The command names the card: whichever run of it is blocked goes on, and a card
\* that is not blocked stays as it is. A command that fails is tried again later.
Unblock(l) ==
  /\ poller.pc = "unblock" /\ Latest(l)
  /\ \/ poller' = OnWith(poller.left) /\ UNCHANGED runs
     \/ /\ poller' = [poller EXCEPT !.pc = "load"]
        /\ IF runs[l].pc \in {"start", "paused", "refused"} THEN Ends(l, TRUE) ELSE UNCHANGED runs
  /\ UNCHANGED <<aside, box, cards, hook>>
\* The card is dropped and then the answer; a file that cannot be read or written
\* leaves both for another time.
DropLoad ==
  /\ poller.pc = "load"
  /\ \/ \E f \in Reads(hook.pc = "save") : poller' = [poller EXCEPT !.pc = "save", !.file = f]
     \/ poller' = OnWith(poller.left)
  /\ UNCHANGED <<aside, runs, box, cards, hook>>
DropSave ==
  /\ poller.pc = "save" /\ cards' = poller.file \ {poller.item}
  /\ poller' = [poller EXCEPT !.pc = "forget", !.file = {}]
  /\ UNCHANGED <<aside, runs, box, hook>>
ForgetAnswer ==
  /\ poller.pc = "forget" /\ poller' = OnWith(poller.left)
  /\ box' = [box EXCEPT ![poller.item] = None]
  /\ UNCHANGED <<aside, runs, cards, hook>>

-----------------------------------------------------------------------------
\* The agent's process starts again. langgraph keeps its threads in memory, a
\* hermes request dies with its process; a kanban card and a draft chunk stay,
\* and the poller of chunks asks for what is pending once more.
Survives(l) ==
  CASE origin \in {"langgraph", "hermes"} /\ runs[l].pc \notin Ended \cup {"none"} -> "gone"
    [] origin = "openshell" /\ runs[l].pc = "paused" -> "start"
    [] OTHER -> runs[l].pc
Restart ==
  /\ origin \in {"langgraph", "hermes", "kanban", "openshell"} \cap Restarting
  /\ process < MaxRestarts /\ process' = process + 1
  /\ runs' = [l \in Lives |-> [runs[l] EXCEPT !.pc = Survives(l)]]
  /\ box' = [a \in Items |-> None] /\ calls' = calls \ inside /\ inside' = {}
  /\ hook' = NoHook /\ poller' = NoPoll /\ cards' \in Reads(hook.pc = "save" \/ poller.pc = "save")
  /\ UNCHANGED <<origin, items, overlapped, secrets>>
Rotate ==
  /\ origin \in {"mastra", "langgraph"} /\ secrets.hitly < MaxRotations
  /\ secrets' = [secrets EXCEPT !.hitly = @ + 1]
  /\ UNCHANGED <<origin, runs, items, calls, agent>>
CopySecret ==
  /\ secrets.agent # secrets.hitly /\ secrets' = [secrets EXCEPT !.agent = secrets.hitly]
  /\ UNCHANGED <<origin, runs, items, calls, agent>>

Resumed(c) ==
  \/ \E l \in Lives : \/ MastraResumed(c, l) \/ LanggraphResumed(c, l) \/ GraphResumes(c, l)
                      \/ HttpResumed(c, l) \/ TemporalSignalled(c, l) \/ GatewayDecided(c, l)
  \/ HermesCalled(c)
CallArrives == \E c \in calls : Resumed(c) \/ Lose(c)
CardStep == \/ RememberLoad \/ RememberSave \/ PollLoad \/ PollEnds \/ DropLoad \/ DropSave \/ ForgetAnswer
            \/ (\E a \in Items : PollNext(a)) \/ \E l \in Lives : Unblock(l)
RunStep ==
  \/ \E l \in Lives : \/ AskFails(l) \/ AskTaken(l) \/ Pause(l) \/ (\E a \in Items : AskFound(l, a))
                      \/ RefundWorkflow(l) \/ IssueRefund(l) \/ ConditionTimesOut(l)
                      \/ Present(l) \/ Respond(l) \/ PresentTimesOut(l)
  \/ CardStep
OriginsNext ==
  \/ RunStep \/ \E l \in Lives : StartRun(l)
  \/ \E a \in Items : GiveUp(a) \/ \E d \in Answers : Decide(a, d)
  \/ CallArrives
  \/ Restart \/ Rotate \/ CopySecret
OriginsSpec == OriginsInit /\ [][OriginsNext]_originVars

-----------------------------------------------------------------------------
(* Properties                                                                  *)

\* An approval that is for the run, as far as the agent can tell: its own, or
\* one of a run of the same name.
ApprovalOf(a, l) ==
  CASE origin \in {"langgraph", "temporal", "kanban"} -> items[a].life # 0
    [] origin = "hermes" -> items[a].life # 0 /\ items[a].name = runs[l].name
    [] OTHER -> items[a].life = l
\* A run does what it asked about only if a person said yes to an approval that
\* is for it: whatever was lost, sent again, changed, replayed by its key or held
\* over a restart, and whichever way the plugin and the agent spell the answer.
\* Runs that share a name (a thread id, a workflow id, a card, a session) are not
\* told apart: there it may be the approval of another one (OriginalRunResumes).
ActsOnItsOwnYes ==
  \A l \in Lives : runs[l].acts > 0 => \E a \in Items : ApprovalOf(a, l) /\ items[a].yes
\* However often a decision is sent, changed or kept, the run does it once; but
\* the LangGraph server lets calls that overlap resume one thread together, and
\* Temporal tries an activity again.
ActsOnce == \A l \in Lives : runs[l].acts > 1 => origin = "temporal" \/ overlapped
\* An approval that is decided by a call has ended its run, or will.
HasEnded(a) == \E l \in Lives : items[a].life = l /\ runs[l].pc \in Ended
TakenEndsRun ==
  <>[](origin # "kanban" => \A a \in Items : items[a].status = "decided" => HasEnded(a))
\* packages/plugin-langgraph/README.md says an ignore is sent to the thread as
\* { type: 'ignore' }; then an approval closed with it ends the run.
IgnoredRunEnds == \A a \in Items : (items[a].status = "ignored") ~> HasEnded(a)
\* README.md says the original run resumes: whichever plugin is used, the run
\* that acts is one whose own approval was accepted.
OriginalRunResumes ==
  \A l \in Lives : runs[l].acts > 0 => \E a \in Items : items[a].life = l /\ items[a].yes
\* examples/temporal/README.md says the notifyHitly activity runs once: then a
\* workflow has one approval.
NotifiesOnce ==
  origin = "temporal" => \A a, b \in Items : items[a].life = items[b].life => a = b \/ items[a].life = 0
=============================================================================
