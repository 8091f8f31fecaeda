--------------------------- MODULE GatewayInterceptor ---------------------------
(* One draft policy chunk of an OpenShell gateway: the poller that asks HITLy   *)
(* about it, the reviewers' answers with the plugin's call to the gateway that  *)
(* each makes inside its transaction, other clients of the gateway, and the     *)
(* interceptor of examples/openshell/interceptor, which asks HITLy whether the  *)
(* chunk was decided before the gateway does what a call says. The interceptor  *)
(* reads what is committed; a decision commits after its call has returned.     *)
EXTENDS Naturals

CONSTANTS
  Asks,         \* approvals that may be made for the chunk
  Modes,        \* how the interceptor is configured: a subset of AllModes
  MaxResumes,   \* bound on the answers that reviewers give
  NoApproval, NoAnswer

AllModes == {"off", "closed", "open"}
OpenshellAnswers == {"accept", "reject", "cancel", "respond"}
ASSUME GatewayAssumption ==
  /\ Modes \subseteq AllModes /\ MaxResumes \in Nat
  /\ NoApproval \notin Asks /\ NoAnswer \notin OpenshellAnswers

VARIABLES
  mode,     \* of the interceptor, for good
  chunk,    \* the gateway's draft chunk
  polled,   \* the poller has read the chunk as pending and has not asked yet
  asked,    \* Asks -> the committed row and its decision records
  latest,   \* the approval of the chunk that was updated last
  deciding, \* Asks -> the transaction of a decision: its answer, what its call came to
  resumes,  \* answers given so far; each call carries the number of its answer
  toGateway \* calls that are under way, and whether the interceptor let them through
gatewayVars == <<mode, chunk, polled, asked, latest, deciding, resumes, toGateway>>

Commands == {"approve", "reject"}
AskRows == [status : {"none", "pending", "decided", "failed_resume", "cancelled", "expired"},
            answers : SUBSET OpenshellAnswers, failed : BOOLEAN]
Transactions == [answer : OpenshellAnswers \cup {NoAnswer}, try : 0..MaxResumes,
                 reply : {"none", "waiting", "ok", "denied", "failed"}]
GatewayCalls == [by : Asks \cup {NoApproval}, try : 0..MaxResumes, command : Commands,
                 at : {"sent", "let"}]
GatewayTypeOK ==
  /\ mode \in Modes /\ chunk \in {"pending", "approved", "rejected"} /\ polled \in BOOLEAN
  /\ asked \in [Asks -> AskRows] /\ latest \in Asks \cup {NoApproval}
  /\ deciding \in [Asks -> Transactions] /\ resumes \in 0..MaxResumes
  /\ toGateway \subseteq GatewayCalls

NoDecision == [answer |-> NoAnswer, try |-> 0, reply |-> "none"]
GatewayInit ==
  /\ mode \in Modes /\ chunk = "pending" /\ polled = FALSE
  /\ asked = [a \in Asks |-> [status |-> "none", answers |-> {}, failed |-> FALSE]]
  /\ latest = NoApproval /\ deciding = [a \in Asks |-> NoDecision]
  /\ resumes = 0 /\ toGateway = {}

OpenAsk(a) == asked[a].status \in {"pending", "failed_resume"}
Unlocked(a) == deciding[a].reply = "none"

-----------------------------------------------------------------------------
\* The poller: getDraftPolicy, and the POST that follows; it asks once for a chunk
\* it has not seen, and once more after each restart. The Idempotency-Key brings
\* back an approval of the chunk that is still open. updated_at of a new row is
\* when its transaction began, so another row may still count as the later one.
PollChunk ==
  /\ chunk = "pending" /\ ~polled /\ polled' = TRUE
  /\ UNCHANGED <<mode, chunk, asked, latest, deciding, resumes, toGateway>>
AskHitly ==
  /\ polled /\ polled' = FALSE
  /\ \/ /\ \A a \in Asks : ~OpenAsk(a)
        /\ \E a \in Asks : /\ asked[a].status = "none" /\ latest' \in {a} \cup ({latest} \ {NoApproval})
                           /\ asked' = [asked EXCEPT ![a].status = "pending"]
     \/ UNCHANGED <<asked, latest>>  \* there is one, or the POST failed
  /\ UNCHANGED <<mode, chunk, deciding, resumes, toGateway>>

\* decideApproval up to the plugin's resume, under the row lock: nothing of it is
\* committed. For a response the plugin has no call.
CommandOf(d) == IF d = "accept" THEN "approve" ELSE "reject"
AnswerAsk(a, d) ==
  /\ OpenAsk(a) /\ Unlocked(a) /\ resumes < MaxResumes /\ resumes' = resumes + 1
  /\ deciding' = [deciding EXCEPT ![a] =
       [answer |-> d, try |-> resumes + 1, reply |-> IF d = "respond" THEN "failed" ELSE "waiting"]]
  /\ toGateway' = IF d = "respond" THEN toGateway
                  ELSE toGateway \cup {[by |-> a, try |-> resumes + 1,
                                        command |-> CommandOf(d), at |-> "sent"]}
  /\ UNCHANGED <<mode, chunk, polled, asked, latest>>
\* The record and the status, whatever the call came to.
CommitAnswer(a) ==
  /\ deciding[a].reply \in {"ok", "denied", "failed"}
  /\ asked' = [asked EXCEPT ![a].status = IF deciding[a].reply = "ok" THEN "decided" ELSE "failed_resume",
                            ![a].answers = @ \cup {deciding[a].answer},
                            ![a].failed = @ \/ deciding[a].reply # "ok"]
  /\ latest' = a /\ deciding' = [deciding EXCEPT ![a] = NoDecision]
  /\ UNCHANGED <<mode, chunk, polled, resumes, toGateway>>
RollBackAnswer(a) ==
  /\ ~Unlocked(a) /\ deciding' = [deciding EXCEPT ![a] = NoDecision]
  /\ UNCHANGED <<mode, chunk, polled, asked, latest, resumes, toGateway>>
\* The connection breaks; the gateway may go on with the call.
CallBreaks(a) ==
  /\ deciding[a].reply = "waiting" /\ deciding' = [deciding EXCEPT ![a].reply = "failed"]
  /\ UNCHANGED <<mode, chunk, polled, asked, latest, resumes, toGateway>>
\* cancelApproval, with its record and no call, or the hourly expiry.
CancelAsk(a) ==
  /\ OpenAsk(a) /\ Unlocked(a) /\ latest' = a
  /\ asked' = [asked EXCEPT ![a].status = "cancelled", ![a].answers = @ \cup {"cancel"}]
  /\ UNCHANGED <<mode, chunk, polled, deciding, resumes, toGateway>>
ExpireAsk(a) ==
  /\ asked[a].status = "pending" /\ Unlocked(a) /\ latest' = a
  /\ asked' = [asked EXCEPT ![a].status = "expired"]
  /\ UNCHANGED <<mode, chunk, polled, deciding, resumes, toGateway>>
\* delegateWorkItem: it saw the approval open before, and locks nothing.
Delegate(a) ==
  /\ asked[a].status # "none" /\ Unlocked(a) /\ latest' = a
  /\ UNCHANGED <<mode, chunk, polled, asked, deciding, resumes, toGateway>>

-----------------------------------------------------------------------------
\* The gateway. Somebody else with its certificate may call it too (bound: one
\* such call at a time).
OtherCall(m) ==
  /\ \A c \in toGateway : c.by # NoApproval
  /\ toGateway' = toGateway \cup {[by |-> NoApproval, try |-> 0, command |-> m, at |-> "sent"]}
  /\ UNCHANGED <<mode, chunk, polled, asked, latest, deciding, resumes>>

\* What comes back to the decision that still waits for this call.
Awaited(c) == c.by # NoApproval /\ deciding[c.by].reply = "waiting" /\ deciding[c.by].try = c.try
Answered(c, reply) ==
  deciding' = IF Awaited(c)
              THEN [deciding EXCEPT ![c.by].reply = reply] ELSE deciding

\* by-run-id: the approval updated last, and one of its decision records: which
\* of several is the last to be created is not this module's matter.
Reported(a) == IF asked[a].answers = {} THEN {NoAnswer} ELSE asked[a].answers
\* applyDecisionMatrix
LetsThrough(m, status, d) ==
  /\ status \in {"decided", "failed_resume"}
  /\ d \in IF m = "approve" THEN {"accept"} ELSE {"reject", "cancel"}
Lets(c, d) == latest # NoApproval /\ d \in Reported(latest) /\ LetsThrough(c.command, asked[latest].status, d)
LetThrough(c) ==
  /\ toGateway' = (toGateway \ {c}) \cup {[c EXCEPT !.at = "let"]} /\ UNCHANGED deciding
Deny(c) == toGateway' = toGateway \ {c} /\ Answered(c, "denied")
Intercept(c) ==
  /\ c.at = "sent"
  /\ \/ mode = "off" /\ LetThrough(c)
     \/ /\ mode # "off" /\ latest = NoApproval /\ Deny(c)
     \/ /\ mode # "off" /\ latest # NoApproval
        /\ \E d \in Reported(latest) : IF Lets(c, d) THEN LetThrough(c) ELSE Deny(c)
     \/ mode = "open" /\ LetThrough(c)  \* HITLy cannot be reached in time
     \/ mode = "closed" /\ Deny(c)
  /\ UNCHANGED <<mode, chunk, polled, asked, latest, resumes>>
\* ApproveDraftChunk and RejectDraftChunk; one request id per chunk, so the same
\* command again is answered as before.
Outcome(m) == IF m = "approve" THEN "approved" ELSE "rejected"
Handle(c) ==
  /\ c.at = "let" /\ toGateway' = toGateway \ {c}
  /\ chunk' = IF chunk = "pending" THEN Outcome(c.command) ELSE chunk
  /\ Answered(c, IF chunk' = Outcome(c.command) THEN "ok" ELSE "failed")
  /\ UNCHANGED <<mode, polled, asked, latest, resumes>>
LoseCall(c) ==
  /\ ~Awaited(c) /\ toGateway' = toGateway \ {c}
  /\ UNCHANGED <<mode, chunk, polled, asked, latest, deciding, resumes>>

GatewayNext ==
  \/ PollChunk \/ AskHitly
  \/ \E a \in Asks : \/ CommitAnswer(a) \/ RollBackAnswer(a) \/ CallBreaks(a)
                     \/ CancelAsk(a) \/ ExpireAsk(a) \/ Delegate(a)
                     \/ \E d \in OpenshellAnswers : AnswerAsk(a, d)
  \/ \E m \in Commands : OtherCall(m)
  \/ \E c \in toGateway : Intercept(c) \/ Handle(c) \/ LoseCall(c)
GatewaySpec == GatewayInit /\ [][GatewayNext]_gatewayVars

-----------------------------------------------------------------------------
\* A gateway that fails closed commits a chunk only as a reviewer answered it,
\* whoever calls and however late: the check and the commit are two steps, and the
\* decision that is looked up may be another one than the call was made for.
CommittedOnAnAnswer ==
  mode = "closed" =>
    /\ chunk = "approved" => \E a \in Asks : "accept" \in asked[a].answers
    /\ chunk = "rejected" => \E a \in Asks : asked[a].answers \cap {"reject", "cancel"} # {}
\* What the transaction around the plugin's call makes of the design: behind an
\* interceptor that fails closed no approval of a chunk is decided before a resume
\* has failed, since during the first one every row still reads pending.
DecidedAfterAFailure ==
  mode = "closed" /\ (\E a \in Asks : asked[a].status = "decided") => \E a \in Asks : asked[a].failed
\* examples/openshell/docs/interceptor-design.md says that ApproveDraftChunk is
\* allowed when the decision is accept: no call that the plugin makes for a
\* reviewer's answer is denied.
PluginCallsPass == \A a \in Asks : deciding[a].reply # "denied"
=============================================================================
