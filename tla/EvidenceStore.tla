---------------------------- MODULE EvidenceStore ----------------------------
(***************************************************************************)
(* Where one approval's evidence goes: the sinks of lib/evidence-sink.ts,  *)
(* their call in appendEvidence (lib/evidence.ts), and the HTTP store of   *)
(* examples/evidence-http, one JSON file an event and a page of the chain. *)
(* An event names its predecessor by that one's id (the hash that goes     *)
(* with it says the same).  Which events an approval has and when is       *)
(* module Approvals; here a transaction appends some and commits or not.   *)
(*                                                                         *)
(* The store is a process that can stop while it writes a file; HITLy      *)
(* waits five seconds for it, and its request goes on when HITLy no longer *)
(* waits.  Every append makes a new event id, so HITLy sends no event      *)
(* twice.                                                                  *)
(***************************************************************************)
EXTENDS Naturals, Sequences, FiniteSets

CONSTANTS
  SinkConfigs,  \* what the project's settings may hold: [type, complete]
  MaxAppends, MaxStops   \* bounds: appends, stops of the store

ASSUME EvidenceAssumption == MaxAppends \in Nat /\ MaxStops \in Nat

VARIABLES
  sinkConfig,  \* the project's sink
  sentEvents,  \* events built so far, by id: [seq, prev]
  stored,      \* id -> "absent", "partial" (file being written) or "whole"
  post,        \* id -> where the request of that event is
  sending,     \* id of the event HITLy waits for, 0: none
  kept,        \* evidence_receipts rows, committed: ids
  fresh,       \* rows of the open transaction
  stops        \* counter of StoreStops

evidenceVars == <<sinkConfig, sentEvents, stored, post, sending, kept, fresh, stops>>

\* loadProjectSinkConfig and the checks of appendEvidence: no sink, a sink that
\* can not be used (an HTTP sink without url is none, an S3 sink without its
\* settings throws), or a sink.
SinkOf(config) ==
  CASE config.type = "none" -> "none"
    [] config.type = "http" -> IF config.complete THEN "http" ELSE "none"
    [] config.type = "s3"   -> IF config.complete THEN "s3" ELSE "throws"

EvidenceTypeOK ==
  /\ sinkConfig \in SinkConfigs /\ stops \in 0..MaxStops
  /\ sentEvents \in Seq([seq : 1..MaxAppends, prev : 0..MaxAppends])
  /\ stored \in [1..MaxAppends -> {"absent", "partial", "whole"}]
  /\ post \in [1..MaxAppends -> {"unsent", "coming", "writing", "answered", "refused", "gone"}]
  /\ sending \in 0..Len(sentEvents)
  /\ kept \in Seq(1..MaxAppends) /\ fresh \in Seq(1..MaxAppends)

EvidenceInit ==
  /\ sinkConfig \in SinkConfigs
  /\ sentEvents = <<>> /\ kept = <<>> /\ fresh = <<>>
  /\ stored = [id \in 1..MaxAppends |-> "absent"]
  /\ post = [id \in 1..MaxAppends |-> "unsent"]
  /\ sending = 0 /\ stops = 0

LatestReceipt == IF kept \o fresh = <<>> THEN 0 ELSE (kept \o fresh)[Len(kept \o fresh)]

NextEvent ==
  [seq |-> IF LatestReceipt = 0 THEN 1 ELSE sentEvents[LatestReceipt].seq + 1, prev |-> LatestReceipt]

\* appendEvidence: build the sink and send.  Without one there is no receipt, and
\* an S3 sink without its settings fails before it sends.
AppendEvent ==
  /\ sending = 0 /\ Len(sentEvents) < MaxAppends
  /\ SinkOf(sinkConfig) \in {"http", "s3"}
  /\ sentEvents' = Append(sentEvents, NextEvent)
  /\ sending' = Len(sentEvents) + 1
  /\ post' = [post EXCEPT ![sending'] = "coming"]
  /\ UNCHANGED <<sinkConfig, stored, kept, fresh, stops>>

----------------------------------------------------------------------------
(* The store: POST /events                                                 *)

\* A file that is there and readable is answered for; anything else is written,
\* and the body is refused when it can not be (a full disk, no directory).
ReceiveEvent(id) ==
  /\ post[id] = "coming" /\ SinkOf(sinkConfig) = "http"
  /\ \/ /\ post' = [post EXCEPT ![id] = IF stored[id] = "whole" THEN "answered" ELSE "writing"]
        /\ stored' = [stored EXCEPT ![id] = IF @ = "whole" THEN "whole" ELSE "partial"]
     \/ /\ stored[id] # "whole"
        /\ post' = [post EXCEPT ![id] = "refused"]
        /\ UNCHANGED stored
  /\ UNCHANGED <<sinkConfig, sentEvents, sending, kept, fresh, stops>>

\* The answer follows the write.
\* mutant: the receipt is answered before the file is written.
WriteEventAnswered(id) ==
  /\ post[id] = "writing"
  /\ post' = [post EXCEPT ![id] = "answered"]
  /\ UNCHANGED <<sinkConfig, sentEvents, stored, sending, kept, fresh, stops>>

WriteEvent(id) ==
  /\ post[id] = "writing"
  /\ \/ /\ stored' = [stored EXCEPT ![id] = "whole"]
        /\ post' = [post EXCEPT ![id] = "answered"]
     \/ /\ post' = [post EXCEPT ![id] = "refused"]
        /\ UNCHANGED stored
  /\ UNCHANGED <<sinkConfig, sentEvents, sending, kept, fresh, stops>>

\* S3: the object appears whole, under its event's key, or not at all.
PutObject(id) ==
  /\ post[id] = "coming" /\ SinkOf(sinkConfig) = "s3"
  /\ \/ /\ stored' = [stored EXCEPT ![id] = "whole"]
        /\ post' = [post EXCEPT ![id] = "answered"]
     \/ /\ post' = [post EXCEPT ![id] = "refused"]
        /\ UNCHANGED stored
  /\ UNCHANGED <<sinkConfig, sentEvents, sending, kept, fresh, stops>>

\* The store's process ends: requests it had not answered are gone.
StoreStops ==
  /\ stops < MaxStops
  /\ \E id \in 1..MaxAppends : post[id] \in {"coming", "writing"}
  /\ post' = [id \in 1..MaxAppends |-> IF post[id] \in {"coming", "writing"} THEN "gone" ELSE post[id]]
  /\ stops' = stops + 1
  /\ UNCHANGED <<sinkConfig, sentEvents, stored, sending, kept, fresh>>

----------------------------------------------------------------------------
(* HITLy hears of it                                                       *)

\* A 2xx answer makes a receipt: the one of its body, or one HITLy writes itself.
Taken(id) == post[id] = "answered"

ReceiveReceipt ==
  /\ sending # 0 /\ Taken(sending)
  /\ fresh' = Append(fresh, sending)
  /\ sending' = 0
  /\ UNCHANGED <<sinkConfig, sentEvents, stored, post, kept, stops>>

\* A refusal, a lost connection, or five seconds gone: append throws.  A decision
\* rolls back for it; the other steps log it and go on without a receipt.
AppendFails ==
  /\ sending # 0
  /\ sending' = 0
  /\ fresh' \in {fresh, <<>>}
  /\ UNCHANGED <<sinkConfig, sentEvents, stored, post, kept, stops>>

CommitReceipts ==
  /\ sending = 0 /\ fresh # <<>>
  /\ kept' = kept \o fresh
  /\ fresh' = <<>>
  /\ UNCHANGED <<sinkConfig, sentEvents, stored, post, sending, stops>>

EvidenceNext ==
  \/ AppendEvent \/ StoreStops
  \/ ReceiveReceipt \/ AppendFails \/ CommitReceipts
  \/ \E id \in 1..MaxAppends : ReceiveEvent(id) \/ WriteEvent(id) \/ PutObject(id)

EvidenceSpec == EvidenceInit /\ [][EvidenceNext]_evidenceVars

----------------------------------------------------------------------------
(* GET /a/:approval_id: every file is read, one that is not JSON fails the *)
(* page; the events come in the order of their seq.                        *)

WholeEvents == {id \in 1..MaxAppends : stored[id] = "whole"}

ChainPages ==
  IF \E id \in 1..MaxAppends : stored[id] = "partial" THEN {}
  ELSE {page \in [1..Cardinality(WholeEvents) -> WholeEvents] :
          /\ WholeEvents \subseteq {page[i] : i \in DOMAIN page}
          /\ \A i \in 1..Len(page) - 1 : sentEvents[page[i]].seq <= sentEvents[page[i + 1]].seq}

\* A receipt stands for an event the store holds, whole: no receipt comes of an
\* answer that is an error, of a file half written or of a store that stopped
\* (HttpEvidenceSink.append, S3EvidenceSink.append, the store's POST handler).
ReceiptMeansStored ==
  \A i \in 1..Len(kept \o fresh) : stored[(kept \o fresh)[i]] = "whole"

\* The events HITLy has receipts for are one chain in the store, whatever else
\* the store was left with (loadLatestReceipt and the builders of evidence.ts).
ReceiptsAreOneChain ==
  \A i \in 1..Len(kept) : sentEvents[kept[i]].prev = IF i = 1 THEN 0 ELSE kept[i - 1]

\* The abstract promise of a chain of receipts (appendEvidence, the sinks' append,
\* the store's POST handler): the requests, the half-written files, the stops and
\* the rollbacks together implement it.
Promise == INSTANCE EvidenceContract WITH
  EventIds <- 1..MaxAppends,
  NoEvent <- 0,
  built <- {[id |-> id, prev |-> sentEvents[id].prev] : id \in 1..Len(sentEvents)},
  whole <- WholeEvents,
  chain <- kept,
  tail <- fresh

KeepsPromise == Promise!PromiseSpec

\* examples/evidence-http/README.md:122 says of the chain's page: "all events for
\* the specified approval ID in sequence, with prev_event_id and
\* prev_content_sha256 matching the previous event".
ChainPageLinks ==
  \A page \in ChainPages : \A i \in 1..Len(page) :
     sentEvents[page[i]].prev = IF i = 1 THEN 0 ELSE page[i - 1]

=============================================================================
