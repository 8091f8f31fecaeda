--------------------------- MODULE EvidenceContract ---------------------------
(***************************************************************************)
(* What a chain of receipts promises, whatever the requests, files, late   *)
(* answers and rollbacks behind it: an event names the last receipt there  *)
(* was when it was built, a receipt is for an event that is in the store   *)
(* and names the receipt before it, what is stored stays stored, and a     *)
(* committed receipt stays where it is.                                    *)
(***************************************************************************)
EXTENDS Naturals, Sequences

CONSTANTS EventIds, NoEvent

VARIABLES
  built,  \* events there are: [id, prev]
  whole,  \* ids of the events in the store
  chain,  \* receipts, committed
  tail    \* receipts of the open transaction

promise == <<built, whole, chain, tail>>

LastReceipt == IF chain \o tail = <<>> THEN NoEvent ELSE (chain \o tail)[Len(chain \o tail)]

PromiseInit == built = {} /\ whole = {} /\ chain = <<>> /\ tail = <<>>

Build(e) ==
  /\ \A b \in built : b.id # e
  /\ built' = built \cup {[id |-> e, prev |-> LastReceipt]}
  /\ UNCHANGED <<whole, chain, tail>>

Keep(e) ==
  /\ \E b \in built : b.id = e
  /\ whole' = whole \cup {e}
  /\ UNCHANGED <<built, chain, tail>>

Receive(e) ==
  /\ e \in whole /\ [id |-> e, prev |-> LastReceipt] \in built
  /\ tail' = Append(tail, e)
  /\ UNCHANGED <<built, whole, chain>>

RollBack == tail' = <<>> /\ UNCHANGED <<chain, whole, built>>

Commit == chain' = chain \o tail /\ tail' = <<>> /\ UNCHANGED <<built, whole>>

PromiseNext ==
  \/ RollBack \/ Commit
  \/ \E e \in EventIds : Build(e) \/ Keep(e) \/ Receive(e)

PromiseSpec == PromiseInit /\ [][PromiseNext]_promise
=============================================================================
