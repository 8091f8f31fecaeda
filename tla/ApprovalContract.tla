--------------------------- MODULE ApprovalContract ---------------------------
(***************************************************************************)
(* What an approval promises its origin and its reviewers, whatever the    *)
(* transactions, locks and external calls behind it: it is open until one  *)
(* verdict, a cancellation or the deadline closes it, a recorded attempt   *)
(* is kept, and a deadline cannot close an item somebody already answered. *)
(***************************************************************************)
CONSTANTS ApprovalIds, Attempts, Verdicts, NoVerdict

VARIABLES
  phase,     \* "none", "open", "settled", "expired", "cancelled", "deleted"
  attempts,  \* recorded decisions, cancellations included
  verdict    \* the answer the approval was settled with

contract == <<phase, attempts, verdict>>

ContractInit ==
  \E old \in SUBSET ApprovalIds :
    /\ phase = [a \in ApprovalIds |-> IF a \in old THEN "open" ELSE "none"]
    /\ attempts \in [ApprovalIds -> SUBSET Attempts]
    /\ \A a \in ApprovalIds : attempts[a] # {} => a \in old
    /\ verdict = [a \in ApprovalIds |-> NoVerdict]

Ask(a) ==
  /\ phase[a] = "none"
  /\ phase' = [phase EXCEPT ![a] = "open"]
  /\ UNCHANGED <<attempts, verdict>>

Attempt(a, t) ==
  /\ phase[a] = "open" /\ t \notin attempts[a]
  /\ attempts' = [attempts EXCEPT ![a] = @ \cup {t}]
  /\ UNCHANGED <<phase, verdict>>

Settle(a, t, v) ==
  /\ phase[a] = "open" /\ t \notin attempts[a]
  /\ phase' = [phase EXCEPT ![a] = "settled"]
  /\ attempts' = [attempts EXCEPT ![a] = @ \cup {t}]
  /\ verdict' = [verdict EXCEPT ![a] = v]

Withdraw(a, t) ==
  /\ phase[a] = "open" /\ t \notin attempts[a]
  /\ phase' = [phase EXCEPT ![a] = "cancelled"]
  /\ attempts' = [attempts EXCEPT ![a] = @ \cup {t}]
  /\ UNCHANGED verdict

Expire(a) ==
  /\ phase[a] = "open" /\ attempts[a] = {}
  /\ phase' = [phase EXCEPT ![a] = "expired"]
  /\ UNCHANGED <<attempts, verdict>>

Forget(gone) ==
  /\ gone # {} /\ \A a \in gone : phase[a] \in {"settled", "expired", "cancelled"}
  /\ phase' = [a \in ApprovalIds |-> IF a \in gone THEN "deleted" ELSE phase[a]]
  /\ attempts' = [a \in ApprovalIds |-> IF a \in gone THEN {} ELSE attempts[a]]
  /\ verdict' = [a \in ApprovalIds |-> IF a \in gone THEN NoVerdict ELSE verdict[a]]

ContractNext ==
  \/ \E a \in ApprovalIds :
       \/ Ask(a) \/ Expire(a)
       \/ \E t \in Attempts :
            Attempt(a, t) \/ Withdraw(a, t) \/ \E v \in Verdicts : Settle(a, t, v)
  \/ \E gone \in SUBSET ApprovalIds : Forget(gone)

ContractSpec == ContractInit /\ [][ContractNext]_contract
=============================================================================
