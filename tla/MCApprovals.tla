----------------------------- MODULE MCApprovals -----------------------------
(* Instances of Approvals for TLC. *)
EXTENDS Approvals, TLC

\* Every answer is admitted.
AllowAll == [a \in ApprovalIds |-> Answers]
\* One answer is not offered: the reviewer who gives it gets a 400.
AllowTwo == [a \in ApprovalIds |-> {"accept", "ignore"}]

\* Requests of one kind, and reviewers, are interchangeable; approvals are not
\* when only some are gated or legacy.
Symmetry == Permutations(Ingests) \cup Permutations(Decides)
            \cup Permutations(Retries) \cup Permutations(Reviewers)
=============================================================================
