------------------------ MODULE MCApprovalReviewJobs ------------------------
(* Instances of ApprovalReviewJobs for TLC. *)
EXTENDS ApprovalReviewJobs, TLC

\* Workers, clients, approvals and payloads are interchangeable.  (Not used for
\* liveness.)
Symmetry == Permutations(Workers) \cup Permutations(Clients)
              \cup Permutations(Approvals) \cup Permutations(Payloads)

=============================================================================
