-------------------------- MODULE MCGenerationJobs --------------------------
(* Instances of GenerationJobs for TLC. *)
EXTENDS GenerationJobs, TLC

\* Workers and clients are interchangeable.  (Not used for liveness.)
Symmetry == Permutations(Workers) \cup Permutations(Clients)

=============================================================================
