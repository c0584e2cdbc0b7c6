---------------------------- MODULE MCMediaJobs -----------------------------
(* Small instances of the media jobs for TLC. *)
EXTENDS MediaJobsProps, TLC

Symmetric == Permutations(JobIds) \cup Permutations(Clients)
=============================================================================
