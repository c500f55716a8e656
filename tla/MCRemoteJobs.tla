------------------------------ MODULE MCRemoteJobs ------------------------------
(* Three jobs, two polls of the plugin at a time, two jobs a poll. *)
EXTENDS RemoteJobs, TLC

Symmetry == Permutations(Jobs) \cup Permutations(Sessions)
================================================================================
