----------------------------- MODULE MCGitLease -----------------------------
(* Small instances of GitLease for TLC. *)
EXTENDS GitLease, TLC

Machines == Permutations(Install)
=============================================================================
