------------------------ MODULE MCHawkAuthentication ------------------------
EXTENDS HawkAuthentication, TLC

(* Processes are interchangeable. *)
ProcessSymmetry == Permutations(Process)
=============================================================================
