--------------------------- MODULE MCAuthAccounts ---------------------------
EXTENDS AuthAccounts, TLC

(* Invocations are interchangeable. *)
RequestSymmetry == Permutations(Request)
=============================================================================
