---------------------------- MODULE MCAuthTokens ----------------------------
EXTENDS AuthTokens, TLC

(* Invocations are interchangeable, and so are scopes. *)
TokenSymmetry == Permutations(Request) \union Permutations(Scope)
=============================================================================
