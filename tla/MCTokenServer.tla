--------------------------- MODULE MCTokenServer ---------------------------
EXTENDS TokenServer, TLC

(* Invocations are interchangeable, and so are the client states that are  *)
(* not empty.                                                              *)
TokenSymmetry == Permutations(Request) \union Permutations(ClientState \ {NoState})
=============================================================================
