-------------------------- MODULE MCChannelService --------------------------
(***************************************************************************)
(* Instances of the pairing relay for TLC.                                 *)
(***************************************************************************)
EXTENDS ChannelRequirements

CONSTANTS a, b, c

\* One sender and two listeners, which are alike.
FramesOfOne == (a :> 2) @@ (b :> 0) @@ (c :> 0)
Listeners == Permutations({b, c}) \cup Permutations(Workers)

\* Two that talk to each other.
FramesOfTwo == (a :> 1) @@ (b :> 1)
=============================================================================
