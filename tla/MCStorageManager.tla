-------------------------- MODULE MCStorageManager --------------------------
(***************************************************************************)
(* Instances of the storage service for TLC.                               *)
(***************************************************************************)
EXTENDS StorageRequirements, TLC

\* Ids are interchangeable, and so are invocations: no action prefers one.
IdSymmetry == Permutations(Ids)
WorkerSymmetry == Permutations(Ids) \cup Permutations(Workers)
=============================================================================
