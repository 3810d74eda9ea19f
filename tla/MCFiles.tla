------------------------------ MODULE MCFiles -------------------------------
(* Files for TLC: the root, a directory and two regular files, descriptors *)
(* in and out of range, and ints of three bits: positions can pass INT_MAX. *)
EXTENDS Files, TLC

CONSTANTS root, dir, short, long

MCFileSize == root :> 0 @@ dir :> 3 @@ short :> 1 @@ long :> 3
MCCwd == -3
MCFds == {MCCwd, -1, 0, 1, 2}
MCOffsets == {-2, 0, 2}
=============================================================================
