---------------------------- MODULE MCInitramfs -----------------------------
(* Initramfs for TLC: a directory and three entries, with sizes below, at   *)
(* and above the points where header and data fill a frame.                *)
EXTENDS Initramfs

CONSTANT Sectors

MCArchives ==
  {<<[kind |-> "dir", sectors |-> 0, parent |-> 0],
     [kind |-> "file", sectors |-> a, parent |-> 1],
     [kind |-> k, sectors |-> b, parent |-> p],
     [kind |-> "file", sectors |-> c, parent |-> 1]>> :
   a, b, c \in Sectors, k \in EntryKinds, p \in {0, 1}}
=============================================================================
