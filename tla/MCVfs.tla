------------------------------- MODULE MCVfs --------------------------------
(* Vfs for TLC: two names, one of which shares its chain with "..", and     *)
(* files that end before, at and after the end of their first frame.       *)
EXTENDS Vfs

MCHash == [k \in {"a", "b", DOT, DOTDOT, SLASH, EMPTY, CODE} |->
             IF k \in {"a", DOTDOT, EMPTY} THEN 0 ELSE 1]
=============================================================================
