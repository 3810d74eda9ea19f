----------------------------- MODULE FileTable ------------------------------
(***************************************************************************)
(* What open, read and seek promise to a program: a table of descriptors,  *)
(* each with a file and a position of its own.  There are no slots, locks  *)
(* or copies of nodes here.  Positions above INT_MAX are left open, and so  *)
(* is how much a read beyond the end of the file returns.                  *)
(***************************************************************************)
EXTENDS Integers

CONSTANTS Nodes,      \* files and directories
          FileSize,   \* FileSize[f]: st_size
          Root, AT_FDCWD,
          INT_MAX

VARIABLES open,  \* open[fd]: file and position
          ret    \* the result of the last call

vars == <<open, ret>>

Init == open = [fd \in {AT_FDCWD} |-> [file |-> Root, pos |-> 0]] /\ ret = 0

\* A new descriptor starts at the beginning of the file.
Open == \E f \in Nodes :
          /\ ret' \in Nat \ DOMAIN open
          /\ open' = [fd \in DOMAIN open \cup {ret'} |->
                        IF fd = ret' THEN [file |-> f, pos |-> 0] ELSE open[fd]]

\* Only the position of fd moves, to p unless p is too large.
Move(fd, p) == /\ DOMAIN open' = DOMAIN open
               /\ \A d \in DOMAIN open : d # fd => open'[d] = open[d]
               /\ open'[fd].file = open[fd].file
               /\ p <= INT_MAX => open'[fd].pos = p

\* A read advances the position by what it returns and stops at the end.
Read == \E fd \in DOMAIN open :
          LET left == FileSize[open[fd].file] - open[fd].pos
          IN /\ ret' >= 0
             /\ left >= 0 => ret' <= left
             /\ Move(fd, open[fd].pos + ret')

\* A seek answers the position it has set.
Seek == \E fd \in DOMAIN open : ret' >= 0 /\ Move(fd, ret')

Fail == ret' = -1 /\ UNCHANGED open

Next == Open \/ Read \/ Seek \/ Fail

Spec == Init /\ [][Next]_vars
=============================================================================
