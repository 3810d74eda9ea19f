------------------------------ MODULE MCSched -------------------------------
(* The threads of the real boot: kernel_thread makes the thread of the init *)
(* program and dies; the init program may exit or run for ever.            *)
EXTENDS Sched, TLC

CONSTANTS kernel, user

MCCreates == kernel :> {user} @@ user :> {}
=============================================================================
