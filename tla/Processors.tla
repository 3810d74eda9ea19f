----------------------------- MODULE Processors -----------------------------
(***************************************************************************)
(* The processors.  The cpu_local_t of a processor, its TSS and its idle    *)
(* thread go by the processor's name.                                       *)
(***************************************************************************)
CONSTANTS Cpus,
          Bsp,   \* the processor that the boot loader starts
          NULL
=============================================================================
