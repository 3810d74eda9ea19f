------------------------------ MODULE Context -------------------------------
(***************************************************************************)
(* How a processor finds its own data: the GS base registers and the kernel *)
(* stack pointer across interrupts (isr.asm), system calls                 *)
(* (syscall_handler.asm) and thread switches (sched_vector and             *)
(* switch_to_thread in sched.c).  this_cpu() and the system call entry read *)
(* through GS, so GS must name the processor's cpu_local_t in all kernel    *)
(* code; swapgs exchanges it with the base kept for user mode.             *)
(*                                                                         *)
(* The cpu_local_t of processor c is called c.  Which thread is picked, and *)
(* when, is Sched's concern: here a processor may pick any thread that has *)
(* not run, from its idle loop or after dequeue_and_die.                   *)
(***************************************************************************)
EXTENDS Processors, Integers

\* NULL is also the gs_base of a thread made with kheap_calloc.
CONSTANTS UserThreads,   \* made by sched_user_thread: cs = 0x40 | 3
          KernelThreads  \* made by sched_kernel_thread: cs = 0x28

ASSUME ContextAssumption == /\ UserThreads \cap KernelThreads = {}
                            /\ NULL \notin Cpus

VARIABLES gs, kgs,       \* GS base and kernel GS base
          place,         \* what the processor executes
          back,          \* what a device interrupt and sched_vector return to
          next_thread,   \* the thread sched_vector switches to
          ready,         \* threads that have not run yet
          kernel_stack,  \* the first word of cpu_local_t: 0 is the stack's top
          sp,            \* stack pointer in a system call, in words
          user_sp        \* the stack pointer of user mode is the user's own

context == <<gs, kgs, place, back, next_thread, ready, kernel_stack, sp, user_sp>>
stack == <<kernel_stack, sp, user_sp>>

KERNEL_CS == 40   \* 0x28
USER_CS == 67     \* 0x43: also what sysret loads, from the 0x33 in MSR_STAR
TESTED_CS == 59   \* 0x3b: what isr.asm and sched_vector compare with

Cs(p) == IF p = "user" THEN USER_CS ELSE KERNEL_CS
CsOf(t) == IF t \in UserThreads THEN USER_CS ELSE KERNEL_CS

\* After core_init: set_gs_base(local); the other base is 0 from reset.
ContextInit ==
  /\ gs = [c \in Cpus |-> c] /\ kgs = [c \in Cpus |-> NULL]
  /\ place = [c \in Cpus |-> "idle"]
  /\ back = [c \in Cpus |-> [irq |-> "idle", sched |-> "idle"]]
  /\ next_thread = [c \in Cpus |-> NULL]
  /\ ready = UserThreads \cup KernelThreads
  /\ kernel_stack = [c \in Cpus |-> 0] /\ sp = [c \in Cpus |-> 0]
  /\ user_sp = [c \in Cpus |-> TRUE]

Swap(c) == gs' = [gs EXCEPT ![c] = kgs[c]] /\ kgs' = [kgs EXCEPT ![c] = gs[c]]

\* The test at both ends of every interrupt stub.
SwapIfUser(c, cs) == IF cs = TESTED_CS THEN Swap(c) ELSE UNCHANGED <<gs, kgs>>

-----------------------------------------------------------------------------
(* Interrupts: into the handler and out again.  They are off in system     *)
(* calls (MSR_FMASK) and in handlers, until lapic_timer_oneshot turns them *)
(* on again: the end of sched_vector and switch_to_thread can be           *)
(* interrupted by the timer and the keyboard.                              *)

\* Fault: system calls do not mask interrupts.
InterruptsOnInSyscall ==
  {"idle", "kernel", "user", "dead", "leaving", "switch", "swapped", "syscall"}

InterruptsOn == {"idle", "kernel", "user", "dead", "leaving", "switch", "swapped"}

IsrEnter(c, handler, from) == /\ place[c] \in from
                              /\ place' = [place EXCEPT ![c] = handler]
                              /\ back' = [back EXCEPT ![c][handler] = place[c]]
                              /\ SwapIfUser(c, Cs(place[c]))
                              /\ UNCHANGED <<next_thread, ready, stack>>

IsrReturn(c, from, handler) == /\ place[c] = from
                               /\ place' = [place EXCEPT ![c] = back[c][handler]]
                               /\ back' = [back EXCEPT ![c][handler] = "idle"]
                               /\ SwapIfUser(c, Cs(back[c][handler]))
                               /\ UNCHANGED <<next_thread, ready, stack>>

\* Timer and keyboard interrupts
Irq(c) == IsrEnter(c, "irq", InterruptsOn)
IrqReturn(c) == IsrReturn(c, "irq", "irq")

\* sched_vector: Sched shows that it interrupts only an idle processor and one
\* whose thread has died.
SchedVector(c) == IsrEnter(c, "sched", {"idle", "dead"})

\* There is no thread to run: lapic_timer_oneshot, then back to the idle loop.
SchedNone(c) == /\ place[c] = "sched"
                /\ place' = [place EXCEPT ![c] = "leaving"]
                /\ UNCHANGED <<gs, kgs, back, next_thread, ready, stack>>
SchedReturn(c) == back[c].sched = "idle" /\ IsrReturn(c, "leaving", "sched")

\* Fault: the comparison is corrected in sched_vector alone.
SchedFoundUserCs(c) ==
  /\ place[c] = "sched"
  /\ place' = [place EXCEPT ![c] = "switch"]
  /\ \E t \in ready :
       /\ ready' = ready \ {t}
       /\ next_thread' = [next_thread EXCEPT ![c] = t]
       /\ kgs' = [kgs EXCEPT ![c] = IF CsOf(t) = USER_CS THEN NULL ELSE gs[c]]
  /\ back' = [back EXCEPT ![c].sched = "idle"]
  /\ UNCHANGED <<gs, stack>>

\* sched_vector has found t: it sets the base for after the swap, and
\* lapic_timer_oneshot turns interrupts on.  The gs_base of a thread that has not
\* run is NULL.
SchedFound(c) ==
  /\ place[c] = "sched"
  /\ place' = [place EXCEPT ![c] = "switch"]
  /\ \E t \in ready :
       /\ ready' = ready \ {t}
       /\ next_thread' = [next_thread EXCEPT ![c] = t]
       /\ kgs' = [kgs EXCEPT ![c] = IF CsOf(t) = TESTED_CS THEN NULL ELSE gs[c]]
  /\ back' = [back EXCEPT ![c].sched = "idle"]
  /\ UNCHANGED <<gs, stack>>

\* switch_to_thread: swapgs, then iretq into the thread.
SwitchSwap(c) == /\ place[c] = "switch"
                 /\ place' = [place EXCEPT ![c] = "swapped"]
                 /\ Swap(c)
                 /\ UNCHANGED <<back, next_thread, ready, stack>>

SwitchToThread(c) ==
  /\ place[c] = "swapped"
  /\ place' = [place EXCEPT ![c] =
                 IF next_thread[c] \in UserThreads THEN "user" ELSE "kernel"]
  /\ next_thread' = [next_thread EXCEPT ![c] = NULL]
  /\ UNCHANGED <<gs, kgs, back, ready, stack>>

-----------------------------------------------------------------------------
(* A system call *)

Saved == 6 + 15 + 2           \* frame, registers, segments pushed after rsp
Restored == 2 + 11 + 1 + 2 + 7 \* popped or skipped before pop rsp

\* Fault: kernel_stack is left pointing at the saved stack pointer.
SyscallNoAdd(c) == /\ place[c] = "user"
                   /\ place' = [place EXCEPT ![c] = "syscall"]
                   /\ Swap(c)
                   /\ kernel_stack' = [kernel_stack EXCEPT ![c] = @ - 1]
                   /\ sp' = [sp EXCEPT ![c] = kernel_stack[c] - 1 - Saved]
                   /\ user_sp' = [user_sp EXCEPT ![c] = FALSE]
                   /\ UNCHANGED <<back, next_thread, ready>>

\* swapgs; rsp changes places with kernel_stack; the old rsp is pushed, and
\* kernel_stack gets back the value it had; then the frame is pushed.
Syscall(c) == /\ place[c] = "user"
              /\ place' = [place EXCEPT ![c] = "syscall"]
              /\ Swap(c)
              /\ kernel_stack' = [kernel_stack EXCEPT ![c] = (@ - 1) + 1]
              /\ sp' = [sp EXCEPT ![c] = kernel_stack[c] - 1 - Saved]
              /\ user_sp' = [user_sp EXCEPT ![c] = FALSE]
              /\ UNCHANGED <<back, next_thread, ready>>

\* pop rsp finds the old stack pointer if everything above it is popped.
Sysret(c) == /\ place[c] = "syscall"
             /\ place' = [place EXCEPT ![c] = "user"]
             /\ user_sp' = [user_sp EXCEPT ![c] =
                              sp[c] + Restored = kernel_stack[c] - 1]
             /\ sp' = [sp EXCEPT ![c] = 0]
             /\ Swap(c)
             /\ UNCHANGED <<back, next_thread, ready, kernel_stack>>

\* dequeue_and_die, from syscall_exit_thread or a kernel thread, abandons the
\* stack it is on and turns interrupts on.
Die(c) == /\ place[c] \in {"syscall", "kernel"}
          /\ place' = [place EXCEPT ![c] = "dead"]
          /\ sp' = [sp EXCEPT ![c] = 0]
          /\ user_sp' = [user_sp EXCEPT ![c] = TRUE]
          /\ UNCHANGED <<gs, kgs, back, next_thread, ready, kernel_stack>>

ContextNext ==
  \E c \in Cpus :
    \/ Irq(c) \/ IrqReturn(c) \/ SchedVector(c) \/ SchedNone(c)
    \/ SchedReturn(c) \/ SchedFound(c) \/ SwitchSwap(c)
    \/ SwitchToThread(c) \/ Syscall(c) \/ Sysret(c) \/ Die(c)

ContextSpec == ContextInit /\ [][ContextNext]_context

-----------------------------------------------------------------------------
\* The variables have their types; a device interrupt never interrupts another
\* one, sched_vector before it sets the timer, or a system call.
ContextTypeOK ==
  /\ gs \in [Cpus -> Cpus \cup {NULL}] /\ kgs \in [Cpus -> Cpus \cup {NULL}]
  /\ place \in [Cpus -> {"idle", "kernel", "user", "dead", "irq", "sched",
                         "leaving", "switch", "swapped", "syscall"}]
  /\ back \in [Cpus -> [irq : {"idle", "kernel", "user", "dead", "leaving",
                               "switch", "swapped"},
                        sched : {"idle", "dead"}]]
  /\ next_thread \in [Cpus -> UserThreads \cup KernelThreads \cup {NULL}]
  /\ ready \subseteq UserThreads \cup KernelThreads
  /\ kernel_stack \in [Cpus -> Int] /\ sp \in [Cpus -> Int]
  /\ user_sp \in [Cpus -> BOOLEAN]

\* All kernel code, on every path into it, finds its own cpu_local_t in GS.
\* Three places compare cs with 0x3b, which no code segment has: the stubs never
\* swap and a user thread is started with the kernel's base in both registers.
\* The errors cancel: swapgs then exchanges two equal values.
KernelSeesItsCpu == \A c \in Cpus : place[c] # "user" => gs[c] = c

\* A user program continues on its own stack after a system call, and the next
\* system call starts at the top of the kernel stack, also after a thread that
\* died in the middle of one.
StackReturned == \A c \in Cpus : /\ place[c] = "user" => user_sp[c]
                                 /\ kernel_stack[c] = 0
=============================================================================
