------------------------------ MODULE Console -------------------------------
(***************************************************************************)
(* printf (src/lib/stdio.c) as threads, interrupt handlers and exceptions   *)
(* of several processors call it: its lock, the buffer of itoa             *)
(* (src/lib/str.c), the serial port (src/dev/serial.c), the screen         *)
(* (src/dev/console.c), and the handlers that print: the keyboard          *)
(* (src/dev/ps2/ps2kb.c), interrupts nobody handles and exceptions         *)
(* (src/sys/idt/idt.c).  A lock that is not free for too long ends in one  *)
(* more printf (src/lib/lock.c, src/lib/assert.h).                         *)
(*                                                                         *)
(* A processor has a stack of the calls that interrupted one another.  At  *)
(* most one thread of a processor prints at a time: the idle threads do    *)
(* not, and the kernel thread no longer does when the first program runs.  *)
(* A call is identified by its number, which also is the number it prints. *)
(***************************************************************************)
EXTENDS Processors, Integers, Sequences

CONSTANT MaxCalls  \* bound: calls of printf

ASSUME ConsoleAssumption == Bsp \in Cpus /\ NULL \notin Nat /\ MaxCalls \in Nat

VARIABLES stack,         \* stack[c]: the calls on a processor, the running one last
          print_lock, serial_lock, console_lock,
          buffer,        \* the buffer of itoa: the number it was filled with
          term_context,  \* whether console_init has been called
          serial,        \* what has been sent to the serial port, piece by piece
          screen,        \* what has been written to the screen
          calls          \* how many calls there have been

print == <<stack, print_lock, serial_lock, console_lock, buffer, term_context,
           serial, screen, calls>>

\* What a format gives out, piece by piece: a string for "%s", a number that itoa has
\* converted for "%d", and "0x" and a number for "%x".
str == <<"string">>
num == <<"number">>
hex == <<"string", "number">>

PrintInit == /\ stack = [c \in Cpus |-> <<>>]
             /\ print_lock = 0 /\ serial_lock = 0 /\ console_lock = 0
             /\ buffer = NULL /\ term_context = FALSE
             /\ serial = <<>> /\ screen = <<>> /\ calls = 0

-----------------------------------------------------------------------------
(* Who calls printf *)

\* A call: who makes it, the formats of the calls that follow, and what comes after
\* them: to return, or to halt.
Call(kind, fmts, after) ==
  [kind |-> kind, call |-> calls + 1, pieces |-> Head(fmts), at |-> 1,
   then |-> Tail(fmts), after |-> after, pc |-> "acquire"]

Running(c) == stack[c][Len(stack[c])]
Interrupted(s) == [i \in 1 .. Len(s) - 1 |-> s[i]]
Active(c, pc) == stack[c] # <<>> /\ Running(c).pc = pc

Begin(c, new) == /\ calls < MaxCalls /\ calls' = calls + 1
                 /\ stack' = [stack EXCEPT ![c] = new]
                 /\ UNCHANGED <<print_lock, serial_lock, console_lock, buffer,
                                term_context, serial, screen>>

\* A thread prints, on the first processor from the start.
ThreadPrints(c) == /\ stack[c] = <<>> /\ (c = Bsp \/ term_context)
                   /\ \E fmt \in {str, hex} :
                        Begin(c, <<Call("thread", <<fmt>>, "return")>>)

\* The gates of the IDT disable interrupts for the time of the handler.
Interruptible(c) == \A i \in DOMAIN stack[c] : stack[c][i].kind = "thread"

\* isr_generic on any processor, and ps2kb_handler, which goes to the first.
HandlerPrints(c) ==
  /\ Interruptible(c)
  /\ \E fmt \in {str \o num} \cup IF c = Bsp /\ term_context THEN {str} ELSE {} :
       Begin(c, Append(stack[c], Call("interrupt", <<fmt>>, "return")))

\* exception_handler prints twice and halts.
Exception(c) == /\ stack[c] # <<>> => Running(c).pc # "halted"
                /\ Begin(c, Append(stack[c], Call("exception", <<str \o num, hex>>, "halted")))

\* spinlock_acquire has counted to its limit: printf, from inside printf, and assert(0).
Timeout(c) == /\ Active(c, "acquire") /\ print_lock = 1
              /\ Begin(c, Append(Interrupted(stack[c]),
                                 Call(Running(c).kind, <<str, str \o num>>, "halted")))

\* console_init, before there are other processors and a keyboard.
console_init == /\ stack[Bsp] = <<>> /\ ~term_context
                /\ term_context' = TRUE
                /\ UNCHANGED <<stack, print_lock, serial_lock, console_lock, buffer,
                               serial, screen, calls>>

-----------------------------------------------------------------------------
(* printf *)

\* The running call goes on elsewhere, with this or the next piece.
GoOn(c, at, pc) ==
  LET frame == Running(c)
  IN stack' = [stack EXCEPT ![c] = Append(Interrupted(@),
       [kind |-> frame.kind, call |-> frame.call, pieces |-> frame.pieces, at |-> at,
        then |-> frame.then, after |-> frame.after, pc |-> pc])]
Continue(c, pc) == GoOn(c, Running(c).at, pc)

\* Fault: the lock is taken whatever its value.
AcquireAnyway(c) == /\ Active(c, "acquire")
                    /\ print_lock' = 1
                    /\ Continue(c, "convert")
                    /\ UNCHANGED <<serial_lock, console_lock, buffer, term_context,
                                   serial, screen, calls>>

Acquire(c) == /\ Active(c, "acquire")
              /\ print_lock = 0 /\ print_lock' = 1
              /\ Continue(c, "convert")
              /\ UNCHANGED <<serial_lock, console_lock, buffer, term_context,
                             serial, screen, calls>>

IsNumber(frame) == frame.pieces[frame.at] = "number"

\* itoa fills its buffer, which there is only one of.
Convert(c) == /\ Active(c, "convert")
              /\ buffer' = IF IsNumber(Running(c)) THEN Running(c).call ELSE buffer
              /\ Continue(c, "serial_acquire")
              /\ UNCHANGED <<print_lock, serial_lock, console_lock, term_context,
                             serial, screen, calls>>

\* What comes out: which piece of which call, and for a number what the buffer holds.
Output(frame) == [call |-> frame.call, at |-> frame.at, of |-> Len(frame.pieces),
                  val |-> IF IsNumber(frame) THEN buffer ELSE frame.call]

serial_out(c) == /\ Active(c, "serial_acquire")
                 /\ serial_lock = 0 /\ serial_lock' = 1
                 /\ Continue(c, "serial")
                 /\ UNCHANGED <<print_lock, console_lock, buffer, term_context,
                                serial, screen, calls>>

\* Fault: serial_lock is not released.
TransmitKeepsLock(c) == /\ Active(c, "serial")
                        /\ serial' = Append(serial, Output(Running(c)))
                        /\ Continue(c, IF term_context THEN "console_acquire" ELSE "next")
                        /\ UNCHANGED <<print_lock, serial_lock, console_lock, buffer,
                                       term_context, screen, calls>>

Transmit(c) == /\ Active(c, "serial")
               /\ serial' = Append(serial, Output(Running(c)))
               /\ serial_lock' = 0
               /\ Continue(c, IF term_context THEN "console_acquire" ELSE "next")
               /\ UNCHANGED <<print_lock, console_lock, buffer, term_context, screen, calls>>

console_write(c) == /\ Active(c, "console_acquire")
                    /\ console_lock = 0 /\ console_lock' = 1
                    /\ Continue(c, "console")
                    /\ UNCHANGED <<print_lock, serial_lock, buffer, term_context,
                                   serial, screen, calls>>

Show(c) == /\ Active(c, "console")
           /\ screen' = Append(screen, Output(Running(c)))
           /\ console_lock' = 0
           /\ Continue(c, "next")
           /\ UNCHANGED <<print_lock, serial_lock, buffer, term_context, serial, calls>>

NextPiece(c) == /\ Active(c, "next") /\ Running(c).at < Len(Running(c).pieces)
                /\ GoOn(c, Running(c).at + 1, "convert")
                /\ UNCHANGED <<print_lock, serial_lock, console_lock, buffer, term_context,
                               serial, screen, calls>>

\* Fault: print_lock is only released by the last of several calls.
ReleaseLate(c) == /\ Active(c, "next") /\ Running(c).at = Len(Running(c).pieces)
                  /\ print_lock' = IF Running(c).then = <<>> THEN 0 ELSE 1
                  /\ Continue(c, "return")
                  /\ UNCHANGED <<serial_lock, console_lock, buffer, term_context,
                                 serial, screen, calls>>

Release(c) == /\ Active(c, "next") /\ Running(c).at = Len(Running(c).pieces)
              /\ print_lock' = 0
              /\ Continue(c, "return")
              /\ UNCHANGED <<serial_lock, console_lock, buffer, term_context,
                             serial, screen, calls>>

\* The caller goes on: with its next printf, to where it was called from, or nowhere.
Return(c) == /\ Active(c, "return")
             /\ LET frame == Running(c) IN
                IF frame.then # <<>>
                THEN Begin(c, Append(Interrupted(stack[c]), Call(frame.kind, frame.then, frame.after)))
                ELSE /\ IF frame.after = "halted"
                        THEN Continue(c, "halted")
                        ELSE stack' = [stack EXCEPT ![c] = Interrupted(@)]
                     /\ UNCHANGED <<print_lock, serial_lock, console_lock, buffer,
                                    term_context, serial, screen, calls>>

\* The steps of a call that has begun.
PrintStep(c) == \/ Acquire(c) \/ Convert(c) \/ serial_out(c) \/ Transmit(c)
                \/ console_write(c) \/ Show(c) \/ NextPiece(c) \/ Release(c) \/ Return(c)

PrintNext == \/ console_init
             \/ \E c \in Cpus : \/ ThreadPrints(c) \/ HandlerPrints(c) \/ Exception(c)
                                \/ Timeout(c) \/ PrintStep(c)

PrintSpec == PrintInit /\ [][PrintNext]_print

\* A processor that is not waiting or halted goes on.
FairPrintSpec == PrintSpec /\ \A c \in Cpus : WF_print(PrintStep(c))

-----------------------------------------------------------------------------
\* Whole(log): every piece comes after the piece before it of the same call, or, if
\* it is the first, after a call that is complete; and every number is its caller's.
Whole(log) == \A i \in DOMAIN log :
                /\ log[i].val = log[i].call
                /\ IF log[i].at = 1
                   THEN i > 1 => log[i - 1].at = log[i - 1].of
                   ELSE /\ i > 1 /\ log[i - 1].at = log[i].at - 1
                        /\ log[i - 1].call = log[i].call /\ log[i - 1].of = log[i].of

\* The screen shows the end of what was sent to the serial port, but for the last lag
\* pieces.
Shows(lag) == /\ Len(screen) + lag <= Len(serial)
              /\ \A i \in DOMAIN screen :
                   screen[i] = serial[Len(serial) - lag - Len(screen) + i]

\* Whatever interrupts it and whoever else prints, the text of a call of printf comes
\* out in one piece and with its own numbers, and the screen shows what was sent to
\* the serial port since console_init.
OutputWhole == Whole(serial) /\ \E lag \in 0 .. 1 : Shows(lag)

\* Under print_lock the locks of the two devices are never waited for, so that a
\* printf, which holds print_lock, does not stop half way: not even when the call
\* that was interrupted holds them.
DevicesFree == \A c \in Cpus : /\ Active(c, "serial_acquire") => serial_lock = 0
                               /\ Active(c, "console_acquire") => console_lock = 0

\* print_lock is given back, unless a handler on the processor that holds it waits
\* for it: that one waits for itself.
HoldsLock(frame) == frame.pc \notin {"acquire", "return", "halted"}
WaitsForItself == \E c \in Cpus : \E i, j \in DOMAIN stack[c] :
                    i < j /\ HoldsLock(stack[c][i]) /\ stack[c][j].pc = "acquire"
LockReleased == print_lock = 1 ~> (print_lock = 0 \/ WaitsForItself)
=============================================================================
