----------------------------- MODULE Interrupts -----------------------------
(***************************************************************************)
(* threads/interrupt.c: the gates, the two interrupt controllers and       *)
(* intr_handler, under devices that raise interrupts, programs that fault  *)
(* or call the kernel, and threads that are switched inside a handler.     *)
(*                                                                         *)
(* A thread's stack holds a frame for each interrupt it is in: the vector, *)
(* the interrupt flag and the ring to go back to, and where intr_handler   *)
(* is: "handler" (in the registered handler), "complete" (behind it) or    *)
(* "exit" (at intr_exit).  Vectors 32 .. 47 are external: lines 0 .. 7 of  *)
(* the master controller and 8 .. 15 of the slave, which sits on line 2.   *)
(***************************************************************************)
EXTENDS Integers, Sequences, FiniteSets, FiniteSetsExt

CONSTANTS
    IntrThread, FirstThread,
    Irq,            \* lines with a device
    Spurious,       \* of the lines 7 and 15, those with noise
    Internal,       \* vectors of faults and of the INT instruction
    Registrations,  \* calls of intr_register_ext and intr_register_int
    MaxRaise,       \* interrupts devices raise
    MaxNest         \* frames on a stack

ASSUME IntrAssumption ==
    /\ FirstThread \in IntrThread /\ Irq \subseteq 0 .. 15 /\ Spurious \subseteq {7, 15}
    /\ Internal \cap (32 .. 47) = {} /\ {MaxRaise, MaxNest} \subseteq Nat

VARIABLES
    gates,      \* by vector: its gate's type and dpl
    handlers,   \* vectors with a handler
    booted,     \* interrupts have been turned on
    stack, IF_, ring,           \* by thread
    onCpu,    \* the thread on the processor
    irr, isr,   \* lines that wait, lines in service, of both controllers
    in_external_intr, yield_on_return,
    raises,
    assertFailed

cpuVars == <<stack, IF_, ring, onCpu>>
picVars == <<irr, isr, raises>>
flagVars == <<in_external_intr, yield_on_return, assertFailed>>
intrVars == <<gates, handlers, booted, cpuVars, picVars, flagVars>>

External(v) == v \in 32 .. 47
Vectors == Internal \cup {32 + i : i \in Irq \cup Spurious}

\* intr_register_ext is for the controllers' vectors and passes INTR_OFF,
\* intr_register_int is for the others.
ASSUME RegistrationAssumption ==
    \A r \in Registrations :
        /\ r.vec \in Vectors
        /\ r.ext = External(r.vec)
        /\ r.ext => r.level = "off"

\* intr_init: interrupt gates of ring 0, the controllers cleared.
IntrInit ==
    /\ gates = [v \in Vectors |-> [type |-> "interrupt", dpl |-> 0]]
    /\ handlers = {} /\ booted = FALSE
    /\ stack = [t \in IntrThread |-> <<>>]
    /\ IF_ = [t \in IntrThread |-> FALSE]
    /\ ring = [t \in IntrThread |-> 0]
    /\ onCpu = FirstThread
    /\ irr = {} /\ isr = {} /\ raises = 0
    /\ in_external_intr = FALSE /\ yield_on_return = FALSE /\ assertFailed = FALSE

-----------------------------------------------------------------------------
\* Mutant of make_gate: always a trap gate.
TrapGate(r) == [type |-> "trap", dpl |-> r.dpl]

\* make_intr_gate or make_trap_gate.
make_gate(r) == [type |-> IF r.level = "on" THEN "trap" ELSE "interrupt", dpl |-> r.dpl]

\* intr_register_ext and intr_register_int, with register_handler.
register_handler ==
    /\ ~booted /\ ~assertFailed
    /\ \E r \in Registrations :
         /\ r.vec \notin handlers
         /\ gates' = [gates EXCEPT ![r.vec] = make_gate(r)]
         /\ handlers' = handlers \cup {r.vec}
         /\ assertFailed' = (r.ext # External(r.vec))
    /\ UNCHANGED <<booted, cpuVars, picVars, in_external_intr, yield_on_return>>

\* thread_start turns interrupts on; the threads go to user mode.
StartUser ==
    /\ ~booted /\ ~assertFailed /\ handlers = {r.vec : r \in Registrations}
    /\ booted' = TRUE
    /\ IF_' = [t \in IntrThread |-> TRUE]
    /\ ring' = [t \in IntrThread |-> 3]
    /\ UNCHANGED <<gates, handlers, stack, onCpu, picVars, flagVars>>

-----------------------------------------------------------------------------
\* The line of the master that carries a line.
Master(i) == IF i >= 8 THEN 2 ELSE i
\* Is a line of higher or equal rank in service or waiting?
Outranked(i) ==
    \/ \E j \in isr : Master(j) < Master(i) \/ (Master(j) = Master(i) /\ j <= i)
    \/ \E j \in irr : Master(j) < Master(i) \/ (Master(j) = Master(i) /\ j < i)

\* A device raises its line.
Raise ==
    /\ booted /\ raises < MaxRaise
    /\ \E i \in Irq \ irr : irr' = irr \cup {i}
    /\ raises' = raises + 1
    /\ UNCHANGED <<gates, handlers, booted, cpuVars, isr, flagVars>>

\* The processor enters VEC's gate, and intr_handler begins.
Enter(v) ==
    LET t == onCpu
        off == gates[v].type = "interrupt"
    IN  /\ stack' = [stack EXCEPT ![t] = Append(@,
              [vec |-> v, back |-> IF_[t], ring |-> ring[t], at |-> "handler"])]
        /\ IF_' = [IF_ EXCEPT ![t] = @ /\ ~off]
        /\ ring' = [ring EXCEPT ![t] = 0]
        /\ assertFailed' = (External(v) /\ (in_external_intr \/ IF_'[t]))
        /\ in_external_intr' = (External(v) \/ in_external_intr)
        /\ yield_on_return' = (~External(v) /\ yield_on_return)
        /\ UNCHANGED <<gates, handlers, booted, onCpu>>

CanEnter == booted /\ ~assertFailed /\ Len(stack[onCpu]) < MaxNest

\* An external interrupt is taken while interrupts are on.
ExternalInterrupt ==
    /\ CanEnter /\ IF_[onCpu]
    /\ \E i \in irr : /\ ~Outranked(i)
                      /\ irr' = irr \ {i} /\ isr' = isr \cup {i}
                      /\ Enter(32 + i)
    /\ UNCHANGED raises

\* A line that went away before it was acknowledged: the controller answers
\* with its lowest line and has none of its own in service.
SpuriousInterrupt ==
    /\ CanEnter /\ IF_[onCpu] /\ raises < MaxRaise
    /\ raises' = raises + 1
    /\ \E i \in Spurious : ~Outranked(i) /\ Enter(32 + i)
    /\ UNCHANGED <<irr, isr>>

\* A fault, or a user program's INT.
InternalInterrupt ==
    /\ CanEnter /\ ~in_external_intr
    /\ \E v \in Internal : /\ ring[onCpu] = 3 \/ gates[v].dpl = 0
                           /\ Enter(v)
    /\ UNCHANGED picVars

-----------------------------------------------------------------------------
Top == stack[onCpu][Len(stack[onCpu])]
At(place) == ~assertFailed /\ stack[onCpu] # <<>> /\ Top.at = place
MoveTop(place) == [stack EXCEPT ![onCpu][Len(stack[onCpu])].at = place]

\* The handler returns; one of an external interrupt may have called
\* intr_yield_on_return.  Without a handler, unexpected_interrupt counts, or
\* it was spurious.
HandlerReturns ==
    /\ At("handler")
    /\ stack' = MoveTop("complete")
    /\ IF External(Top.vec) /\ Top.vec \in handlers
       THEN yield_on_return' \in {yield_on_return, TRUE}
       ELSE UNCHANGED yield_on_return
    /\ UNCHANGED <<gates, handlers, booted, IF_, ring, onCpu, picVars,
                   in_external_intr, assertFailed>>

\* A handler of an internal interrupt turns interrupts on or off.
SetLevel ==
    /\ At("handler") /\ ~External(Top.vec)
    /\ \E b \in BOOLEAN : IF_' = [IF_ EXCEPT ![onCpu] = b]
    /\ assertFailed' = in_external_intr
    /\ UNCHANGED <<gates, handlers, booted, stack, ring, onCpu, picVars,
                   in_external_intr, yield_on_return>>

\* pic_end_of_interrupt: each controller that is told lets go of the highest
\* line it has in service; the slave is told of its own lines only.
pic_end_of_interrupt(v) ==
    LET First(s) == IF s = {} THEN {} ELSE {Min(s)} IN
    IF v >= 40 THEN isr \ First({i \in isr : i >= 8})
    ELSE isr \ First({i \in isr : i < 8})

\* The end of intr_handler: the interrupt is acknowledged, and thread_yield
\* is called if asked for.
Complete ==
    /\ At("complete")
    /\ stack' = MoveTop("exit")
    /\ IF External(Top.vec)
       THEN /\ assertFailed' = (~in_external_intr \/ IF_[onCpu])
            /\ in_external_intr' = FALSE
            /\ isr' = pic_end_of_interrupt(Top.vec)
            /\ onCpu' \in IF yield_on_return THEN IntrThread ELSE {onCpu}
       ELSE UNCHANGED <<assertFailed, in_external_intr, isr, onCpu>>
    /\ UNCHANGED <<gates, handlers, booted, IF_, ring, irr, raises, yield_on_return>>

\* intr_exit: iret restores the flag and the ring.
intr_exit ==
    /\ At("exit")
    /\ stack' = [stack EXCEPT ![onCpu] = SubSeq(@, 1, Len(@) - 1)]
    /\ IF_' = [IF_ EXCEPT ![onCpu] = Top.back]
    /\ ring' = [ring EXCEPT ![onCpu] = Top.ring]
    /\ UNCHANGED <<gates, handlers, booted, onCpu, picVars, flagVars>>

\* A handler of an internal interrupt blocks or yields.
SwitchInside ==
    /\ At("handler") /\ ~External(Top.vec)
    /\ assertFailed' = in_external_intr
    /\ \E t \in IntrThread \ {onCpu} : onCpu' = t
    /\ UNCHANGED <<gates, handlers, booted, stack, IF_, ring, picVars,
                   in_external_intr, yield_on_return>>

IntrNext ==
    \/ register_handler \/ StartUser \/ Raise
    \/ ExternalInterrupt \/ SpuriousInterrupt \/ InternalInterrupt
    \/ HandlerReturns \/ SetLevel \/ Complete \/ intr_exit \/ SwitchInside

IntrSpec == IntrInit /\ [][IntrNext]_intrVars

-----------------------------------------------------------------------------
Handling == {t \in IntrThread : \E i \in DOMAIN stack[t] :
                /\ External(stack[t][i].vec)
                /\ stack[t][i].at \in {"handler", "complete"}}

\* "External interrupts run with interrupts turned off, so they never nest,
\* nor are they ever pre-empted" (interrupt.c): over all switches inside
\* handlers, in_external_intr is set exactly while one thread, the running
\* one, is in an external interrupt, and no assertion fails.
OneExternal ==
    /\ ~assertFailed
    /\ in_external_intr = (Handling # {})
    /\ Handling \subseteq {onCpu}

\* "If we don't acknowledge the IRQ, it will never be delivered to us again":
\* a line is in service only while its own interrupt is handled, so that
\* neither a thread switch nor a spurious interrupt, which is acknowledged
\* without having been in service, leaves a line dead.
Acknowledged ==
    \A i \in isr : \E t \in Handling : \E k \in DOMAIN stack[t] :
        stack[t][k].vec = 32 + i /\ stack[t][k].at \in {"handler", "complete"}

\* A user program runs with interrupts on, whatever level the handlers it
\* passed through set.
UserInterruptible == \A t \in IntrThread : ring[t] = 3 => IF_[t]

\* intr_handler under nesting and thread switches: one external interrupt at a
\* time, every line in service is acknowledged when its handler is left, and
\* user programs run with interrupts on.
InterruptsSound == OneExternal /\ Acknowledged /\ UserInterruptible
=============================================================================
