------------------------------ MODULE Console ------------------------------
(***************************************************************************)
(* The console: readers of the keyboard buffer and printing threads that   *)
(* share two interrupt queues with the serial interrupt, after             *)
(* devices/intq.c, devices/input.c, devices/serial.c and                   *)
(* lib/kernel/console.c of "group projects".                               *)
(*                                                                         *)
(* Queue "in" is input.c's buffer, queue "tx" serial.c's txq.  Code that   *)
(* runs with interrupts off is one step up to the point where it blocks.   *)
(* A thread is "idle", or in intq_getc or intq_putc "wait"ing (it holds    *)
(* the queue's lock), "ready" (woken by signal), "lockwait"ing for the     *)
(* queue's lock or "lockready" (woken by lock_release).                    *)
(***************************************************************************)
EXTENDS Integers, Sequences, FiniteSets, SequencesExt

CONSTANTS Reader, Writer, NoOne,
    BufSize,      \* INTQ_BUFSIZE
    LineLen,      \* characters a writer prints under the console lock
    MaxKeys,      \* bound: keys pressed and bytes received
    MaxReads,     \* bound: reads of one thread
    MaxIntr       \* bound: characters printed by interrupt handlers

ASSUME ConsoleAssumption ==
    /\ BufSize \in Nat /\ BufSize > 1 /\ LineLen \in Nat \ {0}
    /\ MaxKeys \in Nat /\ MaxReads \in Nat /\ MaxIntr \in Nat
    /\ Reader \cap Writer = {} /\ NoOne \notin Reader \cup Writer

VARIABLES
    q,        \* by queue: [buf, head, tail, lock, waiter]
    th,       \* by thread: where it is in intq_getc or intq_putc
    mode,     \* "uninit", "poll" or "queue"
    ier,      \* the UART's interrupt enable register
    uart,     \* [rbr: bytes received (0 or 1), busy: transmitting]
    line,     \* by writer: characters printed; nested: in an inner printf
    console,  \* [lock, depth]: console_lock and console_lock_depth
    wire,     \* history: the characters sent, [by, n]
    keys,     \* history: [accepted, read]: keys put into and read from the buffer
    reads, pressed, intrs,
    conHalt   \* "no", "off" after serial_flush, "panic" after a failed ASSERT

conVars == <<q, th, mode, ier, uart, line, console, wire, keys, reads, pressed, intrs, conHalt>>

Queue == {"in", "tx"}
ConThread == Reader \cup Writer
EmptyQueue ==
    [buf |-> [i \in 0 .. BufSize - 1 |-> [by |-> NoOne, n |-> 0]], head |-> 0, tail |-> 0,
     lock |-> NoOne, waiter |-> NoOne]

ConInit ==
    /\ q = [k \in Queue |-> EmptyQueue]
    /\ th = [t \in ConThread |-> "idle"]
    /\ mode = "uninit"
    /\ ier = [xmit |-> FALSE, recv |-> FALSE]
    /\ uart = [rbr |-> 0, busy |-> FALSE]
    /\ line = [w \in Writer |-> [next |-> 1, nested |-> FALSE]]
    /\ console = [lock |-> NoOne, depth |-> 0]
    /\ wire = <<>> /\ keys = [accepted |-> 0, read |-> <<>>]
    /\ reads = [t \in Reader |-> 0] /\ pressed = 0 /\ intrs = 0
    /\ conHalt = "no"

-----------------------------------------------------------------------------
\* intq.c.
intq_next(pos) == (pos + 1) % BufSize
intq_empty(x) == x.head = x.tail
intq_full(x) == intq_next(x.head) = x.tail
intq_byte(x) == x.buf[x.tail]
intq_drop(x) == [x EXCEPT !.tail = intq_next(@)]
intq_add(x, b) == [x EXCEPT !.buf = [@ EXCEPT ![x.head] = b], !.head = intq_next(@)]

Contents(x) ==
    LET n == (x.head - x.tail) % BufSize
    IN  [i \in 1 .. n |-> x.buf[(x.tail + i - 1) % BufSize]]

\* signal: the thread waiting for the queue's condition, if any.
Unwaited(x) == [x EXCEPT !.waiter = NoOne]
Signalled(x, threads) == IF x.waiter = NoOne THEN threads ELSE [threads EXCEPT ![x.waiter] = "ready"]

\* lock_release by a thread that wait has woken.
Unlocked(t, x) == IF th[t] = "ready" THEN [x EXCEPT !.lock = NoOne] ELSE x
LockWoken(t, threads) ==
    LET peers == {u \in ConThread : th[u] = "lockwait" /\ (u \in Reader <=> t \in Reader)}
    IN  IF th[t] = "ready" /\ peers # {}
        THEN [threads EXCEPT ![CHOOSE u \in peers : TRUE] = "lockready"] ELSE threads

\* One turn of the while loop in intq_getc or intq_putc, on a queue that is
\* empty or full: lock_acquire, and wait unless the lock is taken.
Sleep(t, k) ==
    LET x == Unlocked(t, q[k])
    IN  IF x.lock = NoOne
        THEN /\ q' = [q EXCEPT ![k] = [x EXCEPT !.lock = t, !.waiter = t]]
             /\ th' = [LockWoken(t, th) EXCEPT ![t] = "wait"]
        ELSE /\ q' = [q EXCEPT ![k] = x]
             /\ th' = [LockWoken(t, th) EXCEPT ![t] = "lockwait"]

\* Mutant of write_ier: transmit interrupts only for a full queue.
write_ierFull(x) == [xmit |-> intq_full(x["tx"]), recv |-> ~intq_full(x["in"])]

\* write_ier and serial_notify.
write_ier(x) == [xmit |-> ~intq_empty(x["tx"]), recv |-> ~intq_full(x["in"])]

Running(t) == conHalt = "no" /\ mode = "queue" /\ th[t] \in {"idle", "ready"}

-----------------------------------------------------------------------------
\* Mutant of InputGetc: a woken reader does not look at the queue again.
InputGetcSure(t) ==
    /\ Running(t) /\ (th[t] = "idle" => reads[t] < MaxReads)
    /\ IF th[t] = "idle" /\ intq_empty(q["in"])
         THEN Sleep(t, "in") /\ UNCHANGED <<ier, keys, reads>>
       ELSE LET x == Unlocked(t, q["in"])
            IN  /\ q' = [q EXCEPT !["in"] = intq_drop(x)]
                /\ keys' = [keys EXCEPT !.read = Append(@, intq_byte(x).n)]
                /\ th' = [LockWoken(t, th) EXCEPT ![t] = "idle"]
                /\ reads' = [reads EXCEPT ![t] = @ + 1]
                /\ ier' = write_ier(q')
    /\ UNCHANGED <<mode, uart, line, console, wire, pressed, intrs, conHalt>>

\* input_getc: intq_getc and serial_notify.
InputGetc(t) ==
    /\ Running(t) /\ (th[t] = "idle" => reads[t] < MaxReads)
    /\ IF intq_empty(q["in"]) THEN Sleep(t, "in") /\ UNCHANGED <<ier, keys, reads>>
       ELSE LET x == Unlocked(t, q["in"])
            IN  /\ q' = [q EXCEPT !["in"] = intq_drop(x)]
                /\ keys' = [keys EXCEPT !.read = Append(@, intq_byte(x).n)]
                /\ th' = [LockWoken(t, th) EXCEPT ![t] = "idle"]
                /\ reads' = [reads EXCEPT ![t] = @ + 1]
                /\ ier' = write_ier(q')
    /\ UNCHANGED <<mode, uart, line, console, wire, pressed, intrs, conHalt>>

\* A reader that lock_release has woken: it takes the lock, and wait asserts
\* that the queue is still empty.
LockTaken(t) ==
    /\ conHalt = "no" /\ th[t] = "lockready"
    /\ LET x == q["in"]
       IN  IF x.lock # NoOne THEN th' = [th EXCEPT ![t] = "lockwait"] /\ UNCHANGED <<q, conHalt>>
           ELSE IF ~intq_empty(x) THEN conHalt' = "panic" /\ UNCHANGED <<q, th>>
           ELSE /\ q' = [q EXCEPT !["in"] = [x EXCEPT !.lock = t, !.waiter = t]]
                /\ th' = [th EXCEPT ![t] = "wait"]
                /\ UNCHANGED conHalt
    /\ UNCHANGED <<mode, ier, uart, line, console, wire, keys, reads, pressed, intrs>>

\* input_putc, of the keyboard interrupt: a key is dropped when the buffer is
\* full.
KeyPressed ==
    /\ conHalt = "no" /\ mode = "queue" /\ pressed < MaxKeys
    /\ pressed' = pressed + 1
    /\ IF intq_full(q["in"]) THEN UNCHANGED <<q, th, ier, keys>>
       ELSE /\ q' = [q EXCEPT !["in"] =
                       Unwaited(intq_add(@, [by |-> NoOne, n |-> keys.accepted + 1]))]
            /\ th' = Signalled(q["in"], th)
            /\ keys' = [keys EXCEPT !.accepted = @ + 1]
            /\ ier' = write_ier(q')
    /\ UNCHANGED <<mode, uart, line, console, wire, reads, intrs, conHalt>>

-----------------------------------------------------------------------------
\* outb (THR_REG, ...): the UART takes a character and is busy.
Sent(chars) == wire' = wire \o chars

\* The first character at boot: init_poll and putc_poll.
BootPutc ==
    /\ conHalt = "no" /\ mode = "uninit"
    /\ mode' = "poll" /\ uart' = [uart EXCEPT !.busy = TRUE]
    /\ Sent(<<[by |-> NoOne, n |-> 0]>>)
    /\ UNCHANGED <<q, th, ier, line, console, keys, reads, pressed, intrs, conHalt>>

\* serial_init_queue.
SerialInitQueue ==
    /\ conHalt = "no" /\ mode = "poll"
    /\ mode' = "queue" /\ ier' = write_ier(q)
    /\ UNCHANGED <<q, th, uart, line, console, wire, keys, reads, pressed, intrs, conHalt>>

\* acquire_console by a thread that starts a line.
AcquireConsole(w) ==
    /\ Running(w) /\ console.lock = NoOne /\ line[w].next = 1
    /\ console' = [console EXCEPT !.lock = w]
    /\ UNCHANGED <<q, th, mode, ier, uart, line, wire, keys, reads, pressed, intrs, conHalt>>

\* acquire_console by the thread that holds the lock: printf inside printf.
AcquireAgain(w) ==
    /\ Running(w) /\ th[w] = "idle" /\ console.lock = w /\ line[w].next = 2 /\ ~line[w].nested
    /\ console' = [console EXCEPT !.depth = @ + 1]
    /\ line' = [line EXCEPT ![w].nested = TRUE]
    /\ UNCHANGED <<q, th, mode, ier, uart, wire, keys, reads, pressed, intrs, conHalt>>

\* putchar_have_lock and serial_putc with interrupts on.
PutChar(w) ==
    /\ Running(w) /\ console.lock = w /\ line[w].next <= LineLen
    /\ IF intq_full(q["tx"]) THEN Sleep(w, "tx") /\ UNCHANGED <<ier, line>>
       ELSE /\ q' = [q EXCEPT !["tx"] = intq_add(Unlocked(w, @), [by |-> w, n |-> line[w].next])]
            /\ th' = [th EXCEPT ![w] = "idle"]
            /\ line' = [line EXCEPT ![w].next = @ + 1]
            /\ ier' = write_ier(q')
    /\ UNCHANGED <<mode, uart, console, wire, keys, reads, pressed, intrs, conHalt>>

\* release_console.
ReleaseConsole(w) ==
    /\ Running(w) /\ th[w] = "idle" /\ console.lock = w
    /\ \/ console.depth > 0 \/ line[w].next > LineLen
    /\ console' = IF console.depth > 0 THEN [console EXCEPT !.depth = @ - 1]
                  ELSE [console EXCEPT !.lock = NoOne]
    /\ UNCHANGED <<q, th, mode, ier, uart, line, wire, keys, reads, pressed, intrs, conHalt>>

\* serial_putc in an interrupt handler, without the console lock: when the
\* queue is full its oldest character is sent by polling.
IntrPutc ==
    /\ conHalt = "no" /\ mode = "queue" /\ intrs < MaxIntr
    /\ intrs' = intrs + 1
    /\ LET c == [by |-> NoOne, n |-> intrs']
       IN  IF intq_full(q["tx"])
             THEN /\ ~uart.busy
                  /\ Sent(<<intq_byte(q["tx"])>>) /\ uart' = [uart EXCEPT !.busy = TRUE]
                  /\ q' = [q EXCEPT !["tx"] = intq_add(Unwaited(intq_drop(@)), c)]
                  /\ th' = Signalled(q["tx"], th)
                  /\ ier' = write_ier(q')
           ELSE /\ q' = [q EXCEPT !["tx"] = intq_add(@, c)]
                /\ ier' = write_ier(q')
                /\ UNCHANGED <<th, uart, wire>>
    /\ UNCHANGED <<mode, line, console, keys, reads, pressed, conHalt>>

\* serial_flush at power off.
SerialFlush ==
    /\ conHalt = "no" /\ mode = "queue"
    /\ Sent(Contents(q["tx"]))
    /\ q' = [q EXCEPT !["tx"] = Unwaited([q["tx"] EXCEPT !.tail = q["tx"].head])]
    /\ th' = IF intq_empty(q["tx"]) THEN th ELSE Signalled(q["tx"], th)
    /\ conHalt' = "off"
    /\ UNCHANGED <<mode, ier, uart, line, console, keys, reads, pressed, intrs>>

-----------------------------------------------------------------------------
\* The UART: a byte is received (one that comes too early is lost), and a
\* character has been sent.
ByteArrives ==
    /\ conHalt = "no" /\ mode = "queue" /\ pressed < MaxKeys
    /\ pressed' = pressed + 1 /\ uart' = [uart EXCEPT !.rbr = 1]
    /\ UNCHANGED <<q, th, mode, ier, line, console, wire, keys, reads, intrs, conHalt>>
UartReady ==
    /\ conHalt = "no" /\ uart.busy
    /\ uart' = [uart EXCEPT !.busy = FALSE]
    /\ UNCHANGED <<q, th, mode, ier, line, console, wire, keys, reads, pressed, intrs, conHalt>>

\* serial_interrupt: receive while there is room, transmit while the UART is
\* ready, and update the interrupt enable register.
SerialInterrupt ==
    LET rx == uart.rbr = 1 /\ ~intq_full(q["in"])
        tx == ~intq_empty(q["tx"]) /\ ~uart.busy
        th1 == IF rx THEN Signalled(q["in"], th) ELSE th
    IN  /\ conHalt = "no" /\ mode = "queue"
        /\ (ier.recv /\ uart.rbr = 1) \/ (ier.xmit /\ ~uart.busy)
        /\ q' = [q EXCEPT
                   !["in"] = IF rx THEN Unwaited(intq_add(@, [by |-> NoOne, n |-> keys.accepted + 1]))
                             ELSE @,
                   !["tx"] = IF tx THEN Unwaited(intq_drop(@)) ELSE @]
        /\ th' = IF tx THEN Signalled(q["tx"], th1) ELSE th1
        /\ keys' = IF rx THEN [keys EXCEPT !.accepted = @ + 1] ELSE keys
        /\ Sent(IF tx THEN <<intq_byte(q["tx"])>> ELSE <<>>)
        /\ uart' = [rbr |-> IF rx THEN 0 ELSE uart.rbr, busy |-> uart.busy \/ tx]
        /\ ier' = write_ier(q')
        /\ UNCHANGED <<mode, line, console, reads, pressed, intrs, conHalt>>

ConDone == conHalt # "no" /\ UNCHANGED conVars

WriterStep(w) ==
    AcquireConsole(w) \/ AcquireAgain(w) \/ PutChar(w) \/ ReleaseConsole(w)
ReaderStep(t) == InputGetc(t) \/ LockTaken(t)

ConNext ==
    \/ \E t \in Reader : ReaderStep(t)
    \/ \E w \in Writer : WriterStep(w)
    \/ BootPutc \/ SerialInitQueue \/ KeyPressed \/ IntrPutc \/ SerialFlush
    \/ ByteArrives \/ UartReady \/ SerialInterrupt \/ ConDone

-----------------------------------------------------------------------------
\* Types; the positions of both rings of intq.c stay inside their buffers.
ConTypeOK ==
    /\ th \in [ConThread -> {"idle", "wait", "ready", "lockwait", "lockready"}]
    /\ \A k \in Queue :
         /\ q[k].head \in 0 .. BufSize - 1 /\ q[k].tail \in 0 .. BufSize - 1
         /\ q[k].lock \in ConThread \cup {NoOne} /\ q[k].waiter \in ConThread \cup {NoOne}
    /\ console.depth \in Nat /\ ier \in [xmit : BOOLEAN, recv : BOOLEAN]

\* Keys are read in the order they were accepted, each by one reader, none
\* lost and none twice: through the wrap-around of the ring, and when several
\* threads wait and the interrupt comes between the wake-up and the read.
KeysInOrder ==
    keys.read \o [i \in 1 .. Len(Contents(q["in"])) |-> Contents(q["in"])[i].n]
      = [i \in 1 .. keys.accepted |-> i]

\* What threads have printed, sent or still queued, is whole lines in the
\* order of their characters: neither the wait for a full queue, nor the
\* inner printf, nor the polling of an interrupt handler lets another
\* thread's characters in between or changes their order.
LinesWhole ==
    LET out == SelectSeq(wire \o Contents(q["tx"]), LAMBDA c : c.by # NoOne)
    IN  \A i \in DOMAIN out :
          /\ out[i].n = ((i - 1) % LineLen) + 1
          /\ out[i].n > 1 => out[i].by = out[i - 1].by

\* No character is lost or doubled: every one a thread or a handler printed
\* is on the wire or in the queue, and after power off it is on the wire.
NothingUnsent ==
    LET out == IF conHalt = "off" THEN wire ELSE wire \o Contents(q["tx"])
        from(b) == SelectSeq(out, LAMBDA c : c.by = b /\ c.n > 0)
    IN  /\ \A w \in Writer : Len(from(w)) = line[w].next - 1
        /\ Len(from(NoOne)) = intrs

\* The interrupts that are enabled are the ones the queues need: a queued
\* character or a free place in the buffer is never left without its interrupt.
InterruptsArmed ==
    mode = "queue" /\ conHalt = "no" =>
      ier.xmit = ~intq_empty(q["tx"]) /\ ier.recv = ~intq_full(q["in"])

\* A thread sleeps only on a queue it cannot use, or it is about to be woken:
\* a reader that waits with keys in the buffer is always behind a reader
\* that is awake.
NoKeySleeper ==
    conHalt = "no" =>
      /\ \A k \in Queue : q[k].waiter # NoOne =>
           th[q[k].waiter] = "wait" /\ (IF k = "in" THEN intq_empty(q[k]) ELSE intq_full(q[k]))
      /\ \A t \in ConThread : th[t] = "wait" =>
           \E k \in Queue : q[k].waiter = t /\ q[k].lock = t
      /\ (\E t \in Reader : th[t] = "lockwait") =>
           \E u \in Reader : th[u] \in {"wait", "ready", "lockready"}

\* A queued character is sent in the end.
OutputFlows == (mode = "queue" /\ ~intq_empty(q["tx"])) ~> (intq_empty(q["tx"]) \/ conHalt # "no")

\* A line that has been started is finished, as far as the console runs.
LinesEnd == []<>(console.lock = NoOne \/ conHalt # "no")

\* The console's queues between threads and the UART: keys are read once and
\* in order, lines are whole, a flush leaves nothing behind, the interrupts
\* needed are armed, and no reader sleeps on keys that are there.
ConsoleSound ==
    /\ ConTypeOK
    /\ KeysInOrder
    /\ LinesWhole
    /\ NothingUnsent
    /\ InterruptsArmed
    /\ NoKeySleeper
=============================================================================
