-------------------------------- MODULE Disk --------------------------------
(***************************************************************************)
(* One ATA channel with two disks, the threads that read and write sectors *)
(* through it, and its interrupt, after devices/ide.c and devices/block.c  *)
(* of "group projects".  A thread is                                       *)
(*   "idle"    between two requests                                        *)
(*   "lock"    at lock_acquire (&c->lock)                                  *)
(*   "select"  in select_sector, waiting for the controller to be idle     *)
(*   "issue"   at issue_pio_command                                        *)
(*   "down"    at sema_down (&c->completion_wait)                          *)
(*   "busy"    in wait_while_busy                                          *)
(*   "move"    at input_sector or output_sector                            *)
(*   "unlock"  at lock_release                                             *)
(* The controller is external: it takes a command when it is idle, is busy *)
(* for a while, asks for or offers a sector of data (drq) and raises an    *)
(* interrupt.  Reading its status register clears the interrupt.           *)
(***************************************************************************)
EXTENDS Integers

CONSTANTS DiskThread, NoThread,
    DiskSector,   \* sectors of a disk
    DiskValue,    \* contents of a sector
    DiskOps,      \* bound: requests of one thread
    MaxSpurious   \* bound: interrupts nothing asked for

ASSUME DiskAssumption ==
    /\ NoThread \notin DiskThread
    /\ DiskOps \in Nat /\ MaxSpurious \in Nat
    /\ DiskValue # {} /\ DiskSector # {}

Drive == 0 .. 1
Place == Drive \X DiskSector

VARIABLES
    dpc, request, ops,
    channel,      \* [lock, expecting, completion, place]: struct channel and
                  \* the sector selection registers
    ctl,          \* [state, irq, place, data]: the controller
    media,        \* what is on the disks
    counts,       \* by kind, sectors transferred: read_cnt and write_cnt
    got,          \* by thread, what its last read returned
    latest,       \* history: by place, the sector sent last
    slow,         \* the controller may stay busy for longer than the 10 ms of
                  \* wait_until_idle; fixed in a behaviour
    spurious,     \* spurious interrupts so far
    diskPanic     \* PANIC: the device answered without DRQ

diskVars == <<dpc, request, ops, channel, ctl, media, counts, got, latest,
              slow, spurious, diskPanic>>

DiskBlank == CHOOSE v \in DiskValue : TRUE

DiskInit ==
    /\ dpc = [t \in DiskThread |-> "idle"]
    /\ request = [t \in DiskThread |->
                    [kind |-> "read", place |-> CHOOSE p \in Place : TRUE, data |-> DiskBlank]]
    /\ ops = [t \in DiskThread |-> 0]
    /\ channel = [lock |-> NoThread, expecting |-> FALSE, completion |-> 0,
                  place |-> CHOOSE p \in Place : TRUE]
    /\ ctl = [state |-> "idle", irq |-> FALSE, place |-> CHOOSE p \in Place : TRUE,
              data |-> DiskBlank]
    /\ media = [p \in Place |-> DiskBlank]
    /\ counts = [read |-> 0, write |-> 0]
    /\ got = [t \in DiskThread |-> DiskBlank]
    /\ latest = [p \in Place |-> DiskBlank]
    /\ slow \in BOOLEAN
    /\ spurious = 0
    /\ diskPanic = FALSE

At(t, from) == ~diskPanic /\ dpc[t] = from
To(t, to) == dpc' = [dpc EXCEPT ![t] = to]

\* block_read and block_write, up to the driver.  check_sector panics on a
\* sector past the end; the callers stay within.
DiskRequest(t, kind, place, v) ==
    /\ At(t, "idle") /\ ops[t] < DiskOps
    /\ request' = [request EXCEPT ![t] = [kind |-> kind, place |-> place, data |-> v]]
    /\ ops' = [ops EXCEPT ![t] = @ + 1]
    /\ To(t, "lock")
    /\ UNCHANGED <<channel, ctl, media, counts, got, latest, slow, spurious, diskPanic>>

\* lock_acquire (&c->lock).
DiskLock(t) ==
    /\ At(t, "lock") /\ channel.lock = NoThread
    /\ channel' = [channel EXCEPT !.lock = t]
    /\ To(t, "select")
    /\ UNCHANGED <<request, ops, ctl, media, counts, got, latest, slow, spurious, diskPanic>>

\* select_sector: the controller is idle, or wait_until_idle has given up
\* after its 1000 tries.  The status reads clear a pending interrupt.
SelectSector(t) ==
    /\ At(t, "select") /\ (ctl.state = "idle" \/ slow)
    /\ channel' = [channel EXCEPT !.place = request[t].place]
    /\ ctl' = [ctl EXCEPT !.irq = FALSE]
    /\ To(t, "issue")
    /\ UNCHANGED <<request, ops, media, counts, got, latest, slow, spurious, diskPanic>>

\* Mutant of IssuePioCommand: expecting_interrupt is not set.
IssuePioCommandQuiet(t) ==
    /\ At(t, "issue")
    /\ ctl' = [ctl EXCEPT !.state = IF @ = "idle" THEN request[t].kind ELSE @,
                          !.place = IF ctl.state = "idle" THEN channel.place ELSE @]
    /\ To(t, IF request[t].kind = "read" THEN "down" ELSE "busy")
    /\ UNCHANGED <<channel, request, ops, media, counts, got, latest, slow, spurious, diskPanic>>

\* issue_pio_command: a command written to a controller that is not idle is
\* lost.
IssuePioCommand(t) ==
    /\ At(t, "issue")
    /\ channel' = [channel EXCEPT !.expecting = TRUE]
    /\ ctl' = [ctl EXCEPT !.state = IF @ = "idle" THEN request[t].kind ELSE @,
                          !.place = IF ctl.state = "idle" THEN channel.place ELSE @]
    /\ To(t, IF request[t].kind = "read" THEN "down" ELSE "busy")
    /\ UNCHANGED <<request, ops, media, counts, got, latest, slow, spurious, diskPanic>>

\* sema_down (&c->completion_wait): before the data of a read, at the end of
\* a write.
CompletionDown(t) ==
    /\ At(t, "down") /\ channel.completion > 0
    /\ channel' = [channel EXCEPT !.completion = @ - 1]
    /\ To(t, IF request[t].kind = "read" THEN "busy" ELSE "unlock")
    /\ UNCHANGED <<request, ops, ctl, media, counts, got, latest, slow, spurious, diskPanic>>

\* Mutant of WaitWhileBusy: BSY is not waited for.
WaitWhileBusyNot(t) ==
    /\ At(t, "busy")
    /\ To(t, "move")
    /\ UNCHANGED <<request, ops, channel, ctl, media, counts, got, latest, slow, spurious, diskPanic>>

\* wait_while_busy: BSY is clear; without DRQ the caller panics.  The
\* controller is taken to be ready within the 30 seconds it is given.
Busy == ctl.state \in {"read", "write", "store"}
WaitWhileBusy(t) ==
    /\ At(t, "busy") /\ ~Busy
    /\ IF ctl.state \in {"offer", "take"} THEN To(t, "move") /\ UNCHANGED diskPanic
       ELSE diskPanic' = TRUE /\ UNCHANGED dpc
    /\ UNCHANGED <<request, ops, channel, ctl, media, counts, got, latest, slow, spurious>>

\* input_sector: the sector the controller offers.
InputSector(t) ==
    /\ At(t, "move") /\ request[t].kind = "read"
    /\ got' = [got EXCEPT ![t] = ctl.data]
    /\ ctl' = [ctl EXCEPT !.state = IF @ = "offer" THEN "idle" ELSE @]
    /\ To(t, "unlock")
    /\ UNCHANGED <<request, ops, channel, media, counts, latest, slow, spurious, diskPanic>>

\* output_sector: the controller takes the sector and stores it.
OutputSector(t) ==
    /\ At(t, "move") /\ request[t].kind = "write"
    /\ ctl' = [ctl EXCEPT !.data = request[t].data,
                          !.state = IF @ = "take" THEN "store" ELSE @]
    /\ latest' = [latest EXCEPT ![request[t].place] = request[t].data]
    /\ To(t, "down")
    /\ UNCHANGED <<request, ops, channel, media, counts, got, slow, spurious, diskPanic>>

\* lock_release, and the counter of block_read or block_write.
DiskUnlock(t) ==
    /\ At(t, "unlock")
    /\ channel' = [channel EXCEPT !.lock = NoThread]
    /\ counts' = [counts EXCEPT ![request[t].kind] = @ + 1]
    /\ To(t, "idle")
    /\ UNCHANGED <<request, ops, ctl, media, got, latest, slow, spurious, diskPanic>>

-----------------------------------------------------------------------------
\* The controller finishes being busy.
ControllerReady ==
    /\ ~diskPanic /\ Busy
    /\ ctl' = [ctl EXCEPT
                 !.state = CASE @ = "read" -> "offer" [] @ = "write" -> "take"
                             [] @ = "store" -> "idle",
                 !.data = IF ctl.state = "read" THEN media[ctl.place] ELSE @,
                 !.irq = @ \/ ctl.state # "write"]
    /\ media' = IF ctl.state = "store" THEN [media EXCEPT ![ctl.place] = ctl.data] ELSE media
    /\ UNCHANGED <<dpc, request, ops, channel, counts, got, latest, slow, spurious, diskPanic>>

\* interrupt_handler.
InterruptHandler ==
    /\ ~diskPanic /\ ctl.irq
    /\ ctl' = [ctl EXCEPT !.irq = FALSE]
    /\ channel' = [channel EXCEPT !.completion = IF channel.expecting THEN @ + 1 ELSE @]
    /\ UNCHANGED <<dpc, request, ops, media, counts, got, latest, slow, spurious, diskPanic>>

\* An interrupt nothing asked for: expecting_interrupt is never cleared, so
\* after the first command the handler takes it for a completion.  It is
\* taken with a controller that is not slow: each of the two is survived,
\* both together end in the PANIC of wait_while_busy.
SpuriousInterrupt ==
    /\ ~diskPanic /\ ~slow /\ spurious < MaxSpurious /\ ~ctl.irq
    /\ ctl' = [ctl EXCEPT !.irq = TRUE]
    /\ spurious' = spurious + 1
    /\ UNCHANGED <<dpc, request, ops, channel, media, counts, got, latest, slow, diskPanic>>

\* All requests are done.
DiskDone ==
    /\ \A t \in DiskThread : dpc[t] = "idle" /\ ops[t] = DiskOps
    /\ ~Busy /\ ~ctl.irq
    /\ UNCHANGED diskVars

DiskThreadStep(t) ==
    \/ \E p \in Place, v \in DiskValue : DiskRequest(t, "write", p, v)
    \/ \E p \in Place : DiskRequest(t, "read", p, DiskBlank)
    \/ DiskLock(t) \/ SelectSector(t) \/ IssuePioCommand(t) \/ CompletionDown(t)
    \/ WaitWhileBusy(t) \/ InputSector(t) \/ OutputSector(t) \/ DiskUnlock(t)

DiskNext ==
    \/ \E t \in DiskThread : DiskThreadStep(t)
    \/ ControllerReady \/ InterruptHandler \/ SpuriousInterrupt \/ DiskDone

-----------------------------------------------------------------------------
\* Types; completion_wait of ide.c is never more than one ahead, and one more
\* for each spurious interrupt.
DiskTypeOK ==
    /\ dpc \in [DiskThread -> {"idle", "lock", "select", "issue", "down", "busy",
                               "move", "unlock"}]
    /\ channel.lock \in DiskThread \cup {NoThread}
    /\ channel.completion \in 0 .. 1 + MaxSpurious
    /\ ctl.state \in {"idle", "read", "offer", "write", "take", "store"}
    /\ media \in [Place -> DiskValue] /\ got \in [DiskThread -> DiskValue]

\* A read returns the sector sent last to its place, whoever sent it, and
\* however late or early the interrupts come: the lock, the wait for an idle
\* controller and the wait for DRQ keep one request's data apart from the
\* next one's.
ReadsLatest ==
    \A t \in DiskThread :
      dpc[t] = "unlock" /\ request[t].kind = "read" => got[t] = latest[request[t].place]

\* A thread that has taken the channel finds the controller idle: without
\* spurious interrupts wait_until_idle has nothing to wait for, so that its
\* time limit does no harm.
IdleWhenSelected ==
    \A t \in DiskThread : dpc[t] \in {"select", "issue"} /\ spurious = 0 => ctl.state = "idle"

\* A wake-up is never lost and never left over: with the channel free and no
\* interrupt pending the semaphore is zero.
CompletionBalanced ==
    spurious = 0 =>
      /\ channel.completion <= 1
      /\ channel.lock = NoThread => channel.completion = 0 /\ ~ctl.irq

\* The driver never gives up on a disk that works.
NoDiskPanic == ~diskPanic

DiskFairness ==
    /\ \A t \in DiskThread : WF_diskVars(DiskThreadStep(t))
    /\ WF_diskVars(ControllerReady) /\ WF_diskVars(InterruptHandler)

DiskSpec == DiskInit /\ [][DiskNext]_diskVars /\ DiskFairness

\* Every request is answered: with the requests bounded, the threads are all
\* out of the driver again and again.
DiskAnswers == []<>(\A t \in DiskThread : dpc[t] = "idle")

\* Two threads on a channel of ide.c: a read gives what was written last, a
\* command meets an idle controller, interrupts and waits for them balance but
\* for unasked ones, and a controller that is fast enough causes no panic.
DiskSound ==
    /\ DiskTypeOK
    /\ ReadsLatest
    /\ IdleWhenSelected
    /\ CompletionBalanced
    /\ NoDiskPanic
=============================================================================
