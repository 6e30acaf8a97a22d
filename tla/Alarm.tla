------------------------------- MODULE Alarm --------------------------------
(***************************************************************************)
(* timer_sleep and the timer interrupt of group_proj1's devices/timer.c.   *)
(*                                                                         *)
(* A thread is "awake", "started" (in timer_sleep, the clock read but      *)
(* interrupts still on), "asleep" (blocked, its sleeping_thread on the     *)
(* queue) or "woken" (unblocked, timer_sleep not yet returned).            *)
(***************************************************************************)
EXTENDS Integers, Sequences, SequencesExt

CONSTANTS
    Sleeper,
    Sleep,      \* arguments of timer_sleep, negative ones and 0 too
    MaxTicks    \* bound on the clock

ASSUME SleepAssumption == Sleep \subseteq Int
ASSUME MaxTicksAssumption == MaxTicks \in Nat

VARIABLES
    ticks,
    sleeping_thread_queue,   \* of [thread, wake_time]
    status,
    wake_time,  \* by thread, the wake_time of its sleeping_thread
    since       \* history: the tick at which a thread was queued

alarmVars == <<ticks, sleeping_thread_queue, status, wake_time, since>>

\* timer_init.
AlarmInit ==
    /\ ticks = 0
    /\ sleeping_thread_queue = <<>>
    /\ status = [t \in Sleeper |-> "awake"]
    /\ wake_time = [t \in Sleeper |-> 0]
    /\ since = [t \in Sleeper |-> 0]

\* less.
less(a, b) == a.wake_time < b.wake_time

\* timer_sleep reads the clock; the bound keeps every wake_time within
\* MaxTicks.
Start(t) ==
    /\ status[t] = "awake"
    /\ \E n \in Sleep :
         /\ ticks + n < MaxTicks
         /\ wake_time' = [wake_time EXCEPT ![t] = ticks + n]
    /\ status' = [status EXCEPT ![t] = "started"]
    /\ UNCHANGED <<ticks, sleeping_thread_queue, since>>

\* list_insert_ordered: before the first element s is less than.
add_to_sleeping_queue(q, s) ==
    LET after == {i \in DOMAIN q : less(s, q[i])}
        place == CHOOSE i \in 1 .. Len(q) + 1 :
                    /\ \A j \in after : i <= j
                    /\ i \in after \/ (after = {} /\ i = Len(q) + 1)
    IN  InsertAt(q, place, s)

\* Mutant of Block: not before the wake_time comes, if it has passed.
BlockLate(t) ==
    /\ status[t] = "started"
    /\ ticks < MaxTicks
    /\ sleeping_thread_queue' =
         (IF wake_time[t] < ticks THEN sleeping_thread_queue
          ELSE add_to_sleeping_queue(sleeping_thread_queue,
                   [thread |-> t, wake_time |-> wake_time[t]]))
    /\ status' = [status EXCEPT ![t] = "asleep"]
    /\ since' = [since EXCEPT ![t] = ticks]
    /\ UNCHANGED <<ticks, wake_time>>

\* With interrupts off: queue and thread_block.  The clock may have moved on,
\* past wake_time even, since it was read.
Block(t) ==
    /\ status[t] = "started"
    /\ ticks < MaxTicks
    /\ sleeping_thread_queue' =
         add_to_sleeping_queue(sleeping_thread_queue,
             [thread |-> t, wake_time |-> wake_time[t]])
    /\ status' = [status EXCEPT ![t] = "asleep"]
    /\ since' = [since EXCEPT ![t] = ticks]
    /\ UNCHANGED <<ticks, wake_time>>

\* timer_sleep returns; wake_time and since have done their service.
Return(t) ==
    /\ status[t] = "woken"
    /\ status' = [status EXCEPT ![t] = "awake"]
    /\ wake_time' = [wake_time EXCEPT ![t] = 0]
    /\ since' = [since EXCEPT ![t] = 0]
    /\ UNCHANGED <<ticks, sleeping_thread_queue>>

\* remove_from_sleeping_queue, called until it returns NULL: the length of
\* the prefix it takes off.
due(q, now) ==
    {n \in 0 .. Len(q) : /\ \A i \in 1 .. n : q[i].wake_time <= now
                         /\ n < Len(q) => q[n + 1].wake_time > now}

\* Mutant of timer_interrupt: at most one thread is woken.
timer_interrupt_one ==
    LET q == sleeping_thread_queue IN
    /\ ticks < MaxTicks
    /\ ticks' = ticks + 1
    /\ IF q # <<>> /\ Head(q).wake_time <= ticks'
       THEN /\ sleeping_thread_queue' = Tail(q)
            /\ status' = [status EXCEPT ![Head(q).thread] = "woken"]
       ELSE UNCHANGED <<sleeping_thread_queue, status>>
    /\ UNCHANGED <<wake_time, since>>

\* timer_interrupt, by its effect on sleepers.
timer_interrupt ==
    LET q == sleeping_thread_queue IN
    /\ ticks < MaxTicks
    /\ ticks' = ticks + 1
    /\ \E n \in due(q, ticks') :
         /\ sleeping_thread_queue' = SubSeq(q, n + 1, Len(q))
         /\ status' = [t \in Sleeper |->
                         IF \E i \in 1 .. n : q[i].thread = t THEN "woken"
                         ELSE status[t]]
    /\ UNCHANGED <<wake_time, since>>

AlarmNext ==
    \/ timer_interrupt
    \/ \E t \in Sleeper : Start(t) \/ Block(t) \/ Return(t)

AlarmSpec == AlarmInit /\ [][AlarmNext]_alarmVars

-----------------------------------------------------------------------------
\* Types of the clock, of timer.c's queue and of the sleepers.
AlarmTypeOK ==
    /\ ticks \in 0 .. MaxTicks
    /\ \A i \in DOMAIN sleeping_thread_queue :
         sleeping_thread_queue[i] \in [thread : Sleeper, wake_time : Int]
    /\ status \in [Sleeper -> {"awake", "started", "asleep", "woken"}]
    /\ wake_time \in [Sleeper -> Int]
    /\ since \in [Sleeper -> 0 .. MaxTicks]

\* The queue holds exactly the sleeping threads, once each, with their wake
\* times: no sleeping_thread on the stack of a thread that runs is linked.
QueueIsSleepers ==
    /\ \A t \in Sleeper :
         status[t] = "asleep" <=>
             \E i \in DOMAIN sleeping_thread_queue :
                 sleeping_thread_queue[i] =
                     [thread |-> t, wake_time |-> wake_time[t]]
    /\ \A i, j \in DOMAIN sleeping_thread_queue :
         sleeping_thread_queue[i].thread = sleeping_thread_queue[j].thread
             => i = j

\* Nobody wakes before the tick it asked for.
NeverEarly == \A t \in Sleeper : status[t] = "woken" => wake_time[t] <= ticks

\* After a tick no thread that is due is left asleep; one whose time has
\* passed was queued after that tick.
NoOversleep ==
    \A t \in Sleeper :
        status[t] = "asleep" => wake_time[t] > ticks \/ since[t] = ticks

\* Whoever sleeps is woken.
Wakes == \A t \in Sleeper : status[t] = "asleep" ~> status[t] = "woken"

\* timer_sleep against the timer interrupt: the queue holds exactly the
\* sleepers, nobody is woken before its time, and nobody whose time has come is
\* left asleep behind another one.
SleepQueueRight == AlarmTypeOK /\ QueueIsSleepers /\ NeverEarly /\ NoOversleep
=============================================================================
