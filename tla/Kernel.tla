------------------------------- MODULE Kernel -------------------------------
(***************************************************************************)
(* The round-robin kernel of "group projects": threads/thread.c,           *)
(* threads/synch.c, the external interrupts of threads/interrupt.c and     *)
(* timer_sleep of devices/timer.c.                                         *)
(*                                                                         *)
(* One processor runs thread `running`.  What the code does with           *)
(* interrupts off is one step; between two steps the timer or a device may *)
(* interrupt.  todo[t] is what thread t still has to do of the call it is  *)
(* in: a sequence of [op, arg].  A semaphore is a lock's ("lock", "tid"),  *)
(* a plain one ("sema", "idle_started") or, named by the thread, the one   *)
(* cond_wait keeps on that thread's stack.                                 *)
(***************************************************************************)
EXTENDS Integers, Sequences, FiniteSets, SequencesExt

CONSTANTS MainThread, IdleThread, Worker, NoThd,
    TIME_SLICE, NapTicks,    \* the argument of timer_sleep
    MaxCalls, MaxTid,        \* bounds: calls of all threads; no thread is created after this tid
    MaxDevice                \* bound: device interrupts

Thd == {MainThread, IdleThread} \cup Worker

ASSUME KernelAssumption ==
    /\ TIME_SLICE \in Nat \ {0} /\ NapTicks \in Nat /\ MaxCalls \in Nat /\ MaxTid \in Nat /\ MaxDevice \in Nat
    /\ MainThread # IdleThread /\ {MainThread, IdleThread} \cap Worker = {} /\ NoThd \notin Thd
    /\ IsFiniteSet(Worker)

\* A thread's own semaphore is not one of the named ones.
ASSUME NamesAssumption ==
    {"lock", "tid", "sema", "idle_started"} \cap (Thd \cup {NoThd}) = {}

VARIABLES status,     \* by thread; "free": no page, "page": allocated, no thread yet
    running, ready_list, all_list, idle_thread, thread_ticks,
    intr,             \* interrupts enabled outside the atomic steps
    todo,
    value, waiters,   \* by semaphore
    holder,           \* by lock
    cond,             \* threads whose semaphore_elem is on the condition's list
    tid, next_tid, elapsed, calls, devs

kernVars == <<status, running, ready_list, all_list, idle_thread, thread_ticks, intr, todo,
    value, waiters, holder, cond, tid, next_tid, elapsed, calls, devs>>
sched == <<status, running, ready_list, thread_ticks>>

Lock == {"lock", "tid"}
Semaphore == Lock \cup {"sema", "idle_started"} \cup Thd

Do(op, arg) == <<[op |-> op, arg |-> arg]>>
\* The calls, as the sequence of their atomic steps.
lock_acquire(l) == Do("down", l) \o Do("own", l)
lock_release(l) == Do("disown", l) \o Do("up", l)
lock_try_acquire(l) == Do("try", l)
cond_signal == Do("signal", NoThd)
cond_broadcast == Do("broadcast", NoThd)
cond_wait == Do("wait", NoThd) \o lock_release("lock") \o Do("down_own", NoThd) \o lock_acquire("lock")
allocate_tid(u) == lock_acquire("tid") \o Do("tid_read", u) \o Do("tid_next", u) \o lock_release("tid")
thread_create(u) == Do("init", u) \o allocate_tid(u) \o Do("unblock", u)
thread_start == thread_create(IdleThread) \o Do("intr_enable", NoThd) \o Do("down", "idle_started")
idle == Do("idle", NoThd) \o Do("up", "idle_started") \o Do("block", NoThd)

\* thread_init: the running code becomes the main thread.
KernInit ==
    /\ status = [t \in Thd |->
         CASE t = MainThread -> "running" [] t = IdleThread -> "page" [] OTHER -> "free"]
    /\ running = MainThread /\ ready_list = <<>> /\ all_list = <<MainThread>>
    /\ idle_thread = NoThd /\ thread_ticks = 0 /\ intr = FALSE
    /\ todo = [t \in Thd |-> IF t = MainThread THEN thread_start ELSE <<>>]
    /\ value = [s \in Semaphore |-> IF s \in Lock THEN 1 ELSE 0]
    /\ waiters = [s \in Semaphore |-> <<>>]
    /\ holder = [l \in Lock |-> NoThd] /\ cond = <<>>
    /\ tid = [t \in Thd |-> IF t = MainThread THEN 1 ELSE 0] /\ next_tid = 2
    /\ elapsed = [t \in Thd |-> 0] /\ calls = 0 /\ devs = 0

-----------------------------------------------------------------------------
next_thread_to_run(list) == IF list = <<>> THEN idle_thread ELSE Head(list)

\* schedule and thread_schedule_tail: the running thread has status st[running]
\* and the ready list is list.  The thread switched to frees a dying one.
\* Without a thread to run the assertion in schedule fails: nobody runs.
Schedule(st, list) ==
    LET next == next_thread_to_run(list)
    IN  /\ running' = next
        /\ ready_list' = IF list = <<>> THEN list ELSE Tail(list)
        /\ status' = [t \in Thd |->
             CASE t = next -> "running"
               [] t # next /\ st[t] = "dying" /\ t # MainThread -> "free"
               [] OTHER -> st[t]]
        /\ thread_ticks' = 0

\* Mutant of thread_yield: the thread goes to the front of the ready list.
YieldFront(st, list) ==
    Schedule([st EXCEPT ![running] = "ready"],
             IF running # idle_thread THEN <<running>> \o list ELSE list)

thread_yield(st, list) ==
    Schedule([st EXCEPT ![running] = "ready"],
             IF running # idle_thread THEN Append(list, running) ELSE list)

thread_block == Schedule([status EXCEPT ![running] = "blocked"], ready_list)

\* Mutant of Woken: the waiter is not taken off the list.
WokenStays(s) ==
    IF waiters[s] = <<>> THEN [st |-> status, list |-> ready_list, wait |-> waiters]
    ELSE [st |-> [status EXCEPT ![Head(waiters[s])] = "ready"],
          list |-> Append(ready_list, Head(waiters[s])), wait |-> waiters]

\* sema_up's thread_unblock of the first waiter.
Woken(s) ==
    IF waiters[s] = <<>> THEN [st |-> status, list |-> ready_list, wait |-> waiters]
    ELSE [st |-> [status EXCEPT ![Head(waiters[s])] = "ready"],
          list |-> Append(ready_list, Head(waiters[s])),
          wait |-> [waiters EXCEPT ![s] = Tail(@)]]

Now == Head(todo[running])
Then(rest) == todo' = [todo EXCEPT ![running] = rest]
Done == Then(Tail(todo[running]))
Step(op) == /\ running # NoThd /\ todo[running] # <<>> /\ Now.op = op
            /\ UNCHANGED <<calls, devs>>

\* sema_down: one test of the value, and either the wait or the decrement.
SemaDown ==
    LET s == IF Now.op = "down_own" THEN running ELSE Now.arg
    IN  /\ Step("down") \/ Step("down_own")
        /\ IF value[s] > 0
             THEN value' = [value EXCEPT ![s] = @ - 1] /\ Done /\ UNCHANGED <<sched, waiters>>
           ELSE /\ waiters' = [waiters EXCEPT ![s] = Append(@, running)]
                /\ thread_block /\ UNCHANGED <<value, todo>>
        /\ UNCHANGED <<all_list, idle_thread, intr, holder, cond, tid, next_tid, elapsed>>

\* lock_try_acquire, then the rest of a use of the lock.
TryAcquire ==
    /\ Step("try")
    /\ IF value[Now.arg] > 0
         THEN value' = [value EXCEPT ![Now.arg] = @ - 1] /\ Then(Do("own", Now.arg) \o lock_release(Now.arg))
       ELSE Done /\ UNCHANGED value
    /\ UNCHANGED <<sched, waiters, all_list, idle_thread, intr, holder, cond, tid, next_tid, elapsed>>

SemaUp ==
    /\ Step("up")
    /\ LET w == Woken(Now.arg)
       IN  status' = w.st /\ ready_list' = w.list /\ waiters' = w.wait
    /\ value' = [value EXCEPT ![Now.arg] = @ + 1] /\ Done
    /\ UNCHANGED <<running, thread_ticks, all_list, idle_thread, intr, holder, cond, tid, next_tid, elapsed>>

\* lock_acquire after its sema_down; lock_release before its sema_up.
SetHolder ==
    /\ Step("own") \/ Step("disown")
    /\ holder' = [holder EXCEPT ![Now.arg] = IF Now.op = "own" THEN running ELSE NoThd]
    /\ Done
    /\ UNCHANGED <<sched, all_list, idle_thread, intr, value, waiters, cond, tid, next_tid, elapsed>>

\* cond_wait: a fresh semaphore goes on the condition's list.
CondPush ==
    /\ Step("wait")
    /\ value' = [value EXCEPT ![running] = 0] /\ waiters' = [waiters EXCEPT ![running] = <<>>]
    /\ cond' = Append(cond, running) /\ Done
    /\ UNCHANGED <<sched, all_list, idle_thread, intr, holder, tid, next_tid, elapsed>>

\* cond_signal, and one round of cond_broadcast.
CondPop ==
    /\ Step("signal") \/ Step("broadcast")
    /\ IF cond = <<>> THEN Done /\ UNCHANGED cond
       ELSE /\ cond' = Tail(cond)
            /\ Then(Do("up", Head(cond)) \o (IF Now.op = "signal" THEN Tail(todo[running]) ELSE todo[running]))
    /\ UNCHANGED <<sched, all_list, idle_thread, intr, value, waiters, holder, tid, next_tid, elapsed>>

\* init_thread in a new page.  The thread runs kernel_thread, or idle.
InitThread ==
    /\ Step("init")
    /\ status' = [status EXCEPT ![Now.arg] = "blocked"]
    /\ all_list' = Append(all_list, Now.arg)
    /\ todo' = [todo EXCEPT ![running] = Tail(@), ![Now.arg] = IF Now.arg = IdleThread THEN idle ELSE <<>>]
    /\ UNCHANGED <<running, ready_list, thread_ticks, idle_thread, intr, value, waiters, holder, cond, tid, next_tid, elapsed>>

\* tid = next_tid++, a load and a store.
TidRead ==
    /\ Step("tid_read")
    /\ tid' = [tid EXCEPT ![Now.arg] = next_tid] /\ Done
    /\ UNCHANGED <<sched, all_list, idle_thread, intr, value, waiters, holder, cond, next_tid, elapsed>>
TidNext ==
    /\ Step("tid_next")
    /\ next_tid' = tid[Now.arg] + 1 /\ Done
    /\ UNCHANGED <<sched, all_list, idle_thread, intr, value, waiters, holder, cond, tid, elapsed>>

ThreadUnblock ==
    /\ Step("unblock")
    /\ status' = [status EXCEPT ![Now.arg] = "ready"]
    /\ ready_list' = Append(ready_list, Now.arg) /\ Done
    /\ UNCHANGED <<running, thread_ticks, all_list, idle_thread, intr, value, waiters, holder, cond, tid, next_tid, elapsed>>

\* thread_start enables interrupts; the idle thread names itself.
IntrEnable ==
    /\ Step("intr_enable") /\ intr' = TRUE /\ Done
    /\ UNCHANGED <<sched, all_list, idle_thread, value, waiters, holder, cond, tid, next_tid, elapsed>>
IdleSelf ==
    /\ Step("idle") /\ idle_thread' = running /\ Done
    /\ UNCHANGED <<sched, all_list, intr, value, waiters, holder, cond, tid, next_tid, elapsed>>

\* The idle thread's loop: thread_block, then hlt until an interrupt.
IdleBlock ==
    /\ Step("block") /\ thread_block /\ Then(Do("hlt", NoThd))
    /\ UNCHANGED <<all_list, idle_thread, intr, value, waiters, holder, cond, tid, next_tid, elapsed>>

\* One round of timer_sleep.
TimerSleep ==
    /\ Step("nap")
    /\ IF elapsed[running] >= NapTicks
         THEN Done /\ elapsed' = [elapsed EXCEPT ![running] = 0] /\ UNCHANGED sched
       ELSE thread_yield(status, ready_list) /\ UNCHANGED <<todo, elapsed>>
    /\ UNCHANGED <<all_list, idle_thread, intr, value, waiters, holder, cond, tid, next_tid>>

ThreadYield ==
    /\ Step("yield") /\ thread_yield(status, ready_list) /\ Done
    /\ UNCHANGED <<all_list, idle_thread, intr, value, waiters, holder, cond, tid, next_tid, elapsed>>

\* list_remove: the thread's element leaves the list.
list_remove(list, t) == RemoveAt(list, CHOOSE i \in DOMAIN list : list[i] = t)

ThreadExit ==
    /\ Step("exit")
    /\ all_list' = list_remove(all_list, running)
    /\ Schedule([status EXCEPT ![running] = "dying"], ready_list)
    /\ Then(<<>>)
    /\ UNCHANGED <<idle_thread, intr, value, waiters, holder, cond, tid, next_tid, elapsed>>

KernStep ==
    \/ SemaDown \/ TryAcquire \/ SemaUp \/ SetHolder \/ CondPush \/ CondPop \/ InitThread \/ TidRead \/ TidNext
    \/ ThreadUnblock \/ IntrEnable \/ IdleSelf \/ IdleBlock \/ TimerSleep \/ ThreadYield \/ ThreadExit

-----------------------------------------------------------------------------
\* A thread that is in no call makes one.
Call(program) ==
    /\ running # NoThd /\ running # IdleThread /\ todo[running] = <<>> /\ calls < MaxCalls
    /\ Then(program) /\ calls' = calls + 1
    /\ UNCHANGED <<sched, all_list, idle_thread, intr, value, waiters, holder, cond, tid, next_tid, elapsed, devs>>

\* thread_create with a page from palloc_get_page.
GetPage(u) ==
    /\ running # NoThd /\ running # IdleThread /\ todo[running] = <<>> /\ next_tid <= MaxTid
    /\ status[u] = "free" /\ status' = [status EXCEPT ![u] = "page"]
    /\ Then(thread_create(u)) /\ UNCHANGED calls
    /\ UNCHANGED <<running, ready_list, thread_ticks, all_list, idle_thread, intr, value, waiters, holder,
                    cond, tid, next_tid, elapsed, devs>>

\* What threads do with the lock, the condition and the semaphore.
Under(body) == lock_acquire("lock") \o body \o lock_release("lock")
Programs ==
    {Under(<<>>), Under(cond_wait), Under(cond_signal), Under(cond_broadcast), lock_try_acquire("lock"),
     Do("down", "sema"), Do("up", "sema"), Do("nap", NoThd), Do("yield", NoThd), Do("exit", NoThd)}
KernCall == \/ \E p \in Programs : Call(p)
            \/ \E u \in Worker : GetPage(u)

\* The processor leaves hlt after an interrupt.
Resumed(t) == IF todo[t] = Do("hlt", NoThd) THEN Do("block", NoThd) ELSE todo[t]

\* timer_interrupt: timer_elapsed of the threads in timer_sleep after one more
\* tick; what exceeds NapTicks does not matter.
timer_interrupt == [t \in Thd |-> IF todo[t] = Do("nap", NoThd) /\ elapsed[t] < NapTicks THEN elapsed[t] + 1 ELSE elapsed[t]]

\* thread_tick; intr_handler yields on return when the time slice is over.
thread_tick ==
    IF thread_ticks + 1 >= TIME_SLICE THEN thread_yield(status, ready_list)
    ELSE thread_ticks' = thread_ticks + 1 /\ UNCHANGED <<status, running, ready_list>>

\* intr_handler with timer_interrupt, thread_tick and yield_on_return.
TimerInterrupt ==
    /\ intr /\ running # NoThd
    /\ Then(Resumed(running))
    /\ elapsed' = timer_interrupt /\ thread_tick
    /\ UNCHANGED <<all_list, idle_thread, intr, value, waiters, holder, cond, tid, next_tid, calls, devs>>

\* intr_handler with a device's handler, which ups a semaphore.
DeviceInterrupt ==
    /\ intr /\ running # NoThd /\ devs < MaxDevice
    /\ LET w == Woken("sema")
       IN  status' = w.st /\ ready_list' = w.list /\ waiters' = w.wait
    /\ value' = [value EXCEPT !["sema"] = @ + 1]
    /\ Then(Resumed(running)) /\ devs' = devs + 1
    /\ UNCHANGED <<running, thread_ticks, all_list, idle_thread, intr, holder, cond, tid, next_tid, elapsed, calls>>

KernNext == KernStep \/ KernCall \/ TimerInterrupt \/ DeviceInterrupt

\* The timer does not stop (it is an external device).
KernSpec == KernInit /\ [][KernNext]_kernVars /\ WF_kernVars(TimerInterrupt)

-----------------------------------------------------------------------------
\* One thread runs, and it says so; struct thread's one list element is on
\* the ready list or on one semaphore's list, never on two, and status says on
\* which: no interleaving of sema_up, yields and interrupts loses a thread or
\* queues it twice.  (Off every list: the idle thread, and a thread that
\* thread_create has not unblocked yet.)
OneList ==
    /\ running # NoThd /\ {t \in Thd : status[t] = "running"} = {running}
    /\ IsInjective(ready_list)
    /\ ToSet(ready_list) = {t \in Thd : status[t] = "ready"} \ {idle_thread}
    /\ \A s \in Semaphore :
         /\ IsInjective(waiters[s])
         /\ \A t \in ToSet(waiters[s]) : status[t] = "blocked"
         /\ \A r \in Semaphore \ {s} : ToSet(waiters[s]) \cap ToSet(waiters[r]) = {}
    /\ \A t \in Thd : status[t] = "blocked" =>
         \/ t = idle_thread \/ \E s \in Semaphore : t \in ToSet(waiters[s])
         \/ \E u \in Thd : \E i \in DOMAIN todo[u] : todo[u][i] = [op |-> "unblock", arg |-> t]

\* The list of all threads, the ready list, the semaphores, the locks and the
\* condition name no thread whose page the scheduler has freed, and live
\* threads that are past allocate_tid have different tids.
NoneFreed ==
    /\ ToSet(all_list) = {t \in Thd : status[t] \notin {"free", "page", "dying"}} /\ IsInjective(all_list)
    /\ \A s \in Semaphore : ToSet(waiters[s]) \subseteq ToSet(all_list)
    /\ ToSet(cond) \subseteq ToSet(all_list)
    /\ \A l \in Lock : holder[l] # NoThd => holder[l] \in ToSet(all_list)
    /\ \A t, u \in ToSet(all_list) \cap {x \in Thd : status[x] # "blocked"} : t # u => tid[t] # tid[u]

\* A thread has a lock from lock_acquire's decrement to lock_release's
\* increment.
Owns(t, l) ==
    \/ todo[t] # <<>> /\ Head(todo[t]) \in {[op |-> "own", arg |-> l], [op |-> "up", arg |-> l]}
    \/ holder[l] = t

\* One thread at a time has a lock, though a lock is a counter that any
\* woken waiter may find taken again.
LockExclusive ==
    \A l \in Lock :
      /\ value[l] + Cardinality({t \in Thd : Owns(t, l)}) = 1
      /\ holder[l] # NoThd => Owns(holder[l], l)

\* A semaphore that can be had never leaves all of its waiters asleep: one was
\* woken and is about to look, also when a third thread runs in between.
WakeupKept ==
    \A s \in Semaphore : value[s] > 0 /\ waiters[s] # <<>> =>
      \E t \in Thd : /\ status[t] \in {"ready", "running"} /\ todo[t] # <<>>
                     /\ Head(todo[t]).op \in {"down", "down_own"}
                     /\ s = (IF Head(todo[t]).op = "down_own" THEN t ELSE Head(todo[t]).arg)

\* A thread that signals a condition wakes one that waits: whoever waits in
\* cond_wait is on the condition's list, or its semaphore has been raised, or
\* the signalling thread is about to raise it.
CondSignalKept ==
    \A t \in Thd : (status[t] # "free" /\ todo[t] # <<>> /\ Head(todo[t]).op = "down_own") =>
      \/ t \in ToSet(cond) \/ value[t] > 0
      \/ \E u \in Thd : todo[u] # <<>> /\ Head(todo[u]) = [op |-> "up", arg |-> t]

\* Round robin: a thread that is ready runs, whatever the others do, because
\* the timer ends every time slice and a preempted thread queues behind it.
ReadyRuns == \A t \in Worker : status[t] = "ready" ~> running = t

\* Threads of the round-robin kernel, interrupted between any two atomic steps:
\* a thread is on one list, none that has ended is on any, a lock has one
\* owner, and neither sema_up nor cond_signal loses a wake-up.
KernelSound ==
    /\ OneList
    /\ NoneFreed
    /\ LockExclusive
    /\ WakeupKept
    /\ CondSignalKept
=============================================================================
