------------------------------ MODULE Donation ------------------------------
(***************************************************************************)
(* Locks with priority donation on the single CPU of group_proj1:          *)
(* threads/synch.c on top of the scheduler of threads/thread.c (the        *)
(* default one, thread_mlfqs false).                                       *)
(*                                                                         *)
(* Only the running thread takes steps.  Its pc:                           *)
(*   "run"     in its own code, holding the locks of its list              *)
(*   "donate"  in lock_acquire, at a call of propagate_broadcast           *)
(*   "down"    in lock_acquire, in the loop of sema_down                   *)
(*   "got"     in lock_acquire, after sema_down, interrupts on             *)
(*   "tried"   in lock_try_acquire, after a successful sema_try_down       *)
(*   "rel"     in lock_release, at the end of remove_lock's thread_yield   *)
(* and "unborn" and "dead".  A step is a stretch of code with interrupts   *)
(* off, or code between two places where a time slice can end.             *)
(*                                                                         *)
(* Threads take locks in ascending order, release what they hold before    *)
(* they exit, and otherwise call the operations as they like; allocate_tid *)
(* is such a user of a lock.                                               *)
(***************************************************************************)
EXTENDS Integers, Sequences, SequencesExt

CONSTANTS
    Thread, Main, Idle,
    Lock,         \* a set of integers: the order in which threads take them
    Priority,
    NewPriority,  \* arguments of thread_set_priority
    MayPreempt,   \* can a time slice end?
    NoLock

ASSUME MainAssumption == Main \in Thread
ASSUME IdleAssumption == Idle \notin Thread
ASSUME LockAssumption == Lock \subseteq Int /\ IsFiniteSet(Lock) /\ NoLock \notin Lock
ASSUME PriorityAssumption == Priority \subseteq Nat /\ NewPriority \subseteq Priority
ASSUME PreemptAssumption == MayPreempt \in BOOLEAN

VARIABLES
    cur, ready_list,                            \* the CPU and its queue
    priority, effective_priority, waiting_lock, acquired_lock_list,
    value, waiters, holder, lock_priority,      \* struct lock
    pc,
    arg,            \* the lock a thread in a lock operation works on
    moving, target  \* arguments of the current call of propagate_broadcast

lockVars == <<value, waiters, holder, lock_priority>>
threadVars == <<priority, effective_priority, waiting_lock,
                acquired_lock_list>>
callVars == <<arg, moving, target>>
vars == <<cur, ready_list, threadVars, lockVars, pc, callVars>>

Max2(a, b) == IF a > b THEN a ELSE b

\* thread_init and lock_init; the other threads do not exist yet.
Init ==
    /\ cur = Main
    /\ ready_list = <<>>
    /\ \E p \in Priority :
         /\ priority = [t \in Thread |-> p]
         /\ effective_priority = priority
    /\ waiting_lock = [t \in Thread |-> NoLock]
    /\ acquired_lock_list = [t \in Thread |-> {}]
    /\ value = [l \in Lock |-> 1]
    /\ waiters = [l \in Lock |-> <<>>]
    /\ holder = [l \in Lock |-> Idle]
    /\ lock_priority = [l \in Lock |-> -1]
    /\ pc = [t \in Thread |-> IF t = Main THEN "run" ELSE "unborn"]
    /\ arg = [t \in Thread |-> NoLock]
    /\ moving = [t \in Thread |-> 0]
    /\ target = [t \in Thread |-> t]

-----------------------------------------------------------------------------
\* list_max with compare_thread under effective priorities e: the place of
\* the first of the greatest.
list_max(q, e, i) ==
    /\ i \in DOMAIN q
    /\ \A j \in DOMAIN q : e[q[j]] <= e[q[i]] /\ (j < i => e[q[j]] < e[q[i]])

\* schedule, with queue q and effective priorities e: the CPU goes to
\* next_thread_to_run.
schedule(q, e) ==
    IF q = <<>> THEN cur' = Idle /\ ready_list' = q
    ELSE \E i \in DOMAIN q : /\ list_max(q, e, i)
                             /\ cur' = q[i]
                             /\ ready_list' = RemoveAt(q, i)

\* thread_yield of the running thread.
thread_yield(q, e) == schedule(Append(q, cur), e)

\* Mutant of sema_up: no thread_yield.
sema_up_stay(l, e) ==
    /\ value' = [value EXCEPT ![l] = @ + 1]
    /\ IF waiters[l] = <<>>
       THEN UNCHANGED <<cur, ready_list, waiters>>
       ELSE \E i \in DOMAIN waiters[l] :
              /\ list_max(waiters[l], e, i)
              /\ waiters' = [waiters EXCEPT ![l] = RemoveAt(@, i)]
              /\ ready_list' = Append(ready_list, waiters[l][i])
              /\ UNCHANGED cur

\* sema_up of l's semaphore: wake the waiter of greatest priority, and yield.
sema_up(l, e) ==
    /\ value' = [value EXCEPT ![l] = @ + 1]
    /\ IF waiters[l] = <<>>
       THEN thread_yield(ready_list, e) /\ UNCHANGED waiters
       ELSE \E i \in DOMAIN waiters[l] :
              /\ list_max(waiters[l], e, i)
              /\ waiters' = [waiters EXCEPT ![l] = RemoveAt(@, i)]
              /\ thread_yield(Append(ready_list, waiters[l][i]), e)

-----------------------------------------------------------------------------
Goto(t, from, to) ==
    t = cur /\ pc[t] = from /\ pc' = [pc EXCEPT ![t] = to]

\* lock_acquire when the lock has a holder: it is noted as waited for, and
\* the donation begins with the requester itself.
AcquireHeld(t) ==
    /\ Goto(t, "run", "donate")
    /\ \E l \in Lock :
         /\ \A m \in acquired_lock_list[t] : m < l
         /\ holder[l] # Idle
         /\ arg' = [arg EXCEPT ![t] = l]
         /\ waiting_lock' = [waiting_lock EXCEPT ![t] = l]
    /\ moving' = [moving EXCEPT ![t] = effective_priority[t]]
    /\ target' = [target EXCEPT ![t] = t]
    /\ UNCHANGED <<cur, ready_list, priority, effective_priority,
                   acquired_lock_list, lockVars>>

\* lock_acquire when the lock has no holder: no donation.
AcquireFree(t) ==
    /\ Goto(t, "run", "down")
    /\ \E l \in Lock :
         /\ \A m \in acquired_lock_list[t] : m < l
         /\ holder[l] = Idle
         /\ arg' = [arg EXCEPT ![t] = l]
    /\ UNCHANGED <<cur, ready_list, threadVars, lockVars, moving, target>>

\* One call of propagate_broadcast; the thread it goes on to is read here
\* and used in the next call.
propagate_broadcast(t) ==
    LET d == target[t]
        l == waiting_lock[d]
    IN
    /\ t = cur /\ pc[t] = "donate"
    /\ effective_priority' =
         [effective_priority EXCEPT ![d] = Max2(moving[t], @)]
    /\ IF l = NoLock
       THEN UNCHANGED lock_priority
       ELSE lock_priority' =
              [lock_priority EXCEPT ![l] = Max2(@, moving[t])]
    /\ IF l # NoLock /\ holder[l] # Idle
       THEN /\ target' = [target EXCEPT ![t] = holder[l]]
            /\ UNCHANGED <<pc, moving>>
       ELSE /\ pc' = [pc EXCEPT ![t] = "down"]
            /\ target' = [target EXCEPT ![t] = t]
            /\ moving' = [moving EXCEPT ![t] = 0]
    /\ UNCHANGED <<cur, ready_list, priority, waiting_lock,
                   acquired_lock_list, value, waiters, holder, arg>>

\* sema_down of a semaphore at 0: queue and block.
DownBlocks(t) ==
    LET l == arg[t] IN
    /\ t = cur /\ pc[t] = "down"
    /\ value[l] = 0
    /\ waiters' = [waiters EXCEPT ![l] = Append(@, t)]
    /\ schedule(ready_list, effective_priority)
    /\ UNCHANGED <<threadVars, value, holder, lock_priority, pc, callVars>>

\* Mutant of DownPasses: the value is not looked at again after a wake-up.
DownPassesWoken(t) ==
    LET l == arg[t] IN
    /\ Goto(t, "down", "got")
    /\ value[l] > 0 \/ waiting_lock[t] = l
    /\ value' = [value EXCEPT ![l] = 0]
    /\ UNCHANGED <<cur, ready_list, threadVars, waiters, holder,
                   lock_priority, callVars>>

\* sema_down of a positive semaphore.
DownPasses(t) ==
    LET l == arg[t] IN
    /\ Goto(t, "down", "got")
    /\ value[l] > 0
    /\ value' = [value EXCEPT ![l] = @ - 1]
    /\ UNCHANGED <<cur, ready_list, threadVars, waiters, holder,
                   lock_priority, callVars>>

\* The end of lock_acquire.
Acquired(t) ==
    LET l == arg[t] IN
    /\ Goto(t, "got", "run")
    /\ waiting_lock' = [waiting_lock EXCEPT ![t] = NoLock]
    /\ lock_priority' = [lock_priority EXCEPT ![l] = effective_priority[t]]
    /\ acquired_lock_list' = [acquired_lock_list EXCEPT ![t] = @ \cup {l}]
    /\ holder' = [holder EXCEPT ![l] = t]
    /\ arg' = [arg EXCEPT ![t] = NoLock]
    /\ UNCHANGED <<cur, ready_list, priority, effective_priority, value,
                   waiters, moving, target>>

\* lock_try_acquire: it fails without a change, or takes the semaphore and
\* then, with interrupts on, the lock; lock_priority stays what it was.
TryDown(t) ==
    /\ Goto(t, "run", "tried")
    /\ \E l \in Lock :
         /\ \A m \in acquired_lock_list[t] : m < l
         /\ value[l] > 0
         /\ value' = [value EXCEPT ![l] = @ - 1]
         /\ arg' = [arg EXCEPT ![t] = l]
    /\ UNCHANGED <<cur, ready_list, threadVars, waiters, holder,
                   lock_priority, moving, target>>

TryAcquired(t) ==
    LET l == arg[t] IN
    /\ Goto(t, "tried", "run")
    /\ holder' = [holder EXCEPT ![l] = t]
    /\ acquired_lock_list' = [acquired_lock_list EXCEPT ![t] = @ \cup {l}]
    /\ arg' = [arg EXCEPT ![t] = NoLock]
    /\ UNCHANGED <<cur, ready_list, priority, effective_priority,
                   waiting_lock, value, waiters, lock_priority, moving,
                   target>>

\* lock_release of the last lock held: remove_lock restores the priority.
ReleaseLast(t) ==
    /\ t = cur /\ pc[t] = "run"
    /\ effective_priority' = [effective_priority EXCEPT ![t] = priority[t]]
    /\ \E l \in acquired_lock_list[t] :
         /\ acquired_lock_list[t] = {l}
         /\ acquired_lock_list' = [acquired_lock_list EXCEPT ![t] = {}]
         /\ holder' = [holder EXCEPT ![l] = Idle]
         /\ sema_up(l, effective_priority')
    /\ UNCHANGED <<priority, waiting_lock, lock_priority, pc, callVars>>

\* lock_release while other locks are held: remove_lock never lowers the
\* priority, and yields with l's holder still set.
ReleaseSome(t) ==
    /\ Goto(t, "run", "rel")
    /\ \E l \in acquired_lock_list[t], k \in acquired_lock_list[t] :
         /\ l # k
         /\ \A m \in acquired_lock_list[t] \ {l} :
              lock_priority[m] <= lock_priority[k]
         /\ acquired_lock_list' = [acquired_lock_list EXCEPT ![t] = @ \ {l}]
         /\ effective_priority' =
              [effective_priority EXCEPT ![t] = Max2(@, lock_priority[k])]
         /\ arg' = [arg EXCEPT ![t] = l]
    /\ thread_yield(ready_list, effective_priority')
    /\ UNCHANGED <<priority, waiting_lock, lockVars, moving, target>>

\* The rest of lock_release.
ReleaseRest(t) ==
    /\ Goto(t, "rel", "run")
    /\ holder' = [holder EXCEPT ![arg[t]] = Idle]
    /\ sema_up(arg[t], effective_priority)
    /\ arg' = [arg EXCEPT ![t] = NoLock]
    /\ UNCHANGED <<threadVars, lock_priority, moving, target>>

-----------------------------------------------------------------------------
\* thread_set_priority.
SetPriority(t) ==
    /\ t = cur /\ pc[t] = "run"
    /\ \E p \in NewPriority :
         /\ priority' = [priority EXCEPT ![t] = p]
         /\ IF p > effective_priority[t] \/ acquired_lock_list[t] = {}
            THEN /\ effective_priority' = [effective_priority EXCEPT ![t] = p]
                 /\ thread_yield(ready_list, effective_priority')
            ELSE UNCHANGED <<effective_priority, cur, ready_list>>
    /\ UNCHANGED <<waiting_lock, acquired_lock_list, lockVars, pc, callVars>>

\* thread_create: the new thread is made ready; the creator yields to a
\* greater priority.
Create(t) ==
    /\ t = cur /\ pc[t] = "run"
    /\ \E u \in {v \in Thread : pc[v] = "unborn"}, p \in Priority :
         /\ pc' = [pc EXCEPT ![u] = "run"]
         /\ priority' = [priority EXCEPT ![u] = p]
         /\ effective_priority' = [effective_priority EXCEPT ![u] = p]
         /\ IF p > effective_priority[t]
            THEN thread_yield(Append(ready_list, u), effective_priority')
            ELSE ready_list' = Append(ready_list, u) /\ UNCHANGED cur
    /\ UNCHANGED <<waiting_lock, acquired_lock_list, lockVars, callVars>>

\* thread_exit.
Exit(t) ==
    /\ Goto(t, "run", "dead")
    /\ acquired_lock_list[t] = {}
    /\ schedule(ready_list, effective_priority)
    /\ UNCHANGED <<threadVars, lockVars, callVars>>

\* The end of a time slice: intr_yield_on_return.  In "rel" the thread has
\* interrupts off.
Preempt(t) ==
    /\ MayPreempt
    /\ t = cur /\ pc[t] # "rel"
    /\ thread_yield(ready_list, effective_priority)
    /\ UNCHANGED <<threadVars, lockVars, pc, callVars>>

Next ==
    \E t \in Thread :
        \/ AcquireHeld(t) \/ AcquireFree(t) \/ propagate_broadcast(t)
        \/ DownBlocks(t) \/ DownPasses(t) \/ Acquired(t)
        \/ TryDown(t) \/ TryAcquired(t)
        \/ ReleaseLast(t) \/ ReleaseSome(t) \/ ReleaseRest(t)
        \/ SetPriority(t) \/ Create(t) \/ Exit(t) \/ Preempt(t)

Spec == Init /\ [][Next]_vars

\* All threads but the first are created alike.
Others == Permutations(Thread \ {Main})

-----------------------------------------------------------------------------
\* Types of the scheduler's lists and of the locks; the semaphore inside a
\* lock of synch.c never goes above 1.
TypeOK ==
    /\ cur \in Thread \cup {Idle}
    /\ ready_list \in Seq(Thread)
    /\ priority \in [Thread -> Priority]
    /\ effective_priority \in [Thread -> Priority]
    /\ waiting_lock \in [Thread -> Lock \cup {NoLock}]
    /\ acquired_lock_list \in [Thread -> SUBSET Lock]
    /\ value \in [Lock -> {0, 1}]
    /\ waiters \in [Lock -> Seq(Thread)]
    /\ holder \in [Lock -> Thread \cup {Idle}]
    /\ lock_priority \in [Lock -> Priority \cup {-1}]
    /\ pc \in [Thread -> {"unborn", "run", "donate", "down", "got", "tried",
                          "rel", "dead"}]
    /\ arg \in [Thread -> Lock \cup {NoLock}]
    /\ moving \in [Thread -> Priority \cup {0}]
    /\ target \in [Thread -> Thread]

\* Does t own l, or is it between taking and recording it, or between
\* unlisting it and giving it back?
Owns(t, l) ==
    \/ l \in acquired_lock_list[t]
    \/ pc[t] \in {"got", "tried", "rel"} /\ arg[t] = l

\* "A lock can be held by at most a single thread at any given time"
\* (lock_init): a semaphore at 1 has no owner, one at 0 exactly one, wherever
\* a time slice ends in lock_acquire, lock_try_acquire and lock_release.
OneOwner ==
    \A l \in Lock :
        IF value[l] = 0
        THEN \E t \in Thread : \A u \in Thread : Owns(u, l) <=> u = t
        ELSE \A t \in Thread : ~Owns(t, l)

\* The holder that donation and lock_held_by_current_thread go by owns the
\* lock.
HolderOwns == \A l \in Lock : holder[l] # Idle => Owns(holder[l], l)

\* A thread that exists is running or in exactly one queue, once: ready_list,
\* or the waiters of the lock it is at (all queues link the same elem).
OneQueue ==
    \A t \in Thread :
        LET inReady == {i \in DOMAIN ready_list : ready_list[i] = t}
            inLock(l) == {i \in DOMAIN waiters[l] : waiters[l][i] = t}
            places == {<<"ready", i>> : i \in inReady}
                      \cup UNION {{<<l, i>> : i \in inLock(l)} : l \in Lock}
        IN  IF t = cur \/ pc[t] \in {"unborn", "dead"} THEN places = {}
            ELSE /\ \E p \in places : places = {p}
                 /\ \A l \in Lock :
                      inLock(l) # {} => pc[t] = "down" /\ arg[t] = l

\* sema_up wakes one waiter and raises the value, but the value may be taken
\* by another before the woken thread runs: while threads wait and the value
\* is positive, one that was woken is on its way to look again.
NoLostWakeup ==
    \A l \in Lock :
        value[l] > 0 /\ waiters[l] # <<>> =>
            \E t \in Thread :
                /\ pc[t] = "down" /\ arg[t] = l
                /\ t = cur \/ \E i \in DOMAIN ready_list : ready_list[i] = t

\* "we will edit next_thread_to_run to be the maximum of all of the existing
\* threads' effective_priority" (doc/project1.md): with every donation, lock
\* release, thread creation and change of priority, no ready thread is ever
\* ahead of the one that runs.
HighestRuns ==
    cur # Idle =>
        \A i \in DOMAIN ready_list :
            effective_priority[ready_list[i]] <= effective_priority[cur]

\* Donation and thread_set_priority only ever add to a thread's own priority.
NeverBelowBase ==
    \A t \in Thread : effective_priority[t] >= priority[t]

\* Threads that take locks in order never leave the CPU idle while one of
\* them waits for a lock.
NeverStuck == cur = Idle => \A l \in Lock : waiters[l] = <<>>

\* Locks of synch.c under preemption anywhere interrupts are on: one owner, the
\* holder is the owner, a thread is in one queue, a lock that is free has no
\* waiter nobody woke, and not everybody waits.
LocksSound ==
    /\ TypeOK
    /\ OneOwner
    /\ HolderOwns
    /\ OneQueue
    /\ NoLostWakeup
    /\ NeverStuck

\* Through donation, release, thread_set_priority and switches in the middle
\* of them, no ready thread is ahead of the running one, and nobody falls
\* below its own priority.
PriorityKept == HighestRuns /\ NeverBelowBase
=============================================================================
