------------------------------ MODULE CondVar -------------------------------
(***************************************************************************)
(* A condition variable of group_proj1's threads/synch.c and the lock it   *)
(* is used with.  The lock is taken as the mutual exclusion module         *)
(* Donation shows it to be.  A thread is                                   *)
(*   "out"      not holding the lock                                       *)
(*   "in"       holding it, in its own code                                *)
(*   "release"  in cond_wait, queued, about to call lock_release           *)
(*   "sema"     in cond_wait, after lock_release, at sema_down             *)
(*   "blocked"  in that sema_down, on the semaphore's waiters              *)
(*   "relock"   in cond_wait, at the second lock_acquire                   *)
(*   "signal"   in cond_broadcast, between two calls of cond_signal        *)
(* lock_release and sema_up end in thread_yield: other threads may run     *)
(* before the caller's next step.                                          *)
(***************************************************************************)
EXTENDS Integers, Sequences, SequencesExt

CONSTANTS CvThread, None,
    basePriority     \* effective priorities, by thread

ASSUME NoneAssumption == None \notin CvThread
ASSUME PriorityAssumption == basePriority \in [CvThread -> Nat]

VARIABLES
    pc, holder,
    cond,        \* cond->waiters: the threads whose semaphore_elem is linked
    value,       \* by thread, the value of its waiter.semaphore
    panic        \* an ASSERT has failed: the kernel has stopped

cvVars == <<pc, holder, cond, value, panic>>

CvInit ==
    /\ pc = [t \in CvThread |-> "out"]
    /\ holder = None
    /\ cond = <<>>
    /\ value = [t \in CvThread |-> 0]
    /\ panic = FALSE

Goto(t, from, to) == ~panic /\ pc[t] = from /\ pc' = [pc EXCEPT ![t] = to]

\* lock_acquire and lock_release of the monitor's users.
Enter(t) ==
    /\ Goto(t, "out", "in")
    /\ holder = None /\ holder' = t
    /\ UNCHANGED <<cond, value, panic>>

Leave(t) ==
    /\ Goto(t, "in", "out")
    /\ holder' = None
    /\ UNCHANGED <<cond, value, panic>>

\* cond_wait: a fresh semaphore at 0 goes on the list.
Wait(t) ==
    /\ Goto(t, "in", "release")
    /\ value' = [value EXCEPT ![t] = 0]
    /\ cond' = Append(cond, t)
    /\ UNCHANGED <<holder, panic>>

\* lock_release in cond_wait.
WaitRelease(t) ==
    /\ Goto(t, "release", "sema")
    /\ holder' = None
    /\ UNCHANGED <<cond, value, panic>>

\* sema_down blocks.
WaitBlock(t) ==
    /\ Goto(t, "sema", "blocked")
    /\ value[t] = 0
    /\ UNCHANGED <<holder, cond, value, panic>>

\* sema_down passes: not having blocked, or woken from it.
WaitPass(t) ==
    /\ Goto(t, "sema", "relock")
    /\ value[t] > 0
    /\ value' = [value EXCEPT ![t] = @ - 1]
    /\ UNCHANGED <<holder, cond, panic>>

\* Mutant of WaitRelock: cond_wait returns without the lock.
WaitRelockNot(t) ==
    /\ Goto(t, "relock", "in")
    /\ UNCHANGED <<holder, cond, value, panic>>

\* lock_acquire in cond_wait, and its return.
WaitRelock(t) ==
    /\ Goto(t, "relock", "in")
    /\ holder = None /\ holder' = t
    /\ UNCHANGED <<cond, value, panic>>

-----------------------------------------------------------------------------
\* compare_sema looks at the first thread of both semaphores' waiters, and
\* list_front asserts that there is one.  With one waiter list_max makes no
\* comparison.
Comparable ==
    Len(cond) > 1 => \A i \in DOMAIN cond : pc[cond[i]] = "blocked"

\* list_max(&cond->waiters, compare_sema).
list_max(i) ==
    /\ i \in DOMAIN cond
    /\ \A j \in DOMAIN cond :
         /\ basePriority[cond[j]] <= basePriority[cond[i]]
         /\ j < i => basePriority[cond[j]] < basePriority[cond[i]]

\* cond_signal of a non-empty list whose comparisons succeed: sema_up makes a
\* blocked thread ready and raises the value.
cond_signal ==
    \E i \in DOMAIN cond : LET w == cond[i] IN
        /\ list_max(i)
        /\ cond' = RemoveAt(cond, i)
        /\ value' = [value EXCEPT ![w] = @ + 1]
        /\ pc' = [pc EXCEPT ![w] = IF @ = "blocked" THEN "sema" ELSE @]

Signal(t) ==
    /\ ~panic /\ pc[t] = "in" /\ Comparable
    /\ cond_signal
    /\ UNCHANGED <<holder, panic>>

\* cond_broadcast: the loop is entered; one turn; its end.
Broadcast(t) ==
    /\ Goto(t, "in", "signal")
    /\ UNCHANGED <<holder, cond, value, panic>>

BroadcastTurn(t) ==
    /\ ~panic /\ pc[t] = "signal" /\ Comparable
    /\ cond_signal
    /\ UNCHANGED <<holder, panic>>

BroadcastEnd(t) ==
    /\ Goto(t, "signal", "in")
    /\ cond = <<>>
    /\ UNCHANGED <<holder, cond, value, panic>>

\* cond_signal when list_front is asked for the front of an empty list.
SignalPanics(t) ==
    /\ ~panic /\ pc[t] \in {"in", "signal"} /\ ~Comparable
    /\ panic' = TRUE
    /\ UNCHANGED <<pc, holder, cond, value>>

CvNext ==
    \E t \in CvThread :
        \/ Enter(t) \/ Leave(t)
        \/ Wait(t) \/ WaitRelease(t) \/ WaitBlock(t) \/ WaitPass(t)
        \/ WaitRelock(t)
        \/ Signal(t) \/ Broadcast(t) \/ BroadcastTurn(t) \/ BroadcastEnd(t)
        \/ SignalPanics(t)

CvSpec == CvInit /\ [][CvNext]_cvVars

-----------------------------------------------------------------------------
\* Types; the semaphore cond_wait keeps for each waiter is upped at most once.
CvTypeOK ==
    /\ pc \in [CvThread -> {"out", "in", "release", "sema", "blocked", "relock",
                          "signal"}]
    /\ holder \in CvThread \cup {None}
    /\ \A i \in DOMAIN cond : cond[i] \in CvThread
    /\ value \in [CvThread -> {0, 1}]
    /\ panic \in BOOLEAN

\* Whoever is inside the monitor holds its lock, cond_wait's return included.
InsideHolds ==
    \A t \in CvThread : pc[t] \in {"in", "signal", "release"} <=> holder = t

\* A signal is never lost: a thread in cond_wait is either still on the list,
\* or its semaphore was raised and not yet taken, even when the signal came
\* between its lock_release and its sema_down.
SignalKept ==
    \A t \in CvThread :
        LET listed == \E i \in DOMAIN cond : cond[i] = t IN
        /\ pc[t] = "blocked" => listed /\ value[t] = 0
        /\ pc[t] = "sema" => (listed <=> value[t] = 0)

\* cond_broadcast "wakes up all threads, if any, waiting on COND": when a
\* broadcaster leaves the loop nobody is on the list.
BroadcastWakesAll ==
    [][\A t \in CvThread : pc[t] = "signal" /\ pc'[t] = "in" =>
           \A u \in CvThread : pc'[u] # "blocked"]_cvVars

\* Condition variables of synch.c, until an assertion stops the kernel: who is
\* inside holds the lock, a signal is not lost on a waiter that has released
\* the lock and not yet blocked, and cond_broadcast leaves nobody blocked.
CondVarRight == [](CvTypeOK /\ InsideHolds /\ SignalKept) /\ BroadcastWakesAll
=============================================================================
