--------------------------- MODULE Donation_proofs ---------------------------
(***************************************************************************)
(* Locks with priority donation, for any number of threads, locks and      *)
(* priorities.                                                             *)
(***************************************************************************)
EXTENDS Donation, SeqLemmas

\* A thread that exists.
Live(t) == pc[t] \notin {"unborn", "dead"}

\* The threads on the CPU or ready.
On == ToSet(ready_list) \cup ({cur} \ {Idle})

Waits(t, l) == t \in ToSet(waiters[l])

\* Where a thread is in a lock operation, and what it has in its hands.
Places ==
    \A t \in Thread :
        /\ pc[t] \in {"donate", "down", "got", "tried", "rel"} => arg[t] \in Lock
        /\ pc[t] \in {"donate", "down", "got", "tried"} =>
             \A m \in acquired_lock_list[t] : m < arg[t]
        /\ pc[t] = "rel" => arg[t] \notin acquired_lock_list[t]
        /\ ~Live(t) => acquired_lock_list[t] = {}

\* Donation never carries more than the priority the running thread has.
Carried ==
    \A t \in Thread :
        pc[t] = "donate" => /\ moving[t] \in Priority
                            /\ moving[t] <= effective_priority[t]

\* The queues by the sets of their threads.
Queues ==
    /\ IsInjective(ready_list) /\ cur \notin ToSet(ready_list)
    /\ cur = Idle => On = {}
    /\ \A l \in Lock : IsInjective(waiters[l])
    /\ \A t \in On : Live(t)
    /\ \A l \in Lock : \A t \in ToSet(waiters[l]) :
         t \notin On /\ pc[t] = "down" /\ arg[t] = l
    /\ \A t \in Thread : Live(t) => t \in On \/ \E l \in Lock : Waits(t, l)

\* NoLostWakeup and HighestRuns, of On.
WokenComes ==
    \A l \in Lock : value[l] > 0 /\ waiters[l] # <<>> =>
        \E t \in On : pc[t] = "down" /\ arg[t] = l

Highest ==
    cur # Idle => \A t \in On : effective_priority[t] <= effective_priority[cur]

\* TypeOK in two parts.
Kinds ==
    /\ cur \in Thread \cup {Idle}
    /\ priority \in [Thread -> Priority]
    /\ effective_priority \in [Thread -> Priority]
    /\ waiting_lock \in [Thread -> Lock \cup {NoLock}]
    /\ acquired_lock_list \in [Thread -> SUBSET Lock]
    /\ value \in [Lock -> {0, 1}]
    /\ holder \in [Lock -> Thread \cup {Idle}]
    /\ lock_priority \in [Lock -> Priority \cup {-1}]
    /\ pc \in [Thread -> {"unborn", "run", "donate", "down", "got", "tried",
                          "rel", "dead"}]
    /\ arg \in [Thread -> Lock \cup {NoLock}]
    /\ moving \in [Thread -> Priority \cup {0}]
    /\ target \in [Thread -> Thread]

QueueKinds == ready_list \in Seq(Thread) /\ waiters \in [Lock -> Seq(Thread)]

\* OneOwner, by parts.
Owned ==
    \A l \in Lock :
        /\ value[l] = 1 => \A t \in Thread : ~Owns(t, l)
        /\ value[l] = 0 => \E t \in Thread : Owns(t, l)
        /\ \A t, u \in Thread : Owns(t, l) /\ Owns(u, l) => t = u

IndInv ==
    /\ Kinds /\ QueueKinds /\ Places /\ Carried
    /\ Owned /\ HolderOwns
    /\ Queues /\ WokenComes
    /\ Highest /\ NeverBelowBase

-----------------------------------------------------------------------------
\* The CPU goes to a thread of S of greatest effective priority, if there is
\* one, and the others are ready.
Chosen(S, e) ==
    /\ ready_list' \in Seq(Thread) /\ IsInjective(ready_list')
    /\ cur' \in Thread \cup {Idle} /\ cur' \notin ToSet(ready_list')
    /\ IF S = {} THEN cur' = Idle /\ ToSet(ready_list') = {}
       ELSE /\ cur' \in S /\ ToSet(ready_list') = S \ {cur'}
            /\ \A u \in S : e[u] <= e[cur']

LEMMA ScheduleChooses ==
    ASSUME NEW q \in Seq(Thread), IsInjective(q), NEW e, schedule(q, e)
    PROVE  Chosen(ToSet(q), e)
<1>1. CASE q = <<>>
  <2>1. cur' = Idle /\ ready_list' = <<>>
    BY <1>1 DEF schedule
  <2>2. ToSet(<<>>) = {} /\ IsInjective(<<>>) /\ <<>> \in Seq(Thread)
    BY EmptyProperties
  <2> QED BY <1>1, <2>1, <2>2 DEF Chosen
<1>2. CASE q # <<>>
  <2>1. PICK i \in DOMAIN q : /\ list_max(q, e, i)
                              /\ cur' = q[i] /\ ready_list' = RemoveAt(q, i)
    BY <1>2 DEF schedule
  <2>2. i \in 1 .. Len(q) /\ q[i] \in Thread /\ q[i] \in ToSet(q)
    BY SeqElements DEF ToSet
  <2>3. /\ ready_list' \in Seq(Thread) /\ IsInjective(ready_list')
        /\ ToSet(ready_list') = ToSet(q) \ {q[i]}
    BY <2>1, <2>2, RemoveAtElements
  <2>4. \A u \in ToSet(q) : e[u] <= e[q[i]]
    BY <2>1 DEF list_max, ToSet
  <2> QED BY <2>1, <2>2, <2>3, <2>4 DEF Chosen
<1> QED BY <1>1, <1>2

LEMMA YieldChooses ==
    ASSUME NEW q \in Seq(Thread), IsInjective(q), NEW e,
           cur \in Thread, cur \notin ToSet(q), thread_yield(q, e)
    PROVE  Chosen(ToSet(q) \cup {cur}, e)
<1> DEFINE a == Append(q, cur)
<1>1. a \in Seq(Thread) /\ IsInjective(a) /\ ToSet(a) = ToSet(q) \cup {cur}
  BY AppendElements
<1>2. schedule(a, e)
  BY DEF thread_yield
<1> HIDE DEF a
<1> QED BY <1>1, <1>2, ScheduleChooses

\* What On becomes.
LEMMA ChosenOn ==
    ASSUME NEW S \in SUBSET Thread, NEW e, Chosen(S, e)
    PROVE  /\ On' = S
           /\ cur' = Idle => On' = {}
           /\ cur' # Idle => \A u \in On' : e[u] <= e[cur']
  BY IdleAssumption DEF Chosen, On

\* The woken waiter, if there is one, joins those who can run.
LEMMA SemaUpWakes ==
    ASSUME QueueKinds, Queues, NEW l \in Lock, NEW e, cur \in Thread, sema_up(l, e)
    PROVE  /\ value' = [value EXCEPT ![l] = value[l] + 1]
           /\ \/ /\ waiters[l] = <<>> /\ waiters' = waiters
                 /\ Chosen(On, e)
              \/ \E w \in ToSet(waiters[l]) :
                   /\ Chosen(On \cup {w}, e)
                   /\ waiters' \in [Lock -> Seq(Thread)]
                   /\ IsInjective(waiters'[l])
                   /\ ToSet(waiters'[l]) = ToSet(waiters[l]) \ {w}
                   /\ \A m \in Lock \ {l} : waiters'[m] = waiters[m]
<1> USE IdleAssumption
<1>1. ready_list \in Seq(Thread) /\ IsInjective(ready_list) /\ cur \notin ToSet(ready_list)
  BY DEF QueueKinds, Queues
<1>2. On = ToSet(ready_list) \cup {cur}
  BY DEF On
<1>3. value' = [value EXCEPT ![l] = value[l] + 1]
  BY DEF sema_up
<1>4. CASE waiters[l] = <<>>
  <2>1. thread_yield(ready_list, e) /\ waiters' = waiters
    BY <1>4 DEF sema_up
  <2> QED BY <1>1, <1>2, <1>3, <1>4, <2>1, YieldChooses
<1>5. CASE waiters[l] # <<>>
  <2> DEFINE k == waiters[l]
  <2>1. PICK i \in DOMAIN k : /\ waiters' = [waiters EXCEPT ![l] = RemoveAt(k, i)]
                              /\ thread_yield(Append(ready_list, k[i]), e)
    BY <1>5 DEF sema_up
  <2>2. k \in Seq(Thread) /\ IsInjective(k) /\ waiters \in [Lock -> Seq(Thread)]
    BY DEF QueueKinds, Queues
  <2>3. \A w \in ToSet(k) : w \notin On
    BY DEF Queues
  <2>4. waiters'[l] = RemoveAt(k, i) /\ \A m \in Lock \ {l} : waiters'[m] = waiters[m]
    BY <2>1, <2>2
  <2> HIDE DEF k
  <2>5. k[i] \in Thread /\ k[i] \in ToSet(k) /\ i \in 1 .. Len(k)
    BY <2>2, SeqElements DEF ToSet
  <2>6. /\ RemoveAt(k, i) \in Seq(Thread) /\ IsInjective(RemoveAt(k, i))
        /\ ToSet(RemoveAt(k, i)) = ToSet(k) \ {k[i]}
    BY <2>2, <2>5, RemoveAtElements
  <2> DEFINE a == Append(ready_list, k[i])
  <2>7. /\ a \in Seq(Thread) /\ IsInjective(a)
        /\ ToSet(a) = ToSet(ready_list) \cup {k[i]}
    BY <1>1, <1>2, <2>3, <2>5, AppendElements
  <2>8. thread_yield(a, e)
    BY <2>1
  <2> HIDE DEF a
  <2>9. Chosen(ToSet(a) \cup {cur}, e)
    BY <1>1, <1>2, <2>3, <2>5, <2>7, <2>8, YieldChooses
  <2>10. ToSet(a) \cup {cur} = On \cup {k[i]}
    BY <1>2, <2>7
  <2>11. waiters' \in [Lock -> Seq(Thread)]
    BY <2>1, <2>2, <2>6
  <2>12. \E w \in ToSet(k) :
           /\ Chosen(On \cup {w}, e)
           /\ waiters' \in [Lock -> Seq(Thread)]
           /\ IsInjective(waiters'[l])
           /\ ToSet(waiters'[l]) = ToSet(k) \ {w}
           /\ \A m \in Lock \ {l} : waiters'[m] = waiters[m]
    BY <2>4, <2>5, <2>6, <2>9, <2>10, <2>11
  <2> QED BY <1>3, <2>12 DEF k
<1> QED BY <1>4, <1>5

-----------------------------------------------------------------------------
\* Priorities are numbers, and threads are threads.
LEMMA Numbers ==
    ASSUME IndInv
    PROVE  /\ \A t \in Thread : /\ effective_priority[t] \in Nat /\ priority[t] \in Nat
                                /\ effective_priority[t] \in Priority
                                /\ priority[t] \in Priority
           /\ On \subseteq Thread /\ \A l \in Lock : ToSet(waiters[l]) \subseteq Thread
<1>1. \A t \in Thread : effective_priority[t] \in Priority /\ priority[t] \in Priority
  BY DEF IndInv, Kinds
<1>2. On \subseteq Thread /\ \A l \in Lock : ToSet(waiters[l]) \subseteq Thread
  BY SeqElements DEF IndInv, Kinds, QueueKinds, On
<1> QED BY <1>1, <1>2, PriorityAssumption

\* The steps that leave the CPU and the queues alone.
LEMMA QuietQueues ==
    ASSUME IndInv, NEW t \in Thread, t = cur, UNCHANGED <<cur, ready_list, waiters>>,
           NEW x \in {"run", "donate", "down", "got", "tried", "rel"},
           pc' = [pc EXCEPT ![t] = x], NEW y, arg' = [arg EXCEPT ![t] = y]
    PROVE  Queues' /\ QueueKinds' /\ On' = On /\ t \in On
<1>1. On' = On /\ t \in On
  BY IdleAssumption DEF On
<1>2. QueueKinds'
  BY DEF IndInv, QueueKinds
<1>3. \A u \in Thread : u # t => pc'[u] = pc[u] /\ arg'[u] = arg[u]
  BY DEF IndInv, Kinds
<1>4. pc'[t] = x
  BY DEF IndInv, Kinds
<1>5. On \subseteq Thread /\ \A l \in Lock : ToSet(waiters[l]) \subseteq Thread
  BY IdleAssumption, SeqElements DEF IndInv, Kinds, QueueKinds, On
<1>6. \A u \in On : Live(u)'
  BY <1>3, <1>4, <1>5 DEF IndInv, Queues, Live
<1>7. \A l \in Lock : \A u \in ToSet(waiters[l]) :
         u \notin On /\ pc'[u] = "down" /\ arg'[u] = l
  BY <1>1, <1>3, <1>5 DEF IndInv, Queues
<1>8. \A u \in Thread : Live(u)' => u \in On \/ \E l \in Lock : Waits(u, l)
  BY <1>1, <1>3 DEF IndInv, Queues, Live
<1> HIDE DEF On
<1>9. Queues'
  BY <1>1, <1>6, <1>7, <1>8 DEF IndInv, Queues, Waits
<1> QED BY <1>1, <1>2, <1>9

LEMMA AcquireHeldStep ==
    ASSUME IndInv, NEW t \in Thread, AcquireHeld(t)
    PROVE  IndInv'
<1> USE IdleAssumption, LockAssumption, PriorityAssumption
<1>1. PICK l \in Lock :
        /\ t = cur /\ pc[t] = "run" /\ pc' = [pc EXCEPT ![t] = "donate"]
        /\ \A m \in acquired_lock_list[t] : m < l
        /\ arg' = [arg EXCEPT ![t] = l]
        /\ waiting_lock' = [waiting_lock EXCEPT ![t] = l]
        /\ moving' = [moving EXCEPT ![t] = effective_priority[t]]
        /\ target' = [target EXCEPT ![t] = t]
        /\ UNCHANGED <<cur, ready_list, priority, effective_priority,
                       acquired_lock_list, value, waiters, holder, lock_priority>>
  BY DEF AcquireHeld, Goto, lockVars
<1>2. Queues' /\ QueueKinds' /\ On' = On /\ t \in On
  BY <1>1, QuietQueues
<1>3. Kinds'
  BY <1>1 DEF IndInv, Kinds
<1>4. Places'
  BY <1>1 DEF IndInv, Kinds, Places, Live
<1>5. Carried'
  BY <1>1, Numbers DEF IndInv, Kinds, Carried
<1>6. \A u \in Thread, m \in Lock : Owns(u, m)' <=> Owns(u, m)
  BY <1>1 DEF IndInv, Kinds, Owns
<1>7. Owned' /\ HolderOwns'
  BY <1>1, <1>6 DEF IndInv, Kinds, Owned, HolderOwns
<1>8. WokenComes'
  BY <1>1, <1>2 DEF IndInv, Kinds, WokenComes
<1>9. Highest' /\ NeverBelowBase'
  BY <1>1, <1>2 DEF IndInv, Highest, NeverBelowBase
<1> QED BY <1>2, <1>3, <1>4, <1>5, <1>7, <1>8, <1>9 DEF IndInv

LEMMA AcquireFreeStep ==
    ASSUME IndInv, NEW t \in Thread, AcquireFree(t)
    PROVE  IndInv'
<1> USE IdleAssumption, LockAssumption, PriorityAssumption
<1>1. PICK l \in Lock :
        /\ t = cur /\ pc[t] = "run" /\ pc' = [pc EXCEPT ![t] = "down"]
        /\ \A m \in acquired_lock_list[t] : m < l
        /\ arg' = [arg EXCEPT ![t] = l]
        /\ UNCHANGED <<cur, ready_list, priority, effective_priority, waiting_lock,
                       acquired_lock_list, value, waiters, holder, lock_priority,
                       moving, target>>
  BY DEF AcquireFree, Goto, lockVars, threadVars
<1>2. Queues' /\ QueueKinds' /\ On' = On /\ t \in On
  BY <1>1, QuietQueues
<1>3. Kinds'
  BY <1>1 DEF IndInv, Kinds
<1>4. Places'
  BY <1>1 DEF IndInv, Kinds, Places, Live
<1>5. Carried'
  BY <1>1 DEF IndInv, Kinds, Carried
<1>6. \A u \in Thread, m \in Lock : Owns(u, m)' <=> Owns(u, m)
  BY <1>1 DEF IndInv, Kinds, Owns
<1>7. Owned' /\ HolderOwns'
  BY <1>1, <1>6 DEF IndInv, Kinds, Owned, HolderOwns
<1>8. WokenComes'
  BY <1>1, <1>2 DEF IndInv, Kinds, WokenComes
<1>9. Highest' /\ NeverBelowBase'
  BY <1>1, <1>2 DEF IndInv, Highest, NeverBelowBase
<1> QED BY <1>2, <1>3, <1>4, <1>5, <1>7, <1>8, <1>9 DEF IndInv

LEMMA DownPassesStep ==
    ASSUME IndInv, NEW t \in Thread, DownPasses(t)
    PROVE  IndInv'
<1> USE IdleAssumption, LockAssumption, PriorityAssumption
<1> DEFINE l == arg[t]
<1>1. /\ t = cur /\ pc[t] = "down" /\ pc' = [pc EXCEPT ![t] = "got"]
      /\ l \in Lock /\ value[l] = 1 /\ value' = [value EXCEPT ![l] = 0]
      /\ arg' = [arg EXCEPT ![t] = l]
      /\ UNCHANGED <<cur, ready_list, priority, effective_priority, waiting_lock,
                     acquired_lock_list, waiters, holder, lock_priority, arg,
                     moving, target>>
  <2>1. /\ t = cur /\ pc[t] = "down" /\ pc' = [pc EXCEPT ![t] = "got"]
        /\ value[l] > 0 /\ value' = [value EXCEPT ![l] = value[l] - 1]
        /\ UNCHANGED <<cur, ready_list, priority, effective_priority, waiting_lock,
                       acquired_lock_list, waiters, holder, lock_priority, arg,
                       moving, target>>
    BY DEF DownPasses, Goto, threadVars, callVars
  <2>2. l \in Lock /\ value[l] \in {0, 1}
    BY <2>1 DEF IndInv, Kinds, Places
  <2>3. value[l] = 1 /\ value[l] - 1 = 0
    BY <2>1, <2>2
  <2>4. arg' = [arg EXCEPT ![t] = l]
    BY <2>1 DEF IndInv, Kinds
  <2> QED BY <2>1, <2>2, <2>3, <2>4
<1> HIDE DEF l
<1>2. Queues' /\ QueueKinds' /\ On' = On /\ t \in On
  BY <1>1, QuietQueues
<1>3. Kinds'
  BY <1>1 DEF IndInv, Kinds
<1>4. Places'
  BY <1>1 DEF IndInv, Kinds, Places, Live
<1>5. Carried'
  BY <1>1 DEF IndInv, Kinds, Carried
<1>6. \A u \in Thread, m \in Lock : Owns(u, m)' <=> Owns(u, m) \/ (u = t /\ m = l)
  BY <1>1 DEF IndInv, Kinds, Owns
<1>7. Owned' /\ HolderOwns'
  BY <1>1, <1>6 DEF IndInv, Kinds, Owned, HolderOwns
<1>8. WokenComes'
  <2>1. \A m \in Lock : m # l => value'[m] = value[m]
    BY <1>1 DEF IndInv, Kinds
  <2>2. value'[l] = 0
    BY <1>1 DEF IndInv, Kinds
  <2>3. \A u \in On : u # t => pc'[u] = pc[u] /\ arg'[u] = arg[u]
    BY <1>1, Numbers DEF IndInv, Kinds
  <2>4. arg[t] = l
    BY DEF l
  <2> SUFFICES ASSUME NEW m \in Lock, value'[m] > 0, waiters[m] # <<>>
               PROVE  \E u \in On : pc'[u] = "down" /\ arg'[u] = m
    BY <1>1, <1>2 DEF WokenComes
  <2>5. m # l /\ value[m] > 0
    BY <2>1, <2>2
  <2>6. PICK u \in On : pc[u] = "down" /\ arg[u] = m
    BY <2>5 DEF IndInv, WokenComes
  <2> QED BY <2>3, <2>4, <2>5, <2>6
<1>9. Highest' /\ NeverBelowBase'
  BY <1>1, <1>2 DEF IndInv, Highest, NeverBelowBase
<1> QED BY <1>2, <1>3, <1>4, <1>5, <1>7, <1>8, <1>9 DEF IndInv

LEMMA AcquiredStep ==
    ASSUME IndInv, NEW t \in Thread, Acquired(t)
    PROVE  IndInv'
<1> USE IdleAssumption, LockAssumption, PriorityAssumption
<1> DEFINE l == arg[t]
<1>1. /\ t = cur /\ pc[t] = "got" /\ pc' = [pc EXCEPT ![t] = "run"] /\ l \in Lock
      /\ waiting_lock' = [waiting_lock EXCEPT ![t] = NoLock]
      /\ lock_priority' = [lock_priority EXCEPT ![l] = effective_priority[t]]
      /\ acquired_lock_list' = [acquired_lock_list EXCEPT ![t] = @ \cup {l}]
      /\ holder' = [holder EXCEPT ![l] = t]
      /\ arg' = [arg EXCEPT ![t] = NoLock]
      /\ UNCHANGED <<cur, ready_list, priority, effective_priority, value, waiters,
                     moving, target>>
  BY DEF Acquired, Goto, IndInv, Kinds, Places
<1> HIDE DEF l
<1>2. Queues' /\ QueueKinds' /\ On' = On /\ t \in On
  BY <1>1, QuietQueues
<1>3. Kinds'
  BY <1>1, Numbers DEF IndInv, Kinds
<1>4. Places'
  BY <1>1 DEF IndInv, Kinds, Places, Live
<1>5. Carried'
  BY <1>1 DEF IndInv, Kinds, Carried
<1>6. \A u \in Thread, m \in Lock : Owns(u, m)' <=> Owns(u, m)
  <2> TAKE u \in Thread, m \in Lock
  <2>1. acquired_lock_list'[u] = IF u = t THEN acquired_lock_list[t] \cup {l}
                                 ELSE acquired_lock_list[u]
    BY <1>1 DEF IndInv, Kinds
  <2>2. u # t => pc'[u] = pc[u] /\ arg'[u] = arg[u]
    BY <1>1 DEF IndInv, Kinds
  <2>3. pc'[t] = "run" /\ arg[t] = l
    BY <1>1 DEF IndInv, Kinds, l
  <2> QED BY <1>1, <2>1, <2>2, <2>3 DEF Owns
<1>7. Owned' /\ HolderOwns'
  <2>1. Owns(t, l)
    BY <1>1 DEF Owns, l
  <2> QED BY <1>1, <1>6, <2>1 DEF IndInv, Kinds, Owned, HolderOwns
<1>8. WokenComes'
  BY <1>1, <1>2 DEF IndInv, Kinds, WokenComes
<1>9. Highest' /\ NeverBelowBase'
  BY <1>1, <1>2 DEF IndInv, Highest, NeverBelowBase
<1> QED BY <1>2, <1>3, <1>4, <1>5, <1>7, <1>8, <1>9 DEF IndInv

LEMMA TryDownStep ==
    ASSUME IndInv, NEW t \in Thread, TryDown(t)
    PROVE  IndInv'
<1> USE IdleAssumption, LockAssumption, PriorityAssumption
<1>1. PICK l \in Lock :
        /\ t = cur /\ pc[t] = "run" /\ pc' = [pc EXCEPT ![t] = "tried"]
        /\ \A m \in acquired_lock_list[t] : m < l
        /\ value[l] = 1 /\ value' = [value EXCEPT ![l] = 0]
        /\ arg' = [arg EXCEPT ![t] = l]
        /\ UNCHANGED <<cur, ready_list, priority, effective_priority, waiting_lock,
                       acquired_lock_list, waiters, holder, lock_priority, moving,
                       target>>
  <2>1. PICK l \in Lock :
        /\ t = cur /\ pc[t] = "run" /\ pc' = [pc EXCEPT ![t] = "tried"]
        /\ \A m \in acquired_lock_list[t] : m < l
        /\ value[l] > 0 /\ value' = [value EXCEPT ![l] = value[l] - 1]
        /\ arg' = [arg EXCEPT ![t] = l]
        /\ UNCHANGED <<cur, ready_list, priority, effective_priority, waiting_lock,
                       acquired_lock_list, waiters, holder, lock_priority, moving,
                       target>>
    BY DEF TryDown, Goto, threadVars
  <2>2. value[l] \in {0, 1}
    BY DEF IndInv, Kinds
  <2>3. value[l] = 1 /\ value[l] - 1 = 0
    BY <2>1, <2>2
  <2> QED BY <2>1, <2>3
<1>2. Queues' /\ QueueKinds' /\ On' = On /\ t \in On
  BY <1>1, QuietQueues
<1>3. Kinds'
  BY <1>1 DEF IndInv, Kinds
<1>4. Places'
  BY <1>1 DEF IndInv, Kinds, Places, Live
<1>5. Carried'
  BY <1>1 DEF IndInv, Kinds, Carried
<1>6. \A u \in Thread, m \in Lock : Owns(u, m)' <=> Owns(u, m) \/ (u = t /\ m = l)
  BY <1>1 DEF IndInv, Kinds, Owns
<1>7. Owned' /\ HolderOwns'
  BY <1>1, <1>6 DEF IndInv, Kinds, Owned, HolderOwns
<1>8. WokenComes'
  BY <1>1, <1>2 DEF IndInv, Kinds, WokenComes
<1>9. Highest' /\ NeverBelowBase'
  BY <1>1, <1>2 DEF IndInv, Highest, NeverBelowBase
<1> QED BY <1>2, <1>3, <1>4, <1>5, <1>7, <1>8, <1>9 DEF IndInv

LEMMA TryAcquiredStep ==
    ASSUME IndInv, NEW t \in Thread, TryAcquired(t)
    PROVE  IndInv'
<1> USE IdleAssumption, LockAssumption, PriorityAssumption
<1> DEFINE l == arg[t]
<1>1. /\ t = cur /\ pc[t] = "tried" /\ pc' = [pc EXCEPT ![t] = "run"] /\ l \in Lock
      /\ acquired_lock_list' = [acquired_lock_list EXCEPT ![t] = @ \cup {l}]
      /\ holder' = [holder EXCEPT ![l] = t]
      /\ arg' = [arg EXCEPT ![t] = NoLock]
      /\ UNCHANGED <<cur, ready_list, priority, effective_priority, waiting_lock, value,
                     waiters, lock_priority, moving, target>>
  BY DEF TryAcquired, Goto, IndInv, Kinds, Places
<1> HIDE DEF l
<1>2. Queues' /\ QueueKinds' /\ On' = On /\ t \in On
  BY <1>1, QuietQueues
<1>3. Kinds'
  BY <1>1 DEF IndInv, Kinds
<1>4. Places'
  BY <1>1 DEF IndInv, Kinds, Places, Live
<1>5. Carried'
  BY <1>1 DEF IndInv, Kinds, Carried
<1>6. \A u \in Thread, m \in Lock : Owns(u, m)' <=> Owns(u, m)
  <2> TAKE u \in Thread, m \in Lock
  <2>1. acquired_lock_list'[u] = IF u = t THEN acquired_lock_list[t] \cup {l}
                                 ELSE acquired_lock_list[u]
    BY <1>1 DEF IndInv, Kinds
  <2>2. u # t => pc'[u] = pc[u] /\ arg'[u] = arg[u]
    BY <1>1 DEF IndInv, Kinds
  <2>3. pc'[t] = "run" /\ arg[t] = l
    BY <1>1 DEF IndInv, Kinds, l
  <2> QED BY <1>1, <2>1, <2>2, <2>3 DEF Owns
<1>7. Owned' /\ HolderOwns'
  <2>1. Owns(t, l)
    BY <1>1 DEF Owns, l
  <2> QED BY <1>1, <1>6, <2>1 DEF IndInv, Kinds, Owned, HolderOwns
<1>8. WokenComes'
  BY <1>1, <1>2 DEF IndInv, Kinds, WokenComes
<1>9. Highest' /\ NeverBelowBase'
  BY <1>1, <1>2 DEF IndInv, Highest, NeverBelowBase
<1> QED BY <1>2, <1>3, <1>4, <1>5, <1>7, <1>8, <1>9 DEF IndInv

\* One call of propagate_broadcast: it raises a holder, to no more than what
\* the running thread has.
LEMMA PropagateStep ==
    ASSUME IndInv, NEW t \in Thread, propagate_broadcast(t)
    PROVE  IndInv'
<1> USE IdleAssumption, LockAssumption, PriorityAssumption
<1> DEFINE d == target[t]
           l == waiting_lock[d]
           e == Max2(moving[t], effective_priority[d])
<1>1. /\ t = cur /\ pc[t] = "donate" /\ d \in Thread
      /\ effective_priority' = [effective_priority EXCEPT ![d] = e]
      /\ UNCHANGED <<cur, ready_list, priority, waiting_lock, acquired_lock_list,
                     value, waiters, holder, arg>>
  BY DEF propagate_broadcast, IndInv, Kinds
<1>2. /\ moving[t] \in Priority /\ moving[t] \in Nat
      /\ moving[t] <= effective_priority[t]
  BY <1>1 DEF IndInv, Carried
<1>3. /\ e \in Priority /\ e \in Nat /\ e >= effective_priority[d]
      /\ e = effective_priority[d] \/ e <= effective_priority[t]
  BY <1>1, <1>2, Numbers DEF Max2
<1>4. PICK x \in {"donate", "down"} : pc' = [pc EXCEPT ![t] = x]
  <2>1. pc' = pc \/ pc' = [pc EXCEPT ![t] = "down"]
    BY DEF propagate_broadcast
  <2>2. pc = [pc EXCEPT ![t] = "donate"]
    BY <1>1 DEF IndInv, Kinds
  <2> QED BY <2>1, <2>2
<1>5. lock_priority' \in [Lock -> Priority \cup {-1}]
  <2>1. CASE l = NoLock
    BY <2>1 DEF propagate_broadcast, IndInv, Kinds
  <2>2. CASE l # NoLock
    <3>1. lock_priority' = [lock_priority EXCEPT ![l] = Max2(lock_priority[l], moving[t])]
      BY <2>2 DEF propagate_broadcast
    <3>2. l \in Lock
      BY <1>1, <2>2 DEF IndInv, Kinds
    <3>3. Max2(lock_priority[l], moving[t]) \in Priority \cup {-1}
      BY <1>2, <3>2 DEF IndInv, Kinds, Max2
    <3> QED BY <3>1, <3>2, <3>3 DEF IndInv, Kinds
  <2> QED BY <2>1, <2>2
<1>6. moving' \in [Thread -> Priority \cup {0}] /\ (x = "donate" => moving'[t] = moving[t])
  <2>1. \/ moving' = moving
        \/ moving' = [moving EXCEPT ![t] = 0] /\ pc' = [pc EXCEPT ![t] = "down"]
    BY DEF propagate_broadcast
  <2>2. pc'[t] = x
    BY <1>4 DEF IndInv, Kinds
  <2> QED BY <2>1, <2>2 DEF IndInv, Kinds
<1>7. target' \in [Thread -> Thread]
  <2>1. CASE l # NoLock /\ holder[l] # Idle
    <3>1. target' = [target EXCEPT ![t] = holder[l]]
      BY <2>1 DEF propagate_broadcast
    <3>2. holder[l] \in Thread
      BY <1>1, <2>1 DEF IndInv, Kinds
    <3> QED BY <3>1, <3>2 DEF IndInv, Kinds
  <2>2. CASE ~ (l # NoLock /\ holder[l] # Idle)
    <3>1. target' = [target EXCEPT ![t] = t]
      BY <2>2 DEF propagate_broadcast
    <3> QED BY <3>1 DEF IndInv, Kinds
  <2> QED BY <2>1, <2>2
<1>8. \A u \in Thread : u # t => moving'[u] = moving[u]
  BY DEF propagate_broadcast, IndInv, Kinds
<1>9. arg' = [arg EXCEPT ![t] = arg[t]]
  BY <1>1 DEF IndInv, Kinds
<1>10. \A u \in Thread : effective_priority'[u] = IF u = d THEN e ELSE effective_priority[u]
  BY <1>1 DEF IndInv, Kinds
<1> HIDE DEF d, l, e
<1>11. Queues' /\ QueueKinds' /\ On' = On /\ t \in On
  BY <1>1, <1>4, <1>9, QuietQueues
<1>12. Kinds'
  BY <1>1, <1>3, <1>4, <1>5, <1>6, <1>7 DEF IndInv, Kinds
<1>13. Places'
  BY <1>1, <1>4 DEF IndInv, Kinds, Places, Live
<1>14. \A u \in Thread : effective_priority'[u] \in Nat /\ effective_priority'[u] >= effective_priority[u]
  BY <1>3, <1>10, Numbers
<1>15. Carried'
  <2> SUFFICES ASSUME NEW u \in Thread, pc'[u] = "donate"
               PROVE  moving'[u] \in Priority /\ moving'[u] <= effective_priority'[u]
    BY DEF Carried
  <2>1. pc[u] = "donate" /\ moving'[u] = moving[u]
    BY <1>1, <1>4, <1>6, <1>8 DEF IndInv, Kinds
  <2>2. moving[u] \in Priority /\ moving[u] \in Nat /\ moving[u] <= effective_priority[u]
    BY <2>1 DEF IndInv, Carried
  <2> QED BY <1>14, <2>1, <2>2, Numbers
<1>16. \A u \in Thread, m \in Lock : Owns(u, m)' <=> Owns(u, m)
  BY <1>1, <1>4 DEF IndInv, Kinds, Owns
<1>17. Owned' /\ HolderOwns'
  BY <1>1, <1>16 DEF IndInv, Kinds, Owned, HolderOwns
<1>18. WokenComes'
  BY <1>1, <1>4, <1>11 DEF IndInv, Kinds, WokenComes
<1>19. Highest'
  <2> SUFFICES ASSUME NEW u \in On
               PROVE  effective_priority'[u] <= effective_priority'[t]
    BY <1>1, <1>11 DEF Highest
  <2>1. u \in Thread /\ effective_priority[u] <= effective_priority[t]
    BY <1>1, Numbers DEF IndInv, Highest
  <2> QED BY <1>3, <1>10, <1>14, <2>1, Numbers
<1>20. NeverBelowBase'
  BY <1>1, <1>14, Numbers DEF IndInv, NeverBelowBase
<1> QED BY <1>11, <1>12, <1>13, <1>15, <1>17, <1>18, <1>19, <1>20 DEF IndInv

-----------------------------------------------------------------------------
\* The steps that call the scheduler.
LEMMA SwitchQueues ==
    ASSUME NEW S \in SUBSET Thread, NEW e, Chosen(S, e),
           waiters' \in [Lock -> Seq(Thread)],
           \A l \in Lock : IsInjective(waiters'[l]),
           \A u \in S : Live(u)',
           \A l \in Lock : \A u \in ToSet(waiters'[l]) :
               u \notin S /\ pc'[u] = "down" /\ arg'[u] = l,
           \A u \in Thread : Live(u)' => u \in S \/ \E l \in Lock : Waits(u, l)'
    PROVE  /\ Queues' /\ QueueKinds' /\ On' = S
           /\ cur' \in Thread \cup {Idle}
           /\ cur' # Idle => cur' \in S /\ \A u \in S : e[u] <= e[cur']
<1>1. /\ On' = S /\ (cur' = Idle => On' = {})
      /\ cur' # Idle => \A u \in S : e[u] <= e[cur']
  BY ChosenOn
<1>2. /\ QueueKinds' /\ IsInjective(ready_list') /\ cur' \notin ToSet(ready_list')
      /\ cur' \in Thread \cup {Idle}
  BY DEF Chosen, QueueKinds
<1>3. cur' # Idle => cur' \in S
  BY DEF Chosen
<1> HIDE DEF On
<1>4. Queues'
  BY <1>1, <1>2 DEF Queues
<1> QED BY <1>1, <1>2, <1>3, <1>4

LEMMA DownBlocksStep ==
    ASSUME IndInv, NEW t \in Thread, DownBlocks(t)
    PROVE  IndInv'
<1> USE IdleAssumption, LockAssumption, PriorityAssumption
<1> DEFINE l == arg[t]
           S == On \ {t}
<1>1. /\ t = cur /\ pc[t] = "down" /\ l \in Lock /\ value[l] = 0
      /\ schedule(ready_list, effective_priority)
      /\ UNCHANGED <<priority, effective_priority, waiting_lock, acquired_lock_list,
                     value, holder, lock_priority, pc, arg, moving, target>>
  BY DEF DownBlocks, threadVars, callVars, IndInv, Places
<1>2. t \in On /\ S = ToSet(ready_list) /\ On \subseteq Thread
  BY <1>1, Numbers DEF On, IndInv, Queues
<1>3. Chosen(S, effective_priority)
  <2>1. ready_list \in Seq(Thread) /\ IsInjective(ready_list)
    BY DEF IndInv, QueueKinds, Queues
  <2>2. Chosen(ToSet(ready_list), effective_priority)
    BY <1>1, <2>1, ScheduleChooses
  <2> QED BY <1>2, <2>2
<1>4. /\ waiters' \in [Lock -> Seq(Thread)]
      /\ IsInjective(waiters'[l]) /\ ToSet(waiters'[l]) = ToSet(waiters[l]) \cup {t}
      /\ \A m \in Lock : m # l => waiters'[m] = waiters[m]
  <2> DEFINE k == waiters[l]
             a == Append(k, t)
  <2>1. k \in Seq(Thread) /\ IsInjective(k) /\ t \notin ToSet(k)
    BY <1>1, <1>2 DEF IndInv, QueueKinds, Queues
  <2>2. waiters' = [waiters EXCEPT ![l] = a] /\ waiters \in [Lock -> Seq(Thread)]
    BY DEF DownBlocks, IndInv, QueueKinds
  <2> HIDE DEF k
  <2>3. a \in Seq(Thread) /\ IsInjective(a) /\ ToSet(a) = ToSet(k) \cup {t}
    BY <2>1, AppendElements
  <2> HIDE DEF a
  <2> QED BY <1>1, <2>2, <2>3 DEF k
<1> HIDE DEF l, S
<1>5. \A m \in Lock : IsInjective(waiters'[m])
  BY <1>4 DEF IndInv, Queues
<1>6. \A u \in S : Live(u)'
  BY <1>1, <1>2 DEF S, IndInv, Queues, Live
<1>7. \A m \in Lock : \A u \in ToSet(waiters'[m]) :
         u \notin S /\ pc'[u] = "down" /\ arg'[u] = m
  <2> TAKE m \in Lock
  <2> TAKE u \in ToSet(waiters'[m])
  <2>1. CASE u = t /\ m = l
    BY <1>1, <2>1 DEF S, l
  <2>2. CASE u \in ToSet(waiters[m])
    BY <1>1, <2>2 DEF S, IndInv, Queues
  <2> QED BY <1>4, <2>1, <2>2
<1>8. \A u \in Thread : Live(u)' => u \in S \/ \E m \in Lock : Waits(u, m)'
  <2> SUFFICES ASSUME NEW u \in Thread, Live(u)'
               PROVE  u \in S \/ \E m \in Lock : u \in ToSet(waiters'[m])
    BY DEF Waits
  <2>1. u \in On \/ \E m \in Lock : u \in ToSet(waiters[m])
    BY <1>1 DEF IndInv, Queues, Live, Waits
  <2> QED BY <1>1, <1>4, <2>1 DEF S
<1>9. S \in SUBSET Thread
  BY <1>2 DEF S
<1>10. /\ Queues' /\ QueueKinds' /\ On' = S /\ cur' \in Thread \cup {Idle}
       /\ cur' # Idle => \A u \in S : effective_priority[u] <= effective_priority[cur']
  BY <1>3, <1>4, <1>5, <1>6, <1>7, <1>8, <1>9, SwitchQueues
<1>11. Kinds' /\ Places' /\ Carried' /\ NeverBelowBase'
  BY <1>1, <1>10 DEF IndInv, Kinds, Places, Live, Carried, NeverBelowBase
<1>12. Owned' /\ HolderOwns'
  <2>1. \A u, m : Owns(u, m)' <=> Owns(u, m)
    BY <1>1 DEF Owns
  <2> QED BY <1>1, <2>1 DEF IndInv, Owned, HolderOwns
<1>13. WokenComes'
  <2> SUFFICES ASSUME NEW m \in Lock, value[m] > 0, waiters'[m] # <<>>
               PROVE  \E u \in S : pc[u] = "down" /\ arg[u] = m
    BY <1>1, <1>10 DEF WokenComes
  <2>1. m # l
    BY <1>1
  <2>2. PICK u \in On : pc[u] = "down" /\ arg[u] = m
    BY <1>4, <2>1 DEF IndInv, WokenComes
  <2> QED BY <2>1, <2>2 DEF S, l
<1>14. Highest'
  BY <1>1, <1>10 DEF Highest
<1> QED BY <1>10, <1>11, <1>12, <1>13, <1>14 DEF IndInv

\* thread_yield with nothing else changed in the queues.
LEMMA YieldQueues ==
    ASSUME IndInv, cur \in Thread, NEW e, thread_yield(ready_list, e), waiters' = waiters,
           NEW x \in {"run", "donate", "down", "got", "tried", "rel"},
           pc' = [pc EXCEPT ![cur] = x], NEW y, arg' = [arg EXCEPT ![cur] = y]
    PROVE  /\ Queues' /\ QueueKinds' /\ On' = On /\ cur' \in Thread
           /\ cur' # Idle => \A u \in On : e[u] <= e[cur']
<1> USE IdleAssumption
<1>1. On = ToSet(ready_list) \cup {cur} /\ cur \in On /\ On \subseteq Thread
  BY Numbers DEF On
<1>2. Chosen(On, e)
  BY <1>1, YieldChooses DEF IndInv, QueueKinds, Queues
<1>3. \A u \in Thread : u # cur => pc'[u] = pc[u] /\ arg'[u] = arg[u]
  BY DEF IndInv, Kinds
<1>4. pc'[cur] = x
  BY DEF IndInv, Kinds
<1>5. \A u \in On : Live(u)'
  BY <1>1, <1>3, <1>4 DEF IndInv, Queues, Live
<1>6. \A l \in Lock : \A u \in ToSet(waiters'[l]) :
         u \notin On /\ pc'[u] = "down" /\ arg'[u] = l
  BY <1>1, <1>3, Numbers DEF IndInv, Queues
<1>7. \A u \in Thread : Live(u)' => u \in On \/ \E l \in Lock : Waits(u, l)'
  BY <1>1, <1>3 DEF IndInv, Queues, Live, Waits
<1>8. waiters' \in [Lock -> Seq(Thread)] /\ \A l \in Lock : IsInjective(waiters'[l])
  BY DEF IndInv, QueueKinds, Queues
<1>9. cur' \in On
  BY <1>1, <1>2 DEF Chosen
<1> HIDE DEF On
<1>10. On \in SUBSET Thread
  BY <1>1
<1>11. /\ Queues' /\ QueueKinds' /\ On' = On
       /\ cur' # Idle => \A u \in On : e[u] <= e[cur']
  BY <1>2, <1>5, <1>6, <1>7, <1>8, <1>10, SwitchQueues
<1> QED BY <1>9, <1>10, <1>11

\* sema_up: the woken thread, if any, is among those who can run.
LEMMA SemaUpQueues ==
    ASSUME IndInv, cur \in Thread, pc[cur] # "down", NEW l \in Lock, NEW e, sema_up(l, e),
           NEW x \in {"run", "donate", "down", "got", "tried", "rel"},
           pc' = [pc EXCEPT ![cur] = x], NEW y, arg' = [arg EXCEPT ![cur] = y]
    PROVE  /\ Queues' /\ QueueKinds' /\ cur' \in Thread
           /\ On' \subseteq Thread
           /\ cur' # Idle => \A u \in On' : e[u] <= e[cur']
           /\ WokenComes'
<1> USE IdleAssumption
<1>1. cur \in On /\ On \subseteq Thread
  BY Numbers DEF On
<1>2. \A u \in Thread : u # cur => pc'[u] = pc[u] /\ arg'[u] = arg[u]
  BY DEF IndInv, Kinds
<1>3. pc'[cur] = x
  BY DEF IndInv, Kinds
<1>4. /\ QueueKinds /\ Queues
      /\ \A m \in Lock : ToSet(waiters[m]) \subseteq Thread
  BY Numbers DEF IndInv
<1>5. PICK S \in SUBSET Thread :
        /\ On \subseteq S /\ Chosen(S, e)
        /\ waiters' \in [Lock -> Seq(Thread)]
        /\ \A m \in Lock : IsInjective(waiters'[m])
        /\ \A m \in Lock : m # l => waiters'[m] = waiters[m]
        /\ ToSet(waiters'[l]) = ToSet(waiters[l]) \ S
        /\ \A u \in S \ On : u \in ToSet(waiters[l])
        /\ waiters'[l] # <<>> => S # On
  <2> HIDE DEF On
  <2>1. CASE waiters[l] = <<>> /\ waiters' = waiters /\ Chosen(On, e)
    <3>1. ToSet(waiters[l]) = {}
      BY <2>1, EmptyProperties
    <3> QED BY <1>1, <1>4, <2>1, <3>1 DEF QueueKinds, Queues
  <2>2. ASSUME NEW w \in ToSet(waiters[l]),
               /\ Chosen(On \cup {w}, e)
               /\ waiters' \in [Lock -> Seq(Thread)]
               /\ IsInjective(waiters'[l])
               /\ ToSet(waiters'[l]) = ToSet(waiters[l]) \ {w}
               /\ \A m \in Lock \ {l} : waiters'[m] = waiters[m]
        PROVE  \E S \in SUBSET Thread :
                 /\ On \subseteq S /\ Chosen(S, e)
                 /\ waiters' \in [Lock -> Seq(Thread)]
                 /\ \A m \in Lock : IsInjective(waiters'[m])
                 /\ \A m \in Lock : m # l => waiters'[m] = waiters[m]
                 /\ ToSet(waiters'[l]) = ToSet(waiters[l]) \ S
                 /\ \A u \in S \ On : u \in ToSet(waiters[l])
                 /\ waiters'[l] # <<>> => S # On
    <3>1. w \in Thread /\ w \notin On /\ \A u \in ToSet(waiters[l]) : u \notin On
      BY <1>4 DEF Queues
    <3>2. On \cup {w} \in SUBSET Thread /\ On \cup {w} # On
      BY <1>1, <3>1
    <3>3. ToSet(waiters'[l]) = ToSet(waiters[l]) \ (On \cup {w})
      BY <2>2, <3>1
    <3>4. \A m \in Lock : IsInjective(waiters'[m])
      BY <1>4, <2>2 DEF Queues
    <3> QED BY <2>2, <3>2, <3>3, <3>4
  <2> QED BY <1>4, <2>1, <2>2, SemaUpWakes
<1>6. /\ ToSet(waiters'[l]) \subseteq ToSet(waiters[l])
      /\ \A m \in Lock : ToSet(waiters'[m]) \subseteq ToSet(waiters[m])
  BY <1>5
<1> HIDE DEF On
<1>7. \A u \in S \ On : u # cur /\ pc'[u] = "down" /\ arg'[u] = l
  BY <1>1, <1>2, <1>4, <1>5 DEF Queues
<1>8. \A u \in S : Live(u)'
  BY <1>1, <1>2, <1>3, <1>4, <1>7 DEF Queues, Live
<1>9. \A m \in Lock : \A u \in ToSet(waiters'[m]) :
         u \notin S /\ pc'[u] = "down" /\ arg'[u] = m
  <2> TAKE m \in Lock
  <2> TAKE u \in ToSet(waiters'[m])
  <2>1. u \in Thread /\ u \notin On /\ pc[u] = "down" /\ arg[u] = m
    BY <1>4, <1>6 DEF Queues
  <2>2. pc'[u] = "down" /\ arg'[u] = m
    BY <1>1, <1>2, <2>1
  <2>3. u \notin S
    BY <1>5, <1>7, <2>1, <2>2
  <2> QED BY <2>2, <2>3
<1>10. \A u \in Thread : Live(u)' => u \in S \/ \E m \in Lock : Waits(u, m)'
  <2> SUFFICES ASSUME NEW u \in Thread, Live(u)', u \notin S
               PROVE  \E m \in Lock : u \in ToSet(waiters'[m])
    BY DEF Waits
  <2>1. u \notin On /\ pc[u] = pc'[u]
    BY <1>1, <1>2, <1>5
  <2>2. PICK m \in Lock : u \in ToSet(waiters[m])
    BY <1>4, <2>1 DEF Queues, Live, Waits
  <2> QED BY <1>5, <2>2
<1>11. /\ Queues' /\ QueueKinds' /\ On' = S
       /\ cur' # Idle => \A u \in S : e[u] <= e[cur']
  BY <1>5, <1>8, <1>9, <1>10, SwitchQueues
<1>12. cur' \in S
  BY <1>1, <1>5 DEF Chosen
<1>13. WokenComes'
  <2> SUFFICES ASSUME NEW m \in Lock, value'[m] > 0, waiters'[m] # <<>>
               PROVE  \E u \in S : pc'[u] = "down" /\ arg'[u] = m
    BY <1>11 DEF WokenComes
  <2>1. CASE m = l
    BY <1>5, <1>7, <2>1
  <2>2. CASE m # l
    <3>1. value'[m] = value[m] /\ waiters'[m] = waiters[m]
      BY <1>5, <2>2 DEF sema_up, IndInv, Kinds
    <3>2. PICK u \in On : pc[u] = "down" /\ arg[u] = m
      BY <3>1 DEF IndInv, WokenComes
    <3> QED BY <1>1, <1>2, <1>5, <3>2
  <2> QED BY <2>1, <2>2
<1> QED BY <1>11, <1>12, <1>13

LEMMA ReleaseLastStep ==
    ASSUME IndInv, NEW t \in Thread, ReleaseLast(t)
    PROVE  IndInv'
<1> USE IdleAssumption, LockAssumption, PriorityAssumption
<1>1. PICK l \in acquired_lock_list[t] :
        /\ t = cur /\ pc[t] = "run"
        /\ effective_priority' = [effective_priority EXCEPT ![t] = priority[t]]
        /\ acquired_lock_list[t] = {l}
        /\ acquired_lock_list' = [acquired_lock_list EXCEPT ![t] = {}]
        /\ holder' = [holder EXCEPT ![l] = Idle]
        /\ sema_up(l, effective_priority')
        /\ UNCHANGED <<priority, waiting_lock, lock_priority, pc, arg, moving, target>>
  BY DEF ReleaseLast, callVars
<1>2. l \in Lock /\ Owns(t, l)
  BY <1>1 DEF IndInv, Kinds, Owns
<1>3. value[l] = 0 /\ value' = [value EXCEPT ![l] = 1]
  <2>1. value[l] = 0
    BY <1>2 DEF IndInv, Kinds, Owned
  <2>2. value' = [value EXCEPT ![l] = value[l] + 1]
    BY <1>1 DEF sema_up
  <2> QED BY <2>1, <2>2
<1>4. pc' = [pc EXCEPT ![t] = "run"] /\ arg' = [arg EXCEPT ![t] = arg[t]]
  BY <1>1 DEF IndInv, Kinds
<1>5. /\ Queues' /\ QueueKinds' /\ cur' \in Thread /\ On' \subseteq Thread
      /\ cur' # Idle => \A u \in On' : effective_priority'[u] <= effective_priority'[cur']
      /\ WokenComes'
  BY <1>1, <1>2, <1>4, SemaUpQueues
<1>6. Kinds'
  BY <1>1, <1>2, <1>3, <1>5, Numbers DEF IndInv, Kinds
<1>7. Places' /\ Carried'
  BY <1>1 DEF IndInv, Kinds, Places, Live, Carried
<1>8. \A u \in Thread, m \in Lock : Owns(u, m)' <=> Owns(u, m) /\ ~ (u = t /\ m = l)
  BY <1>1 DEF IndInv, Kinds, Owns
<1>9. Owned' /\ HolderOwns'
  BY <1>1, <1>2, <1>3, <1>8 DEF IndInv, Kinds, Owned, HolderOwns
<1>10. Highest'
  BY <1>5 DEF Highest
<1>11. NeverBelowBase'
  BY <1>1, Numbers DEF IndInv, Kinds, NeverBelowBase
<1> QED BY <1>5, <1>6, <1>7, <1>9, <1>10, <1>11 DEF IndInv

LEMMA ReleaseRestStep ==
    ASSUME IndInv, NEW t \in Thread, ReleaseRest(t)
    PROVE  IndInv'
<1> USE IdleAssumption, LockAssumption, PriorityAssumption
<1> DEFINE l == arg[t]
<1>1. /\ t = cur /\ pc[t] = "rel" /\ pc' = [pc EXCEPT ![t] = "run"]
      /\ holder' = [holder EXCEPT ![l] = Idle]
      /\ sema_up(l, effective_priority)
      /\ arg' = [arg EXCEPT ![t] = NoLock]
      /\ UNCHANGED <<priority, effective_priority, waiting_lock, acquired_lock_list,
                     lock_priority, moving, target>>
  BY DEF ReleaseRest, Goto, threadVars
<1>2. l \in Lock /\ Owns(t, l) /\ l \notin acquired_lock_list[t]
  BY <1>1 DEF IndInv, Places, Owns
<1>3. value[l] = 0 /\ value' = [value EXCEPT ![l] = 1]
  <2>1. value[l] = 0
    BY <1>2 DEF IndInv, Kinds, Owned
  <2>2. value' = [value EXCEPT ![l] = value[l] + 1]
    BY <1>1 DEF sema_up
  <2> QED BY <2>1, <2>2
<1>4. /\ Queues' /\ QueueKinds' /\ cur' \in Thread /\ On' \subseteq Thread
      /\ cur' # Idle => \A u \in On' : effective_priority[u] <= effective_priority[cur']
      /\ WokenComes'
  BY <1>1, <1>2, SemaUpQueues
<1>5. arg[t] = l
  OBVIOUS
<1> HIDE DEF l
<1>6. Kinds'
  BY <1>1, <1>2, <1>3, <1>4 DEF IndInv, Kinds
<1>7. Places' /\ Carried'
  BY <1>1 DEF IndInv, Kinds, Places, Live, Carried
<1>8. \A u \in Thread, m \in Lock : Owns(u, m)' <=> Owns(u, m) /\ ~ (u = t /\ m = l)
  BY <1>1, <1>2, <1>5 DEF IndInv, Kinds, Owns
<1>9. Owned' /\ HolderOwns'
  BY <1>1, <1>2, <1>3, <1>8 DEF IndInv, Kinds, Owned, HolderOwns
<1>10. Highest' /\ NeverBelowBase'
  BY <1>1, <1>4 DEF IndInv, Highest, NeverBelowBase
<1> QED BY <1>4, <1>6, <1>7, <1>9, <1>10 DEF IndInv

LEMMA ReleaseSomeStep ==
    ASSUME IndInv, NEW t \in Thread, ReleaseSome(t)
    PROVE  IndInv'
<1> USE IdleAssumption, LockAssumption, PriorityAssumption
<1>1. PICK l \in acquired_lock_list[t], k \in acquired_lock_list[t] :
        /\ t = cur /\ pc[t] = "run" /\ pc' = [pc EXCEPT ![t] = "rel"]
        /\ acquired_lock_list' = [acquired_lock_list EXCEPT ![t] = acquired_lock_list[t] \ {l}]
        /\ effective_priority' =
             [effective_priority EXCEPT ![t] = Max2(effective_priority[t], lock_priority[k])]
        /\ arg' = [arg EXCEPT ![t] = l]
        /\ thread_yield(ready_list, effective_priority')
        /\ UNCHANGED <<priority, waiting_lock, value, waiters, holder, lock_priority,
                       moving, target>>
  BY DEF ReleaseSome, Goto, lockVars
<1>2. l \in Lock /\ k \in Lock
  BY DEF IndInv, Kinds
<1> DEFINE e == Max2(effective_priority[t], lock_priority[k])
<1>3. e \in Priority /\ e \in Nat /\ e >= effective_priority[t]
  <2>1. lock_priority[k] \in Priority \cup {-1}
    BY <1>2 DEF IndInv, Kinds
  <2>2. effective_priority[t] \in Priority /\ effective_priority[t] \in Nat
    BY Numbers
  <2>3. lock_priority[k] \in Int
    <3>1. CASE lock_priority[k] = -1
      BY <3>1
    <3>2. CASE lock_priority[k] \in Priority
      <4>1. lock_priority[k] \in Nat
        BY <3>2
      <4> QED BY <4>1
    <3> QED BY <2>1, <3>1, <3>2
  <2>4. e = effective_priority[t] \/ (e = lock_priority[k] /\ e > effective_priority[t])
    BY <2>2, <2>3 DEF Max2
  <2> HIDE DEF e
  <2> QED BY <2>1, <2>2, <2>3, <2>4
<1>4. effective_priority' = [effective_priority EXCEPT ![t] = e]
  BY <1>1
<1> HIDE DEF e
<1>5. /\ Queues' /\ QueueKinds' /\ On' = On /\ cur' \in Thread
      /\ cur' # Idle => \A u \in On : effective_priority'[u] <= effective_priority'[cur']
  BY <1>1, YieldQueues
<1>6. Kinds'
  BY <1>1, <1>2, <1>3, <1>4, <1>5 DEF IndInv, Kinds
<1>7. Places' /\ Carried'
  BY <1>1, <1>2 DEF IndInv, Kinds, Places, Live, Carried
<1>8. \A u \in Thread, m \in Lock : Owns(u, m)' <=> Owns(u, m)
  BY <1>1 DEF IndInv, Kinds, Owns
<1>9. Owned' /\ HolderOwns'
  BY <1>1, <1>8 DEF IndInv, Kinds, Owned, HolderOwns
<1>10. WokenComes'
  <2>1. \A u \in On : u # t => pc'[u] = pc[u] /\ arg'[u] = arg[u]
    BY <1>1, Numbers DEF IndInv, Kinds
  <2> SUFFICES ASSUME NEW m \in Lock, value[m] > 0, waiters[m] # <<>>
               PROVE  \E u \in On : pc'[u] = "down" /\ arg'[u] = m
    BY <1>1, <1>5 DEF WokenComes
  <2>2. PICK u \in On : pc[u] = "down" /\ arg[u] = m
    BY DEF IndInv, WokenComes
  <2> QED BY <1>1, <2>1, <2>2
<1>11. Highest'
  BY <1>5 DEF Highest
<1>12. NeverBelowBase'
  BY <1>1, <1>3, <1>4, Numbers DEF IndInv, Kinds, NeverBelowBase
<1> QED BY <1>5, <1>6, <1>7, <1>9, <1>10, <1>11, <1>12 DEF IndInv

LEMMA PreemptStep ==
    ASSUME IndInv, NEW t \in Thread, Preempt(t)
    PROVE  IndInv'
<1> USE IdleAssumption, LockAssumption, PriorityAssumption
<1>1. /\ t = cur /\ thread_yield(ready_list, effective_priority)
      /\ UNCHANGED <<priority, effective_priority, waiting_lock, acquired_lock_list,
                     value, waiters, holder, lock_priority, pc, arg, moving, target>>
  BY DEF Preempt, threadVars, lockVars, callVars
<1>2. pc[t] \in {"run", "donate", "down", "got", "tried", "rel"}
  <2>1. t \in On
    BY <1>1 DEF On
  <2> QED BY <2>1 DEF IndInv, Kinds, Queues, Live
<1>3. pc' = [pc EXCEPT ![t] = pc[t]] /\ arg' = [arg EXCEPT ![t] = arg[t]]
  BY <1>1 DEF IndInv, Kinds
<1>4. /\ Queues' /\ QueueKinds' /\ On' = On /\ cur' \in Thread
      /\ cur' # Idle => \A u \in On : effective_priority[u] <= effective_priority[cur']
  BY <1>1, <1>2, <1>3, YieldQueues
<1>5. Kinds' /\ Places' /\ Carried'
  BY <1>1, <1>4 DEF IndInv, Kinds, Places, Live, Carried
<1>6. Owned' /\ HolderOwns'
  <2>1. \A u, m : Owns(u, m)' <=> Owns(u, m)
    BY <1>1 DEF Owns
  <2> QED BY <1>1, <2>1 DEF IndInv, Owned, HolderOwns
<1>7. WokenComes' /\ Highest' /\ NeverBelowBase'
  BY <1>1, <1>4 DEF IndInv, WokenComes, Highest, NeverBelowBase
<1> QED BY <1>4, <1>5, <1>6, <1>7 DEF IndInv

LEMMA SetPriorityStep ==
    ASSUME IndInv, NEW t \in Thread, SetPriority(t)
    PROVE  IndInv'
<1> USE IdleAssumption, LockAssumption, PriorityAssumption
<1>1. PICK p \in NewPriority :
        /\ t = cur /\ pc[t] = "run"
        /\ priority' = [priority EXCEPT ![t] = p]
        /\ IF p > effective_priority[t] \/ acquired_lock_list[t] = {}
           THEN /\ effective_priority' = [effective_priority EXCEPT ![t] = p]
                /\ thread_yield(ready_list, effective_priority')
           ELSE UNCHANGED <<effective_priority, cur, ready_list>>
        /\ UNCHANGED <<waiting_lock, acquired_lock_list, value, waiters, holder,
                       lock_priority, pc, arg, moving, target>>
  BY DEF SetPriority, lockVars, callVars
<1>2. p \in Priority /\ p \in Nat
  OBVIOUS
<1>3. pc' = [pc EXCEPT ![t] = "run"] /\ arg' = [arg EXCEPT ![t] = arg[t]]
  BY <1>1 DEF IndInv, Kinds
<1>4. /\ Queues' /\ QueueKinds' /\ On' = On /\ cur' \in Thread /\ Highest'
      /\ effective_priority' \in [Thread -> Priority]
      /\ effective_priority'[t] >= p
      /\ \A u \in Thread : u # t => effective_priority'[u] = effective_priority[u]
  <2>1. CASE p > effective_priority[t] \/ acquired_lock_list[t] = {}
    <3>1. /\ effective_priority' = [effective_priority EXCEPT ![t] = p]
          /\ thread_yield(ready_list, effective_priority')
      BY <1>1, <2>1
    <3>2. /\ Queues' /\ QueueKinds' /\ On' = On /\ cur' \in Thread
          /\ cur' # Idle => \A u \in On : effective_priority'[u] <= effective_priority'[cur']
      BY <1>1, <1>3, <3>1, YieldQueues
    <3>3. Highest'
      BY <3>2 DEF Highest
    <3>4. effective_priority' \in [Thread -> Priority] /\ effective_priority'[t] = p
          /\ \A u \in Thread : u # t => effective_priority'[u] = effective_priority[u]
      BY <1>2, <3>1 DEF IndInv, Kinds
    <3> QED BY <1>2, <3>2, <3>3, <3>4
  <2>2. CASE ~ (p > effective_priority[t] \/ acquired_lock_list[t] = {})
    <3>1. UNCHANGED <<effective_priority, cur, ready_list>>
      BY <1>1, <2>2
    <3>2. Queues' /\ QueueKinds' /\ On' = On
      BY <1>1, <1>3, <3>1, QuietQueues
    <3>3. Highest'
      BY <3>1, <3>2 DEF IndInv, Highest
    <3> QED BY <1>1, <1>2, <2>2, <3>1, <3>2, <3>3, Numbers DEF IndInv, Kinds
  <2> QED BY <2>1, <2>2
<1>5. Kinds'
  BY <1>1, <1>2, <1>4 DEF IndInv, Kinds
<1>6. Places' /\ Carried'
  BY <1>1, <1>4 DEF IndInv, Kinds, Places, Live, Carried
<1>7. Owned' /\ HolderOwns'
  <2>1. \A u, m : Owns(u, m)' <=> Owns(u, m)
    BY <1>1 DEF Owns
  <2> QED BY <1>1, <2>1 DEF IndInv, Owned, HolderOwns
<1>8. WokenComes'
  BY <1>1, <1>4 DEF IndInv, WokenComes
<1>9. NeverBelowBase'
  BY <1>1, <1>4 DEF IndInv, Kinds, NeverBelowBase
<1> QED BY <1>4, <1>5, <1>6, <1>7, <1>8, <1>9 DEF IndInv

LEMMA CreateStep ==
    ASSUME IndInv, NEW t \in Thread, Create(t)
    PROVE  IndInv'
<1> USE IdleAssumption, LockAssumption, PriorityAssumption
<1>1. PICK w \in Thread, p \in Priority :
        /\ t = cur /\ pc[t] = "run" /\ pc[w] = "unborn"
        /\ pc' = [pc EXCEPT ![w] = "run"]
        /\ priority' = [priority EXCEPT ![w] = p]
        /\ effective_priority' = [effective_priority EXCEPT ![w] = p]
        /\ IF p > effective_priority[t]
           THEN thread_yield(Append(ready_list, w), effective_priority')
           ELSE ready_list' = Append(ready_list, w) /\ cur' = cur
        /\ UNCHANGED <<waiting_lock, acquired_lock_list, value, waiters, holder,
                       lock_priority, arg, moving, target>>
  BY DEF Create, lockVars, callVars
<1> DEFINE S == On \cup {w}
           a == Append(ready_list, w)
<1>2. /\ On = ToSet(ready_list) \cup {t} /\ On \subseteq Thread /\ w \notin On
      /\ t \in On /\ w # t
      /\ \A l \in Lock : w \notin ToSet(waiters[l])
      /\ \A l \in Lock : ToSet(waiters[l]) \subseteq Thread
  <2>1. On = ToSet(ready_list) \cup {t} /\ t \in On
    BY <1>1 DEF On
  <2>2. /\ On \subseteq Thread /\ \A l \in Lock : ToSet(waiters[l]) \subseteq Thread
    BY Numbers
  <2>3. w \notin On /\ \A l \in Lock : w \notin ToSet(waiters[l])
    BY <1>1 DEF IndInv, Queues, Live
  <2> HIDE DEF On
  <2> QED BY <1>1, <2>1, <2>2, <2>3
<1>3. ready_list \in Seq(Thread) /\ IsInjective(ready_list) /\ t \notin ToSet(ready_list)
  BY <1>1 DEF IndInv, QueueKinds, Queues
<1>4. a \in Seq(Thread) /\ IsInjective(a) /\ ToSet(a) = ToSet(ready_list) \cup {w}
  BY <1>2, <1>3, AppendElements
<1>5. /\ effective_priority'[w] = p /\ priority'[w] = p
      /\ \A u \in Thread : u # w => /\ effective_priority'[u] = effective_priority[u]
                                    /\ priority'[u] = priority[u] /\ pc'[u] = pc[u]
      /\ pc'[w] = "run"
      /\ p \in Nat
  BY <1>1 DEF IndInv, Kinds
<1>6. Chosen(S, effective_priority')
  <2>1. CASE p > effective_priority[t]
    <3>1. thread_yield(a, effective_priority')
      BY <1>1, <2>1
    <3> HIDE DEF a
    <3>2. Chosen(ToSet(a) \cup {cur}, effective_priority')
      BY <1>1, <1>2, <1>3, <1>4, <3>1, YieldChooses
    <3>3. ToSet(a) \cup {cur} = S
      BY <1>1, <1>2, <1>4
    <3> QED BY <3>2, <3>3
  <2>2. CASE ~ (p > effective_priority[t])
    <3>1. ready_list' = a /\ cur' = t
      BY <1>1, <2>2
    <3> HIDE DEF a
    <3>2. \A u \in S : effective_priority'[u] <= effective_priority'[t]
      <4> TAKE u \in S
      <4>1. CASE u = w
        BY <1>2, <1>5, <2>2, <4>1, Numbers
      <4>2. CASE u # w
        BY <1>1, <1>2, <1>5, <4>2 DEF IndInv, Highest
      <4> QED BY <4>1, <4>2
    <3>3. ToSet(a) = S \ {t} /\ t \in S
      BY <1>2, <1>3, <1>4
    <3> QED BY <1>3, <1>4, <3>1, <3>2, <3>3 DEF Chosen
  <2> QED BY <2>1, <2>2
<1> HIDE DEF S, a
<1>7. S \in SUBSET Thread /\ On \subseteq S /\ \A u \in S : u \in On \/ u = w
  BY <1>2 DEF S
<1>8. waiters' \in [Lock -> Seq(Thread)] /\ \A l \in Lock : IsInjective(waiters'[l])
  BY <1>1 DEF IndInv, QueueKinds, Queues
<1>9. \A u \in S : Live(u)'
  BY <1>2, <1>5, <1>7 DEF IndInv, Queues, Live
<1>10. \A l \in Lock : \A u \in ToSet(waiters'[l]) :
          u \notin S /\ pc'[u] = "down" /\ arg'[u] = l
  BY <1>1, <1>2, <1>5, <1>7 DEF IndInv, Queues
<1>11. \A u \in Thread : Live(u)' => u \in S \/ \E l \in Lock : Waits(u, l)'
  BY <1>1, <1>5, <1>7 DEF IndInv, Queues, Live, Waits, S
<1>12. /\ Queues' /\ QueueKinds' /\ On' = S /\ cur' \in Thread \cup {Idle}
       /\ cur' # Idle => \A u \in S : effective_priority'[u] <= effective_priority'[cur']
  BY <1>6, <1>7, <1>8, <1>9, <1>10, <1>11, SwitchQueues
<1>13. Kinds'
  BY <1>1, <1>12 DEF IndInv, Kinds
<1>14. Places' /\ Carried'
  BY <1>1, <1>5 DEF IndInv, Kinds, Places, Live, Carried
<1>15. \A u \in Thread, m \in Lock : Owns(u, m)' <=> Owns(u, m)
  BY <1>1, <1>5 DEF Owns
<1>16. Owned' /\ HolderOwns'
  BY <1>1, <1>15 DEF IndInv, Kinds, Owned, HolderOwns
<1>17. WokenComes'
  BY <1>1, <1>2, <1>5, <1>7, <1>12 DEF IndInv, WokenComes
<1>18. Highest' /\ NeverBelowBase'
  BY <1>5, <1>12 DEF IndInv, Highest, NeverBelowBase
<1> QED BY <1>12, <1>13, <1>14, <1>16, <1>17, <1>18 DEF IndInv

LEMMA ExitStep ==
    ASSUME IndInv, NEW t \in Thread, Exit(t)
    PROVE  IndInv'
<1> USE IdleAssumption, LockAssumption, PriorityAssumption
<1> DEFINE S == On \ {t}
<1>1. /\ t = cur /\ pc[t] = "run" /\ pc' = [pc EXCEPT ![t] = "dead"]
      /\ acquired_lock_list[t] = {}
      /\ schedule(ready_list, effective_priority)
      /\ UNCHANGED <<priority, effective_priority, waiting_lock, acquired_lock_list,
                     value, waiters, holder, lock_priority, arg, moving, target>>
  BY DEF Exit, Goto, threadVars, lockVars, callVars
<1>2. t \in On /\ S = ToSet(ready_list) /\ On \subseteq Thread
      /\ \A l \in Lock : ToSet(waiters[l]) \subseteq Thread
  BY <1>1, Numbers DEF On, IndInv, Queues
<1>3. Chosen(S, effective_priority)
  <2>1. ready_list \in Seq(Thread) /\ IsInjective(ready_list)
    BY DEF IndInv, QueueKinds, Queues
  <2>2. Chosen(ToSet(ready_list), effective_priority)
    BY <1>1, <2>1, ScheduleChooses
  <2> QED BY <1>2, <2>2
<1>4. S \in SUBSET Thread /\ t \notin S /\ \A u \in On : u \in S \/ u = t
  BY <1>2
<1> HIDE DEF S
<1>5. pc'[t] = "dead" /\ \A u \in Thread : u # t => pc'[u] = pc[u]
  BY <1>1 DEF IndInv, Kinds
<1>6. waiters' \in [Lock -> Seq(Thread)] /\ \A l \in Lock : IsInjective(waiters'[l])
  BY <1>1 DEF IndInv, QueueKinds, Queues
<1>7. \A u \in S : Live(u)'
  BY <1>2, <1>4, <1>5 DEF S, IndInv, Queues, Live
<1>8. \A l \in Lock : \A u \in ToSet(waiters'[l]) :
         u \notin S /\ pc'[u] = "down" /\ arg'[u] = l
  BY <1>1, <1>2, <1>5 DEF S, IndInv, Queues
<1>9. \A u \in Thread : Live(u)' => u \in S \/ \E l \in Lock : Waits(u, l)'
  BY <1>1, <1>4, <1>5 DEF IndInv, Queues, Live, Waits
<1>10. /\ Queues' /\ QueueKinds' /\ On' = S /\ cur' \in Thread \cup {Idle}
       /\ cur' # Idle => \A u \in S : effective_priority[u] <= effective_priority[cur']
  BY <1>3, <1>4, <1>6, <1>7, <1>8, <1>9, SwitchQueues
<1>11. Kinds'
  BY <1>1, <1>10 DEF IndInv, Kinds
<1>12. Places' /\ Carried'
  BY <1>1, <1>5 DEF IndInv, Kinds, Places, Live, Carried
<1>13. \A u \in Thread, m \in Lock : Owns(u, m)' <=> Owns(u, m)
  BY <1>1, <1>5 DEF Owns
<1>14. Owned' /\ HolderOwns'
  BY <1>1, <1>13 DEF IndInv, Kinds, Owned, HolderOwns
<1>15. WokenComes'
  <2> SUFFICES ASSUME NEW m \in Lock, value[m] > 0, waiters[m] # <<>>
               PROVE  \E u \in S : pc'[u] = "down" /\ arg[u] = m
    BY <1>1, <1>10 DEF WokenComes
  <2>1. PICK u \in On : pc[u] = "down" /\ arg[u] = m
    BY DEF IndInv, WokenComes
  <2> QED BY <1>1, <1>2, <1>4, <1>5, <2>1
<1>16. Highest' /\ NeverBelowBase'
  BY <1>1, <1>10 DEF IndInv, Highest, NeverBelowBase
<1> QED BY <1>10, <1>11, <1>12, <1>14, <1>15, <1>16 DEF IndInv

-----------------------------------------------------------------------------
LEMMA InitInv == Init => IndInv
<1> SUFFICES ASSUME Init PROVE IndInv
  OBVIOUS
<1> USE MainAssumption, IdleAssumption, LockAssumption, PriorityAssumption
<1>1. PICK p \in Priority : /\ priority = [t \in Thread |-> p]
                            /\ effective_priority = [t \in Thread |-> p]
  BY DEF Init
<1>2. Kinds
  BY <1>1 DEF Init, Kinds
<1>3. QueueKinds
  BY DEF Init, QueueKinds
<1>4. Places /\ Carried
  BY DEF Init, Places, Carried, Live
<1>5. \A t \in Thread, l \in Lock : ~Owns(t, l) /\ holder[l] = Idle /\ value[l] = 1
  BY DEF Init, Owns
<1>6. Owned /\ HolderOwns
  BY <1>5 DEF Owned, HolderOwns, Init
<1>7. /\ ToSet(ready_list) = {} /\ IsInjective(ready_list)
      /\ \A l \in Lock : ToSet(waiters[l]) = {} /\ IsInjective(waiters[l]) /\ waiters[l] = <<>>
  BY EmptyProperties DEF Init
<1>8. On = {Main} /\ cur = Main /\ cur # Idle
  BY <1>7 DEF On, Init
<1> HIDE DEF On
<1>9. Queues
  BY <1>7, <1>8 DEF Queues, Live, Init
<1>10. WokenComes
  BY <1>7 DEF WokenComes
<1>11. Highest /\ NeverBelowBase
  BY <1>1, <1>8 DEF Highest, NeverBelowBase
<1> QED BY <1>2, <1>3, <1>4, <1>6, <1>9, <1>10, <1>11 DEF IndInv

LEMMA Invariance == Spec => []IndInv
<1>1. ASSUME IndInv, UNCHANGED vars PROVE IndInv'
  <2> USE <1>1 DEF vars, threadVars, lockVars, callVars, IndInv
  <2>1. Kinds' /\ QueueKinds' /\ Places' /\ Carried'
    BY DEF Kinds, QueueKinds, Places, Carried, Live
  <2>2. \A u, m : Owns(u, m)' <=> Owns(u, m)
    BY DEF Owns
  <2>3. Owned' /\ HolderOwns'
    BY <2>2 DEF Owned, HolderOwns
  <2>4. On' = On
    BY DEF On
  <2>5. Queues'
    BY <2>4 DEF Queues, Live, Waits
  <2>6. WokenComes' /\ Highest' /\ NeverBelowBase'
    BY <2>4 DEF WokenComes, Highest, NeverBelowBase
  <2> QED BY <2>1, <2>3, <2>5, <2>6
<1>2. IndInv /\ [Next]_vars => IndInv'
  BY <1>1, AcquireHeldStep, AcquireFreeStep, PropagateStep, DownBlocksStep,
     DownPassesStep, AcquiredStep, TryDownStep, TryAcquiredStep, ReleaseLastStep,
     ReleaseSomeStep, ReleaseRestStep, SetPriorityStep, CreateStep, ExitStep,
     PreemptStep DEF Next
<1> QED BY InitInv, <1>2, PTL DEF Spec

-----------------------------------------------------------------------------
\* Locks are taken in ascending order, so somebody who waits for the greatest
\* of the locks waited for is waiting for a thread that can run.
LEMMA IdleNobodyWaits == IndInv => NeverStuck
<1> SUFFICES ASSUME IndInv, cur = Idle, NEW l0 \in Lock, waiters[l0] # <<>>
             PROVE  FALSE
  BY DEF NeverStuck
<1>1. On = {}
  BY DEF IndInv, Queues
<1>2. PICK b \in Int : \A l \in Lock : l <= b
  BY LockAssumption, FiniteBounded
<1> DEFINE G == {b - l : l \in {m \in Lock : waiters[m] # <<>>}}
<1>3. G \subseteq Nat /\ b - l0 \in G
  <2>1. \A l \in Lock : l \in Int /\ b - l \in Nat
    BY <1>2, LockAssumption
  <2> QED BY <2>1
<1>4. PICK g \in G : \A h \in G : g <= h
  <2> HIDE DEF G
  <2> QED BY <1>3, LeastNatural
<1>5. PICK l \in Lock : waiters[l] # <<>> /\ g = b - l
  BY <1>4
<1>6. \A m \in Lock : waiters[m] # <<>> => m <= l
  <2> TAKE m \in Lock
  <2> HAVE waiters[m] # <<>>
  <2>1. b - m \in G
    OBVIOUS
  <2>2. b - l <= b - m
    BY <1>4, <1>5, <2>1
  <2> QED BY <2>2, LockAssumption
<1>7. value[l] = 0
  BY <1>1, <1>5 DEF IndInv, WokenComes, Kinds
<1>8. PICK t \in Thread : Owns(t, l)
  BY <1>7 DEF IndInv, Owned
<1>9. Live(t)
  BY <1>8 DEF IndInv, Places, Owns, Live
<1>10. PICK m \in Lock : t \in ToSet(waiters[m])
  BY <1>1, <1>9 DEF IndInv, Queues, Waits
<1>11. pc[t] = "down" /\ arg[t] = m
  BY <1>10 DEF IndInv, Queues
<1>12. l \in acquired_lock_list[t] /\ l < m
  BY <1>8, <1>11 DEF IndInv, Places, Owns
<1>13. waiters[m] # <<>>
  BY <1>10, EmptyProperties
<1> QED BY <1>6, <1>12, <1>13, LockAssumption

\* The places of a thread in the queues, from Queues.
LEMMA QueuesOne == IndInv => OneQueue
<1> SUFFICES ASSUME IndInv, NEW t \in Thread
             PROVE  LET inReady == {i \in DOMAIN ready_list : ready_list[i] = t}
                        inLock(l) == {i \in DOMAIN waiters[l] : waiters[l][i] = t}
                        places == {<<"ready", i>> : i \in inReady}
                                  \cup UNION {{<<l, i>> : i \in inLock(l)} : l \in Lock}
                    IN  IF t = cur \/ pc[t] \in {"unborn", "dead"} THEN places = {}
                        ELSE /\ \E p \in places : places = {p}
                             /\ \A l \in Lock :
                                  inLock(l) # {} => pc[t] = "down" /\ arg[t] = l
  BY DEF OneQueue
<1> DEFINE inReady == {i \in DOMAIN ready_list : ready_list[i] = t}
           inLock(l) == {i \in DOMAIN waiters[l] : waiters[l][i] = t}
           places == {<<"ready", i>> : i \in inReady}
                     \cup UNION {{<<l, i>> : i \in inLock(l)} : l \in Lock}
<1>1. inReady # {} <=> t \in ToSet(ready_list)
  BY DEF ToSet
<1>2. \A l \in Lock : inLock(l) # {} <=> t \in ToSet(waiters[l])
  BY DEF ToSet
<1>3. \A i, j \in inReady : i = j
  BY DEF IndInv, Queues, IsInjective
<1>4. \A l \in Lock : \A i, j \in inLock(l) : i = j
  BY DEF IndInv, Queues, IsInjective
<1>5. \A l \in Lock : t \in ToSet(waiters[l]) =>
        /\ t # cur /\ t \notin ToSet(ready_list) /\ pc[t] = "down" /\ arg[t] = l
  BY IdleAssumption DEF IndInv, Queues, On
<1>6. t \in ToSet(ready_list) => t # cur /\ Live(t)
  BY DEF IndInv, Queues, On
<1>7. \/ t = cur \/ ~Live(t) \/ t \in ToSet(ready_list)
      \/ \E l \in Lock : t \in ToSet(waiters[l])
  BY DEF IndInv, Queues, On, Waits
<1> HIDE DEF inReady, inLock
<1>8. CASE t = cur \/ pc[t] \in {"unborn", "dead"}
  <2>1. inReady = {} /\ \A l \in Lock : inLock(l) = {}
    BY <1>1, <1>2, <1>5, <1>6, <1>8 DEF Live
  <2>2. places = {}
    BY <2>1
  <2> QED BY <1>8, <2>2 DEF inReady, inLock
<1>9. CASE ~ (t = cur \/ pc[t] \in {"unborn", "dead"})
  <2>1. \E p \in places : places = {p}
    <3>1. CASE t \in ToSet(ready_list)
      <4>1. PICK i \in inReady : inReady = {i}
        BY <1>1, <1>3, <3>1
      <4>2. \A l \in Lock : inLock(l) = {}
        BY <1>2, <1>5, <3>1
      <4>3. places = {<<"ready", i>>}
        BY <4>1, <4>2
      <4> QED BY <4>3
    <3>2. CASE \E l \in Lock : t \in ToSet(waiters[l])
      <4>1. PICK l \in Lock : t \in ToSet(waiters[l])
        BY <3>2
      <4>2. inReady = {} /\ \A m \in Lock : m # l => inLock(m) = {}
        BY <1>1, <1>2, <1>5, <4>1
      <4>3. PICK i \in inLock(l) : inLock(l) = {i}
        BY <1>2, <1>4, <4>1
      <4>4. places = {<<l, i>>}
        BY <4>2, <4>3
      <4> QED BY <4>4
    <3> QED BY <1>7, <1>9, <3>1, <3>2 DEF Live
  <2>2. \A l \in Lock : inLock(l) # {} => pc[t] = "down" /\ arg[t] = l
    BY <1>2, <1>5
  <2> QED BY <1>9, <2>1, <2>2 DEF inReady, inLock
<1> QED BY <1>8, <1>9

\* Locks of synch.c, with any number of threads and locks: a lock has one owner
\* and its holder field names it, a thread is in one queue, a free lock that is
\* waited for has a woken thread on its way to it, and with locks taken in order
\* the CPU is never idle while a thread waits.
THEOREM LocksCorrect == Spec => []LocksSound
<1>1. IndInv => LocksSound
  <2> SUFFICES ASSUME IndInv PROVE LocksSound
    OBVIOUS
  <2>1. TypeOK
    BY DEF IndInv, Kinds, QueueKinds, TypeOK
  <2>2. OneOwner
    <3> SUFFICES ASSUME NEW l \in Lock
                 PROVE  IF value[l] = 0
                        THEN \E t \in Thread : \A u \in Thread : Owns(u, l) <=> u = t
                        ELSE \A t \in Thread : ~Owns(t, l)
      BY DEF OneOwner
    <3>1. value[l] \in {0, 1}
      BY DEF IndInv, Kinds
    <3> QED BY <3>1 DEF IndInv, Owned
  <2>3. NoLostWakeup
    <3>1. ASSUME NEW t \in On
          PROVE  t \in Thread /\ (t = cur \/ \E i \in DOMAIN ready_list : ready_list[i] = t)
      BY Numbers DEF On, ToSet
    <3> QED BY <3>1 DEF IndInv, WokenComes, NoLostWakeup
  <2> QED BY <2>1, <2>2, <2>3, QueuesOne, IdleNobodyWaits DEF IndInv, LocksSound
<1> QED BY <1>1, Invariance, PTL

\* The running thread has the greatest effective priority, and nobody falls
\* below its own, through every donation, release and change of priority.
THEOREM PriorityCorrect == Spec => []PriorityKept
<1>1. IndInv => PriorityKept
  <2> SUFFICES ASSUME IndInv PROVE PriorityKept
    OBVIOUS
  <2>1. HighestRuns
    <3> SUFFICES ASSUME cur # Idle, NEW i \in DOMAIN ready_list
                 PROVE  effective_priority[ready_list[i]] <= effective_priority[cur]
      BY DEF HighestRuns
    <3>1. ready_list[i] \in On
      BY DEF On, ToSet
    <3> QED BY <3>1 DEF IndInv, Highest
  <2> QED BY <2>1 DEF IndInv, PriorityKept
<1> QED BY <1>1, Invariance, PTL
=============================================================================
