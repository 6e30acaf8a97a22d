---------------------------- MODULE Proj1_proofs ----------------------------
(***************************************************************************)
(* Condition variables and timer_sleep of group_proj1, for any number of   *)
(* threads and any length of time, and its file system, for any device and *)
(* any files.                                                              *)
(***************************************************************************)
EXTENDS CondVar, Alarm, StockFs, SeqLemmas, FiniteSetTheorems

-----------------------------------------------------------------------------
\* Who is on cond->waiters is a matter of where it is in cond_wait: a thread
\* is put there before it gives up the lock, and is taken off in the step that
\* raises its semaphore.
CondListed ==
    /\ cond \in Seq(CvThread) /\ IsInjective(cond)
    /\ \A t \in CvThread :
         /\ t \in ToSet(cond) => pc[t] \in {"release", "sema", "blocked"} /\ value[t] = 0
         /\ pc[t] \in {"release", "blocked"} => t \in ToSet(cond)
         /\ pc[t] = "sema" => t \in ToSet(cond) \/ value[t] = 1
         /\ value[t] = 1 => pc[t] = "sema"

CvIndInv == CvTypeOK /\ InsideHolds /\ CondListed

LEMMA CvInitInv == CvInit => CvIndInv
<1> SUFFICES ASSUME CvInit PROVE CvIndInv
  OBVIOUS
<1>1. CvTypeOK
  <2>1. panic \in BOOLEAN
    BY Zenon DEF CvInit
  <2>2. \A i \in DOMAIN cond : cond[i] \in CvThread
    BY DEF CvInit
  <2> QED BY <2>1, <2>2 DEF CvInit, CvTypeOK
<1>2. InsideHolds
  BY NoneAssumption DEF CvInit, InsideHolds
<1>3. CondListed
  BY EmptyProperties DEF CvInit, CondListed
<1> QED BY <1>1, <1>2, <1>3 DEF CvIndInv

\* The thread that cond_signal takes off the list has given up the lock, so
\* it is at its semaphore or in it.
LEMMA SignalStep ==
    ASSUME CvIndInv, NEW t \in CvThread, pc[t] \in {"in", "signal"}, cond_signal,
           UNCHANGED <<holder, panic>>
    PROVE  CvIndInv'
<1>1. PICK i \in DOMAIN cond :
        /\ cond' = RemoveAt(cond, i)
        /\ value' = [value EXCEPT ![cond[i]] = @ + 1]
        /\ pc' = [pc EXCEPT ![cond[i]] = IF @ = "blocked" THEN "sema" ELSE @]
  BY DEF cond_signal
<1> DEFINE w == cond[i]
<1>2. /\ i \in 1 .. Len(cond) /\ cond \in Seq(CvThread) /\ w \in CvThread
      /\ w \in ToSet(cond) /\ IsInjective(cond)
  BY SeqElements DEF CvIndInv, CondListed, ToSet
<1>3. pc[w] \in {"sema", "blocked"} /\ value[w] = 0 /\ w # t
  BY <1>2 DEF CvIndInv, CondListed, InsideHolds
<1>4. /\ cond' \in Seq(CvThread) /\ IsInjective(cond')
      /\ ToSet(cond') = ToSet(cond) \ {w}
  BY <1>1, <1>2, RemoveAtElements
<1>5. /\ pc' = [pc EXCEPT ![w] = IF @ = "blocked" THEN "sema" ELSE @]
      /\ value' = [value EXCEPT ![w] = @ + 1]
  BY <1>1
<1> HIDE DEF w
<1>6. /\ pc' = [pc EXCEPT ![w] = "sema"]
      /\ value' = [value EXCEPT ![w] = 1]
  <2>1. /\ pc' = [pc EXCEPT ![w] = IF pc[w] = "blocked" THEN "sema" ELSE pc[w]]
        /\ value' = [value EXCEPT ![w] = value[w] + 1]
    BY <1>5 
  <2>2. (IF pc[w] = "blocked" THEN "sema" ELSE pc[w]) = "sema" /\ value[w] + 1 = 1
    BY <1>3
  <2> QED BY <2>1, <2>2
<1>7. CondListed'
  BY <1>2, <1>4, <1>6 DEF CvIndInv, CondListed, CvTypeOK
<1>8. InsideHolds'
  BY <1>2, <1>3, <1>6 DEF CvIndInv, InsideHolds, CvTypeOK
<1>9. CvTypeOK'
  BY <1>2, <1>4, <1>6, SeqElements DEF CvIndInv, CvTypeOK, ToSet
<1> QED BY <1>7, <1>8, <1>9 DEF CvIndInv

LEMMA CvStep == CvIndInv /\ [CvNext]_cvVars => CvIndInv'
<1> SUFFICES ASSUME CvIndInv, [CvNext]_cvVars PROVE CvIndInv'
  OBVIOUS
<1> USE NoneAssumption DEF CvIndInv, CvTypeOK, InsideHolds, CondListed, Goto
<1>1. CASE UNCHANGED cvVars
  BY <1>1 DEF cvVars
<1>2. ASSUME NEW t \in CvThread, Enter(t) PROVE CvIndInv'
  BY <1>2 DEF Enter
<1>3. ASSUME NEW t \in CvThread, Leave(t) PROVE CvIndInv'
  BY <1>3 DEF Leave
<1>4. ASSUME NEW t \in CvThread, Wait(t) PROVE CvIndInv'
  <2>1. /\ cond' \in Seq(CvThread) /\ IsInjective(cond')
        /\ ToSet(cond') = ToSet(cond) \cup {t}
    BY <1>4, AppendElements DEF Wait
  <2>2. \A i \in DOMAIN cond' : cond'[i] \in CvThread
    BY <2>1, SeqElements DEF ToSet
  <2> QED BY <1>4, <2>1, <2>2 DEF Wait
<1>5. ASSUME NEW t \in CvThread, WaitRelease(t) PROVE CvIndInv'
  BY <1>5 DEF WaitRelease
<1>6. ASSUME NEW t \in CvThread, WaitBlock(t) PROVE CvIndInv'
  BY <1>6 DEF WaitBlock
<1>7. ASSUME NEW t \in CvThread, WaitPass(t) PROVE CvIndInv'
  BY <1>7 DEF WaitPass
<1>8. ASSUME NEW t \in CvThread, WaitRelock(t) PROVE CvIndInv'
  BY <1>8 DEF WaitRelock
<1>9. ASSUME NEW t \in CvThread, Signal(t) \/ BroadcastTurn(t) PROVE CvIndInv'
  BY <1>9, SignalStep DEF Signal, BroadcastTurn
<1>10. ASSUME NEW t \in CvThread, Broadcast(t) \/ BroadcastEnd(t) PROVE CvIndInv'
  BY <1>10 DEF Broadcast, BroadcastEnd
<1>11. ASSUME NEW t \in CvThread, SignalPanics(t) PROVE CvIndInv'
  BY <1>11 DEF SignalPanics
<1> QED
  BY <1>1, <1>2, <1>3, <1>4, <1>5, <1>6, <1>7, <1>8, <1>9, <1>10, <1>11 DEF CvNext

\* SignalKept and, when the list is empty, that nobody is blocked.
LEMMA CvListImplies ==
    ASSUME CvIndInv
    PROVE  /\ SignalKept
           /\ cond = <<>> => \A u \in CvThread : pc[u] # "blocked"
  BY SeqElements DEF CvIndInv, CvTypeOK, CondListed, SignalKept, ToSet

\* Condition variables of synch.c are right, with any number of waiters: who is
\* inside holds the lock, a signal between lock_release and sema_down is not
\* lost, and cond_broadcast leaves nobody blocked.
THEOREM CondVarCorrect == CvSpec => CondVarRight
<1>1. CvIndInv => CvTypeOK /\ InsideHolds /\ SignalKept
  BY CvListImplies DEF CvIndInv
<1>2. ASSUME CvIndInv, CvIndInv', [CvNext]_cvVars
      PROVE  [\A t \in CvThread : pc[t] = "signal" /\ pc'[t] = "in" =>
                \A u \in CvThread : pc'[u] # "blocked"]_cvVars
  <2> SUFFICES ASSUME NEW t \in CvThread, CvNext, pc[t] = "signal", pc'[t] = "in"
               PROVE  \A u \in CvThread : pc'[u] # "blocked"
    BY <1>2
  <2>1. BroadcastEnd(t)
    <3> USE <1>2 DEF CvIndInv, CvTypeOK, Goto
    <3>1. ASSUME NEW u \in CvThread, Signal(u) \/ BroadcastTurn(u) PROVE FALSE
      BY <3>1 DEF Signal, BroadcastTurn, cond_signal
    <3>2. ASSUME NEW u \in CvThread,
                 \/ Enter(u) \/ Leave(u) \/ Wait(u) \/ WaitRelease(u)
                 \/ WaitBlock(u) \/ WaitPass(u) \/ WaitRelock(u)
                 \/ Broadcast(u) \/ SignalPanics(u)
          PROVE FALSE
      BY <3>2 DEF Enter, Leave, Wait, WaitRelease, WaitBlock, WaitPass,
                  WaitRelock, Broadcast, SignalPanics
    <3>3. ASSUME NEW u \in CvThread, BroadcastEnd(u) PROVE u = t
      BY <3>3 DEF BroadcastEnd
    <3> QED BY <3>1, <3>2, <3>3 DEF CvNext
  <2>2. cond' = <<>>
    BY <2>1 DEF BroadcastEnd
  <2> QED BY <1>2, <2>2, CvListImplies DEF CvIndInv, CvTypeOK, CondListed, SignalKept, ToSet
<1> QED
  BY CvInitInv, CvStep, <1>1, <1>2, PTL DEF CvSpec, CondVarRight, BroadcastWakesAll

-----------------------------------------------------------------------------
\* The sleeping threads of timer.c.
Queued == [thread : Sleeper, wake_time : Int]

\* remove_from_sleeping_queue looks at the front alone: what makes that right
\* is that the queue is in order of wake_time.
InOrder(q) == \A i, j \in 1 .. Len(q) : i < j => q[i].wake_time <= q[j].wake_time

\* Every element of the queue is that of a sleeping thread, and there is one
\* for each.
Linked ==
    /\ \A i \in 1 .. Len(sleeping_thread_queue) :
         LET s == sleeping_thread_queue[i] IN
         status[s.thread] = "asleep" /\ s.wake_time = wake_time[s.thread]
    /\ \A i, j \in 1 .. Len(sleeping_thread_queue) :
         sleeping_thread_queue[i].thread = sleeping_thread_queue[j].thread => i = j
    /\ \A t \in Sleeper : status[t] = "asleep" =>
         \E i \in 1 .. Len(sleeping_thread_queue) : sleeping_thread_queue[i].thread = t

AlarmIndInv ==
    /\ AlarmTypeOK /\ NeverEarly /\ NoOversleep
    /\ sleeping_thread_queue \in Seq(Queued)
    /\ InOrder(sleeping_thread_queue)
    /\ Linked

LEMMA QueuedFields ==
    ASSUME NEW q \in Seq(Queued), NEW i \in 1 .. Len(q)
    PROVE  q[i] \in Queued /\ q[i].thread \in Sleeper /\ q[i].wake_time \in Int
<1>1. q[i] \in Queued
  OBVIOUS
<1> QED BY <1>1 DEF Queued

\* list_insert_ordered finds a place, after the elements that are not later and
\* before those that are.
LEMMA OrderedPlace ==
    ASSUME NEW q \in Seq(Queued), InOrder(q), NEW s \in Queued
    PROVE  \E k \in 1 .. Len(q) + 1 :
             /\ add_to_sleeping_queue(q, s) = InsertAt(q, k, s)
             /\ \A j \in 1 .. Len(q) : j < k => q[j].wake_time <= s.wake_time
             /\ \A j \in 1 .. Len(q) : k <= j => s.wake_time <= q[j].wake_time
<1> DEFINE after == {i \in DOMAIN q : less(s, q[i])}
           Place(i) == /\ \A j \in after : i <= j
                       /\ i \in after \/ (after = {} /\ i = Len(q) + 1)
           place == CHOOSE i \in 1 .. Len(q) + 1 : Place(i)
<1>1. Len(q) \in Nat /\ DOMAIN q = 1 .. Len(q)
  OBVIOUS
<1>2. \A i \in 1 .. Len(q) : q[i].wake_time \in Int /\ s.wake_time \in Int
  BY QueuedFields DEF Queued
<1>3. \A i \in 1 .. Len(q) : i \in after <=> s.wake_time < q[i].wake_time
  BY <1>1 DEF less
<1>4. after \subseteq 1 .. Len(q) /\ after \subseteq Nat
  BY <1>1
<1> HIDE DEF after
<1>5. \E i \in 1 .. Len(q) + 1 : Place(i)
  <2>1. CASE after = {}
    BY <1>1, <2>1
  <2>2. CASE after # {}
    <3>1. PICK i \in after : \A j \in after : i <= j
      BY <1>4, <2>2, LeastNatural
    <3>2. i \in 1 .. Len(q) + 1
      BY <1>1, <1>4
    <3> QED BY <3>1, <3>2
  <2> QED BY <2>1, <2>2
<1>6. place \in 1 .. Len(q) + 1 /\ Place(place)
  BY <1>5
<1>7. add_to_sleeping_queue(q, s) = InsertAt(q, place, s)
  BY DEF add_to_sleeping_queue, after
<1> HIDE DEF place
<1>8. ASSUME NEW j \in 1 .. Len(q), j < place PROVE q[j].wake_time <= s.wake_time
  BY <1>1, <1>2, <1>3, <1>6, <1>8
<1>9. ASSUME NEW j \in 1 .. Len(q), place <= j PROVE s.wake_time <= q[j].wake_time
  <2>1. place \in 1 .. Len(q) /\ s.wake_time < q[place].wake_time
    BY <1>1, <1>3, <1>6, <1>9
  <2>2. q[place].wake_time <= q[j].wake_time
    BY <1>1, <1>2, <1>9, <2>1 DEF InOrder
  <2> QED BY <1>2, <2>1, <2>2
<1> QED BY <1>6, <1>7, <1>8, <1>9

\* timer_sleep's critical section.
LEMMA BlockStep ==
    ASSUME AlarmIndInv, NEW t \in Sleeper, Block(t)
    PROVE  AlarmIndInv'
<1> DEFINE q == sleeping_thread_queue
           s == [thread |-> t, wake_time |-> wake_time[t]]
<1>1. q \in Seq(Queued) /\ InOrder(q) /\ s \in Queued /\ Len(q) \in Nat
  BY DEF AlarmIndInv, AlarmTypeOK, Queued
<1>2. PICK k \in 1 .. Len(q) + 1 :
        /\ q' = InsertAt(q, k, s)
        /\ \A j \in 1 .. Len(q) : j < k => q[j].wake_time <= s.wake_time
        /\ \A j \in 1 .. Len(q) : k <= j => s.wake_time <= q[j].wake_time
  BY <1>1, OrderedPlace DEF Block
<1>5. s.thread = t /\ s.wake_time = wake_time[t] /\ s.wake_time \in Int
  BY <1>1 DEF Queued
<1> HIDE DEF s
<1>3. /\ q' \in Seq(Queued) /\ Len(q') = Len(q) + 1
      /\ \A j \in 1 .. Len(q) + 1 :
           q'[j] = IF j < k THEN q[j] ELSE IF j = k THEN s ELSE q[j - 1]
  <2> DEFINE r == InsertAt(q, k, s)
  <2>1. /\ r \in Seq(Queued) /\ Len(r) = Len(q) + 1
        /\ \A j \in 1 .. Len(q) + 1 :
             r[j] = IF j < k THEN q[j] ELSE IF j = k THEN s ELSE q[j - 1]
    BY <1>1, InsertAtElements
  <2>2. q' = r
    BY <1>2
  <2> HIDE DEF r
  <2> QED BY <2>1, <2>2
<1>4. \A j \in 1 .. Len(q) : q[j] \in Queued /\ q[j].wake_time \in Int
                             /\ q[j].thread \in Sleeper
  BY <1>1, QueuedFields
<1>6. /\ status[t] = "started" /\ status' = [status EXCEPT ![t] = "asleep"]
      /\ status \in [Sleeper -> {"awake", "started", "asleep", "woken"}]
      /\ since' = [since EXCEPT ![t] = ticks]
      /\ ticks' = ticks /\ wake_time' = wake_time
  BY DEF Block, AlarmIndInv, AlarmTypeOK
<1>7. InOrder(q')
  <2> SUFFICES ASSUME NEW i \in 1 .. Len(q) + 1, NEW j \in 1 .. Len(q) + 1, i < j
               PROVE  q'[i].wake_time <= q'[j].wake_time
    BY <1>3 DEF InOrder
  <2>1. CASE j < k
    BY <1>1, <1>3, <2>1 DEF InOrder
  <2>2. CASE j = k
    <3>1. i \in 1 .. Len(q) /\ i < k
      BY <1>1, <2>2
    <3> QED BY <1>2, <1>3, <2>2, <3>1
  <2>3. CASE k < j /\ i < k
    <3>1. i \in 1 .. Len(q) /\ j - 1 \in 1 .. Len(q) /\ k <= j - 1
      BY <1>1, <2>3
    <3>2. q[i].wake_time <= s.wake_time /\ s.wake_time <= q[j - 1].wake_time
      BY <1>2, <2>3, <3>1
    <3>3. q'[i] = q[i] /\ q'[j] = q[j - 1]
      BY <1>3, <2>3
    <3> QED BY <1>4, <1>5, <3>1, <3>2, <3>3
  <2>4. CASE k < j /\ i = k
    <3>1. j - 1 \in 1 .. Len(q) /\ k <= j - 1
      BY <1>1, <2>4
    <3> QED BY <1>2, <1>3, <2>4, <3>1
  <2>5. CASE k < j /\ k < i
    <3>1. i - 1 \in 1 .. Len(q) /\ j - 1 \in 1 .. Len(q) /\ i - 1 < j - 1
      BY <1>1, <2>5
    <3>2. q[i - 1].wake_time <= q[j - 1].wake_time
      BY <1>1, <3>1 DEF InOrder
    <3> QED BY <1>3, <2>5, <3>2
  <2> QED BY <2>1, <2>2, <2>3, <2>4, <2>5
<1>8. \A j \in 1 .. Len(q) : q[j].thread # t
  BY <1>6 DEF AlarmIndInv, Linked
<1>9. Linked'
  <2>1. ASSUME NEW i \in 1 .. Len(q')
        PROVE  status'[q'[i].thread] = "asleep" /\ q'[i].wake_time = wake_time'[q'[i].thread]
    <3>1. q'[i] = s \/ \E j \in 1 .. Len(q) : q'[i] = q[j]
      BY <1>1, <1>3
    <3> QED BY <1>4, <1>5, <1>6, <3>1 DEF AlarmIndInv, Linked
  <2>2. ASSUME NEW i \in 1 .. Len(q'), NEW j \in 1 .. Len(q'),
               q'[i].thread = q'[j].thread
        PROVE  i = j
    <3> DEFINE Old(n) == IF n < k THEN n ELSE n - 1
    <3>1. \A n \in 1 .. Len(q) + 1 : n # k => Old(n) \in 1 .. Len(q) /\ q'[n] = q[Old(n)]
      BY <1>1, <1>3
    <3>2. q'[k].thread = t
      BY <1>3, <1>5
    <3>3. i = k <=> j = k
      <4>1. \A n \in 1 .. Len(q') : n # k => q'[n].thread # t
        BY <1>3, <1>8, <3>1
      <4> QED BY <2>2, <3>2, <4>1
    <3> HIDE DEF Old
    <3>4. ASSUME i # k, j # k PROVE Old(i) = Old(j)
      <4>1. Old(i) \in 1 .. Len(q) /\ q'[i] = q[Old(i)]
        BY <1>3, <3>1, <3>4
      <4>2. Old(j) \in 1 .. Len(q) /\ q'[j] = q[Old(j)]
        BY <1>3, <3>1, <3>4
      <4>3. q[Old(i)].thread = q[Old(j)].thread
        BY <2>2, <4>1, <4>2
      <4>4. \A m, n \in 1 .. Len(q) : q[m].thread = q[n].thread => m = n
        BY DEF AlarmIndInv, Linked
      <4> QED BY <4>1, <4>2, <4>3, <4>4
    <3> QED BY <1>1, <1>3, <3>3, <3>4 DEF Old
  <2>3. ASSUME NEW u \in Sleeper, status'[u] = "asleep"
        PROVE  \E i \in 1 .. Len(q') : q'[i].thread = u
    <3>1. CASE u = t
      BY <1>1, <1>3, <1>5, <3>1
    <3>2. CASE u # t
      <4>1. PICK j \in 1 .. Len(q) : q[j].thread = u
        BY <1>6, <2>3, <3>2 DEF AlarmIndInv, Linked
      <4>2. CASE j < k
        BY <1>1, <1>3, <4>1, <4>2
      <4>3. CASE k <= j
        <5>1. j + 1 \in 1 .. Len(q) + 1 /\ ~ (j + 1 < k) /\ j + 1 # k /\ (j + 1) - 1 = j
          BY <1>1, <4>3
        <5> QED BY <1>3, <4>1, <5>1
      <4> QED BY <1>1, <4>2, <4>3
    <3> QED BY <3>1, <3>2
  <2> QED BY <2>1, <2>2, <2>3 DEF Linked
<1>10. NeverEarly' /\ NoOversleep'
  BY <1>6 DEF AlarmIndInv, AlarmTypeOK, NeverEarly, NoOversleep
<1>11. AlarmTypeOK'
  <2>1. \A j \in DOMAIN q' : q'[j] \in [thread : Sleeper, wake_time : Int]
    <3>1. \A j \in 1 .. Len(q') : q'[j] \in Queued
      BY <1>3, QueuedFields
    <3>2. DOMAIN q' = 1 .. Len(q')
      BY <1>3
    <3> QED BY <3>1, <3>2 DEF Queued
  <2> QED BY <1>6, <2>1 DEF AlarmIndInv, AlarmTypeOK
<1> QED BY <1>3, <1>7, <1>9, <1>10, <1>11 DEF AlarmIndInv

\* The tick: what is taken off the front is exactly what is due.
LEMMA TickStep ==
    ASSUME AlarmIndInv, timer_interrupt
    PROVE  AlarmIndInv'
<1> DEFINE q == sleeping_thread_queue
<1>1. q \in Seq(Queued) /\ InOrder(q) /\ Len(q) \in Nat
  BY DEF AlarmIndInv
<1>2. PICK n \in 0 .. Len(q) :
        /\ \A i \in 1 .. n : q[i].wake_time <= ticks'
        /\ n < Len(q) => q[n + 1].wake_time > ticks'
        /\ q' = SubSeq(q, n + 1, Len(q))
        /\ status' = [t \in Sleeper |-> IF \E i \in 1 .. n : q[i].thread = t
                                       THEN "woken" ELSE status[t]]
  BY DEF timer_interrupt, due
<1>3. /\ q' \in Seq(Queued) /\ Len(q') = Len(q) - n
      /\ \A j \in 1 .. Len(q) - n : q'[j] = q[j + n]
  <2> DEFINE r == SubSeq(q, n + 1, Len(q))
  <2>1. /\ r \in Seq(Queued) /\ Len(r) = Len(q) - n
        /\ \A j \in 1 .. Len(q) - n : r[j] = q[j + n]
    BY <1>1, SuffixElements
  <2>2. q' = r
    BY <1>2
  <2> HIDE DEF r
  <2> QED BY <2>1, <2>2
<1>4. \A j \in 1 .. Len(q) : /\ q[j].thread \in Sleeper /\ q[j].wake_time \in Int
                             /\ status[q[j].thread] = "asleep"
                             /\ q[j].wake_time = wake_time[q[j].thread]
  BY <1>1, QueuedFields DEF AlarmIndInv, Linked
<1>5. /\ ticks \in 0 .. MaxTicks /\ ticks < MaxTicks /\ ticks' = ticks + 1
      /\ wake_time' = wake_time /\ since' = since
      /\ wake_time \in [Sleeper -> Int]
      /\ status \in [Sleeper -> {"awake", "started", "asleep", "woken"}]
  BY DEF timer_interrupt, AlarmIndInv, AlarmTypeOK
<1>6. \A j \in 1 .. Len(q) - n : j + n \in 1 .. Len(q) /\ ~ (j + n \in 1 .. n)
  BY <1>1
<1>7. \A i, j \in 1 .. Len(q) : q[i].thread = q[j].thread => i = j
  BY DEF AlarmIndInv, Linked
<1>8. InOrder(q')
  <2> SUFFICES ASSUME NEW i \in 1 .. Len(q) - n, NEW j \in 1 .. Len(q) - n, i < j
               PROVE  q[i + n].wake_time <= q[j + n].wake_time
    BY <1>3 DEF InOrder
  <2>1. i + n < j + n
    BY <1>1
  <2> QED BY <1>1, <1>6, <2>1 DEF InOrder
<1>9. Linked'
  <2>1. ASSUME NEW i \in 1 .. Len(q')
        PROVE  status'[q'[i].thread] = "asleep" /\ q'[i].wake_time = wake_time'[q'[i].thread]
    <3>1. i + n \in 1 .. Len(q) /\ q'[i] = q[i + n] /\ ~ (i + n \in 1 .. n)
      BY <1>3, <1>6
    <3>2. ~ \E j \in 1 .. n : q[j].thread = q[i + n].thread
      <4>1. \A j \in 1 .. n : j \in 1 .. Len(q)
        BY <1>1
      <4> QED BY <1>7, <3>1, <4>1
    <3> QED BY <1>2, <1>4, <1>5, <3>1, <3>2
  <2>2. ASSUME NEW i \in 1 .. Len(q'), NEW j \in 1 .. Len(q'),
               q'[i].thread = q'[j].thread
        PROVE  i = j
    <3>1. i + n = j + n
      BY <1>3, <1>6, <1>7, <2>2
    <3> QED BY <1>1, <1>3, <3>1
  <2>3. ASSUME NEW u \in Sleeper, status'[u] = "asleep"
        PROVE  \E i \in 1 .. Len(q') : q'[i].thread = u
    <3>1. status[u] = "asleep" /\ \A j \in 1 .. n : q[j].thread # u
      BY <1>2, <2>3
    <3>2. PICK j \in 1 .. Len(q) : q[j].thread = u
      BY <3>1 DEF AlarmIndInv, Linked
    <3>3. j - n \in 1 .. Len(q) - n /\ (j - n) + n = j
      BY <1>1, <3>1, <3>2
    <3> QED BY <1>3, <3>2, <3>3
  <2> QED BY <2>1, <2>2, <2>3 DEF Linked
<1>10. NeverEarly'
  <2> SUFFICES ASSUME NEW t \in Sleeper, status'[t] = "woken"
               PROVE  wake_time[t] <= ticks'
    BY <1>5 DEF NeverEarly
  <2>1. CASE \E i \in 1 .. n : q[i].thread = t
    <3>1. PICK i \in 1 .. n : q[i].thread = t
      BY <2>1
    <3>2. i \in 1 .. Len(q)
      BY <1>1
    <3> QED BY <1>2, <1>4, <3>1, <3>2
  <2>2. CASE ~ \E i \in 1 .. n : q[i].thread = t
    <3>1. wake_time[t] <= ticks
      BY <1>2, <2>2 DEF AlarmIndInv, NeverEarly
    <3> QED BY <1>5, <3>1
  <2> QED BY <2>1, <2>2
<1>11. NoOversleep'
  <2> SUFFICES ASSUME NEW t \in Sleeper, status'[t] = "asleep"
               PROVE  wake_time[t] > ticks'
    BY <1>5 DEF NoOversleep
  <2>1. status[t] = "asleep" /\ \A j \in 1 .. n : q[j].thread # t
    BY <1>2
  <2>2. PICK j \in 1 .. Len(q) : q[j].thread = t
    BY <2>1 DEF AlarmIndInv, Linked
  <2>3. n < j /\ n + 1 \in 1 .. Len(q) /\ n < Len(q) /\ n + 1 <= j
    BY <1>1, <2>1, <2>2
  <2>4. q[n + 1].wake_time > ticks' /\ q[n + 1].wake_time <= q[j].wake_time
    <3>1. CASE j = n + 1
      BY <1>2, <1>4, <2>3, <3>1
    <3>2. CASE n + 1 < j
      BY <1>1, <1>2, <2>3, <3>2 DEF InOrder
    <3> QED BY <1>1, <2>3, <3>1, <3>2
  <2> QED BY <1>4, <1>5, <2>2, <2>3, <2>4
<1>12. AlarmTypeOK'
  <2>1. \A j \in DOMAIN q' : q'[j] \in [thread : Sleeper, wake_time : Int]
    <3>1. \A j \in 1 .. Len(q') : q'[j] \in Queued
      BY <1>3, QueuedFields
    <3>2. DOMAIN q' = 1 .. Len(q')
      BY <1>3
    <3> QED BY <3>1, <3>2 DEF Queued
  <2>2. status' \in [Sleeper -> {"awake", "started", "asleep", "woken"}]
    BY <1>2, <1>5
  <2>3. ticks' \in 0 .. MaxTicks
    BY <1>5, MaxTicksAssumption
  <2> QED BY <1>5, <2>1, <2>2, <2>3 DEF AlarmIndInv, AlarmTypeOK
<1> QED BY <1>3, <1>8, <1>9, <1>10, <1>11, <1>12 DEF AlarmIndInv

LEMMA AlarmStep == AlarmIndInv /\ [AlarmNext]_alarmVars => AlarmIndInv'
<1> SUFFICES ASSUME AlarmIndInv, [AlarmNext]_alarmVars PROVE AlarmIndInv'
  OBVIOUS
<1> USE DEF AlarmIndInv, AlarmTypeOK, NeverEarly, NoOversleep, Linked, InOrder
<1>1. CASE UNCHANGED alarmVars
  BY <1>1 DEF alarmVars
<1>2. CASE timer_interrupt
  BY <1>2, TickStep
<1>3. ASSUME NEW t \in Sleeper, Start(t) PROVE AlarmIndInv'
  <2>1. /\ status[t] = "awake" /\ status' = [status EXCEPT ![t] = "started"]
        /\ UNCHANGED <<ticks, sleeping_thread_queue, since>>
    BY <1>3 DEF Start
  <2>2. PICK w \in Int : wake_time' = [wake_time EXCEPT ![t] = w]
    <3>1. PICK n \in Sleep : wake_time' = [wake_time EXCEPT ![t] = ticks + n]
      BY <1>3 DEF Start
    <3>2. ticks + n \in Int
      BY SleepAssumption
    <3> QED BY <3>1, <3>2
  <2>3. \A i \in 1 .. Len(sleeping_thread_queue) :
          /\ sleeping_thread_queue[i].thread \in Sleeper
          /\ sleeping_thread_queue[i].thread # t
    BY <2>1, QueuedFields
  <2> QED BY <2>1, <2>2, <2>3
<1>4. ASSUME NEW t \in Sleeper, Block(t) PROVE AlarmIndInv'
  BY <1>4, BlockStep
<1>5. ASSUME NEW t \in Sleeper, Return(t) PROVE AlarmIndInv'
  <2>1. \A i \in 1 .. Len(sleeping_thread_queue) :
          /\ sleeping_thread_queue[i].thread \in Sleeper
          /\ sleeping_thread_queue[i].thread # t
    BY <1>5, QueuedFields DEF Return
  <2> QED BY <1>5, <2>1, MaxTicksAssumption DEF Return
<1> QED BY <1>1, <1>2, <1>3, <1>4, <1>5 DEF AlarmNext

\* Reading Linked as the queue's records.
LEMMA LinkedImplies == AlarmIndInv => QueueIsSleepers
<1> SUFFICES ASSUME AlarmIndInv PROVE QueueIsSleepers
  OBVIOUS
<1> DEFINE q == sleeping_thread_queue
<1>1. q \in Seq(Queued) /\ DOMAIN q = 1 .. Len(q)
  BY DEF AlarmIndInv
<1>2. \A i \in 1 .. Len(q) :
        q[i] = [thread |-> q[i].thread, wake_time |-> wake_time[q[i].thread]]
  <2> TAKE i \in 1 .. Len(q)
  <2>1. q[i] \in Queued
    BY <1>1, QueuedFields
  <2>2. q[i].wake_time = wake_time[q[i].thread]
    BY DEF AlarmIndInv, Linked
  <2> QED BY <2>1, <2>2 DEF Queued
<1>3. ASSUME NEW t \in Sleeper, status[t] = "asleep"
      PROVE  \E i \in DOMAIN q : q[i] = [thread |-> t, wake_time |-> wake_time[t]]
  <2>1. PICK i \in 1 .. Len(q) : q[i].thread = t
    BY <1>3 DEF AlarmIndInv, Linked
  <2> QED BY <1>1, <1>2, <2>1
<1>4. ASSUME NEW t \in Sleeper, NEW i \in DOMAIN q,
             q[i] = [thread |-> t, wake_time |-> wake_time[t]]
      PROVE  status[t] = "asleep"
  <2>1. q[i].thread = t
    BY <1>4
  <2> QED BY <1>1, <2>1 DEF AlarmIndInv, Linked
<1>5. \A i, j \in DOMAIN q : q[i].thread = q[j].thread => i = j
  BY <1>1 DEF AlarmIndInv, Linked
<1> QED BY <1>3, <1>4, <1>5 DEF QueueIsSleepers

\* timer_sleep is right for any number of threads and however long it runs: the
\* queue holds exactly the sleepers, none is woken early, none is left behind.
THEOREM AlarmCorrect == AlarmSpec => []SleepQueueRight
<1>1. AlarmInit => AlarmIndInv
  <2> SUFFICES ASSUME AlarmInit PROVE AlarmIndInv
    OBVIOUS
  <2>1. /\ sleeping_thread_queue \in Seq(Queued)
        /\ Len(sleeping_thread_queue) = 0 /\ DOMAIN sleeping_thread_queue = {}
    BY DEF AlarmInit
  <2>2. AlarmTypeOK
    BY <2>1, MaxTicksAssumption DEF AlarmInit, AlarmTypeOK
  <2>3. InOrder(sleeping_thread_queue) /\ Linked
    BY <2>1 DEF AlarmInit, InOrder, Linked
  <2>4. NeverEarly /\ NoOversleep
    BY DEF AlarmInit, NeverEarly, NoOversleep
  <2> QED BY <2>1, <2>2, <2>3, <2>4 DEF AlarmIndInv
<1>2. AlarmIndInv => SleepQueueRight
  BY LinkedImplies DEF AlarmIndInv, SleepQueueRight
<1> QED BY <1>1, <1>2, AlarmStep, PTL DEF AlarmSpec

-----------------------------------------------------------------------------
\* The file system of group_proj1, for any device, directory and files.

Entries == [name : FsName, sector : Device]
Used == {e \in 1 .. Slots : entry[e] # NoEntry}
Foot(s) == {s} \cup Extent(inode_disk[s])
OpenOn(s) == {f \in FsFile : file[f] # Shut /\ file[f].sector = s}
DenyOn(s) == {f \in FsFile : file[f].sector = s /\ file[f].deny}

FsTypes ==
    /\ free_map \subseteq Device /\ disk_map = free_map
    /\ entry \in [1 .. Slots -> Entries \cup {NoEntry}]
    /\ inode_disk \in [Device -> [start : Nat, length : Nat]]
    /\ open_inodes \in [Device -> [open_cnt : Nat, removed : BOOLEAN, deny : Int, start : Nat, length : Nat]]
    /\ file \in [FsFile -> [sector : Device, pos : Nat, deny : BOOLEAN]]
    /\ fscall \in [stage : {"none", "inode", "write", "add", "free", "free data"},
                   name : FsName \cup {NoEntry}, size : Nat, sector : Device, start : Nat,
                   data : SUBSET Device]
    /\ fscall.stage \in {"inode", "write", "add"} => fscall.name \in FsName
    /\ wrote = [s \in Device |-> wrote[s]]

\* What the call in progress knows.
CallSound ==
    /\ fscall.stage = "none" => fscall = Idle
    /\ fscall.stage = "inode" => fscall.data = {}
    /\ fscall.stage \in {"write", "add"} =>
         fscall.data = fscall.start .. fscall.start + bytes_to_sectors(fscall.size) - 1
    /\ fscall.stage = "add" =>
         inode_disk[fscall.sector] = [start |-> fscall.start, length |-> fscall.size]
    /\ fscall.stage \in {"write", "add", "free"} => fscall.sector \notin fscall.data
    /\ fscall.stage = "add" =>
         fscall.sector \notin Listed /\ open_inodes[fscall.sector].open_cnt = 0

\* The structs in memory and what they were read from.  A file that is open
\* and not listed is one that was removed.
OpenSound ==
    /\ \A s \in Device : open_inodes[s].open_cnt = 0 => open_inodes[s] = NotOpen
    /\ \A s \in Device : open_inodes[s].open_cnt > 0 =>
         /\ open_inodes[s].start = inode_disk[s].start /\ open_inodes[s].length = inode_disk[s].length
         /\ open_inodes[s].removed <=> s \notin Listed
    /\ \A f \in FsFile : file[f].sector \in System => file[f] = Shut
    /\ \A s \in Device : IsFiniteSet(OpenOn(s))

\* A sector is of one file, of the call in progress, lost or of the system.
Apart ==
    /\ \A s \in Live : Foot(s) \subseteq free_map \ System /\ s \notin Extent(inode_disk[s])
    /\ \A s, t \in Live : s # t => Foot(s) \cap Foot(t) = {}
    /\ \A s \in Live : Foot(s) \cap lost = {}
    /\ \A s \in Live : Foot(s) \cap InCall # {} => fscall.stage = "add" /\ s = fscall.sector
    /\ InCall \cap System = {} /\ InCall \cap lost = {} /\ lost \cap System = {}

OneEntry == \A d, e \in Used : entry[d].sector = entry[e].sector => d = e

\* The history has a value for each byte of a file.
Lengths == \A s \in Live : DOMAIN wrote[s] = 0 .. inode_disk[s].length - 1

\* Accounted, by sector.
Everywhere ==
    \A x : x \in free_map <=> \/ x \in System \/ x \in lost \/ x \in InCall
                               \/ \E s \in Live : x \in Foot(s)

FsInv ==
    /\ FsTypes /\ CallSound /\ OpenSound /\ Apart /\ OneEntry /\ Lengths
    /\ Everywhere /\ BytesKept /\ DenyCounts

LEMMA AccountedSectors == Accounted <=> Everywhere
<1> DEFINE F == {{s} \cup Extent(inode_disk[s]) : s \in Live}
           R == System \cup lost \cup (UNION F) \cup InCall
<1>1. \A x : x \in R <=> \/ x \in System \/ x \in lost \/ x \in InCall
                         \/ \E s \in Live : x \in Foot(s)
  <2>1. \A s \in Live : Foot(s) \in F  BY DEF Foot
  <2>2. \A y \in F : \E s \in Live : y = Foot(s)  BY DEF Foot
  <2> HIDE DEF F
  <2>3. \A x : x \in UNION F <=> \E s \in Live : x \in Foot(s)  BY <2>1, <2>2
  <2>4. QED  BY <2>3
<1>2. Accounted <=> free_map = R  BY DEF Accounted
<1> HIDE DEF R
<1>3. QED  BY <1>1, <1>2 DEF Everywhere

LEMMA DeviceFacts ==
    /\ Sectors \in Nat /\ Sectors > 4 /\ Slots \in Nat /\ System \subseteq Device
    /\ \A s \in Device : s \in Nat
    /\ BlockBytes \in Nat /\ BlockBytes > 0 /\ FsSize \subseteq Nat
<1>1. Sectors \in Nat /\ Sectors > 4 /\ Slots \in Nat  BY SectorsAssumption
<1>2. System \subseteq Device /\ \A s \in Device : s \in Nat  BY <1>1 DEF System, Device
<1>3. QED  BY <1>1, <1>2, FsSizeAssumption

\* What the types say of one file, inode, entry and of the call.
LEMMA FsParts ==
    ASSUME FsTypes
    PROVE  /\ \A e \in Used : entry[e] \in Entries /\ entry[e].sector \in Device /\ entry[e].name \in FsName
           /\ Listed = {entry[e].sector : e \in Used} /\ Listed \subseteq Device /\ Live \subseteq Device
           /\ \A s \in Device : inode_disk[s].start \in Nat /\ inode_disk[s].length \in Nat
           /\ \A s \in Device : /\ open_inodes[s].open_cnt \in Nat /\ open_inodes[s].deny \in Int
                                /\ open_inodes[s].removed \in BOOLEAN
                                /\ open_inodes[s].start \in Nat /\ open_inodes[s].length \in Nat
           /\ \A f \in FsFile : file[f].sector \in Device /\ file[f].pos \in Nat /\ file[f].deny \in BOOLEAN
           /\ fscall.sector \in Device /\ fscall.size \in Nat /\ fscall.start \in Nat
           /\ fscall.data \subseteq Device
<1>1. \A e \in Used : entry[e] \in Entries  BY DEF FsTypes, Used
<1>2. \A x \in Entries : x.sector \in Device /\ x.name \in FsName  BY DEF Entries
<1>3. Listed = {entry[e].sector : e \in Used}  BY DEF Listed, Used
<1>4. Listed \subseteq Device  BY <1>1, <1>2, <1>3
<1>5. /\ fscall.sector \in Device /\ fscall.size \in Nat /\ fscall.start \in Nat
      /\ fscall.data \subseteq Device
  BY DEF FsTypes
<1>6. Live \subseteq Device  BY <1>4, <1>5 DEF Live
<1>7. \A s \in Device : inode_disk[s] \in [start : Nat, length : Nat]  BY DEF FsTypes
<1>8. \A s \in Device : open_inodes[s] \in [open_cnt : Nat, removed : BOOLEAN, deny : Int,
                                            start : Nat, length : Nat]
  BY DEF FsTypes
<1>9. \A f \in FsFile : file[f] \in [sector : Device, pos : Nat, deny : BOOLEAN]  BY DEF FsTypes
<1>10. QED  BY <1>1, <1>2, <1>3, <1>4, <1>5, <1>6, <1>7, <1>8, <1>9

LEMMA FsInitInv == FsInit => FsInv
<1> SUFFICES ASSUME FsInit PROVE FsInv
  OBVIOUS
<1>1. /\ free_map = System /\ disk_map = System /\ entry = [s \in 1 .. Slots |-> NoEntry]
      /\ inode_disk = [s \in Device |-> [start |-> 0, length |-> 0]]
      /\ open_inodes = [s \in Device |-> NotOpen] /\ file = [f \in FsFile |-> Shut]
      /\ fscall = Idle /\ lost = {} /\ wrote = [s \in Device |-> [b \in {} |-> 0]]
  BY DEF FsInit
<1>2. 0 \in Device /\ System \subseteq Device  BY DeviceFacts DEF System
<1>3. FsTypes
  <2>1. NotOpen \in [open_cnt : Nat, removed : BOOLEAN, deny : Int, start : Nat, length : Nat]
    BY DEF NotOpen
  <2>2. Shut \in [sector : Device, pos : Nat, deny : BOOLEAN]  BY <1>2 DEF Shut
  <2>3. Idle \in [stage : {"none", "inode", "write", "add", "free", "free data"},
                  name : FsName \cup {NoEntry}, size : Nat, sector : Device, start : Nat,
                  data : SUBSET Device] /\ Idle.stage = "none"
    BY <1>2 DEF Idle
  <2>4. [start |-> 0, length |-> 0] \in [start : Nat, length : Nat]  OBVIOUS
  <2>5. QED  BY <1>1, <1>2, <2>1, <2>2, <2>3, <2>4 DEF FsTypes
<1>4. Used = {} /\ Listed = {}  BY <1>1 DEF Used, Listed
<1>5. Live = {} /\ InCall = {}  BY <1>1, <1>4 DEF Live, InCall, Idle, NotOpen
<1>6. CallSound  BY <1>1 DEF CallSound, Idle
<1>7. \A s \in Device : OpenOn(s) = {} /\ DenyOn(s) = {}  BY <1>1 DEF OpenOn, DenyOn, Shut
<1>8. OpenSound
  <2>1. IsFiniteSet({})  BY FS_EmptySet
  <2>2. \A s \in Device : open_inodes[s] = NotOpen /\ ~(open_inodes[s].open_cnt > 0)  BY <1>1 DEF NotOpen
  <2>3. QED  BY <1>1, <1>7, <2>1, <2>2 DEF OpenSound
<1>9. Apart /\ OneEntry /\ Lengths /\ Everywhere /\ BytesKept
  BY <1>1, <1>4, <1>5 DEF Apart, OneEntry, Lengths, Everywhere, BytesKept
<1>10. DenyCounts
  <2>1. Cardinality({}) = 0  BY FS_EmptySet
  <2>2. \A s \in Device : open_inodes[s].deny = 0 /\ open_inodes[s].open_cnt = 0  BY <1>1 DEF NotOpen
  <2>3. QED  BY <1>7, <2>1, <2>2 DEF DenyCounts, OpenOn, DenyOn
<1>11. QED  BY <1>3, <1>6, <1>8, <1>9, <1>10 DEF FsInv

\* A step that changes no sector's owner.
LEMMA OwnersStay ==
    ASSUME Apart, Everywhere, Live' = Live, UNCHANGED <<free_map, inode_disk, fscall, lost>>
    PROVE  Apart' /\ Everywhere'
<1>1. InCall' = InCall  BY DEF InCall
<1>2. \A s : Foot(s)' = Foot(s) /\ Extent(inode_disk'[s]) = Extent(inode_disk[s])  BY DEF Foot
<1>3. Apart'  BY <1>1, <1>2 DEF Apart
<1>4. Everywhere'  BY <1>1, <1>2 DEF Everywhere
<1>5. QED  BY <1>3, <1>4

\* A file that goes: its sectors are the call's from now on.
LEMMA OwnersFreed ==
    ASSUME Apart, Everywhere, NEW s \in Live, fscall.stage = "none", Live' = Live \ {s},
           UNCHANGED <<free_map, inode_disk, lost>>,
           fscall'.stage = "free", fscall'.sector = s, fscall'.data = Extent(inode_disk[s])
    PROVE  Apart' /\ Everywhere'
<1>1. InCall = {} /\ InCall' = Foot(s)  BY DEF InCall, Foot
<1>2. \A t : Foot(t)' = Foot(t) /\ Extent(inode_disk'[t]) = Extent(inode_disk[t])  BY DEF Foot
<1>3. Apart'
  <2>1. \A t \in Live' : t # s /\ Foot(t) \cap Foot(s) = {}  BY DEF Apart
  <2>2. Foot(s) \cap System = {} /\ Foot(s) \cap lost = {}  BY DEF Apart
  <2>3. QED  BY <1>1, <1>2, <2>1, <2>2 DEF Apart
<1>4. Everywhere'  BY <1>1, <1>2 DEF Everywhere
<1>5. QED  BY <1>3, <1>4

\* The bytes of the files that stay.
LEMMA BytesStay ==
    ASSUME Lengths, BytesKept, Live' \subseteq Live, UNCHANGED <<inode_disk, block, wrote>>
    PROVE  Lengths' /\ BytesKept'
  BY DEF Lengths, BytesKept

\* The counts, when no file is opened or closed and none denies.
LEMMA CountsStay ==
    ASSUME DenyCounts, UNCHANGED <<open_inodes, file>>
    PROVE  DenyCounts'
  BY DEF DenyCounts

LEMMA NamesStay ==
    ASSUME entry' = entry
    PROVE  Listed' = Listed /\ Used' = Used /\ (OneEntry => OneEntry')
  BY DEF Listed, Used, OneEntry

LEMMA InodesStay ==
    ASSUME OpenSound, UNCHANGED <<open_inodes, file, inode_disk>>, Listed' = Listed
    PROVE  OpenSound'
<1>1. \A s \in Device : OpenOn(s)' = OpenOn(s)  BY DEF OpenOn
<1>2. QED  BY <1>1 DEF OpenSound

LEMMA ScanFacts ==
    ASSUME FsTypes, NEW cnt \in Nat, NEW s \in free_map_scan(cnt)
    PROVE  /\ s \in Nat /\ s .. s + cnt - 1 \subseteq Device
           /\ free_map \cap (s .. s + cnt - 1) = {}
<1>1. Sectors \in Nat  BY DeviceFacts
<1>2. s \in 0 .. Sectors - cnt /\ free_map \cap (s .. s + cnt - 1) = {}  BY DEF free_map_scan
<1>3. QED  BY <1>1, <1>2 DEF Device

\* free_map_allocate for the inode.
LEMMA CreateSectorStep ==
    ASSUME FsInv, NEW name \in FsName, NEW size \in FsSize, CreateSector(name, size)
    PROVE  FsInv'
<1>0. FsTypes /\ CallSound /\ OpenSound /\ Apart /\ OneEntry /\ Lengths /\ Everywhere /\ BytesKept /\ DenyCounts
  BY DEF FsInv
<1>1. PICK s \in free_map_scan(1) :
        /\ free_map' = free_map \cup {s} /\ disk_map' = free_map \cup {s}
        /\ fscall' = [Idle EXCEPT !.stage = "inode", !.name = name, !.size = size, !.sector = s]
  BY DEF CreateSector, Map
<1>2. fscall.stage = "none" /\ UNCHANGED <<entry, inode_disk, block, open_inodes, file, lost, wrote>>
  BY DEF CreateSector
<1>3. s \in Device /\ s \notin free_map
  <2>1. s \in Nat /\ s .. s + 1 - 1 \subseteq Device /\ free_map \cap (s .. s + 1 - 1) = {}
    BY <1>0, ScanFacts
  <2>2. s .. s + 1 - 1 = {s}  BY <2>1
  <2>3. QED  BY <2>1, <2>2
<1>4. /\ fscall'.stage = "inode" /\ fscall'.name = name /\ fscall'.size = size
      /\ fscall'.sector = s /\ fscall'.data = {} /\ fscall'.start = 0
  BY <1>1 DEF Idle
<1>5. FsTypes'
  <2>1. size \in Nat  BY DeviceFacts
  <2>2. fscall' = [stage |-> "inode", name |-> name, size |-> size, sector |-> s, start |-> 0, data |-> {}]
    BY <1>1 DEF Idle
  <2>3. fscall' \in [stage : {"none", "inode", "write", "add", "free", "free data"},
                     name : FsName \cup {NoEntry}, size : Nat, sector : Device, start : Nat,
                     data : SUBSET Device]
    BY <1>3, <2>1, <2>2
  <2>4. free_map' \subseteq Device /\ disk_map' = free_map'  BY <1>0, <1>1, <1>3 DEF FsTypes
  <2>5. QED  BY <1>0, <1>2, <1>4, <2>3, <2>4 DEF FsTypes
<1>6. CallSound'  BY <1>4 DEF CallSound
<1>7. Listed' = Listed /\ OneEntry'  BY <1>0, <1>2, NamesStay
<1>8. OpenSound' /\ DenyCounts'  BY <1>0, <1>2, <1>7, InodesStay, CountsStay
<1>9. Live' = Live  BY <1>2, <1>4, <1>7 DEF Live
<1>10. Lengths' /\ BytesKept'  BY <1>0, <1>2, <1>9, BytesStay
<1>11. InCall = {} /\ InCall' = {s}  BY <1>2, <1>4 DEF InCall
<1>12. \A t : Foot(t)' = Foot(t) /\ Extent(inode_disk'[t]) = Extent(inode_disk[t])  BY <1>2 DEF Foot
<1>13. Everywhere'  BY <1>0, <1>1, <1>2, <1>9, <1>11, <1>12 DEF Everywhere
<1>14. Apart'
  <2>1. s \notin System /\ s \notin lost /\ \A t \in Live : s \notin Foot(t)
    BY <1>0, <1>3 DEF Everywhere
  <2>2. QED  BY <1>0, <1>1, <1>2, <1>9, <1>11, <1>12, <2>1 DEF Apart
<1>15. QED  BY <1>5, <1>6, <1>7, <1>8, <1>10, <1>13, <1>14 DEF FsInv

\* free_map_allocate for the data, or the inode's sector goes back.
LEMMA CreateDataStep ==
    ASSUME FsInv, CreateData
    PROVE  FsInv'
<1>0. FsTypes /\ CallSound /\ OpenSound /\ Apart /\ OneEntry /\ Lengths /\ Everywhere /\ BytesKept /\ DenyCounts
  BY DEF FsInv
<1> DEFINE cnt == bytes_to_sectors(fscall.size)
<1>1. fscall.stage = "inode" /\ UNCHANGED <<entry, inode_disk, block, open_inodes, file, lost, wrote>>
  BY DEF CreateData
<1>2. \/ free_map' = free_map \ {fscall.sector} /\ disk_map' = free_map' /\ fscall' = Idle
      \/ \E start \in free_map_scan(cnt) :
           /\ free_map' = free_map \cup (start .. start + cnt - 1) /\ disk_map' = free_map'
           /\ fscall' = [fscall EXCEPT !.stage = "write", !.start = start, !.data = start .. start + cnt - 1]
  BY DEF CreateData, Map
<1>3. fscall.data = {} /\ InCall = {fscall.sector}  BY <1>0, <1>1 DEF CallSound, InCall
<1>4. Listed' = Listed /\ OneEntry'  BY <1>0, <1>1, NamesStay
<1>5. OpenSound' /\ DenyCounts'  BY <1>0, <1>1, <1>4, InodesStay, CountsStay
<1>6. \A t : Foot(t)' = Foot(t) /\ Extent(inode_disk'[t]) = Extent(inode_disk[t])  BY <1>1 DEF Foot
<1>7. cnt \in Nat
  <2>1. \A z \in Nat : bytes_to_sectors(z) \in Nat
    <3>1. \A m, n \in Nat : n > 0 => (m + n - 1) \div n \in Nat  OBVIOUS
    <3>2. QED  BY <3>1, DeviceFacts DEF bytes_to_sectors
  <2>2. QED  BY <1>0, <2>1, FsParts
<1> HIDE DEF cnt
<1>8. CASE free_map' = free_map \ {fscall.sector} /\ disk_map' = free_map' /\ fscall' = Idle
  <2>1. fscall'.stage = "none" /\ InCall' = {}  BY <1>8 DEF Idle, InCall
  <2>2. FsTypes'
    <3>1. 0 \in Device  BY DeviceFacts DEF System
    <3>2. Idle \in [stage : {"none", "inode", "write", "add", "free", "free data"},
                    name : FsName \cup {NoEntry}, size : Nat, sector : Device, start : Nat,
                    data : SUBSET Device]
      BY <3>1 DEF Idle
    <3>3. QED  BY <1>0, <1>1, <1>8, <2>1, <3>2 DEF FsTypes
  <2>3. CallSound'  BY <1>8, <2>1 DEF CallSound
  <2>4. Live' = Live  BY <1>1, <1>4, <2>1 DEF Live
  <2>5. Lengths' /\ BytesKept'  BY <1>0, <1>1, <2>4, BytesStay
  <2>6. fscall.sector \notin System /\ fscall.sector \notin lost /\ \A t \in Live : fscall.sector \notin Foot(t)
    BY <1>0, <1>1, <1>3 DEF Apart
  <2>7. Everywhere'  BY <1>0, <1>1, <1>3, <1>6, <1>8, <2>1, <2>4, <2>6 DEF Everywhere
  <2>8. Apart'  BY <1>0, <1>1, <1>6, <1>8, <2>1, <2>4, <2>6 DEF Apart
  <2>9. QED  BY <1>4, <1>5, <2>2, <2>3, <2>5, <2>7, <2>8 DEF FsInv
<1>9. CASE \E start \in free_map_scan(cnt) :
             /\ free_map' = free_map \cup (start .. start + cnt - 1) /\ disk_map' = free_map'
             /\ fscall' = [fscall EXCEPT !.stage = "write", !.start = start, !.data = start .. start + cnt - 1]
  <2>1. PICK start \in free_map_scan(cnt) :
             /\ free_map' = free_map \cup (start .. start + cnt - 1) /\ disk_map' = free_map'
             /\ fscall' = [fscall EXCEPT !.stage = "write", !.start = start, !.data = start .. start + cnt - 1]
    BY <1>9
  <2>2. PICK data : data = start .. start + cnt - 1  OBVIOUS
  <2>3. start \in Nat /\ data \subseteq Device /\ free_map \cap data = {}
    BY <1>0, <1>7, <2>2, ScanFacts
  <2>4. /\ fscall'.stage = "write" /\ fscall'.start = start /\ fscall'.data = data
        /\ fscall'.sector = fscall.sector /\ fscall'.size = fscall.size /\ fscall'.name = fscall.name
    BY <1>0, <2>1, <2>2 DEF FsTypes
  <2>5. FsTypes'
    <3>1. fscall' \in [stage : {"none", "inode", "write", "add", "free", "free data"},
                       name : FsName \cup {NoEntry}, size : Nat, sector : Device, start : Nat,
                       data : SUBSET Device]
      BY <1>0, <2>1, <2>2, <2>3 DEF FsTypes
    <3>2. fscall'.name \in FsName  BY <1>0, <1>1, <2>4 DEF FsTypes
    <3>3. QED  BY <1>0, <1>1, <2>1, <2>2, <2>3, <3>1, <3>2 DEF FsTypes
  <2>6. fscall.sector \in free_map  BY <1>0, <1>3 DEF Everywhere
  <2>7. CallSound'
    <3>1. fscall.sector \notin data  BY <2>3, <2>6
    <3>2. data = start .. start + bytes_to_sectors(fscall.size) - 1  BY <2>2 DEF cnt
    <3>3. QED  BY <2>4, <3>1, <3>2 DEF CallSound
  <2>8. Live' = Live  BY <1>1, <1>4, <2>4 DEF Live
  <2>9. Lengths' /\ BytesKept'  BY <1>0, <1>1, <2>8, BytesStay
  <2>10. InCall' = {fscall.sector} \cup data  BY <2>4 DEF InCall
  <2>11. Everywhere'  BY <1>0, <1>1, <1>3, <1>6, <2>1, <2>2, <2>8, <2>10 DEF Everywhere
  <2>12. Apart'
    <3>1. data \cap System = {} /\ data \cap lost = {} /\ \A t \in Live : data \cap Foot(t) = {}
      BY <1>0, <2>3 DEF Everywhere
    <3>2. /\ fscall.sector \notin System /\ fscall.sector \notin lost
          /\ \A t \in Live : fscall.sector \notin Foot(t)
      BY <1>0, <1>1, <1>3 DEF Apart
    <3>3. QED  BY <1>0, <1>1, <1>6, <2>1, <2>8, <2>10, <3>1, <3>2 DEF Apart
  <2>13. QED  BY <1>4, <1>5, <2>5, <2>7, <2>9, <2>11, <2>12 DEF FsInv
<1>10. QED  BY <1>2, <1>8, <1>9

LEMMA DivMod ==
    ASSUME NEW a \in Nat, NEW B \in Nat, B > 0
    PROVE  a \div B \in Nat /\ a % B \in 0 .. B - 1 /\ a = (a \div B) * B + (a % B)
<1>1. a \div B \in Nat  OBVIOUS
<1>2. a % B \in 0 .. B - 1  OBVIOUS
<1>3. a = B * (a \div B) + (a % B)  OBVIOUS
<1>4. QED  BY <1>1, <1>2, <1>3

\* The sector a byte of a file is in, and its place there.
LEMMA BytePlace ==
    ASSUME NEW b \in Nat, NEW n \in Nat, b < n
    PROVE  /\ b \div BlockBytes \in Nat /\ b % BlockBytes \in 0 .. BlockBytes - 1
           /\ b = (b \div BlockBytes) * BlockBytes + (b % BlockBytes)
           /\ b \div BlockBytes < bytes_to_sectors(n) /\ bytes_to_sectors(n) \in Nat
<1>1. BlockBytes \in Nat /\ BlockBytes > 0  BY DeviceFacts
<1>2. \A B \in Nat : B > 0 =>
        /\ b \div B \in Nat /\ b % B \in 0 .. B - 1 /\ b = (b \div B) * B + (b % B)
  BY DivMod
<1>3. \A B \in Nat : B > 0 => /\ (n + B - 1) \div B \in Nat /\ (n + B - 1) % B \in 0 .. B - 1
                              /\ n + B - 1 = ((n + B - 1) \div B) * B + ((n + B - 1) % B)
  <2>1. \A B \in Nat : B > 0 => n + B - 1 \in Nat  OBVIOUS
  <2>2. QED  BY <2>1, DivMod
<1>4. \A q, r, B, x, y \in Nat : (q * B + x < n /\ x < B /\ y < B /\ n + B - 1 = r * B + y) => q < r
  <2> SUFFICES ASSUME NEW q \in Nat, NEW r \in Nat, NEW B \in Nat, NEW x \in Nat, NEW y \in Nat,
                      q * B + x < n, x < B, y < B, n + B - 1 = r * B + y, q >= r
               PROVE  FALSE
    OBVIOUS
  <2>1. q * B >= r * B
    <3>1. PICK d \in Nat : q = r + d
      <4>1. q - r \in Nat /\ q = r + (q - r)  OBVIOUS
      <4>2. QED  BY <4>1
    <3>2. q * B = r * B + d * B /\ d * B >= 0  BY <3>1
    <3>3. QED  BY <3>2
  <2>2. q * B \in Nat /\ r * B \in Nat  OBVIOUS
  <2>3. PICK Q \in Nat, R \in Nat : Q = q * B /\ R = r * B  BY <2>2
  <2>4. Q >= R /\ Q + x < n /\ n + B - 1 = R + y  BY <2>1, <2>3
  <2>5. QED  BY <2>4
<1>5. b \div BlockBytes < (n + BlockBytes - 1) \div BlockBytes
  <2>1. PICK q \in Nat, x \in Nat : q = b \div BlockBytes /\ x = b % BlockBytes  BY <1>1, <1>2
  <2>2. PICK r \in Nat, y \in Nat : r = (n + BlockBytes - 1) \div BlockBytes
                                    /\ y = (n + BlockBytes - 1) % BlockBytes
    BY <1>1, <1>3
  <2>3. b = q * BlockBytes + x /\ x < BlockBytes  BY <1>1, <1>2, <2>1
  <2>4. n + BlockBytes - 1 = r * BlockBytes + y /\ y < BlockBytes  BY <1>1, <1>3, <2>2
  <2>5. q * BlockBytes + x < n  BY <2>3
  <2>6. q < r  BY <1>1, <1>4, <2>3, <2>4, <2>5
  <2>7. QED  BY <2>1, <2>2, <2>6
<1>6. QED  BY <1>1, <1>2, <1>3, <1>5 DEF bytes_to_sectors

\* A byte of a file is in one of the file's sectors.
LEMMA ByteInFile ==
    ASSUME FsTypes, Lengths, NEW s \in Live, NEW b \in DOMAIN wrote[s]
    PROVE  /\ b \in Nat /\ b < inode_disk[s].length
           /\ b \div BlockBytes \in Nat /\ b % BlockBytes \in 0 .. BlockBytes - 1
           /\ b = (b \div BlockBytes) * BlockBytes + (b % BlockBytes)
           /\ inode_disk[s].start + (b \div BlockBytes) \in Extent(inode_disk[s])
<1>1. inode_disk[s].start \in Nat /\ inode_disk[s].length \in Nat  BY FsParts
<1>2. b \in 0 .. inode_disk[s].length - 1  BY DEF Lengths
<1>3. b \in Nat /\ b < inode_disk[s].length  BY <1>1, <1>2
<1>4. /\ b \div BlockBytes \in Nat /\ b % BlockBytes \in 0 .. BlockBytes - 1
      /\ b = (b \div BlockBytes) * BlockBytes + (b % BlockBytes)
      /\ b \div BlockBytes < bytes_to_sectors(inode_disk[s].length)
      /\ bytes_to_sectors(inode_disk[s].length) \in Nat
  BY <1>1, <1>3, BytePlace
<1>5. \A q, c, z \in Nat : q < c => z + q \in z .. z + c - 1  OBVIOUS
<1>6. QED  BY <1>1, <1>3, <1>4, <1>5 DEF Extent

\* inode_create writes the inode and zeros.
LEMMA CreateInodeStep ==
    ASSUME FsInv, CreateInode
    PROVE  FsInv'
<1>0. FsTypes /\ CallSound /\ OpenSound /\ Apart /\ OneEntry /\ Lengths /\ Everywhere /\ BytesKept /\ DenyCounts
  BY DEF FsInv
<1>1. PICK s, z, start, data :
        s = fscall.sector /\ z = fscall.size /\ start = fscall.start /\ data = fscall.data
  OBVIOUS
<1>2. /\ fscall.stage = "write"
      /\ inode_disk' = [inode_disk EXCEPT ![s] = [start |-> start, length |-> z]]
      /\ block' = [d \in Device |-> IF d \in data THEN [b \in 0 .. BlockBytes - 1 |-> 0] ELSE block[d]]
      /\ fscall' = [fscall EXCEPT !.stage = "add"]
      /\ wrote' = [wrote EXCEPT ![s] = [b \in 0 .. z - 1 |-> 0]]
      /\ UNCHANGED <<free_map, disk_map, entry, open_inodes, file, lost, fsops>>
  BY <1>1 DEF CreateInode
<1>3. s \in Device /\ z \in Nat /\ start \in Nat /\ data \subseteq Device  BY <1>0, <1>1, FsParts
<1>4. data = start .. start + bytes_to_sectors(z) - 1 /\ s \notin data
  BY <1>0, <1>1, <1>2 DEF CallSound
<1>5. /\ fscall'.stage = "add" /\ fscall'.sector = s /\ fscall'.size = z /\ fscall'.start = start
      /\ fscall'.data = data /\ fscall'.name = fscall.name
  BY <1>0, <1>1, <1>2 DEF FsTypes
<1>6. inode_disk'[s] = [start |-> start, length |-> z] /\ \A t \in Device : t # s => inode_disk'[t] = inode_disk[t]
  BY <1>0, <1>2, <1>3 DEF FsTypes
<1>7. wrote'[s] = [b \in 0 .. z - 1 |-> 0] /\ \A t \in Device : t # s => wrote'[t] = wrote[t]
  BY <1>0, <1>2, <1>3 DEF FsTypes
<1>8. FsTypes'
  <2>1. [start |-> start, length |-> z] \in [start : Nat, length : Nat]  BY <1>3
  <2>2. inode_disk' \in [Device -> [start : Nat, length : Nat]]  BY <1>0, <1>2, <2>1 DEF FsTypes
  <2>3. fscall' \in [stage : {"none", "inode", "write", "add", "free", "free data"},
                     name : FsName \cup {NoEntry}, size : Nat, sector : Device, start : Nat,
                     data : SUBSET Device]
    BY <1>0, <1>2 DEF FsTypes
  <2>4. wrote' = [t \in Device |-> wrote'[t]]  BY <1>0, <1>2 DEF FsTypes
  <2>5. fscall'.name \in FsName  BY <1>0, <1>2, <1>5 DEF FsTypes
  <2>6. QED  BY <1>0, <1>2, <2>2, <2>3, <2>4, <2>5 DEF FsTypes
<1>9. InCall = {s} \cup data /\ InCall' = {s} \cup data  BY <1>1, <1>2, <1>5 DEF InCall
<1>10. s \notin Live
  <2>1. s \in Live => s \in Foot(s) \cap InCall  BY <1>9 DEF Foot
  <2>2. QED  BY <1>0, <1>2, <2>1 DEF Apart
<1>11. Listed' = Listed /\ OneEntry'  BY <1>0, <1>2, NamesStay
<1>12. Live' = Live \cup {s}  BY <1>2, <1>5, <1>11 DEF Live
<1>13. s \notin Listed /\ open_inodes[s].open_cnt = 0
  <2>1. s \notin Listed /\ ~(open_inodes[s].open_cnt > 0)  BY <1>3, <1>10 DEF Live
  <2>2. open_inodes[s].open_cnt \in Nat  BY <1>0, <1>3, FsParts
  <2>3. QED  BY <2>1, <2>2
<1>14. CallSound'  BY <1>2, <1>4, <1>5, <1>6, <1>11, <1>13 DEF CallSound
<1>15. OpenSound'
  <2>1. \A t \in Device : OpenOn(t)' = OpenOn(t)  BY <1>2 DEF OpenOn
  <2>2. \A t \in Device : open_inodes[t].open_cnt > 0 => t # s  BY <1>13
  <2>3. QED  BY <1>0, <1>2, <1>6, <1>11, <2>1, <2>2 DEF OpenSound
<1>16. DenyCounts'  BY <1>0, <1>2, CountsStay
<1>17. Live \subseteq Device  BY <1>0, FsParts
<1>18. \A t \in Live : inode_disk'[t] = inode_disk[t] /\ wrote'[t] = wrote[t] /\ Foot(t)' = Foot(t)
  BY <1>6, <1>7, <1>10, <1>17 DEF Foot
<1>19. Extent(inode_disk'[s]) = data /\ Foot(s)' = {s} \cup data
  <2>1. inode_disk'[s].start = start /\ inode_disk'[s].length = z  BY <1>6
  <2>2. QED  BY <1>4, <2>1 DEF Extent, Foot
<1>20. Everywhere'  BY <1>0, <1>2, <1>9, <1>12, <1>18, <1>19 DEF Everywhere
<1>21. Apart'
  <2>1. \A t \in Live : Foot(t) \cap ({s} \cup data) = {}  BY <1>0, <1>2, <1>9 DEF Apart
  <2>2. {s} \cup data \subseteq free_map  BY <1>0, <1>9 DEF Everywhere
  <2>3. ({s} \cup data) \cap System = {} /\ ({s} \cup data) \cap lost = {}  BY <1>0, <1>9 DEF Apart
  <2>4. \A t \in Live' : Foot(t)' \subseteq free_map' \ System /\ t \notin Extent(inode_disk'[t])
    BY <1>0, <1>2, <1>4, <1>12, <1>18, <1>19, <2>2, <2>3 DEF Apart
  <2>5. \A t, u \in Live' : t # u => Foot(t)' \cap Foot(u)' = {}
    <3>1. ASSUME NEW t \in Live, NEW u \in Live, t # u PROVE Foot(t)' \cap Foot(u)' = {}
      BY <1>0, <1>18, <3>1 DEF Apart
    <3>2. \A t \in Live : Foot(t)' \cap Foot(s)' = {}  BY <1>18, <1>19, <2>1
    <3>3. QED  BY <1>12, <3>1, <3>2
  <2>6. \A t \in Live' : Foot(t)' \cap lost' = {}
    BY <1>0, <1>2, <1>12, <1>18, <1>19, <2>3 DEF Apart
  <2>7. \A t \in Live' : Foot(t)' \cap InCall' # {} => t = s  BY <1>9, <1>12, <1>18, <2>1
  <2>8. QED  BY <1>0, <1>2, <1>5, <1>9, <2>3, <2>4, <2>5, <2>6, <2>7 DEF Apart
<1>22. Lengths'
  <2>1. DOMAIN wrote'[s] = 0 .. z - 1 /\ inode_disk'[s].length = z  BY <1>6, <1>7
  <2>2. QED  BY <1>0, <1>12, <1>18, <2>1 DEF Lengths
<1>23. BytesKept'
  <2>1. ASSUME NEW t \in Live, NEW b \in DOMAIN wrote[t]
        PROVE  block'[inode_disk'[t].start + (b \div BlockBytes)][b % BlockBytes] = wrote'[t][b]
    <3>1. PICK d : d = inode_disk[t].start + (b \div BlockBytes)  OBVIOUS
    <3>2. d \in Extent(inode_disk[t])  BY <1>0, <3>1, ByteInFile
    <3>3. d \in Foot(t) /\ d \in free_map  BY <1>0, <3>2 DEF Foot, Apart
    <3>4. d \in Device /\ d \notin data  BY <1>0, <1>2, <1>9, <3>3 DEF Apart, FsTypes
    <3>5. block'[d] = block[d]  BY <1>2, <3>4
    <3>6. block[d][b % BlockBytes] = wrote[t][b]  BY <1>0, <3>1 DEF BytesKept
    <3>7. QED  BY <1>18, <3>1, <3>5, <3>6
  <2>2. ASSUME NEW b \in DOMAIN wrote'[s]
        PROVE  block'[inode_disk'[s].start + (b \div BlockBytes)][b % BlockBytes] = wrote'[s][b]
    <3>1. b \in 0 .. z - 1 /\ wrote'[s][b] = 0  BY <1>7
    <3>2. b \in Nat /\ b < z  BY <1>3, <3>1
    <3>3. /\ b \div BlockBytes \in Nat /\ b % BlockBytes \in 0 .. BlockBytes - 1
          /\ b \div BlockBytes < bytes_to_sectors(z) /\ bytes_to_sectors(z) \in Nat
      BY <1>3, <3>2, BytePlace
    <3>4. PICK d : d = start + (b \div BlockBytes)  OBVIOUS
    <3>5. \A q, c, y \in Nat : q < c => y + q \in y .. y + c - 1  OBVIOUS
    <3>6. d \in data  BY <1>3, <1>4, <3>3, <3>4, <3>5
    <3>7. block'[d] = [x \in 0 .. BlockBytes - 1 |-> 0]  BY <1>2, <1>3, <3>6
    <3>8. block'[d][b % BlockBytes] = 0  BY <3>3, <3>7
    <3>9. inode_disk'[s].start = start  BY <1>6
    <3>10. QED  BY <3>1, <3>4, <3>8, <3>9
  <2>3. QED  BY <1>12, <1>18, <2>1, <2>2 DEF BytesKept
<1>24. QED  BY <1>8, <1>11, <1>14, <1>15, <1>16, <1>20, <1>21, <1>22, <1>23 DEF FsInv

LEMMA IdleType ==
    /\ Idle \in [stage : {"none", "inode", "write", "add", "free", "free data"},
                 name : FsName \cup {NoEntry}, size : Nat, sector : Device, start : Nat,
                 data : SUBSET Device]
    /\ Idle.stage = "none"
<1>1. 0 \in Device  BY DeviceFacts DEF System
<1>2. QED  BY <1>1 DEF Idle

\* dir_add has no room or finds the name: only the inode's sector goes back.
LEMMA AddFails ==
    ASSUME FsInv, fscall.stage = "add", fscall' = Idle,
           free_map' = free_map \ {fscall.sector}, disk_map' = free_map', lost' = lost \cup fscall.data,
           UNCHANGED <<entry, inode_disk, block, open_inodes, file, wrote>>
    PROVE  FsInv'
<1>0. FsTypes /\ CallSound /\ OpenSound /\ Apart /\ OneEntry /\ Lengths /\ Everywhere /\ BytesKept /\ DenyCounts
  BY DEF FsInv
<1>1. PICK s, data : s = fscall.sector /\ data = fscall.data  OBVIOUS
<1>2. FsTypes'  BY <1>0, IdleType DEF FsTypes
<1>3. CallSound' /\ fscall'.stage = "none" /\ InCall' = {}  BY IdleType DEF CallSound, InCall
<1>4. Listed' = Listed /\ OneEntry'  BY <1>0, NamesStay
<1>5. OpenSound' /\ DenyCounts'  BY <1>0, <1>4, InodesStay, CountsStay
<1>6. s \notin Listed /\ ~(open_inodes[s].open_cnt > 0) /\ s \in Live
  <2>1. s \notin Listed /\ open_inodes[s].open_cnt = 0  BY <1>0, <1>1 DEF CallSound
  <2>2. QED  BY <1>1, <2>1 DEF Live
<1>7. Live' = Live \ {s}  BY <1>1, <1>3, <1>4, <1>6 DEF Live
<1>8. Lengths' /\ BytesKept'  BY <1>0, <1>7, BytesStay
<1>9. \A t : Foot(t)' = Foot(t) /\ Extent(inode_disk'[t]) = Extent(inode_disk[t])  BY DEF Foot
<1>10. Foot(s) = {s} \cup data /\ InCall = {s} \cup data /\ s \notin data
  <2>1. inode_disk[s].start = fscall.start /\ inode_disk[s].length = fscall.size
    BY <1>0, <1>1 DEF CallSound
  <2>2. Extent(inode_disk[s]) = data /\ s \notin data  BY <1>0, <1>1, <2>1 DEF CallSound, Extent
  <2>3. QED  BY <1>1, <2>2 DEF Foot, InCall
<1>11. \A t \in Live' : Foot(t) \cap ({s} \cup data) = {}  BY <1>0, <1>1, <1>7, <1>10 DEF Apart
<1>12. s \notin System /\ s \notin lost /\ data \cap System = {}  BY <1>0, <1>10 DEF Apart
<1>13. Everywhere'
  <2>1. ASSUME NEW x
        PROVE  x \in free_map' <=> \/ x \in System' \/ x \in lost' \/ x \in InCall'
                                   \/ \E t \in Live' : x \in Foot(t)'
    <3>1. x \in free_map' <=> (x \in free_map /\ x # s)  BY <1>1
    <3>2. x \in free_map <=> \/ x \in System \/ x \in lost \/ x \in {s} \cup data
                             \/ \E t \in Live : x \in Foot(t)
      BY <1>0, <1>10 DEF Everywhere
    <3>3. (\E t \in Live : x \in Foot(t)) <=> (x \in {s} \cup data \/ \E t \in Live' : x \in Foot(t))
      BY <1>6, <1>7, <1>10
    <3>4. x = s => x \notin System /\ x \notin lost /\ x \notin data /\ ~\E t \in Live' : x \in Foot(t)
      BY <1>10, <1>11, <1>12
    <3>5. System' = System  BY DEF System
    <3>6. QED  BY <1>1, <1>3, <1>9, <3>1, <3>2, <3>3, <3>4, <3>5
  <2>2. QED  BY <2>1 DEF Everywhere
<1>14. Apart'
  <2>1. \A t \in Live' : t \in Live /\ t # s  BY <1>7
  <2>2. \A t \in Live' : Foot(t) \subseteq free_map' \ System /\ t \notin Extent(inode_disk[t])
    BY <1>0, <1>1, <1>11, <2>1 DEF Apart
  <2>3. \A t \in Live' : Foot(t) \cap lost' = {}  BY <1>0, <1>1, <1>11, <2>1 DEF Apart
  <2>4. lost' \cap System = {}  BY <1>0, <1>1, <1>12 DEF Apart
  <2>5. QED  BY <1>0, <1>3, <1>9, <2>1, <2>2, <2>3, <2>4 DEF Apart
<1>15. QED  BY <1>2, <1>3, <1>4, <1>5, <1>8, <1>13, <1>14 DEF FsInv

LEMMA CreateAddStep ==
    ASSUME FsInv, CreateAdd
    PROVE  FsInv'
<1>0. FsTypes /\ CallSound /\ OpenSound /\ Apart /\ OneEntry /\ Lengths /\ Everywhere /\ BytesKept /\ DenyCounts
  BY DEF FsInv
<1>1. /\ fscall.stage = "add" /\ fscall' = Idle
      /\ UNCHANGED <<inode_disk, block, open_inodes, file, wrote, fsops>>
  BY DEF CreateAdd
<1>2. CASE lookup(fscall.name) # {} \/ FreeSlots = {}
  <2>1. /\ free_map' = free_map \ {fscall.sector} /\ disk_map' = free_map'
        /\ lost' = lost \cup fscall.data /\ UNCHANGED entry
    BY <1>2 DEF CreateAdd, Map
  <2>2. QED  BY <1>1, <2>1, AddFails
<1>3. CASE ~(lookup(fscall.name) # {} \/ FreeSlots = {})
  <2>1. PICK s, n : s = fscall.sector /\ n = fscall.name  OBVIOUS
  <2>2. PICK d \in FreeSlots : entry' = [entry EXCEPT ![d] = [name |-> n, sector |-> s]]
    BY <1>3, <2>1 DEF CreateAdd
  <2>3. UNCHANGED <<free_map, disk_map, lost>>  BY <1>3 DEF CreateAdd
  <2>4. d \in 1 .. Slots /\ entry[d] = NoEntry /\ d \notin Used  BY <2>2 DEF FreeSlots, Used
  <2>5. n \in FsName /\ s \in Device  BY <1>0, <1>1, <2>1, FsParts DEF FsTypes
  <2>6. [name |-> n, sector |-> s] \in Entries /\ [name |-> n, sector |-> s] # NoEntry
    BY <2>5, NoEntryAssumption DEF Entries, Device
  <2>7. entry'[d] = [name |-> n, sector |-> s] /\ \A e \in 1 .. Slots : e # d => entry'[e] = entry[e]
    BY <1>0, <2>2, <2>4 DEF FsTypes
  <2>8. FsTypes'
    <3>1. entry' \in [1 .. Slots -> Entries \cup {NoEntry}]  BY <1>0, <2>2, <2>6 DEF FsTypes
    <3>2. QED  BY <1>0, <1>1, <2>3, <3>1, IdleType DEF FsTypes
  <2>9. Used' = Used \cup {d}  BY <2>4, <2>6, <2>7 DEF Used
  <2>10. \A e \in Used : e \in 1 .. Slots /\ e # d /\ entry'[e] = entry[e]  BY <2>4, <2>7 DEF Used
  <2>11. entry'[d].sector = s  BY <2>7
  <2>12. Listed' = Listed \cup {s}
    <3>1. Listed = {entry[e].sector : e \in Used}  BY <1>0, FsParts
    <3>2. Listed' = {entry'[e].sector : e \in Used'}  BY <2>8, FsParts DEF Listed, Used
    <3>3. QED  BY <2>9, <2>10, <2>11, <3>1, <3>2
  <2>13. s \notin Listed /\ open_inodes[s].open_cnt = 0  BY <1>0, <1>1, <2>1 DEF CallSound
  <2>14. OneEntry'
    <3>1. \A e \in Used : entry[e].sector # s
      <4>1. \A e \in Used : entry[e].sector \in Listed  BY <1>0, FsParts
      <4>2. QED  BY <2>13, <4>1
    <3>2. QED  BY <1>0, <2>9, <2>10, <2>11, <3>1 DEF OneEntry
  <2>15. CallSound' /\ fscall'.stage = "none" /\ InCall' = {}  BY <1>1, IdleType DEF CallSound, InCall
  <2>16. Live' = Live  BY <1>1, <2>1, <2>12, <2>15 DEF Live
  <2>17. Lengths' /\ BytesKept'  BY <1>0, <1>1, <2>16, BytesStay
  <2>18. DenyCounts'  BY <1>0, <1>1, CountsStay
  <2>19. OpenSound'
    <3>1. \A t \in Device : OpenOn(t)' = OpenOn(t)  BY <1>1 DEF OpenOn
    <3>2. \A t \in Device : open_inodes[t].open_cnt > 0 => (t \in Listed' <=> t \in Listed)
      BY <2>12, <2>13
    <3>3. QED  BY <1>0, <1>1, <3>1, <3>2 DEF OpenSound
  <2>20. \A t : Foot(t)' = Foot(t) /\ Extent(inode_disk'[t]) = Extent(inode_disk[t])  BY <1>1 DEF Foot
  <2>21. InCall = Foot(s) /\ s \in Live
    <3>1. inode_disk[s].start = fscall.start /\ inode_disk[s].length = fscall.size
      BY <1>0, <1>1, <2>1 DEF CallSound
    <3>2. Extent(inode_disk[s]) = fscall.data  BY <1>0, <1>1, <3>1 DEF CallSound, Extent
    <3>3. QED  BY <1>1, <2>1, <3>2 DEF Foot, InCall, Live
  <2>22. Everywhere'  BY <1>0, <2>3, <2>15, <2>16, <2>20, <2>21 DEF Everywhere
  <2>23. Apart'  BY <1>0, <2>3, <2>15, <2>16, <2>20 DEF Apart
  <2>24. QED  BY <2>8, <2>14, <2>15, <2>17, <2>18, <2>19, <2>22, <2>23 DEF FsInv
<1>4. QED  BY <1>2, <1>3

\* The two free_map_release of a removed file's last close.
LEMMA FreeStepInv ==
    ASSUME FsInv, FreeInode \/ FreeData
    PROVE  FsInv'
<1>0. FsTypes /\ CallSound /\ OpenSound /\ Apart /\ OneEntry /\ Lengths /\ Everywhere /\ BytesKept /\ DenyCounts
  BY DEF FsInv
<1>1. UNCHANGED <<entry, inode_disk, block, open_inodes, file, lost, wrote>>
  BY DEF FreeInode, FreeData
<1>2. PICK gone, rest : InCall = gone \cup rest /\ gone \cap rest = {}
        /\ free_map' = free_map \ gone /\ disk_map' = free_map' /\ InCall' = rest
        /\ fscall'.stage \in {"free data", "none"} /\ fscall.stage \in {"free", "free data"} /\ CallSound' /\ FsTypes'
  <2>1. CASE FreeInode
    <3>1. /\ fscall.stage = "free" /\ fscall' = [fscall EXCEPT !.stage = "free data"]
          /\ free_map' = free_map \ {fscall.sector} /\ disk_map' = free_map'
      BY <2>1 DEF FreeInode, Map
    <3>2. fscall'.stage = "free data" /\ fscall'.data = fscall.data  BY <1>0, <3>1 DEF FsTypes
    <3>3. FsTypes'
      <4>1. fscall' \in [stage : {"none", "inode", "write", "add", "free", "free data"},
                         name : FsName \cup {NoEntry}, size : Nat, sector : Device, start : Nat,
                         data : SUBSET Device]
        BY <1>0, <3>1 DEF FsTypes
      <4>2. QED  BY <1>0, <1>1, <3>1, <3>2, <4>1 DEF FsTypes
    <3>4. CallSound'  BY <3>2 DEF CallSound
    <3>5. InCall = {fscall.sector} \cup fscall.data /\ InCall' = fscall.data  BY <3>1, <3>2 DEF InCall
    <3>6. {fscall.sector} \cap fscall.data = {}  BY <1>0, <3>1 DEF CallSound
    <3>7. QED  BY <3>1, <3>2, <3>3, <3>4, <3>5, <3>6
  <2>2. CASE FreeData
    <3>1. /\ fscall.stage = "free data" /\ fscall' = Idle
          /\ free_map' = free_map \ fscall.data /\ disk_map' = free_map'
      BY <2>2 DEF FreeData, Map
    <3>2. fscall'.stage = "none" /\ CallSound' /\ InCall' = {}  BY <3>1, IdleType DEF CallSound, InCall
    <3>3. FsTypes'  BY <1>0, <1>1, <3>1, IdleType DEF FsTypes
    <3>4. InCall = fscall.data \cup {}  BY <3>1 DEF InCall
    <3>5. fscall.data \cap {} = {}  OBVIOUS
    <3>6. QED  BY <3>1, <3>2, <3>3, <3>4, <3>5
  <2>3. QED  BY <2>1, <2>2
<1>3. Listed' = Listed /\ OneEntry'  BY <1>0, <1>1, NamesStay
<1>4. OpenSound' /\ DenyCounts'  BY <1>0, <1>1, <1>3, InodesStay, CountsStay
<1>5. Live' = Live  BY <1>1, <1>2, <1>3 DEF Live
<1>6. Lengths' /\ BytesKept'  BY <1>0, <1>1, <1>5, BytesStay
<1>7. \A t : Foot(t)' = Foot(t) /\ Extent(inode_disk'[t]) = Extent(inode_disk[t])  BY <1>1 DEF Foot
<1>8. \A t \in Live : Foot(t) \cap (gone \cup rest) = {}  BY <1>0, <1>2 DEF Apart
<1>9. (gone \cup rest) \cap System = {} /\ (gone \cup rest) \cap lost = {}  BY <1>0, <1>2 DEF Apart
<1>10. Everywhere'
  <2>1. ASSUME NEW x
        PROVE  x \in free_map' <=> \/ x \in System \/ x \in lost \/ x \in rest
                                   \/ \E t \in Live : x \in Foot(t)
    <3>1. x \in free_map <=> \/ x \in System \/ x \in lost \/ x \in gone \/ x \in rest
                             \/ \E t \in Live : x \in Foot(t)
      BY <1>0, <1>2 DEF Everywhere
    <3>2. x \in gone => /\ x \notin System /\ x \notin lost /\ x \notin rest
                        /\ ~\E t \in Live : x \in Foot(t)
      BY <1>2, <1>8, <1>9
    <3>3. x \in free_map' <=> (x \in free_map /\ x \notin gone)  BY <1>2
    <3>4. QED  BY <3>1, <3>2, <3>3
  <2>2. QED  BY <1>1, <1>2, <1>5, <1>7, <2>1 DEF Everywhere
<1>11. Apart'
  <2>1. \A t \in Live : Foot(t) \subseteq free_map' \ System  BY <1>0, <1>2, <1>8 DEF Apart
  <2>2. \A t \in Live : Foot(t) \cap rest = {}  BY <1>8
  <2>3. rest \cap System = {} /\ rest \cap lost = {}  BY <1>9
  <2>4. QED  BY <1>0, <1>1, <1>2, <1>5, <1>7, <2>1, <2>2, <2>3 DEF Apart
<1>12. QED  BY <1>2, <1>3, <1>4, <1>6, <1>10, <1>11 DEF FsInv

\* The openers of an inode.
LEMMA Openers ==
    ASSUME FsTypes, OpenSound, DenyCounts, NEW s \in Device
    PROVE  /\ IsFiniteSet(OpenOn(s)) /\ IsFiniteSet(DenyOn(s)) /\ DenyOn(s) \subseteq OpenOn(s)
           /\ open_inodes[s].open_cnt = Cardinality(OpenOn(s))
           /\ open_inodes[s].deny = Cardinality(DenyOn(s))
<1>1. DenyOn(s) \in SUBSET OpenOn(s)  BY DEF DenyOn, OpenOn, Shut
<1>2. IsFiniteSet(OpenOn(s))  BY DEF OpenSound
<1>3. IsFiniteSet(DenyOn(s))  BY <1>1, <1>2, FS_Subset
<1>4. QED  BY <1>1, <1>2, <1>3 DEF DenyCounts, OpenOn, DenyOn

\* filesys_open.
LEMMA OpenStep ==
    ASSUME FsInv, NEW f \in FsFile, NEW name \in FsName, Open(f, name)
    PROVE  FsInv'
<1>0. FsTypes /\ CallSound /\ OpenSound /\ Apart /\ OneEntry /\ Lengths /\ Everywhere /\ BytesKept /\ DenyCounts
  BY DEF FsInv
<1>1. PICK e \in lookup(name) :
        /\ open_inodes' = [open_inodes EXCEPT ![entry[e].sector] = inode_open(entry[e].sector)]
        /\ file' = [file EXCEPT ![f] = [sector |-> entry[e].sector, pos |-> 0, deny |-> FALSE]]
  BY DEF Open
<1>2. PICK s : s = entry[e].sector  OBVIOUS
<1>3. /\ fscall.stage = "none" /\ file[f] = Shut
      /\ UNCHANGED <<free_map, disk_map, entry, inode_disk, block, fscall, lost, wrote>>
  BY DEF Open
<1>4. e \in Used  BY DEF lookup, Used
<1>5. s \in Device /\ s \in Listed /\ s \in Live /\ s \notin System
  <2>1. s \in Device /\ s \in Listed  BY <1>0, <1>2, <1>4, FsParts
  <2>2. s \in Live  BY <2>1 DEF Live
  <2>3. s \notin System  BY <1>0, <2>2 DEF Apart, Foot
  <2>4. QED  BY <2>1, <2>2, <2>3
<1>6. /\ file'[f] = [sector |-> s, pos |-> 0, deny |-> FALSE]
      /\ \A g \in FsFile : g # f => file'[g] = file[g]
      /\ open_inodes'[s] = inode_open(s) /\ \A t \in Device : t # s => open_inodes'[t] = open_inodes[t]
  BY <1>0, <1>1, <1>2, <1>5 DEF FsTypes
<1>7. /\ open_inodes[s].open_cnt \in Nat /\ open_inodes[s].deny \in Int /\ open_inodes[s].removed \in BOOLEAN
      /\ inode_disk[s].start \in Nat /\ inode_disk[s].length \in Nat
      /\ open_inodes[s] \in [open_cnt : Nat, removed : BOOLEAN, deny : Int, start : Nat, length : Nat]
  BY <1>0, <1>5, FsParts DEF FsTypes
<1>8. /\ inode_open(s).open_cnt = open_inodes[s].open_cnt + 1 /\ inode_open(s).deny = open_inodes[s].deny
      /\ inode_open(s).removed = open_inodes[s].removed /\ ~open_inodes[s].removed
      /\ inode_open(s).start = inode_disk[s].start /\ inode_open(s).length = inode_disk[s].length
      /\ inode_open(s) \in [open_cnt : Nat, removed : BOOLEAN, deny : Int, start : Nat, length : Nat]
  <2>1. CASE open_inodes[s].open_cnt > 0
    <3>1. inode_open(s) = [open_inodes[s] EXCEPT !.open_cnt = open_inodes[s].open_cnt + 1]
      BY <2>1 DEF inode_open
    <3>2. open_inodes[s].start = inode_disk[s].start /\ open_inodes[s].length = inode_disk[s].length
          /\ ~open_inodes[s].removed
      BY <1>0, <1>5, <2>1 DEF OpenSound
    <3>3. open_inodes[s].open_cnt + 1 \in Nat  BY <1>7
    <3>4. QED  BY <1>7, <3>1, <3>2, <3>3
  <2>2. CASE ~(open_inodes[s].open_cnt > 0)
    <3>1. open_inodes[s].open_cnt = 0  BY <1>7, <2>2
    <3>2. open_inodes[s] = NotOpen  BY <1>0, <1>5, <3>1 DEF OpenSound
    <3>3. inode_open(s) = [open_cnt |-> 1, removed |-> FALSE, deny |-> 0,
                           start |-> inode_disk[s].start, length |-> inode_disk[s].length]
      BY <2>2 DEF inode_open, NotOpen
    <3>4. QED  BY <1>7, <3>1, <3>2, <3>3 DEF NotOpen
  <2>3. QED  BY <2>1, <2>2
<1>9. FsTypes'
  <2>1. [sector |-> s, pos |-> 0, deny |-> FALSE] \in [sector : Device, pos : Nat, deny : BOOLEAN]
    BY <1>5
  <2>2. file' \in [FsFile -> [sector : Device, pos : Nat, deny : BOOLEAN]]
    BY <1>0, <1>1, <1>2, <2>1 DEF FsTypes
  <2>3. open_inodes' \in [Device -> [open_cnt : Nat, removed : BOOLEAN, deny : Int, start : Nat, length : Nat]]
    BY <1>0, <1>1, <1>2, <1>8 DEF FsTypes
  <2>4. QED  BY <1>0, <1>3, <2>2, <2>3 DEF FsTypes
<1>10. Listed' = Listed /\ OneEntry'  BY <1>0, <1>3, NamesStay
<1>11. CallSound'  BY <1>0, <1>3 DEF CallSound, Idle
<1>12. file'[f] # Shut /\ file'[f].sector = s /\ file'[f].deny = FALSE /\ 0 \in System
  <2>1. 0 \in System  BY DEF System
  <2>2. QED  BY <1>5, <1>6, <2>1 DEF Shut
<1>13. OpenOn(s)' = OpenOn(s) \cup {f} /\ f \notin OpenOn(s)
       /\ \A t \in Device : t # s => OpenOn(t)' = OpenOn(t)
  BY <1>3, <1>6, <1>12 DEF OpenOn
<1>14. \A t \in Device : DenyOn(t)' = DenyOn(t)
  <2>1. \A t \in Device : f \notin DenyOn(t) /\ f \notin DenyOn(t)'  BY <1>3, <1>12 DEF DenyOn, Shut
  <2>2. QED  BY <1>6, <2>1 DEF DenyOn
<1>15. IsFiniteSet(OpenOn(s)') /\ Cardinality(OpenOn(s)') = open_inodes[s].open_cnt + 1
  BY <1>0, <1>5, <1>13, Openers, FS_AddElement
<1>16. OpenSound'
  <2>1. \A t \in Device : IsFiniteSet(OpenOn(t)')  BY <1>0, <1>13, <1>15 DEF OpenSound
  <2>2. \A g \in FsFile : file'[g].sector \in System => file'[g] = Shut
    BY <1>0, <1>5, <1>6, <1>12 DEF OpenSound
  <2>3. open_inodes'[s].open_cnt # 0  BY <1>6, <1>7, <1>8
  <2>4. \A t \in Device : open_inodes'[t].open_cnt = 0 => open_inodes'[t] = NotOpen
    BY <1>0, <1>6, <2>3 DEF OpenSound
  <2>5. \A t \in Device : open_inodes'[t].open_cnt > 0 =>
          /\ open_inodes'[t].start = inode_disk'[t].start /\ open_inodes'[t].length = inode_disk'[t].length
          /\ open_inodes'[t].removed <=> t \notin Listed'
    <3>1. /\ open_inodes'[s].start = inode_disk'[s].start /\ open_inodes'[s].length = inode_disk'[s].length
          /\ open_inodes'[s].removed <=> s \notin Listed'
      BY <1>3, <1>5, <1>6, <1>8, <1>10
    <3>2. QED  BY <1>0, <1>3, <1>6, <1>10, <3>1 DEF OpenSound
  <2>6. QED  BY <2>1, <2>2, <2>4, <2>5 DEF OpenSound
<1>17. DenyCounts'
  <2>1. \A t \in Device : /\ open_inodes'[t].deny = Cardinality(DenyOn(t)')
                          /\ open_inodes'[t].open_cnt = Cardinality(OpenOn(t)')
    <3>1. open_inodes'[s].deny = Cardinality(DenyOn(s)') /\ open_inodes'[s].open_cnt = Cardinality(OpenOn(s)')
      BY <1>0, <1>5, <1>6, <1>8, <1>14, <1>15, Openers
    <3>2. QED  BY <1>0, <1>6, <1>13, <1>14, <3>1, Openers
  <2>2. QED  BY <2>1 DEF DenyCounts, DenyOn, OpenOn
<1>18. Live' = Live
  <2>1. \A t \in Device : t # s => (open_inodes'[t].open_cnt > 0 <=> open_inodes[t].open_cnt > 0)  BY <1>6
  <2>2. QED  BY <1>3, <1>5, <1>10, <2>1 DEF Live
<1>19. Apart' /\ Everywhere'  BY <1>0, <1>3, <1>18, OwnersStay
<1>20. Lengths' /\ BytesKept'  BY <1>0, <1>3, <1>18, BytesStay
<1>21. QED  BY <1>9, <1>10, <1>11, <1>16, <1>17, <1>19, <1>20 DEF FsInv

\* A struct inode after inode_close by one of its openers.
Closed(ino, deny) ==
    IF ino.open_cnt = 1 THEN NotOpen
    ELSE [ino EXCEPT !.open_cnt = @ - 1, !.deny = @ - (IF deny THEN 1 ELSE 0)]

\* What one opener less leaves of the inode at s and of the open files.
OneLess(s) ==
    /\ s \in Device /\ s \notin System /\ open_inodes[s].open_cnt > 0
    /\ \A t \in Device : t # s => open_inodes'[t] = open_inodes[t]
    /\ open_inodes[s].open_cnt = 1 => open_inodes'[s] = NotOpen
    /\ open_inodes[s].open_cnt # 1 =>
         /\ open_inodes'[s].open_cnt > 0
         /\ open_inodes'[s].removed = open_inodes[s].removed
         /\ open_inodes'[s].start = open_inodes[s].start /\ open_inodes'[s].length = open_inodes[s].length
    /\ open_inodes' \in [Device -> [open_cnt : Nat, removed : BOOLEAN, deny : Int, start : Nat, length : Nat]]
    /\ file' \in [FsFile -> [sector : Device, pos : Nat, deny : BOOLEAN]]
    /\ DenyCounts' /\ \A t \in Device : IsFiniteSet(OpenOn(t)')
    /\ \A g \in FsFile : file'[g].sector \in System => file'[g] = Shut

\* inode_close: an opener less, and none is left with a count of one.
LEMMA OneOpenerLess ==
    ASSUME FsInv, NEW f \in FsFile, file[f] # Shut, NEW s, s = file[f].sector,
           file' = [file EXCEPT ![f] = Shut],
           open_inodes' = [open_inodes EXCEPT ![s] = Closed(open_inodes[s], file[f].deny)]
    PROVE  OneLess(s)
<1>0. FsTypes /\ OpenSound /\ DenyCounts  BY DEF FsInv
<1>1. PICK ino : ino = open_inodes[s]  OBVIOUS
<1>2. PICK fewer : fewer = IF file[f].deny THEN 1 ELSE 0  OBVIOUS
<1>3. /\ s \in Device /\ s \notin System /\ file[f].deny \in BOOLEAN /\ fewer \in {0, 1}
      /\ ino \in [open_cnt : Nat, removed : BOOLEAN, deny : Int, start : Nat, length : Nat]
  <2>1. s \in Device /\ file[f].deny \in BOOLEAN  BY <1>0, FsParts
  <2>2. s \notin System  BY <1>0 DEF OpenSound
  <2>3. QED  BY <1>0, <1>1, <1>2, <2>1, <2>2 DEF FsTypes
<1>4. /\ file'[f] = Shut /\ \A g \in FsFile : g # f => file'[g] = file[g]
      /\ \A t \in Device : t # s => open_inodes'[t] = open_inodes[t]
      /\ open_inodes'[s] = IF ino.open_cnt = 1 THEN NotOpen
                           ELSE [ino EXCEPT !.open_cnt = ino.open_cnt - 1, !.deny = ino.deny - fewer]
  BY <1>0, <1>1, <1>2, <1>3 DEF FsTypes, Closed
<1>5. /\ OpenOn(s)' = OpenOn(s) \ {f} /\ f \in OpenOn(s)
      /\ \A t \in Device : t # s => OpenOn(t)' = OpenOn(t)
  BY <1>3, <1>4 DEF OpenOn
<1>6. /\ DenyOn(s)' = DenyOn(s) \ {f} /\ (f \in DenyOn(s) <=> file[f].deny)
      /\ \A t \in Device : t # s => DenyOn(t)' = DenyOn(t)
  <2>1. \A t \in Device : f \notin DenyOn(t)'  BY <1>4 DEF DenyOn, Shut
  <2>2. f \in DenyOn(s) <=> file[f].deny  BY DEF DenyOn
  <2>3. \A t \in Device : t # s => f \notin DenyOn(t)  BY DEF DenyOn
  <2>4. \A t \in Device : \A g \in FsFile : g # f => (g \in DenyOn(t)' <=> g \in DenyOn(t))
    BY <1>4 DEF DenyOn
  <2>5. \A t \in Device : DenyOn(t) \subseteq FsFile /\ DenyOn(t)' \subseteq FsFile  BY DEF DenyOn
  <2>6. DenyOn(s)' = DenyOn(s) \ {f}  BY <1>3, <2>1, <2>4, <2>5
  <2>7. \A t \in Device : t # s => DenyOn(t)' = DenyOn(t)
    <3>1. ASSUME NEW t \in Device, t # s PROVE DenyOn(t)' = DenyOn(t)
      BY <2>1, <2>3, <2>4, <2>5, <3>1
    <3>2. QED  BY <3>1
  <2>8. QED  BY <2>2, <2>6, <2>7
<1>7. /\ IsFiniteSet(OpenOn(s)) /\ IsFiniteSet(DenyOn(s)) /\ DenyOn(s) \subseteq OpenOn(s)
      /\ ino.open_cnt = Cardinality(OpenOn(s)) /\ ino.deny = Cardinality(DenyOn(s))
  BY <1>0, <1>1, <1>3, Openers
<1>8. /\ IsFiniteSet(OpenOn(s) \ {f}) /\ Cardinality(OpenOn(s) \ {f}) = ino.open_cnt - 1
      /\ ino.open_cnt - 1 \in Nat
  <2>1. IsFiniteSet(OpenOn(s) \ {f}) /\ Cardinality(OpenOn(s) \ {f}) = Cardinality(OpenOn(s)) - 1
    BY <1>5, <1>7, FS_RemoveElement
  <2>2. Cardinality(OpenOn(s) \ {f}) \in Nat  BY <2>1, FS_CardinalityType
  <2>3. QED  BY <1>7, <2>1, <2>2
<1>9. Cardinality(DenyOn(s) \ {f}) = ino.deny - fewer
  <2>1. CASE file[f].deny
    <3>1. Cardinality(DenyOn(s) \ {f}) = Cardinality(DenyOn(s)) - 1
      BY <1>6, <1>7, <2>1, FS_RemoveElement
    <3>2. QED  BY <1>2, <1>7, <2>1, <3>1
  <2>2. CASE ~file[f].deny
    <3>1. DenyOn(s) \ {f} = DenyOn(s)  BY <1>6, <2>2
    <3>2. fewer = 0 /\ ino.deny \in Int  BY <1>2, <1>3, <2>2
    <3>3. QED  BY <1>7, <3>1, <3>2
  <2>3. QED  BY <2>1, <2>2
<1>10. ino.open_cnt > 0 /\ (ino.open_cnt # 1 => ino.open_cnt - 1 > 0) /\ ino.deny - fewer \in Int
  BY <1>3, <1>8
<1>11. ino.open_cnt = 1 => OpenOn(s) \ {f} = {} /\ DenyOn(s) \ {f} = {}
  <2>1. ino.open_cnt = 1 => Cardinality(OpenOn(s) \ {f}) = 0  BY <1>8
  <2>2. ino.open_cnt = 1 => OpenOn(s) \ {f} = {}  BY <1>8, <2>1, FS_EmptySet
  <2>3. QED  BY <1>7, <2>2
<1>12. open_inodes'[s].open_cnt = Cardinality(OpenOn(s) \ {f})
       /\ open_inodes'[s].deny = Cardinality(DenyOn(s) \ {f})
       /\ open_inodes'[s] \in [open_cnt : Nat, removed : BOOLEAN, deny : Int, start : Nat, length : Nat]
       /\ (ino.open_cnt # 1 =>
                /\ open_inodes'[s].open_cnt > 0 /\ open_inodes'[s].removed = ino.removed
                /\ open_inodes'[s].start = ino.start /\ open_inodes'[s].length = ino.length)
  <2>1. CASE ino.open_cnt = 1
    <3>1. Cardinality({}) = 0  BY FS_EmptySet
    <3>2. open_inodes'[s] = NotOpen  BY <1>4, <2>1
    <3>3. /\ NotOpen.open_cnt = 0 /\ NotOpen.deny = 0
          /\ NotOpen \in [open_cnt : Nat, removed : BOOLEAN, deny : Int, start : Nat, length : Nat]
      BY DEF NotOpen
    <3>4. QED  BY <1>11, <2>1, <3>1, <3>2, <3>3
  <2>2. CASE ino.open_cnt # 1
    <3>1. open_inodes'[s] = [ino EXCEPT !.open_cnt = ino.open_cnt - 1, !.deny = ino.deny - fewer]
      BY <1>4, <2>2
    <3>2. open_inodes'[s].open_cnt = ino.open_cnt - 1 /\ open_inodes'[s].deny = ino.deny - fewer
          /\ open_inodes'[s].removed = ino.removed
          /\ open_inodes'[s].start = ino.start /\ open_inodes'[s].length = ino.length
      <4>1. PICK c, d : c = ino.open_cnt - 1 /\ d = ino.deny - fewer  OBVIOUS
      <4>2. open_inodes'[s] = [ino EXCEPT !.open_cnt = c, !.deny = d]  BY <3>1, <4>1
      <4>3. ino \in [open_cnt : Nat, removed : BOOLEAN, deny : Int, start : Nat, length : Nat]  BY <1>3
      <4>4. PICK r : r = [ino EXCEPT !.open_cnt = c, !.deny = d]  OBVIOUS
      <4>5. r.open_cnt = c /\ r.deny = d /\ r.removed = ino.removed /\ r.start = ino.start /\ r.length = ino.length
        BY <4>3, <4>4
      <4>6. QED  BY <4>1, <4>2, <4>4, <4>5
    <3>3. open_inodes'[s] \in [open_cnt : Nat, removed : BOOLEAN, deny : Int, start : Nat, length : Nat]
      <4>1. PICK c \in Nat, d \in Int : c = ino.open_cnt - 1 /\ d = ino.deny - fewer  BY <1>8, <1>10
      <4>2. open_inodes'[s] = [ino EXCEPT !.open_cnt = c, !.deny = d]  BY <3>1, <4>1
      <4>3. ino \in [open_cnt : Nat, removed : BOOLEAN, deny : Int, start : Nat, length : Nat]  BY <1>3
      <4>4. [ino EXCEPT !.open_cnt = c]
              \in [open_cnt : Nat, removed : BOOLEAN, deny : Int, start : Nat, length : Nat]
        BY <4>3
      <4>5. PICK r : r = [ino EXCEPT !.open_cnt = c]  OBVIOUS
      <4>6. [r EXCEPT !.deny = d] \in [open_cnt : Nat, removed : BOOLEAN, deny : Int, start : Nat, length : Nat]
        BY <4>4, <4>5
      <4>7. open_inodes'[s] = [r EXCEPT !.deny = d]  BY <4>2, <4>3, <4>5
      <4>8. QED  BY <4>6, <4>7
    <3>4. QED  BY <1>8, <1>9, <1>10, <2>2, <3>2, <3>3
  <2>3. QED  BY <2>1, <2>2
<1>13. DenyCounts'
  <2>1. \A t \in Device : /\ open_inodes'[t].deny = Cardinality(DenyOn(t)')
                          /\ open_inodes'[t].open_cnt = Cardinality(OpenOn(t)')
    <3>1. open_inodes'[s].deny = Cardinality(DenyOn(s)') /\ open_inodes'[s].open_cnt = Cardinality(OpenOn(s)')
      BY <1>5, <1>6, <1>12
    <3>2. QED  BY <1>0, <1>4, <1>5, <1>6, <3>1, Openers
  <2>2. QED  BY <2>1 DEF DenyCounts, DenyOn, OpenOn
<1>14. \A t \in Device : IsFiniteSet(OpenOn(t)')  BY <1>0, <1>5, <1>8 DEF OpenSound
<1>15. open_inodes' \in [Device -> [open_cnt : Nat, removed : BOOLEAN, deny : Int, start : Nat, length : Nat]]
  <2>1. open_inodes' = [open_inodes EXCEPT ![s] = open_inodes'[s]]  BY <1>0, <1>3 DEF FsTypes
  <2>2. QED  BY <1>0, <1>3, <1>12, <2>1 DEF FsTypes
<1>16. file' \in [FsFile -> [sector : Device, pos : Nat, deny : BOOLEAN]]
  <2>1. 0 \in Device  BY DeviceFacts DEF System
  <2>2. Shut \in [sector : Device, pos : Nat, deny : BOOLEAN]  BY <2>1 DEF Shut
  <2>3. QED  BY <1>0, <2>2 DEF FsTypes
<1>17. \A g \in FsFile : file'[g].sector \in System => file'[g] = Shut
  BY <1>0, <1>4 DEF OpenSound
<1>18. open_inodes[s].open_cnt = 1 => open_inodes'[s] = NotOpen  BY <1>1, <1>4
<1>19. QED  BY <1>1, <1>3, <1>4, <1>10, <1>12, <1>13, <1>14, <1>15, <1>16, <1>17, <1>18 DEF OneLess

\* The call that frees a file's sectors.
LEMMA FreeingCall ==
    ASSUME FsTypes, Apart, NEW s \in Live, NEW ino,
           ino.start = inode_disk[s].start, ino.length = inode_disk[s].length, Freeing(s, ino)
    PROVE  /\ fscall'.stage = "free" /\ fscall'.sector = s /\ fscall'.data = Extent(inode_disk[s])
           /\ s \notin fscall'.data
           /\ fscall' \in [stage : {"none", "inode", "write", "add", "free", "free data"},
                           name : FsName \cup {NoEntry}, size : Nat, sector : Device, start : Nat,
                           data : SUBSET Device]
<1>1. PICK data : data = Extent(inode_disk[s])  OBVIOUS
<1>2. Extent(ino) = data  BY <1>1 DEF Extent
<1>3. fscall' = [stage |-> "free", name |-> NoEntry, size |-> 0, sector |-> s, start |-> 0, data |-> data]
  BY <1>2 DEF Freeing, Idle
<1>4. s \in Device /\ data \subseteq Device /\ s \notin data
  <2>1. Foot(s) \subseteq free_map /\ s \notin data  BY <1>1 DEF Apart
  <2>2. data \subseteq Foot(s)  BY <1>1 DEF Foot
  <2>3. s \in Device  BY FsParts
  <2>4. QED  BY <2>1, <2>2, <2>3 DEF FsTypes
<1>5. QED  BY <1>1, <1>3, <1>4

LEMMA CloseStep ==
    ASSUME FsInv, NEW f \in FsFile, Close(f)
    PROVE  FsInv'
<1>0. FsTypes /\ CallSound /\ OpenSound /\ Apart /\ OneEntry /\ Lengths /\ Everywhere /\ BytesKept /\ DenyCounts
  BY DEF FsInv
<1>1. PICK s : s = file[f].sector  OBVIOUS
<1>2. /\ fscall.stage = "none" /\ file[f] # Shut /\ file' = [file EXCEPT ![f] = Shut]
      /\ open_inodes' = [open_inodes EXCEPT ![s] = Closed(open_inodes[s], file[f].deny)]
      /\ UNCHANGED <<free_map, disk_map, entry, inode_disk, block, lost, wrote>>
  BY <1>1 DEF Close, Closed
<1>3. IF open_inodes[s].open_cnt = 1 /\ open_inodes[s].removed THEN Freeing(s, open_inodes[s]) ELSE fscall' = fscall
  BY <1>1 DEF Close
<1>4. /\ s \in Device /\ s \notin System /\ open_inodes[s].open_cnt > 0
      /\ \A t \in Device : t # s => open_inodes'[t] = open_inodes[t]
      /\ open_inodes[s].open_cnt = 1 => open_inodes'[s] = NotOpen
      /\ open_inodes[s].open_cnt # 1 =>
                /\ open_inodes'[s].open_cnt > 0
                /\ open_inodes'[s].removed = open_inodes[s].removed
                /\ open_inodes'[s].start = open_inodes[s].start /\ open_inodes'[s].length = open_inodes[s].length
      /\ open_inodes' \in [Device -> [open_cnt : Nat, removed : BOOLEAN, deny : Int, start : Nat, length : Nat]]
      /\ file' \in [FsFile -> [sector : Device, pos : Nat, deny : BOOLEAN]]
      /\ DenyCounts' /\ \A t \in Device : IsFiniteSet(OpenOn(t)')
      /\ \A g \in FsFile : file'[g].sector \in System => file'[g] = Shut
  <2>1. OneLess(s)  BY <1>1, <1>2, OneOpenerLess
  <2>2. QED  BY <2>1 DEF OneLess
<1>5. Listed' = Listed /\ OneEntry'  BY <1>0, <1>2, NamesStay
<1>6. /\ open_inodes[s].start = inode_disk[s].start /\ open_inodes[s].length = inode_disk[s].length
      /\ open_inodes[s].removed <=> s \notin Listed
  BY <1>0, <1>4 DEF OpenSound
<1>7. NotOpen.open_cnt = 0  BY DEF NotOpen
<1>8. OpenSound'
  <2>1. \A t \in Device : open_inodes'[t].open_cnt = 0 => open_inodes'[t] = NotOpen
    <3>1. open_inodes'[s].open_cnt = 0 => open_inodes'[s] = NotOpen  BY <1>4
    <3>2. QED  BY <1>0, <1>4, <3>1 DEF OpenSound
  <2>2. \A t \in Device : open_inodes'[t].open_cnt > 0 =>
          /\ open_inodes'[t].start = inode_disk'[t].start /\ open_inodes'[t].length = inode_disk'[t].length
          /\ open_inodes'[t].removed <=> t \notin Listed'
    <3>1. open_inodes'[s].open_cnt > 0 =>
          /\ open_inodes'[s].start = inode_disk'[s].start /\ open_inodes'[s].length = inode_disk'[s].length
          /\ open_inodes'[s].removed <=> s \notin Listed'
      BY <1>2, <1>4, <1>5, <1>6, <1>7
    <3>2. QED  BY <1>0, <1>2, <1>4, <1>5, <3>1 DEF OpenSound
  <2>3. QED  BY <1>4, <2>1, <2>2 DEF OpenSound
<1>9. \A t \in Device : t # s => (open_inodes'[t].open_cnt > 0 <=> open_inodes[t].open_cnt > 0)  BY <1>4
<1>10. s \in Live  BY <1>4 DEF Live
<1>11. CASE open_inodes[s].open_cnt = 1 /\ open_inodes[s].removed
  <2>1. /\ fscall'.stage = "free" /\ fscall'.sector = s /\ fscall'.data = Extent(inode_disk[s])
        /\ s \notin fscall'.data
        /\ fscall' \in [stage : {"none", "inode", "write", "add", "free", "free data"},
                        name : FsName \cup {NoEntry}, size : Nat, sector : Device, start : Nat,
                        data : SUBSET Device]
    BY <1>0, <1>3, <1>6, <1>10, <1>11, FreeingCall
  <2>2. FsTypes'  BY <1>0, <1>2, <1>4, <2>1 DEF FsTypes
  <2>3. CallSound'  BY <2>1 DEF CallSound
  <2>4. s \notin Listed /\ ~(open_inodes'[s].open_cnt > 0)  BY <1>4, <1>6, <1>7, <1>11
  <2>5. Live' = Live \ {s}  BY <1>2, <1>5, <1>9, <2>1, <2>4 DEF Live
  <2>6. Apart' /\ Everywhere'  BY <1>0, <1>2, <1>10, <2>1, <2>5, OwnersFreed
  <2>7. Lengths' /\ BytesKept'  BY <1>0, <1>2, <2>5, BytesStay
  <2>8. QED  BY <1>4, <1>5, <1>8, <2>2, <2>3, <2>6, <2>7 DEF FsInv
<1>12. CASE ~(open_inodes[s].open_cnt = 1 /\ open_inodes[s].removed)
  <2>1. fscall' = fscall  BY <1>3, <1>12
  <2>2. FsTypes'  BY <1>0, <1>2, <1>4, <2>1 DEF FsTypes
  <2>3. CallSound'  BY <1>0, <1>2, <2>1 DEF CallSound, Idle
  <2>4. Live' = Live
    <3>1. s \in Listed \/ open_inodes'[s].open_cnt > 0  BY <1>4, <1>6, <1>12
    <3>2. QED  BY <1>2, <1>5, <1>9, <1>10, <2>1, <3>1, <1>4 DEF Live
  <2>5. Apart' /\ Everywhere'  BY <1>0, <1>2, <2>1, <2>4, OwnersStay
  <2>6. Lengths' /\ BytesKept'  BY <1>0, <1>2, <2>4, BytesStay
  <2>7. QED  BY <1>4, <1>5, <1>8, <2>2, <2>3, <2>5, <2>6 DEF FsInv
<1>13. QED  BY <1>11, <1>12

\* filesys_remove.
LEMMA RemoveStep ==
    ASSUME FsInv, NEW name \in FsName, FsRemove(name)
    PROVE  FsInv'
<1>0. FsTypes /\ CallSound /\ OpenSound /\ Apart /\ OneEntry /\ Lengths /\ Everywhere /\ BytesKept /\ DenyCounts
  BY DEF FsInv
<1>1. PICK e \in lookup(name) :
        /\ entry' = [entry EXCEPT ![e] = NoEntry]
        /\ IF open_inodes[entry[e].sector].open_cnt > 0
           THEN open_inodes' = [open_inodes EXCEPT ![entry[e].sector].removed = TRUE] /\ UNCHANGED fscall
           ELSE Freeing(entry[e].sector, inode_disk[entry[e].sector]) /\ UNCHANGED open_inodes
  BY DEF FsRemove
<1>2. PICK s : s = entry[e].sector  OBVIOUS
<1>3. fscall.stage = "none" /\ UNCHANGED <<free_map, disk_map, inode_disk, block, file, lost, wrote>>
  BY DEF FsRemove
<1>4. e \in Used /\ e \in 1 .. Slots  BY DEF lookup, Used
<1>5. s \in Device /\ s \in Listed /\ s \in Live
  <2>1. s \in Device /\ s \in Listed  BY <1>0, <1>2, <1>4, FsParts
  <2>2. QED  BY <2>1 DEF Live
<1>6. entry'[e] = NoEntry /\ \A d \in 1 .. Slots : d # e => entry'[d] = entry[d]
  BY <1>0, <1>1, <1>4 DEF FsTypes
<1>7. entry' \in [1 .. Slots -> Entries \cup {NoEntry}]  BY <1>0, <1>1 DEF FsTypes
<1>8. Used' = Used \ {e} /\ \A d \in Used' : d \in Used /\ entry'[d] = entry[d]  BY <1>6 DEF Used
<1>9. OneEntry'  BY <1>0, <1>8 DEF OneEntry
<1>10. Listed' = Listed \ {s}
  <2>1. Listed = {entry[d].sector : d \in Used}  BY <1>0, FsParts
  <2>2. Listed' = {entry'[d].sector : d \in Used'}  BY DEF Listed, Used
  <2>3. \A d \in Used' : entry[d].sector # s  BY <1>0, <1>2, <1>4, <1>8 DEF OneEntry
  <2>4. QED  BY <1>2, <1>4, <1>8, <2>1, <2>2, <2>3
<1>11. \A t \in Device : OpenOn(t)' = OpenOn(t) /\ DenyOn(t)' = DenyOn(t)  BY <1>3 DEF OpenOn, DenyOn
<1>12. CASE open_inodes[s].open_cnt > 0
  <2>1. open_inodes' = [open_inodes EXCEPT ![s].removed = TRUE] /\ fscall' = fscall
    BY <1>1, <1>2, <1>12
  <2>2. open_inodes[s] \in [open_cnt : Nat, removed : BOOLEAN, deny : Int, start : Nat, length : Nat]
    BY <1>0, <1>5 DEF FsTypes
  <2>3. /\ open_inodes'[s].open_cnt = open_inodes[s].open_cnt /\ open_inodes'[s].removed = TRUE
        /\ open_inodes'[s].deny = open_inodes[s].deny /\ open_inodes'[s].start = open_inodes[s].start
        /\ open_inodes'[s].length = open_inodes[s].length
        /\ \A t \in Device : t # s => open_inodes'[t] = open_inodes[t]
    BY <1>0, <1>5, <2>1, <2>2 DEF FsTypes
  <2>4. FsTypes'
    <3>1. open_inodes \in [Device -> [open_cnt : Nat, removed : BOOLEAN, deny : Int, start : Nat, length : Nat]]
      BY <1>0 DEF FsTypes
    <3>2. PICK r \in [open_cnt : Nat, removed : BOOLEAN, deny : Int, start : Nat, length : Nat] :
            r = [open_inodes[s] EXCEPT !.removed = TRUE]
      BY <2>2
    <3>3. open_inodes' = [open_inodes EXCEPT ![s] = r]  BY <2>1, <3>2
    <3>4. open_inodes' \in [Device -> [open_cnt : Nat, removed : BOOLEAN, deny : Int, start : Nat, length : Nat]]
      BY <3>1, <3>3
    <3>5. QED  BY <1>0, <1>3, <1>7, <2>1, <3>4 DEF FsTypes
  <2>5. CallSound'  BY <1>0, <1>3, <2>1 DEF CallSound, Idle
  <2>6. \A t \in Device : open_inodes'[t].open_cnt = open_inodes[t].open_cnt /\ open_inodes'[t].deny = open_inodes[t].deny
    BY <2>3
  <2>7. DenyCounts'
    <3>1. \A t \in Device : /\ open_inodes'[t].deny = Cardinality(DenyOn(t)')
                            /\ open_inodes'[t].open_cnt = Cardinality(OpenOn(t)')
      BY <1>0, <1>11, <2>6, Openers
    <3>2. QED  BY <3>1 DEF DenyCounts, DenyOn, OpenOn
  <2>8. OpenSound'
    <3>1. \A t \in Device : open_inodes'[t].open_cnt = 0 => open_inodes'[t] = NotOpen
      <4>1. open_inodes'[s].open_cnt # 0  BY <1>12, <2>2, <2>3
      <4>2. QED  BY <1>0, <2>3, <4>1 DEF OpenSound
    <3>2. \A t \in Device : open_inodes'[t].open_cnt > 0 =>
            /\ open_inodes'[t].start = inode_disk'[t].start /\ open_inodes'[t].length = inode_disk'[t].length
            /\ open_inodes'[t].removed <=> t \notin Listed'
      <4>1. /\ open_inodes'[s].start = inode_disk'[s].start /\ open_inodes'[s].length = inode_disk'[s].length
            /\ open_inodes'[s].removed <=> s \notin Listed'
        BY <1>0, <1>3, <1>5, <1>10, <1>12, <2>3 DEF OpenSound
      <4>2. QED  BY <1>0, <1>3, <1>10, <2>3, <4>1 DEF OpenSound
    <3>3. QED  BY <1>0, <1>3, <1>11, <3>1, <3>2 DEF OpenSound
  <2>9. Live' = Live  BY <1>3, <1>5, <1>10, <1>12, <2>1, <2>6 DEF Live
  <2>10. Apart' /\ Everywhere'  BY <1>0, <1>3, <2>1, <2>9, OwnersStay
  <2>11. Lengths' /\ BytesKept'  BY <1>0, <1>3, <2>9, BytesStay
  <2>12. QED  BY <1>9, <2>4, <2>5, <2>7, <2>8, <2>10, <2>11 DEF FsInv
<1>13. CASE ~(open_inodes[s].open_cnt > 0)
  <2>1. Freeing(s, inode_disk[s]) /\ open_inodes' = open_inodes  BY <1>1, <1>2, <1>13
  <2>2. /\ fscall'.stage = "free" /\ fscall'.sector = s /\ fscall'.data = Extent(inode_disk[s])
        /\ s \notin fscall'.data
        /\ fscall' \in [stage : {"none", "inode", "write", "add", "free", "free data"},
                        name : FsName \cup {NoEntry}, size : Nat, sector : Device, start : Nat,
                        data : SUBSET Device]
    BY <1>0, <1>5, <2>1, FreeingCall
  <2>3. FsTypes'  BY <1>0, <1>3, <1>7, <2>1, <2>2 DEF FsTypes
  <2>4. CallSound'  BY <2>2 DEF CallSound
  <2>5. DenyCounts'  BY <1>0, <1>3, <2>1, CountsStay
  <2>6. OpenSound'
    <3>1. \A t \in Device : open_inodes[t].open_cnt > 0 => (t \in Listed' <=> t \in Listed)
      BY <1>10, <1>13
    <3>2. QED  BY <1>0, <1>3, <1>11, <2>1, <3>1 DEF OpenSound
  <2>7. Live' = Live \ {s}  BY <1>3, <1>10, <1>13, <2>1, <2>2 DEF Live
  <2>8. Apart' /\ Everywhere'  BY <1>0, <1>3, <1>5, <2>2, <2>7, OwnersFreed
  <2>9. Lengths' /\ BytesKept'  BY <1>0, <1>3, <2>7, BytesStay
  <2>10. QED  BY <1>9, <2>3, <2>4, <2>5, <2>6, <2>8, <2>9 DEF FsInv
<1>14. QED  BY <1>12, <1>13

\* The position of an open file moves.
LEMMA PositionMoves ==
    ASSUME FsInv, NEW f \in FsFile, file[f] # Shut, NEW pos \in Nat,
           file' = [file EXCEPT ![f].pos = pos],
           UNCHANGED <<free_map, disk_map, entry, inode_disk, open_inodes, fscall, lost>>,
           wrote' = [s \in Device |-> wrote'[s]]
    PROVE  /\ FsTypes' /\ CallSound' /\ OpenSound' /\ Apart' /\ OneEntry' /\ Everywhere' /\ DenyCounts'
           /\ Live' = Live
<1>0. FsTypes /\ CallSound /\ OpenSound /\ Apart /\ OneEntry /\ Everywhere /\ DenyCounts
  BY DEF FsInv
<1>1. file[f] \in [sector : Device, pos : Nat, deny : BOOLEAN]  BY <1>0 DEF FsTypes
<1>2. /\ file'[f].sector = file[f].sector /\ file'[f].deny = file[f].deny
      /\ \A g \in FsFile : g # f => file'[g] = file[g]
  BY <1>0, <1>1 DEF FsTypes
<1>3. file' \in [FsFile -> [sector : Device, pos : Nat, deny : BOOLEAN]]
  <2>1. file \in [FsFile -> [sector : Device, pos : Nat, deny : BOOLEAN]]  BY <1>0 DEF FsTypes
  <2>2. PICK r \in [sector : Device, pos : Nat, deny : BOOLEAN] : r = [file[f] EXCEPT !.pos = pos]  BY <1>1
  <2>3. file' = [file EXCEPT ![f] = r]  BY <2>2
  <2>4. QED  BY <2>1, <2>3
<1>4. FsTypes'  BY <1>0, <1>3 DEF FsTypes
<1>5. file[f].sector \notin System /\ file'[f] # Shut
  <2>1. file[f].sector \notin System  BY <1>0 DEF OpenSound
  <2>2. Shut.sector \in System  BY DEF Shut, System
  <2>3. QED  BY <1>2, <2>1, <2>2
<1>6. \A t \in Device : OpenOn(t)' = OpenOn(t) /\ DenyOn(t)' = DenyOn(t)
  BY <1>2, <1>5 DEF OpenOn, DenyOn
<1>7. Listed' = Listed /\ OneEntry'  BY <1>0, NamesStay
<1>8. Live' = Live  BY <1>7 DEF Live
<1>9. Apart' /\ Everywhere'  BY <1>0, <1>8, OwnersStay
<1>10. CallSound'  BY <1>0, <1>7 DEF CallSound, Idle
<1>11. OpenSound'
  <2>1. \A g \in FsFile : file'[g].sector \in System => file'[g] = Shut
    BY <1>0, <1>2, <1>5 DEF OpenSound
  <2>2. QED  BY <1>0, <1>6, <1>7, <2>1 DEF OpenSound
<1>12. DenyCounts'
  <2>1. \A t \in Device : /\ open_inodes'[t].deny = Cardinality(DenyOn(t)')
                          /\ open_inodes'[t].open_cnt = Cardinality(OpenOn(t)')
    BY <1>0, <1>6, Openers
  <2>2. QED  BY <2>1 DEF DenyCounts, DenyOn, OpenOn
<1>13. QED  BY <1>4, <1>7, <1>8, <1>9, <1>10, <1>11, <1>12

LEMMA SeekStep ==
    ASSUME FsInv, NEW f \in FsFile, NEW pos \in FsSize, Seek(f, pos)
    PROVE  FsInv'
<1>1. /\ file[f] # Shut /\ file' = [file EXCEPT ![f].pos = pos]
      /\ UNCHANGED <<free_map, disk_map, entry, inode_disk, block, open_inodes, fscall, lost, wrote>>
  BY DEF Seek
<1>2. pos \in Nat /\ wrote' = [s \in Device |-> wrote'[s]]
  <2>1. FsTypes  BY DEF FsInv
  <2>2. QED  BY <1>1, <2>1, DeviceFacts DEF FsTypes
<1>3. /\ FsTypes' /\ CallSound' /\ OpenSound' /\ Apart' /\ OneEntry' /\ Everywhere' /\ DenyCounts'
      /\ Live' = Live
  BY <1>1, <1>2, PositionMoves
<1>4. Lengths' /\ BytesKept'
  <2>1. Lengths /\ BytesKept  BY DEF FsInv
  <2>2. QED  BY <1>1, <1>3, <2>1, BytesStay
<1>5. QED  BY <1>3, <1>4 DEF FsInv

\* file_deny_write, file_allow_write.
LEMMA DenyStep ==
    ASSUME FsInv, NEW f \in FsFile, NEW on \in BOOLEAN, Deny(f, on)
    PROVE  FsInv'
<1>0. FsTypes /\ CallSound /\ OpenSound /\ Apart /\ OneEntry /\ Lengths /\ Everywhere /\ BytesKept /\ DenyCounts
  BY DEF FsInv
<1>1. PICK s, more : s = file[f].sector /\ more = IF on THEN 1 ELSE -1  OBVIOUS
<1>2. /\ file[f] # Shut /\ file[f].deny # on /\ file' = [file EXCEPT ![f].deny = on]
      /\ open_inodes' = [open_inodes EXCEPT ![s].deny = @ + more]
      /\ UNCHANGED <<free_map, disk_map, entry, inode_disk, block, fscall, lost, wrote>>
  BY <1>1 DEF Deny
<1>3. /\ file[f] \in [sector : Device, pos : Nat, deny : BOOLEAN] /\ s \in Device /\ more \in Int
      /\ open_inodes[s] \in [open_cnt : Nat, removed : BOOLEAN, deny : Int, start : Nat, length : Nat]
  <2>1. file[f] \in [sector : Device, pos : Nat, deny : BOOLEAN]  BY <1>0 DEF FsTypes
  <2>2. s \in Device  BY <1>1, <2>1
  <2>3. more \in Int  BY <1>1
  <2>4. open_inodes[s] \in [open_cnt : Nat, removed : BOOLEAN, deny : Int, start : Nat, length : Nat]
    BY <1>0, <2>2 DEF FsTypes
  <2>5. QED  BY <2>1, <2>2, <2>3, <2>4
<1>4. /\ file'[f].sector = s /\ file'[f].deny = on
      /\ \A g \in FsFile : g # f => file'[g] = file[g]
  BY <1>0, <1>1, <1>2, <1>3 DEF FsTypes
<1>5. /\ open_inodes'[s].deny = open_inodes[s].deny + more
      /\ open_inodes'[s].open_cnt = open_inodes[s].open_cnt /\ open_inodes'[s].removed = open_inodes[s].removed
      /\ open_inodes'[s].start = open_inodes[s].start /\ open_inodes'[s].length = open_inodes[s].length
      /\ \A t \in Device : t # s => open_inodes'[t] = open_inodes[t]
  BY <1>0, <1>2, <1>3 DEF FsTypes
<1>6. FsTypes'
  <2>1. file' \in [FsFile -> [sector : Device, pos : Nat, deny : BOOLEAN]]
    <3>1. file \in [FsFile -> [sector : Device, pos : Nat, deny : BOOLEAN]]  BY <1>0 DEF FsTypes
    <3>2. PICK r \in [sector : Device, pos : Nat, deny : BOOLEAN] : r = [file[f] EXCEPT !.deny = on]  BY <1>3
    <3>3. file' = [file EXCEPT ![f] = r]  BY <1>2, <3>2
    <3>4. QED  BY <3>1, <3>3
  <2>2. PICK d \in Int : d = open_inodes[s].deny + more  BY <1>3
  <2>3. open_inodes' = [open_inodes EXCEPT ![s].deny = d]  BY <1>2, <2>2
  <2>4. open_inodes' \in [Device -> [open_cnt : Nat, removed : BOOLEAN, deny : Int, start : Nat, length : Nat]]
    <3>1. open_inodes \in [Device -> [open_cnt : Nat, removed : BOOLEAN, deny : Int, start : Nat, length : Nat]]
      BY <1>0 DEF FsTypes
    <3>2. PICK r \in [open_cnt : Nat, removed : BOOLEAN, deny : Int, start : Nat, length : Nat] :
            r = [open_inodes[s] EXCEPT !.deny = d]
      BY <1>3, <2>2
    <3>3. open_inodes' = [open_inodes EXCEPT ![s] = r]  BY <2>3, <3>2
    <3>4. QED  BY <3>1, <3>3
  <2>5. QED  BY <1>0, <1>2, <2>1, <2>4 DEF FsTypes
<1>7. s \notin System /\ file'[f] # Shut
  <2>1. s \notin System  BY <1>0, <1>1, <1>2 DEF OpenSound
  <2>2. Shut.sector \in System  BY DEF Shut, System
  <2>3. QED  BY <1>4, <2>1, <2>2
<1>8. \A t \in Device : OpenOn(t)' = OpenOn(t)  BY <1>1, <1>2, <1>4, <1>7 DEF OpenOn
<1>9. /\ DenyOn(s)' = IF on THEN DenyOn(s) \cup {f} ELSE DenyOn(s) \ {f}
      /\ f \in DenyOn(s) <=> ~on
      /\ \A t \in Device : t # s => DenyOn(t)' = DenyOn(t)
  <2>1. f \in DenyOn(s) <=> ~on  BY <1>1, <1>2, <1>3 DEF DenyOn
  <2>2. f \in DenyOn(s)' <=> on  BY <1>4 DEF DenyOn
  <2>3. \A t \in Device : t # s => f \notin DenyOn(t) /\ f \notin DenyOn(t)'  BY <1>1, <1>4 DEF DenyOn
  <2>4. \A t \in Device : \A g \in FsFile : g # f => (g \in DenyOn(t)' <=> g \in DenyOn(t))
    BY <1>4 DEF DenyOn
  <2>5. \A t \in Device : DenyOn(t) \subseteq FsFile /\ DenyOn(t)' \subseteq FsFile  BY DEF DenyOn
  <2>6. DenyOn(s)' = IF on THEN DenyOn(s) \cup {f} ELSE DenyOn(s) \ {f}
    BY <1>3, <2>2, <2>4, <2>5
  <2>7. ASSUME NEW t \in Device, t # s PROVE DenyOn(t)' = DenyOn(t)  BY <2>3, <2>4, <2>5, <2>7
  <2>8. QED  BY <2>1, <2>6, <2>7
<1>10. Cardinality(DenyOn(s)') = open_inodes[s].deny + more
  <2>1. IsFiniteSet(DenyOn(s)) /\ Cardinality(DenyOn(s)) = open_inodes[s].deny  BY <1>0, <1>3, Openers
  <2>2. CASE on
    <3>1. Cardinality(DenyOn(s) \cup {f}) = Cardinality(DenyOn(s)) + 1
      BY <1>9, <2>1, <2>2, FS_AddElement
    <3>2. DenyOn(s)' = DenyOn(s) \cup {f} /\ more = 1  BY <1>1, <1>9, <2>2
    <3>3. QED  BY <2>1, <3>1, <3>2
  <2>3. CASE ~on
    <3>1. Cardinality(DenyOn(s) \ {f}) = Cardinality(DenyOn(s)) - 1
      BY <1>9, <2>1, <2>3, FS_RemoveElement
    <3>2. DenyOn(s)' = DenyOn(s) \ {f} /\ more = -1  BY <1>1, <1>9, <2>3
    <3>3. open_inodes[s].deny \in Int  BY <1>3
    <3>4. QED  BY <2>1, <3>1, <3>2, <3>3
  <2>4. QED  BY <2>2, <2>3
<1>11. DenyCounts'
  <2>1. \A t \in Device : /\ open_inodes'[t].deny = Cardinality(DenyOn(t)')
                          /\ open_inodes'[t].open_cnt = Cardinality(OpenOn(t)')
    <3>1. open_inodes'[s].deny = Cardinality(DenyOn(s)') /\ open_inodes'[s].open_cnt = Cardinality(OpenOn(s)')
      BY <1>0, <1>3, <1>5, <1>8, <1>10, Openers
    <3>2. QED  BY <1>0, <1>5, <1>8, <1>9, <3>1, Openers
  <2>2. QED  BY <2>1 DEF DenyCounts, DenyOn, OpenOn
<1>12. Listed' = Listed /\ OneEntry'  BY <1>0, <1>2, NamesStay
<1>13. \A t \in Device : open_inodes'[t].open_cnt = open_inodes[t].open_cnt  BY <1>5
<1>14. Live' = Live  BY <1>2, <1>12, <1>13 DEF Live
<1>15. Apart' /\ Everywhere'  BY <1>0, <1>2, <1>14, OwnersStay
<1>16. Lengths' /\ BytesKept'  BY <1>0, <1>2, <1>14, BytesStay
<1>17. CallSound'
  <2>1. fscall.sector \in Device  BY <1>0, FsParts
  <2>2. QED  BY <1>0, <1>2, <1>12, <1>13, <2>1 DEF CallSound, Idle
<1>18. OpenSound'
  <2>1. \A g \in FsFile : file'[g].sector \in System => file'[g] = Shut
    BY <1>0, <1>4, <1>7 DEF OpenSound
  <2>2. open_inodes[s].open_cnt # 0
    <3>1. f \in OpenOn(s)  BY <1>1, <1>2 DEF OpenOn
    <3>2. IsFiniteSet(OpenOn(s)) /\ open_inodes[s].open_cnt = Cardinality(OpenOn(s))  BY <1>0, <1>3, Openers
    <3>3. QED  BY <3>1, <3>2, FS_EmptySet
  <2>3. \A t \in Device : open_inodes'[t].open_cnt = 0 => open_inodes'[t] = NotOpen
    BY <1>0, <1>5, <2>2 DEF OpenSound
  <2>4. \A t \in Device : open_inodes'[t].open_cnt > 0 =>
          /\ open_inodes'[t].start = inode_disk'[t].start /\ open_inodes'[t].length = inode_disk'[t].length
          /\ open_inodes'[t].removed <=> t \notin Listed'
    <3>1. open_inodes'[s].open_cnt > 0 =>
          /\ open_inodes'[s].start = inode_disk'[s].start /\ open_inodes'[s].length = inode_disk'[s].length
          /\ open_inodes'[s].removed <=> s \notin Listed'
      BY <1>0, <1>2, <1>3, <1>5, <1>12 DEF OpenSound
    <3>2. QED  BY <1>0, <1>2, <1>5, <1>12, <3>1 DEF OpenSound
  <2>5. QED  BY <1>0, <1>8, <2>1, <2>3, <2>4 DEF OpenSound
<1>19. QED  BY <1>6, <1>11, <1>12, <1>15, <1>16, <1>17, <1>18 DEF FsInv

\* The machine starts again from the disk.
LEMMA CrashStep ==
    ASSUME FsInv, Crash
    PROVE  FsInv'
<1>0. FsTypes /\ CallSound /\ OpenSound /\ Apart /\ OneEntry /\ Lengths /\ Everywhere /\ BytesKept /\ DenyCounts
  BY DEF FsInv
<1> DEFINE gone == {t \in Device : open_inodes[t].removed}
           over == UNION {{s} \cup Extent(open_inodes[s]) : s \in gone}
<1>1. /\ free_map' = disk_map /\ fscall' = Idle
      /\ open_inodes' = [s \in Device |-> NotOpen] /\ file' = [f \in FsFile |-> Shut]
      /\ lost' = lost \cup InCall \cup over
      /\ UNCHANGED <<disk_map, entry, inode_disk, block, wrote, fsops>>
  BY DEF Crash
<1>2. free_map' = free_map /\ disk_map' = free_map'  BY <1>0, <1>1 DEF FsTypes
<1>3. FsTypes'
  <2>1. NotOpen \in [open_cnt : Nat, removed : BOOLEAN, deny : Int, start : Nat, length : Nat]
    BY DEF NotOpen
  <2>2. 0 \in Device  BY DeviceFacts DEF System
  <2>3. Shut \in [sector : Device, pos : Nat, deny : BOOLEAN]  BY <2>2 DEF Shut
  <2>4. QED  BY <1>0, <1>1, <1>2, <2>1, <2>3, IdleType DEF FsTypes
<1>4. CallSound' /\ fscall'.stage = "none" /\ InCall' = {}  BY <1>1, IdleType DEF CallSound, InCall
<1>5. Listed' = Listed /\ OneEntry'  BY <1>0, <1>1, NamesStay
<1>6. Live' = Listed  BY <1>1, <1>4, <1>5 DEF Live, NotOpen
<1>7. Listed \subseteq Live  BY DEF Live
<1>8. Lengths' /\ BytesKept'  BY <1>0, <1>1, <1>6, <1>7, BytesStay
<1>9. \A s \in Device : OpenOn(s)' = {} /\ DenyOn(s)' = {}  BY <1>1 DEF OpenOn, DenyOn, Shut
<1>10. OpenSound'
  <2>1. IsFiniteSet({})  BY FS_EmptySet
  <2>2. \A s \in Device : open_inodes'[s] = NotOpen /\ ~(open_inodes'[s].open_cnt > 0)  BY <1>1 DEF NotOpen
  <2>3. \A f \in FsFile : file'[f] = Shut  BY <1>1
  <2>4. QED  BY <1>9, <2>1, <2>2, <2>3 DEF OpenSound
<1>11. DenyCounts'
  <2>1. Cardinality({}) = 0  BY FS_EmptySet
  <2>2. \A s \in Device : open_inodes'[s].deny = 0 /\ open_inodes'[s].open_cnt = 0  BY <1>1 DEF NotOpen
  <2>3. QED  BY <1>9, <2>1, <2>2 DEF DenyCounts, OpenOn, DenyOn
<1>12. \A s \in gone : s \in Live /\ s \notin Listed /\ {s} \cup Extent(open_inodes[s]) = Foot(s)
  <2>1. ASSUME NEW s \in gone PROVE s \in Live /\ s \notin Listed /\ {s} \cup Extent(open_inodes[s]) = Foot(s)
    <3>1. s \in Device /\ open_inodes[s].removed  OBVIOUS
    <3>2. open_inodes[s].open_cnt # 0  BY <1>0, <3>1 DEF OpenSound, NotOpen
    <3>3. open_inodes[s].open_cnt > 0
      <4>1. open_inodes[s].open_cnt \in Nat  BY <1>0, <3>1, FsParts
      <4>2. QED  BY <3>2, <4>1
    <3>4. /\ open_inodes[s].start = inode_disk[s].start /\ open_inodes[s].length = inode_disk[s].length
          /\ s \notin Listed
      BY <1>0, <3>1, <3>3 DEF OpenSound
    <3>5. QED  BY <3>1, <3>3, <3>4 DEF Live, Foot, Extent
  <2>2. QED  BY <2>1
<1>13. \A x : x \in over <=> \E s \in gone : x \in Foot(s)
  <2> DEFINE F == {{s} \cup Extent(open_inodes[s]) : s \in gone}
  <2>1. \A s \in gone : Foot(s) \in F  BY <1>12
  <2>2. \A y \in F : \E s \in gone : y = Foot(s)  BY <1>12
  <2>3. over = UNION F  OBVIOUS
  <2> HIDE DEF F, over, gone
  <2>4. QED  BY <2>1, <2>2, <2>3
<1>14. \A s \in Live : s \in Listed \/ s \in gone \/ (fscall.stage = "add" /\ s = fscall.sector)
  BY <1>0 DEF Live, OpenSound
<1> HIDE DEF over, gone
<1>15. \A t : Foot(t)' = Foot(t) /\ Extent(inode_disk'[t]) = Extent(inode_disk[t])  BY <1>1 DEF Foot
<1>16. fscall.stage = "add" => Foot(fscall.sector) = InCall /\ fscall.sector \notin Listed
  <2>1. fscall.stage = "add" => /\ inode_disk[fscall.sector].start = fscall.start
                                /\ inode_disk[fscall.sector].length = fscall.size
    BY <1>0 DEF CallSound
  <2>2. fscall.stage = "add" => Extent(inode_disk[fscall.sector]) = fscall.data
    BY <1>0, <2>1 DEF CallSound, Extent
  <2>3. QED  BY <1>0, <2>2 DEF Foot, InCall, CallSound
<1>17. Everywhere'
  <2>1. ASSUME NEW x
        PROVE  x \in free_map' <=> x \in System \/ x \in lost' \/ \E s \in Listed : x \in Foot(s)
    <3>1. x \in free_map <=> \/ x \in System \/ x \in lost \/ x \in InCall \/ \E s \in Live : x \in Foot(s)
      BY <1>0 DEF Everywhere
    <3>2. x \in lost' <=> x \in lost \/ x \in InCall \/ \E s \in gone : x \in Foot(s)  BY <1>1, <1>13
    <3>3. (\E s \in Live : x \in Foot(s)) =>
             (\E s \in Listed : x \in Foot(s)) \/ (\E s \in gone : x \in Foot(s)) \/ x \in InCall
      BY <1>14, <1>16
    <3>4. QED  BY <1>2, <1>7, <1>12, <3>1, <3>2, <3>3
  <2>2. QED  BY <1>4, <1>6, <1>15, <2>1 DEF Everywhere
<1>18. Apart'
  <2>1. \A s \in Listed : Foot(s) \cap InCall = {}  BY <1>0, <1>7, <1>16 DEF Apart
  <2>2. \A s \in Listed : Foot(s) \cap over = {}  BY <1>0, <1>7, <1>12, <1>13 DEF Apart
  <2>3. \A s \in Listed : Foot(s) \cap lost' = {}  BY <1>0, <1>1, <1>7, <2>1, <2>2 DEF Apart
  <2>4. over \cap System = {}  BY <1>0, <1>12, <1>13 DEF Apart
  <2>5. lost' \cap System = {}  BY <1>0, <1>1, <2>4 DEF Apart
  <2>6. QED  BY <1>0, <1>2, <1>4, <1>6, <1>7, <1>15, <2>3, <2>5 DEF Apart
<1>19. QED  BY <1>3, <1>4, <1>5, <1>8, <1>10, <1>11, <1>17, <1>18 DEF FsInv

\* Nothing changes but the count of calls.
LEMMA NothingMoves ==
    ASSUME FsInv, UNCHANGED <<free_map, disk_map, entry, inode_disk, block, open_inodes, file,
                              fscall, lost, wrote>>
    PROVE  FsInv'
<1>0. FsTypes /\ CallSound /\ OpenSound /\ Apart /\ OneEntry /\ Lengths /\ Everywhere /\ BytesKept /\ DenyCounts
  BY DEF FsInv
<1>1. FsTypes'  BY <1>0 DEF FsTypes
<1>2. Listed' = Listed /\ OneEntry'  BY <1>0, NamesStay
<1>3. Live' = Live  BY <1>2 DEF Live
<1>4. CallSound'  BY <1>0, <1>2 DEF CallSound, Idle
<1>5. OpenSound' /\ DenyCounts'  BY <1>0, <1>2, InodesStay, CountsStay
<1>6. Apart' /\ Everywhere'  BY <1>0, <1>3, OwnersStay
<1>7. Lengths' /\ BytesKept'  BY <1>0, <1>3, BytesStay
<1>8. QED  BY <1>1, <1>2, <1>4, <1>5, <1>6, <1>7 DEF FsInv

\* The bytes of a chunk are the bytes of the write that fall into its sector,
\* and a chunk leaves out a byte only where the sector was read in first.
LEMMA ChunkBytes ==
    ASSUME NEW lo \in Nat, NEW x \in Nat, NEW B \in Nat, x < B,
           NEW from \in Nat, NEW to \in Nat, from < to,
           NEW a, a = IF from > lo THEN from ELSE lo,
           NEW z, z = IF to < lo + B THEN to ELSE lo + B
    PROVE  /\ a - lo \in Int /\ z - a \in Int
           /\ (z - a > 0 /\ x \in (a - lo) .. (a - lo) + (z - a) - 1) <=> lo + x \in from .. to - 1
           /\ (z - a > 0 /\ x \notin (a - lo) .. (a - lo) + (z - a) - 1) => (a - lo > 0 \/ z - a < B - (a - lo))
<1>1. a \in Nat /\ z \in Nat  OBVIOUS
<1>2. QED  BY <1>1

\* What file_write does to the blocks, the position and the record of what was
\* written, once the bytes from .. to - 1 of the inode are known.
Written(f, v, s, ino, from, to) ==
    LET low(k) == IF from > k * BlockBytes THEN from ELSE k * BlockBytes
        high(k) == IF to < k * BlockBytes + BlockBytes THEN to ELSE k * BlockBytes + BlockBytes
        piece(k) == [ofs |-> low(k) - k * BlockBytes, n |-> high(k) - low(k)]
    IN  IF ino.deny > 0 \/ to <= from THEN UNCHANGED <<block, file, wrote>>
        ELSE /\ block' = [d \in Device |->
                   IF d \in Extent(ino) /\ piece(d - ino.start).n > 0
                   THEN Chunk(block[d], piece(d - ino.start).ofs, piece(d - ino.start).n, v) ELSE block[d]]
             /\ file' = [file EXCEPT ![f].pos = to]
             /\ wrote' = [wrote EXCEPT ![s] = [b \in DOMAIN wrote[s] |->
                                                 IF b \in from .. to - 1 THEN v ELSE wrote[s][b]]]

LEMMA WriteBounds ==
    ASSUME NEW f, NEW size, NEW v, Write(f, size, v)
    PROVE  \E s, ino, from, to :
              /\ s = file[f].sector /\ ino = open_inodes[s] /\ from = file[f].pos
              /\ to = IF from + size < ino.length THEN from + size ELSE ino.length
              /\ Written(f, v, s, ino, from, to)
<1> DEFINE s == file[f].sector
           ino == open_inodes[s]
           from == file[f].pos
           to == IF from + size < ino.length THEN from + size ELSE ino.length
<1>1. Written(f, v, s, ino, from, to)  BY DEF Write, Written
<1>2. QED  BY <1>1

LEMMA WriteStep ==
    ASSUME FsInv, NEW f \in FsFile, NEW size \in FsSize, NEW v \in FsValue, Write(f, size, v)
    PROVE  FsInv'
<1>0. FsTypes /\ CallSound /\ OpenSound /\ Apart /\ OneEntry /\ Lengths /\ Everywhere /\ BytesKept /\ DenyCounts
  BY DEF FsInv
<1>1. PICK s, ino, from, to :
         /\ s = file[f].sector /\ ino = open_inodes[s] /\ from = file[f].pos
         /\ to = IF from + size < ino.length THEN from + size ELSE ino.length
         /\ Written(f, v, s, ino, from, to)
  BY WriteBounds
<1>2. from = file[f].pos  BY <1>1
<1>3. to = IF from + size < ino.length THEN from + size ELSE ino.length  BY <1>1
<1> DEFINE A(k) == IF from > k * BlockBytes THEN from ELSE k * BlockBytes
           Z(k) == IF to < k * BlockBytes + BlockBytes THEN to ELSE k * BlockBytes + BlockBytes
           Part(k) == [ofs |-> A(k) - k * BlockBytes, n |-> Z(k) - A(k)]
<1>4. /\ file[f] # Shut
      /\ UNCHANGED <<free_map, disk_map, entry, inode_disk, open_inodes, fscall, lost>>
  BY DEF Write
<1>5. IF ino.deny > 0 \/ to <= from THEN UNCHANGED <<block, file, wrote>>
      ELSE /\ block' = [d \in Device |->
                 IF d \in Extent(ino) /\ Part(d - ino.start).n > 0
                 THEN Chunk(block[d], Part(d - ino.start).ofs, Part(d - ino.start).n, v) ELSE block[d]]
           /\ file' = [file EXCEPT ![f].pos = to]
           /\ wrote' = [wrote EXCEPT ![s] = [b \in DOMAIN wrote[s] |->
                                               IF b \in from .. to - 1 THEN v ELSE wrote[s][b]]]
  BY <1>1 DEF Written
<1>6. CASE ino.deny > 0 \/ to <= from
  <2>1. UNCHANGED <<block, file, wrote>>  BY <1>5, <1>6
  <2>2. QED  BY <1>4, <2>1, NothingMoves
<1>7. CASE ~(ino.deny > 0 \/ to <= from)
  <2>1. /\ s \in Device /\ from \in Nat /\ size \in Nat /\ ino.length \in Nat /\ ino.start \in Nat
        /\ BlockBytes \in Nat /\ BlockBytes > 0
    <3>1. s \in Device /\ from \in Nat  BY <1>0, <1>1, <1>2, FsParts
    <3>2. ino.length \in Nat /\ ino.start \in Nat  BY <1>0, <1>1, <3>1, FsParts
    <3>3. QED  BY <3>1, <3>2, DeviceFacts
  <2>2. to \in Nat /\ from < to  BY <1>3, <1>7, <2>1
  <2>3. s \in Live /\ ino.start = inode_disk[s].start /\ ino.length = inode_disk[s].length
    <3>1. ino.open_cnt > 0
      <4>1. f \in OpenOn(s)  BY <1>1, <1>4 DEF OpenOn
      <4>2. IsFiniteSet(OpenOn(s)) /\ ino.open_cnt = Cardinality(OpenOn(s))  BY <1>0, <1>1, <2>1, Openers
      <4>3. ino.open_cnt # 0  BY <4>1, <4>2, FS_EmptySet
      <4>4. ino.open_cnt \in Nat  BY <1>0, <1>1, <2>1, FsParts
      <4>5. QED  BY <4>3, <4>4
    <3>2. QED  BY <1>0, <1>1, <2>1, <3>1 DEF Live, OpenSound
  <2>4. /\ wrote'[s] = [b \in DOMAIN wrote[s] |-> IF b \in from .. to - 1 THEN v ELSE wrote[s][b]]
        /\ \A t \in Device : t # s => wrote'[t] = wrote[t]
        /\ wrote' = [t \in Device |-> wrote'[t]]
    <3>1. wrote = [t \in Device |-> wrote[t]]  BY <1>0 DEF FsTypes
    <3>2. wrote' = [wrote EXCEPT ![s] = [b \in DOMAIN wrote[s] |->
                                           IF b \in from .. to - 1 THEN v ELSE wrote[s][b]]]
      BY <1>5, <1>7
    <3>3. QED  BY <2>1, <3>1, <3>2
  <2>5. /\ FsTypes' /\ CallSound' /\ OpenSound' /\ Apart' /\ OneEntry' /\ Everywhere' /\ DenyCounts'
        /\ Live' = Live
    <3>1. file' = [file EXCEPT ![f].pos = to]  BY <1>5, <1>7
    <3>2. QED  BY <1>4, <2>2, <2>4, <3>1, PositionMoves
  <2>6. Live \subseteq Device  BY <1>0, FsParts
  <2>7. Lengths'
    <3>1. \A t \in Live : DOMAIN wrote'[t] = DOMAIN wrote[t]  BY <2>4, <2>6
    <3>2. QED  BY <1>0, <1>4, <2>5, <3>1 DEF Lengths
  <2>8. \A d \in Device : block'[d] =
          IF d \in Extent(ino) /\ Part(d - ino.start).n > 0
          THEN Chunk(block[d], Part(d - ino.start).ofs, Part(d - ino.start).n, v) ELSE block[d]
    <3> HIDE DEF Part
    <3>1. QED  BY <1>5, <1>7
  <2>9. Extent(ino) = Extent(inode_disk[s])  BY <2>3 DEF Extent
  <2>10. ASSUME NEW t \in Live, NEW b \in DOMAIN wrote[t]
         PROVE  block'[inode_disk[t].start + (b \div BlockBytes)][b % BlockBytes] = wrote'[t][b]
    <3>1. PICK q, x, d : q = b \div BlockBytes /\ x = b % BlockBytes /\ d = inode_disk[t].start + q
      OBVIOUS
    <3>2. /\ b \in Nat /\ q \in Nat /\ x \in 0 .. BlockBytes - 1 /\ b = q * BlockBytes + x
          /\ d \in Extent(inode_disk[t])
      BY <1>0, <3>1, ByteInFile
    <3>3. block[d][x] = wrote[t][b]  BY <1>0, <3>1 DEF BytesKept
    <3>4. d \in Device /\ d \in Foot(t)
      <4>1. d \in Foot(t)  BY <3>2 DEF Foot
      <4>2. QED  BY <1>0, <4>1 DEF Apart, FsTypes
    <3>5. CASE t # s
      <4>1. d \notin Foot(s)  BY <1>0, <2>3, <3>4, <3>5 DEF Apart
      <4>2. d \notin Extent(ino)  BY <2>9, <4>1 DEF Foot
      <4>3. block'[d] = block[d]  BY <2>8, <3>4, <4>2
      <4>4. wrote'[t] = wrote[t]  BY <2>4, <2>6, <3>5
      <4>5. QED  BY <3>1, <3>3, <4>3, <4>4
    <3>6. CASE t = s
      <4>1. d - ino.start = q /\ d \in Extent(ino)
        <5>1. d \in Extent(ino)  BY <2>9, <3>2, <3>6
        <5>2. d = ino.start + q  BY <2>3, <3>1, <3>6
        <5>3. ino.start \in Nat /\ q \in Nat  BY <2>1, <3>2
        <5>4. QED  BY <5>1, <5>2, <5>3
      <4>2. PICK lo \in Nat : lo = q * BlockBytes
        <5>1. q * BlockBytes \in Nat  BY <2>1, <3>2
        <5>2. QED  BY <5>1
      <4>3. PICK a, z : a = A(q) /\ z = Z(q)  OBVIOUS
      <4>4. /\ a = IF from > lo THEN from ELSE lo
            /\ z = IF to < lo + BlockBytes THEN to ELSE lo + BlockBytes
        BY <4>2, <4>3
      <4>5. Part(q).ofs = a - lo /\ Part(q).n = z - a  BY <4>2, <4>3
      <4> HIDE DEF Part
      <4>6. x \in Nat /\ x < BlockBytes  BY <2>1, <3>2
      <4>7. /\ (z - a > 0 /\ x \in (a - lo) .. (a - lo) + (z - a) - 1) <=> lo + x \in from .. to - 1
            /\ (z - a > 0 /\ x \notin (a - lo) .. (a - lo) + (z - a) - 1) =>
                 (a - lo > 0 \/ z - a < BlockBytes - (a - lo))
        BY <2>1, <2>2, <4>4, <4>6, ChunkBytes
      <4>8. block'[d] = IF z - a > 0 THEN Chunk(block[d], a - lo, z - a, v) ELSE block[d]
        BY <2>8, <3>4, <4>1, <4>5
      <4>9. block'[d][x] = IF lo + x \in from .. to - 1 THEN v ELSE block[d][x]
        <5>1. CASE z - a > 0
          <6>1. block'[d] = Chunk(block[d], a - lo, z - a, v)  BY <4>8, <5>1
          <6>2. block'[d][x] = IF x \in (a - lo) .. (a - lo) + (z - a) - 1 THEN v
                               ELSE IF a - lo > 0 \/ z - a < BlockBytes - (a - lo) THEN block[d][x] ELSE 0
            BY <3>2, <6>1 DEF Chunk
          <6>3. CASE x \in (a - lo) .. (a - lo) + (z - a) - 1  BY <4>7, <5>1, <6>2, <6>3
          <6>4. CASE x \notin (a - lo) .. (a - lo) + (z - a) - 1  BY <4>7, <5>1, <6>2, <6>4
          <6>5. QED  BY <6>3, <6>4
        <5>2. CASE ~(z - a > 0)  BY <4>7, <4>8, <5>2
        <5>3. QED  BY <5>1, <5>2
      <4>10. b = lo + x  BY <3>2, <4>2
      <4>11. wrote'[t][b] = IF b \in from .. to - 1 THEN v ELSE wrote[t][b]  BY <2>4, <3>6
      <4>12. QED  BY <3>1, <3>3, <4>9, <4>10, <4>11
    <3>7. QED  BY <3>5, <3>6
  <2>11. BytesKept'
    <3>1. \A t \in Live : DOMAIN wrote'[t] = DOMAIN wrote[t]  BY <2>4, <2>6
    <3>2. QED  BY <1>4, <2>5, <2>10, <3>1 DEF BytesKept
  <2>12. QED  BY <2>5, <2>7, <2>11 DEF FsInv
<1>8. QED  BY <1>6, <1>7

LEMMA FsStepInv == FsInv /\ [FsNext]_fsVars => FsInv'
<1> SUFFICES ASSUME FsInv, [FsNext]_fsVars PROVE FsInv'
  OBVIOUS
<1>1. CASE UNCHANGED fsVars  BY <1>1, NothingMoves DEF fsVars
<1>2. CASE CreateData  BY <1>2, CreateDataStep
<1>3. CASE CreateInode  BY <1>3, CreateInodeStep
<1>4. CASE CreateAdd  BY <1>4, CreateAddStep
<1>5. CASE FreeInode \/ FreeData  BY <1>5, FreeStepInv
<1>6. CASE Crash  BY <1>6, CrashStep
<1>7. CASE \E n \in FsName : FsRemove(n)  BY <1>7, RemoveStep
<1>8. CASE \E n \in FsName : \E z \in FsSize : CreateSector(n, z)  BY <1>8, CreateSectorStep
<1>9. CASE \E f \in FsFile : Close(f)  BY <1>9, CloseStep
<1>10. CASE \E f \in FsFile : \E n \in FsName : Open(f, n)  BY <1>10, OpenStep
<1>11. CASE \E f \in FsFile : \E b \in BOOLEAN : Deny(f, b)  BY <1>11, DenyStep
<1>12. CASE \E f \in FsFile : \E z \in FsSize \ {0} : Seek(f, z)  BY <1>12, SeekStep
<1>13. CASE \E f \in FsFile : \E z \in FsSize \ {0} : \E v \in FsValue : Write(f, z, v)
  BY <1>13, WriteStep
<1>14. QED  BY <1>1, <1>2, <1>3, <1>4, <1>5, <1>6, <1>7, <1>8, <1>9, <1>10, <1>11, <1>12, <1>13
            DEF FsNext

\* The file system's inductive invariant: a sector is of one file, of the call
\* in progress, lost or of the system; what is open and not listed was
\* removed; the structs in memory agree with the disk.
THEOREM FsInvariant == FsSpec => []FsInv
<1>1. QED  BY FsInitInv, FsStepInv, PTL DEF FsSpec

LEMMA FsSafe == FsInv => StockSound
<1> SUFFICES ASSUME FsInv PROVE StockSound
  OBVIOUS
<1>1. FsTypes /\ Apart /\ Everywhere /\ BytesKept /\ DenyCounts  BY DEF FsInv
<1>2. MapCovers  BY <1>1 DEF MapCovers, Apart, Foot, FsTypes
<1>3. Accounted  BY <1>1, AccountedSectors
<1>4. QED  BY <1>1, <1>2, <1>3 DEF StockSound

\* StockSound of the runs, for any device, directory, sizes and files, with a
\* crash between any two writes: the free map on the disk covers every file
\* that is left and no sector serves two, sectors are lost only in the ways
\* named, every byte of a file is the last one written there, and writes are
\* denied exactly as long as an opener asks for it.
THEOREM StockFsCorrect == FsSpec => []StockSound
<1>1. QED  BY FsInvariant, FsSafe, PTL
=============================================================================
