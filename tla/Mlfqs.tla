------------------------------- MODULE Mlfqs -------------------------------
(***************************************************************************)
(* The multi-level feedback queue scheduler of group_proj1 (-mlfqs): the   *)
(* timer tick that charges, averages and ranks the threads, the choice of  *)
(* the next thread, and thread_set_nice.                                   *)
(*                                                                         *)
(* Only the phase of the tick count matters: it is kept modulo TIMER_FREQ. *)
(* thread_set_nice runs with interrupts on, and the compiler reads         *)
(* recent_cpu, computes, and writes it back: a thread in it is at          *)
(*   "read"   with nice stored, at thread_update_recent_cpu                *)
(*   "write"  with the new recent_cpu computed and not yet stored          *)
(*   "rank"   with recent_cpu stored, at thread_update_priority            *)
(***************************************************************************)
EXTENDS Integers, Sequences, SequencesExt, FiniteSets

CONSTANTS
    FIX_F,          \* 1 << 16
    MlThread,       \* the threads but the idle one
    Idle,
    MlMain,         \* the thread that runs first
    TIMER_FREQ,     \* 100
    RankEvery,      \* 4, ticks between two rankings
    TIME_SLICE,     \* 4
    LoadWindow,     \* 60, the weight of the past
    PRI_MAX, PRI_DEFAULT,
    NiceValues,     \* arguments of thread_set_nice
    MaxNices,       \* calls of it
    MaxBlocks       \* calls of thread_block

ASSUME FixAssumption == FIX_F \in Nat /\ FIX_F > 1 /\ FIX_F % 2 = 0

ASSUME MlAssumption ==
    /\ IsFiniteSet(MlThread) /\ MlMain \in MlThread /\ Idle \notin MlThread
    /\ {TIMER_FREQ, RankEvery, TIME_SLICE, LoadWindow} \subseteq Nat \ {0}
    /\ TIMER_FREQ % RankEvery = 0
    /\ IsFiniteSet(NiceValues) /\ NiceValues \subseteq Int
    /\ {PRI_MAX, PRI_DEFAULT, MaxNices, MaxBlocks} \subseteq Nat

-----------------------------------------------------------------------------
\* The fixed-point numbers of threads/fixed-point.h: the number x is kept as
\* the integer x * FIX_F.  Integers of the model have no width: RecentBounded
\* shows how large they get.

\* Division of C, which drops the fraction.
Quot(a, b) ==
    LET Size(x) == IF x < 0 THEN -x ELSE x
        q == Size(a) \div Size(b)
    IN  IF (a < 0) = (b < 0) THEN q ELSE -q

fix_int(n) == n * FIX_F
fix_frac(n, d) == Quot(n * FIX_F, d)
fix_add(x, y) == x + y
fix_mul(x, y) == Quot(x * y, FIX_F)
fix_scale(x, n) == x * n
fix_div(x, y) == Quot(x * FIX_F, y)
fix_unscale(x, n) == Quot(x, n)

fix_round(x) == Quot(x + (FIX_F \div 2), FIX_F)

-----------------------------------------------------------------------------
VARIABLES
    cur,        \* the running thread
    readyList,
    recent_cpu, nice, priority,
    load_avg,
    phase,      \* timer_ticks modulo TIMER_FREQ
    sliceUsed,  \* thread_ticks
    inNice,     \* by thread, where it is in thread_set_nice, or "no"
    newRecent,  \* by thread, what it has computed there
    nices,      \* calls of thread_set_nice so far
    blocks      \* and of thread_block

threadVars == <<recent_cpu, nice, priority>>
niceVars == <<inNice, newRecent, nices>>
mlVars == <<cur, readyList, threadVars, load_avg, phase, sliceUsed, niceVars,
            blocks>>

All == MlThread \cup {Idle}

\* thread_create: every thread but the first has been made ready.
MlInit ==
    /\ cur = MlMain
    /\ readyList = SetToSeq(MlThread \ {MlMain})
    /\ recent_cpu = [t \in All |-> fix_int(0)]
    /\ nice = [t \in All |-> 0]
    /\ priority = [t \in All |-> PRI_DEFAULT]
    /\ load_avg = fix_int(0)
    /\ phase = 0 /\ sliceUsed = 0
    /\ inNice = [t \in MlThread |-> "no"]
    /\ newRecent = [t \in MlThread |-> 0]
    /\ nices = 0 /\ blocks = 0

-----------------------------------------------------------------------------
\* Mutant of update_load_avg: the weights are swapped with the count's.
LoadSum(load) == fix_add(load, fix_mul(fix_frac(1, LoadWindow),
                     fix_int(Len(readyList) + (IF cur = Idle THEN 0 ELSE 1))))

update_load_avg(load) ==
    LET ready == Len(readyList) + (IF cur = Idle THEN 0 ELSE 1) IN
    fix_add(fix_mul(fix_frac(LoadWindow - 1, LoadWindow), load),
            fix_mul(fix_frac(1, LoadWindow), fix_int(ready)))

\* thread_update_recent_cpu, of a thread's recent_cpu and nice.
thread_update_recent_cpu(recent, n, load) ==
    LET top == fix_scale(load, 2)
        coeff == fix_div(top, fix_add(top, fix_int(1)))
    IN  fix_add(fix_mul(coeff, recent), fix_int(n))

\* Mutant of thread_update_priority: recent_cpu counts for the thread.
PriorityUp(recent, n) == PRI_MAX + fix_round(fix_unscale(recent, 4)) - (n * 2)

\* thread_update_priority: nothing keeps it within PRI_MIN .. PRI_MAX.
thread_update_priority(recent, n) ==
    PRI_MAX - (fix_round(fix_unscale(recent, 4)) + (n * 2))

\* list_max with compare_thread: the first of the highest priority.
Best(list) ==
    CHOOSE i \in DOMAIN list : \A j \in DOMAIN list :
        /\ priority'[list[j]] <= priority'[list[i]]
        /\ j < i => priority'[list[j]] < priority'[list[i]]

\* schedule over the ready list given, and a new time slice.
Schedule(list) ==
    /\ sliceUsed' = 0
    /\ IF list = <<>> THEN cur' = Idle /\ readyList' = list
       ELSE cur' = list[Best(list)] /\ readyList' = RemoveAt(list, Best(list))

\* thread_yield: the idle thread is not put on the list.
Yield == Schedule(IF cur = Idle THEN readyList ELSE Append(readyList, cur))

-----------------------------------------------------------------------------
\* thread_tick, and the yield on return when the slice is used up.  The idle
\* thread goes on to thread_block after every interrupt.
Tick ==
    LET now == (phase + 1) % TIMER_FREQ
        charged == [recent_cpu EXCEPT ![cur] = fix_add(@, fix_int(1))]
    IN  /\ phase' = now
        /\ priority' = IF now % RankEvery # 0 THEN priority
                       ELSE [t \in All |-> thread_update_priority(charged[t], nice[t])]
        /\ load_avg' = IF now = 0 THEN update_load_avg(load_avg) ELSE load_avg
        /\ recent_cpu' = IF now # 0 THEN charged
                         ELSE [t \in All |-> thread_update_recent_cpu(
                                                 charged[t], nice[t], load_avg')]
        /\ IF sliceUsed + 1 >= TIME_SLICE \/ cur = Idle THEN Yield
           ELSE sliceUsed' = sliceUsed + 1 /\ UNCHANGED <<cur, readyList>>
        /\ UNCHANGED <<nice, niceVars, blocks>>

\* The running thread waits for something: thread_block.
ThreadBlock ==
    /\ cur # Idle /\ inNice[cur] = "no" /\ blocks < MaxBlocks
    /\ blocks' = blocks + 1
    /\ UNCHANGED <<threadVars, load_avg, phase, niceVars>>
    /\ Schedule(readyList)

\* An interrupt handler wakes a thread: thread_unblock.  Behind a device's
\* interrupt the idle thread goes on to thread_block; behind the wake-ups of
\* timer_interrupt comes thread_tick first.
ThreadUnblock ==
    /\ UNCHANGED <<threadVars, load_avg, phase, niceVars, blocks>>
    /\ \E t \in MlThread \ ({cur} \cup ToSet(readyList)) :
         \/ readyList' = Append(readyList, t) /\ UNCHANGED <<cur, sliceUsed>>
         \/ cur = Idle /\ Schedule(Append(readyList, t))

\* thread_set_nice: nice is stored.
SetNice ==
    /\ cur # Idle /\ inNice[cur] = "no" /\ nices < MaxNices
    /\ \E n \in NiceValues : nice' = [nice EXCEPT ![cur] = n]
    /\ inNice' = [inNice EXCEPT ![cur] = "read"]
    /\ nices' = nices + 1
    /\ UNCHANGED <<cur, readyList, recent_cpu, priority, load_avg, phase,
                   sliceUsed, newRecent, blocks>>

\* thread_update_recent_cpu computes the thread's new value.
ReadRecent ==
    /\ cur # Idle /\ inNice[cur] = "read"
    /\ newRecent' = [newRecent EXCEPT ![cur] =
                       thread_update_recent_cpu(recent_cpu[cur], nice[cur], load_avg)]
    /\ inNice' = [inNice EXCEPT ![cur] = "write"]
    /\ UNCHANGED <<cur, readyList, threadVars, load_avg, phase, sliceUsed, nices,
                   blocks>>

\* The value is stored, whatever ticks have done to recent_cpu meanwhile.
StoreRecent ==
    /\ cur # Idle /\ inNice[cur] = "write"
    /\ recent_cpu' = [recent_cpu EXCEPT ![cur] = newRecent[cur]]
    /\ inNice' = [inNice EXCEPT ![cur] = "rank"]
    /\ newRecent' = [newRecent EXCEPT ![cur] = 0]
    /\ UNCHANGED <<cur, readyList, nice, priority, load_avg, phase, sliceUsed, nices,
                   blocks>>

\* thread_update_priority, and thread_yield if the highest of the ready list
\* is higher.  Of an empty list list_max returns its end, and what lies there
\* decides.
Rank ==
    /\ cur # Idle /\ inNice[cur] = "rank"
    /\ priority' = [priority EXCEPT ![cur] =
                      thread_update_priority(recent_cpu[cur], nice[cur])]
    /\ inNice' = [inNice EXCEPT ![cur] = "no"]
    /\ LET higher == \E t \in ToSet(readyList) : priority'[cur] < priority'[t] IN
         \/ (readyList = <<>> \/ higher) /\ Yield
         \/ ~higher /\ UNCHANGED <<cur, readyList, sliceUsed>>
    /\ UNCHANGED <<recent_cpu, nice, load_avg, phase, newRecent, nices, blocks>>

MlNext == Tick \/ ThreadBlock \/ ThreadUnblock \/ SetNice \/ ReadRecent \/ StoreRecent \/ Rank

MlSpec == MlInit /\ [][MlNext]_mlVars

-----------------------------------------------------------------------------
Count == Cardinality(MlThread)
HighestNice == CHOOSE n \in NiceValues \cup {0} : \A m \in NiceValues \cup {0} : m <= n
LowestNice == CHOOSE n \in NiceValues \cup {0} : \A m \in NiceValues \cup {0} : m >= n

\* update_load_avg averages: the load stays between 0 and the number of
\* threads, whatever fractions the fixed-point weights lose.
LoadBounded == load_avg >= 0 /\ load_avg <= fix_int(Count)

\* The decay of recent_cpu by 2 load / (2 load + 1) outweighs the ticks and
\* the nice values that are added, also when thread_set_nice stores a value
\* that ticks have overtaken: no sequence of calls lets recent_cpu run away,
\* and fix_int's range is far off.
RecentBounded ==
    \A t \in All :
        /\ recent_cpu[t] <= fix_int(((2 * Count) + 1) * (TIMER_FREQ + HighestNice))
        /\ recent_cpu[t] >= fix_int(((2 * Count) + 1) * LowestNice)

\* thread_get_recent_cpu and the priorities round to the nearest integer
\* ("Returns X rounded to the nearest integer", fixed-point.h) while recent_cpu
\* is not negative; below 0 they are off by less than one.
RoundsNearest ==
    \A t \in All :
        LET x == recent_cpu[t]
            off == fix_int(fix_round(x)) - x
        IN  IF x >= 0 THEN 2 * off <= FIX_F /\ 2 * off >= -FIX_F
            ELSE off < FIX_F + (FIX_F \div 2) /\ off >= -(FIX_F \div 2)

\* Once the threads are equally nice, a ready thread gets the processor, how
\* ever often the others block and wake: the running one's priority sinks.
EqualsRun ==
    \A t \in MlThread :
        <>[](\A u \in MlThread : nice[u] = nice[t]) =>
            (t \in ToSet(readyList) ~> cur = t)

\* The statistics of the feedback-queue scheduler stay in range, whatever is
\* lost to ticks inside thread_set_nice, and rounding a positive number gives
\* the nearest one.
FeedbackBounded == LoadBounded /\ RecentBounded /\ RoundsNearest
=============================================================================
