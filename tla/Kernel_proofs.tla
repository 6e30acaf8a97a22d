---------------------------- MODULE Kernel_proofs ---------------------------
(***************************************************************************)
(* The round-robin kernel of the later projects: its lists of threads, its *)
(* locks, the wake-ups of its semaphores and of its condition variable,    *)
(* for any number of threads, calls and interrupts, whenever the timer     *)
(* preempts.                                                               *)
(***************************************************************************)
EXTENDS Kernel, SeqLemmas, FiniteSetTheorems, TLAPS

\* One operation, and a rest of a call that begins with it.
Act(o, a) == [op |-> o, arg |-> a]
Pre(o, a, q) == Do(o, a) \o q

\* The rests of the uses of the lock: with nothing, a signal, a broadcast or a
\* wait inside; Poke and PokeAll are cond_signal and cond_broadcast about to
\* raise the semaphore of w.
U1 == Pre("up", "lock", <<>>)
U2 == Pre("disown", "lock", U1)
U3 == Pre("own", "lock", U2)
U4 == Pre("down", "lock", U3)
S1 == Pre("signal", NoThd, U2)
S2 == Pre("own", "lock", S1)
S3 == Pre("down", "lock", S2)
B1 == Pre("broadcast", NoThd, U2)
B2 == Pre("own", "lock", B1)
B3 == Pre("down", "lock", B2)
Poke(w) == Pre("up", w, U2)
PokeAll(w) == Pre("up", w, B1)
W1 == Pre("down_own", NoThd, U4)
W2 == Pre("up", "lock", W1)
W3 == Pre("disown", "lock", W2)
W4 == Pre("wait", NoThd, W3)
W5 == Pre("own", "lock", W4)
W6 == Pre("down", "lock", W5)

\* The rests of thread_create and what thread_start does after it.
E1 == Pre("down", "idle_started", <<>>)
E2 == Pre("intr_enable", NoThd, E1)
C1(u, e) == Pre("unblock", u, e)
C2(u, e) == Pre("up", "tid", C1(u, e))
C3(u, e) == Pre("disown", "tid", C2(u, e))
C4(u, e) == Pre("tid_next", u, C3(u, e))
C5(u, e) == Pre("tid_read", u, C4(u, e))
C6(u, e) == Pre("own", "tid", C5(u, e))
C7(u, e) == Pre("down", "tid", C6(u, e))
C8(u, e) == Pre("init", u, C7(u, e))

\* The rests of the idle thread, and the calls of one operation.
I1 == Pre("block", NoThd, <<>>)
I2 == Pre("up", "idle_started", I1)
I3 == Pre("idle", NoThd, I2)
Halted == Pre("hlt", NoThd, <<>>)
One(o, a) == Pre(o, a, <<>>)

MonitorRest ==
    {U1, U2, U3, U4, S1, S2, S3, B1, B2, B3, W1, W2, W3, W4, W5, W6}
        \cup {Poke(w) : w \in Thd} \cup {PokeAll(w) : w \in Thd}
MakeRest(u, e) ==
    {C1(u, e), C2(u, e), C3(u, e), C4(u, e), C5(u, e), C6(u, e), C7(u, e), C8(u, e)}
StartRest == MakeRest(IdleThread, E2) \cup {E2, E1}
IdleRest == {I1, I2, I3, Halted}
OneRest ==
    {One("try", "lock"), One("down", "sema"), One("up", "sema"), One("nap", NoThd), One("yield", NoThd),
     One("exit", NoThd)}
WorkRest == {<<>>} \cup MonitorRest \cup OneRest \cup (UNION {MakeRest(u, <<>>) : u \in Worker})

\* What a rest says of its thread.
Begins(q, o, a) == q # <<>> /\ Head(q) = Act(o, a)
Mentions(q, a) == \E i \in DOMAIN q : q[i] = a
Holds(q, l) ==
    /\ q # <<>>
    /\ \/ Head(q) = Act("disown", l)
       \/ l = "lock" /\ \/ Head(q).op \in {"wait", "signal", "broadcast"}
                        \/ Head(q).op = "up" /\ Head(q).arg \in Thd
       \/ l = "tid" /\ Head(q).op \in {"tid_read", "tid_next"}
Takes(q, l) == q # <<>> /\ Head(q) \in {Act("own", l), Act("up", l)}
Has(q, l) == Holds(q, l) \/ Takes(q, l)
InWait(q) == Mentions(q, Act("down_own", NoThd)) /\ Head(q).op \in {"disown", "up", "down_own"}
Making(q, u) == Mentions(q, Act("unblock", u))
Unnamed(q, u) ==
    /\ Making(q, u)
    /\ Head(q).op \in {"init", "tid_read"} \/ Head(q) \in {Act("down", "tid"), Act("own", "tid")}
Downs(t, s) == Begins(todo[t], "down", s) \/ (Begins(todo[t], "down_own", NoThd) /\ s = t)

-----------------------------------------------------------------------------
KTypes ==
    /\ status \in [Thd -> {"free", "page", "blocked", "ready", "running", "dying"}]
    /\ running \in Thd /\ ready_list \in Seq(Thd) /\ all_list \in Seq(Thd)
    /\ idle_thread \in {NoThd, IdleThread}
    /\ value \in [Semaphore -> Nat] /\ waiters \in [Semaphore -> Seq(Thd)]
    /\ holder \in [Lock -> Thd \cup {NoThd}] /\ cond \in Seq(Thd)
    /\ tid \in [Thd -> Nat] /\ next_tid \in Nat

\* Which calls a thread is in.
Rests ==
    /\ DOMAIN todo = Thd
    /\ todo[MainThread] \in WorkRest \cup StartRest
    /\ todo[IdleThread] \in {<<>>} \cup IdleRest
    /\ \A t \in Worker : todo[t] \in WorkRest

\* The running thread, the ready list.
Queue ==
    /\ \A t \in Thd : status[t] = "running" <=> t = running
    /\ IsInjective(ready_list)
    /\ \A t \in Thd : t \in ToSet(ready_list) <=> status[t] = "ready" /\ t # idle_thread

\* Who waits is about to look at the semaphore again.
Waiting ==
    \A s \in Semaphore : IsInjective(waiters[s])
                         /\ \A t \in ToSet(waiters[s]) : status[t] = "blocked" /\ Downs(t, s)

Asleep ==
    \A t \in Thd : status[t] = "blocked" =>
        \/ t = idle_thread \/ \E s \in Semaphore : t \in ToSet(waiters[s])
        \/ \E u \in Thd : Making(todo[u], t)

\* Threads that are not there.
Absent ==
    /\ IsInjective(all_list)
    /\ \A t \in Thd : t \in ToSet(all_list) <=> status[t] \notin {"free", "page", "dying"}
    /\ \A t \in Thd : status[t] \in {"free", "page", "dying"} => todo[t] = <<>>
    /\ \A t \in Thd : status[t] = "dying" => t = MainThread

\* thread_start: until the idle thread has run, the main thread waits for it,
\* and there is no other.
Starting ==
    /\ idle_thread = IdleThread =>
         todo[IdleThread] \in {I1, I2, Halted} /\ status[IdleThread] \in {"running", "ready", "blocked"}
    /\ idle_thread = NoThd =>
         /\ todo[MainThread] \in StartRest
         /\ \A t \in Worker : status[t] = "free"
         /\ value["idle_started"] = 0
         /\ \/ Making(todo[MainThread], IdleThread) /\ running = MainThread /\ ~intr
            \/ todo[IdleThread] = I3 /\ status[IdleThread] \in {"running", "ready"}

\* A thread that is being made.
Made ==
    \A t, u \in Thd : Making(todo[t], u) =>
        /\ u # MainThread /\ \A v \in Thd : Making(todo[v], u) => v = t
        /\ IF Begins(todo[t], "init", u) THEN status[u] = "page"
           ELSE status[u] = "blocked" /\ todo[u] = (IF u = IdleThread THEN I3 ELSE <<>>)

Locked ==
    \A l \in Lock :
        /\ \A t \in Thd : holder[l] = t <=> Holds(todo[t], l)
        /\ \/ value[l] = 1 /\ \A t \in Thd : ~Has(todo[t], l)
           \/ value[l] = 0 /\ \E t \in Thd : \A u \in Thd : Has(todo[u], l) <=> u = t

\* A thread in cond_wait is on the list, or is about to be signalled, or has been.
Signals ==
    /\ IsInjective(cond)
    /\ \A t \in ToSet(cond) : InWait(todo[t]) /\ value[t] = 0 /\ \A u \in Thd : ~Begins(todo[u], "up", t)
    /\ \A t, u \in Thd : Begins(todo[u], "up", t) =>
         InWait(todo[t]) /\ value[t] = 0 /\ \A v \in Thd : Begins(todo[v], "up", t) => v = u
    /\ \A t \in Thd : InWait(todo[t]) =>
         t \in ToSet(cond) \/ value[t] > 0 \/ \E u \in Thd : Begins(todo[u], "up", t)

\* Threads that have got a tid.
Named(t) == status[t] \notin {"free", "page", "dying"} /\ \A u \in Thd : ~Unnamed(todo[u], t)
Tids ==
    /\ \A t \in Thd : Named(t) =>
         \/ tid[t] < next_tid
         \/ tid[t] = next_tid /\ \E u \in Thd : Begins(todo[u], "tid_next", t)
    /\ \A t, u \in Thd : Begins(todo[u], "tid_next", t) => tid[t] = next_tid
    /\ \A t, u \in Thd : Named(t) /\ Named(u) /\ t # u => tid[t] # tid[u]

\* Threads that will look at semaphore s next: enough for what it counts.
Coming(s) == {t \in Thd : status[t] \in {"ready", "running"} /\ Downs(t, s)}
Enough == \A s \in Semaphore : waiters[s] # <<>> => Cardinality(Coming(s)) >= value[s]

KInv ==
    /\ KTypes /\ Rests /\ Queue /\ Waiting /\ Asleep /\ Absent /\ Starting /\ Made
    /\ Locked /\ Signals /\ Tids /\ Enough

-----------------------------------------------------------------------------
\* Operations, by name and argument.
OpName ==
    {"down", "own", "disown", "up", "try", "signal", "broadcast", "wait", "down_own", "tid_read",
     "tid_next", "init", "unblock", "intr_enable", "idle", "block", "hlt", "nap", "yield", "exit"}
Action == [op : OpName, arg : Semaphore \cup {NoThd}]

\* What a rest begins with, what is left of it after that, what it mentions.
LEMMA PreParts ==
    ASSUME NEW o \in OpName, NEW a \in Semaphore \cup {NoThd}, NEW q \in Seq(Action)
    PROVE  /\ Pre(o, a, q) \in Seq(Action) /\ Pre(o, a, q) # <<>>
           /\ Head(Pre(o, a, q)) = Act(o, a) /\ Tail(Pre(o, a, q)) = q
           /\ \A b : Mentions(Pre(o, a, q), b) <=> b = Act(o, a) \/ Mentions(q, b)
<1>1. PICK x \in Action : x = Act(o, a)  BY DEF Act, Action
<1>2. PICK p : p = <<x>> \o q  OBVIOUS
<1>3. Pre(o, a, q) = p  BY <1>1, <1>2 DEF Pre, Do, Act
<1>4. /\ p \in Seq(Action) /\ Len(p) = Len(q) + 1 /\ p[1] = x
      /\ \A j \in 1 .. Len(q) : p[j + 1] = q[j]
  BY <1>1, <1>2, PrependElements
<1>5. p # <<>> /\ Head(p) = x  BY <1>4
<1>6. Tail(p) = q
  <2>1. Tail(p) \in Seq(Action) /\ Len(Tail(p)) = Len(q) /\ \A i \in 1 .. Len(q) : Tail(p)[i] = q[i]
    BY <1>4, <1>5
  <2>2. QED  BY <2>1
<1>7. ASSUME NEW b PROVE Mentions(p, b) <=> b = x \/ Mentions(q, b)
  <2>0. Len(q) \in Nat /\ DOMAIN q = 1 .. Len(q) /\ DOMAIN p = 1 .. Len(q) + 1  BY <1>4
  <2>1. ASSUME Mentions(p, b) PROVE b = x \/ Mentions(q, b)
    <3>1. PICK i \in 1 .. Len(q) + 1 : p[i] = b  BY <2>0, <2>1 DEF Mentions
    <3>2. CASE i = 1  BY <1>4, <3>1, <3>2
    <3>3. CASE i # 1
      <4>1. i - 1 \in 1 .. Len(q) /\ (i - 1) + 1 = i  BY <2>0, <3>1, <3>3
      <4>2. q[i - 1] = b  BY <1>4, <3>1, <4>1
      <4>3. QED  BY <2>0, <4>1, <4>2 DEF Mentions
    <3>4. QED  BY <3>2, <3>3
  <2>2. ASSUME b = x PROVE Mentions(p, b)
    <3>1. 1 \in DOMAIN p  BY <2>0
    <3>2. QED  BY <1>4, <2>2, <3>1 DEF Mentions
  <2>3. ASSUME Mentions(q, b) PROVE Mentions(p, b)
    <3>1. PICK i \in 1 .. Len(q) : q[i] = b  BY <2>0, <2>3 DEF Mentions
    <3>2. i + 1 \in DOMAIN p /\ p[i + 1] = b  BY <1>4, <2>0, <3>1
    <3>3. QED  BY <3>2 DEF Mentions
  <2>4. QED  BY <2>1, <2>2, <2>3
<1>8. QED  BY <1>1, <1>3, <1>4, <1>5, <1>6, <1>7

\* A call that is over mentions nothing.
LEMMA Nothing == <<>> \in Seq(Action) /\ \A b : ~Mentions(<<>>, b)
  BY DEF Mentions

\* The names of semaphores and threads.
LEMMA Names ==
    /\ "lock" \in Lock /\ "tid" \in Lock /\ "lock" \in Semaphore /\ "tid" \in Semaphore
    /\ "sema" \in Semaphore /\ "idle_started" \in Semaphore /\ Thd \subseteq Semaphore
    /\ MainThread \in Thd /\ IdleThread \in Thd /\ MainThread # IdleThread /\ Worker \subseteq Thd
    /\ MainThread \notin Worker /\ IdleThread \notin Worker /\ NoThd \notin Thd
    /\ "lock" \notin Thd /\ "tid" \notin Thd /\ "sema" \notin Thd /\ "idle_started" \notin Thd
    /\ NoThd \notin {"lock", "tid", "sema", "idle_started"}
  BY KernelAssumption, NamesAssumption DEF Lock, Semaphore, Thd

\* A rest that begins with an operation and goes on with q.
Shape(x, o, a, q) ==
    /\ x \in Seq(Action) /\ x # <<>> /\ Head(x) = Act(o, a) /\ Tail(x) = q
    /\ Head(x).op = o /\ Head(x).arg = a
    /\ \A b : Mentions(x, b) <=> b = Act(o, a) \/ Mentions(q, b)

\* Putting an operation before a rest gives a rest of that shape.
LEMMA PreShape ==
    ASSUME NEW o \in OpName, NEW a \in Semaphore \cup {NoThd}, NEW q \in Seq(Action)
    PROVE  Pre(o, a, q) \in Seq(Action) /\ Shape(Pre(o, a, q), o, a, q)
<1>1. Act(o, a).op = o /\ Act(o, a).arg = a  BY DEF Act
<1>2. QED  BY <1>1, PreParts DEF Shape

\* A rest of a call that makes no thread, in or not in cond_wait.
Apart(x) == \A t : ~Making(x, t)
Quiet(x) == ~Mentions(x, Act("down_own", NoThd))

\* Only the operation that matters to a reading of a rest changes it.
LEMMA Carries ==
    ASSUME NEW x, NEW o, NEW a, NEW q, Shape(x, o, a, q)
    PROVE  /\ o # "unblock" => \A t : Making(x, t) <=> Making(q, t)
           /\ o # "down_own" => (Mentions(x, Act("down_own", NoThd)) <=> Mentions(q, Act("down_own", NoThd)))
<1>1. \A t : Act(o, a) = Act("unblock", t) <=> o = "unblock" /\ a = t  BY DEF Act
<1>2. Act(o, a) = Act("down_own", NoThd) => o = "down_own"  BY DEF Act
<1>3. QED  BY <1>1, <1>2 DEF Shape, Making

\* What the operation a rest begins with tells of what follows.
LocksKnown(q) ==
    LET o == Head(q).op  a == Head(q).arg  z == Tail(q)
    IN  /\ o = "down" /\ a \in Lock => Begins(z, "own", a)
        /\ o = "down" /\ a \notin Lock => a \in {"sema", "idle_started"} /\ z = <<>>
        /\ o = "own" => a \in Lock /\ Holds(z, a) /\ \A l \in Lock : Has(z, l) => l = a
        /\ o = "disown" => a \in Lock /\ Begins(z, "up", a)
        /\ o = "up" => a \in Semaphore /\ (a \in Lock => \A l \in Lock : ~Has(z, l))
        /\ o = "try" => a = "lock" /\ z = <<>>
        /\ o \in {"signal", "broadcast"} => z = U2
        /\ o \in {"down", "own", "disown"} \/ (o = "up" /\ a \in Lock)
             \/ \A l \in Lock : (Has(z, l) <=> Has(q, l)) /\ (Holds(z, l) <=> Holds(q, l))
WaitsKnown(q) ==
    LET o == Head(q).op  z == Tail(q)
    IN  /\ o = "wait" => ~InWait(q) /\ InWait(z)
        /\ o = "down_own" => InWait(q) /\ ~InWait(z)
        /\ o \notin {"wait", "down_own"} => (InWait(z) <=> InWait(q))
        /\ \A t \in Thd : ~Begins(z, "up", t)
MakesKnown(q) ==
    LET o == Head(q).op  a == Head(q).arg  z == Tail(q)
    IN  /\ o # "unblock" => \A t : Making(z, t) <=> Making(q, t)
        /\ o = "unblock" => Apart(z)
        /\ o \in {"init", "tid_read", "tid_next", "unblock"} =>
             a \in Worker \cup {IdleThread} /\ \A t : Making(q, t) <=> t = a
        /\ o # "tid_read" => \A t : Unnamed(z, t) <=> Unnamed(q, t)
        /\ o = "tid_read" => \A t : Unnamed(q, t) <=> t = a
        /\ o = "tid_read" => Begins(z, "tid_next", a) /\ \A t : ~Unnamed(z, t)
        /\ o # "tid_read" => \A t : ~Begins(z, "tid_next", t)
        /\ \A t : ~Begins(z, "init", t)
Known(q) ==
    /\ q \in Seq(Action) /\ q # <<>> /\ Head(q) \in Action
    /\ Head(q) = Act(Head(q).op, Head(q).arg)
    /\ LocksKnown(q) /\ WaitsKnown(q) /\ MakesKnown(q)

\* The rests of the uses of the lock, one by one.
LEMMA MonitorShapes ==
    /\ Shape(U1, "up", "lock", <<>>) /\ Shape(U2, "disown", "lock", U1)
    /\ Shape(U3, "own", "lock", U2) /\ Shape(U4, "down", "lock", U3)
    /\ Shape(S1, "signal", NoThd, U2) /\ Shape(S2, "own", "lock", S1) /\ Shape(S3, "down", "lock", S2)
    /\ Shape(B1, "broadcast", NoThd, U2) /\ Shape(B2, "own", "lock", B1) /\ Shape(B3, "down", "lock", B2)
    /\ Shape(W1, "down_own", NoThd, U4) /\ Shape(W2, "up", "lock", W1) /\ Shape(W3, "disown", "lock", W2)
    /\ Shape(W4, "wait", NoThd, W3) /\ Shape(W5, "own", "lock", W4) /\ Shape(W6, "down", "lock", W5)
    /\ \A w \in Thd : Shape(Poke(w), "up", w, U2) /\ Shape(PokeAll(w), "up", w, B1)
<1>0. {"up", "disown", "own", "down", "signal", "broadcast", "down_own", "wait"} \subseteq OpName  BY DEF OpName
<1>1. U1 \in Seq(Action) /\ Shape(U1, "up", "lock", <<>>)  BY <1>0, Names, Nothing, PreShape DEF U1
<1>2. U2 \in Seq(Action) /\ Shape(U2, "disown", "lock", U1)  BY <1>0, <1>1, Names, PreShape DEF U2
<1>3. U3 \in Seq(Action) /\ Shape(U3, "own", "lock", U2)  BY <1>0, <1>2, Names, PreShape DEF U3
<1>4. U4 \in Seq(Action) /\ Shape(U4, "down", "lock", U3)  BY <1>0, <1>3, Names, PreShape DEF U4
<1>5. S1 \in Seq(Action) /\ Shape(S1, "signal", NoThd, U2)  BY <1>0, <1>2, Names, PreShape DEF S1
<1>6. S2 \in Seq(Action) /\ Shape(S2, "own", "lock", S1)  BY <1>0, <1>5, Names, PreShape DEF S2
<1>7. Shape(S3, "down", "lock", S2)  BY <1>0, <1>6, Names, PreShape DEF S3
<1>8. B1 \in Seq(Action) /\ Shape(B1, "broadcast", NoThd, U2)  BY <1>0, <1>2, Names, PreShape DEF B1
<1>9. B2 \in Seq(Action) /\ Shape(B2, "own", "lock", B1)  BY <1>0, <1>8, Names, PreShape DEF B2
<1>10. Shape(B3, "down", "lock", B2)  BY <1>0, <1>9, Names, PreShape DEF B3
<1>11. W1 \in Seq(Action) /\ Shape(W1, "down_own", NoThd, U4)  BY <1>0, <1>4, Names, PreShape DEF W1
<1>12. W2 \in Seq(Action) /\ Shape(W2, "up", "lock", W1)  BY <1>0, <1>11, Names, PreShape DEF W2
<1>13. W3 \in Seq(Action) /\ Shape(W3, "disown", "lock", W2)  BY <1>0, <1>12, Names, PreShape DEF W3
<1>14. W4 \in Seq(Action) /\ Shape(W4, "wait", NoThd, W3)  BY <1>0, <1>13, Names, PreShape DEF W4
<1>15. W5 \in Seq(Action) /\ Shape(W5, "own", "lock", W4)  BY <1>0, <1>14, Names, PreShape DEF W5
<1>16. Shape(W6, "down", "lock", W5)  BY <1>0, <1>15, Names, PreShape DEF W6
<1>17. ASSUME NEW w \in Thd PROVE Shape(Poke(w), "up", w, U2) /\ Shape(PokeAll(w), "up", w, B1)
  <2>1. w \in Semaphore \cup {NoThd}  BY Names
  <2>2. Shape(Poke(w), "up", w, U2)  BY <1>0, <1>2, <2>1, PreShape DEF Poke
  <2>3. Shape(PokeAll(w), "up", w, B1)  BY <1>0, <1>8, <2>1, PreShape DEF PokeAll
  <2>4. QED  BY <2>2, <2>3
<1>18. QED  BY <1>1, <1>2, <1>3, <1>4, <1>5, <1>6, <1>7, <1>8, <1>9, <1>10, <1>11, <1>12, <1>13,
               <1>14, <1>15, <1>16, <1>17

\* No use of the lock makes a thread, and only the waiting ones will wait.
LEMMA MonitorMentions ==
    /\ Apart(U1) /\ Apart(U2) /\ Apart(U3) /\ Apart(U4) /\ Apart(S1) /\ Apart(S2) /\ Apart(S3)
    /\ Apart(B1) /\ Apart(B2) /\ Apart(B3)
    /\ Apart(W1) /\ Apart(W2) /\ Apart(W3) /\ Apart(W4) /\ Apart(W5) /\ Apart(W6)
    /\ \A w \in Thd : Apart(Poke(w)) /\ Apart(PokeAll(w)) /\ Quiet(Poke(w)) /\ Quiet(PokeAll(w))
    /\ Quiet(U1) /\ Quiet(U2) /\ Quiet(U3) /\ Quiet(U4) /\ Quiet(S1) /\ Quiet(S2) /\ Quiet(S3)
    /\ Quiet(B1) /\ Quiet(B2) /\ Quiet(B3)
    /\ ~Quiet(W1) /\ ~Quiet(W2) /\ ~Quiet(W3) /\ ~Quiet(W4) /\ ~Quiet(W5) /\ ~Quiet(W6)
<1>0. Apart(<<>>) /\ Quiet(<<>>)  BY Nothing DEF Apart, Quiet, Making
<1>1. Apart(U1) /\ Quiet(U1)  BY <1>0, MonitorShapes, Carries DEF Apart, Quiet
<1>2. Apart(U2) /\ Quiet(U2)  BY <1>1, MonitorShapes, Carries DEF Apart, Quiet
<1>3. Apart(U3) /\ Quiet(U3)  BY <1>2, MonitorShapes, Carries DEF Apart, Quiet
<1>4. Apart(U4) /\ Quiet(U4)  BY <1>3, MonitorShapes, Carries DEF Apart, Quiet
<1>5. Apart(S1) /\ Quiet(S1)  BY <1>2, MonitorShapes, Carries DEF Apart, Quiet
<1>6. Apart(S2) /\ Quiet(S2)  BY <1>5, MonitorShapes, Carries DEF Apart, Quiet
<1>7. Apart(S3) /\ Quiet(S3)  BY <1>6, MonitorShapes, Carries DEF Apart, Quiet
<1>8. Apart(B1) /\ Quiet(B1)  BY <1>2, MonitorShapes, Carries DEF Apart, Quiet
<1>9. Apart(B2) /\ Quiet(B2)  BY <1>8, MonitorShapes, Carries DEF Apart, Quiet
<1>10. Apart(B3) /\ Quiet(B3)  BY <1>9, MonitorShapes, Carries DEF Apart, Quiet
<1>11. Apart(W1) /\ ~Quiet(W1)
  <2>1. Apart(W1)  BY <1>4, MonitorShapes, Carries DEF Apart
  <2>2. ~Quiet(W1)  BY MonitorShapes DEF Quiet, Shape
  <2>3. QED  BY <2>1, <2>2
<1>12. Apart(W2) /\ ~Quiet(W2)  BY <1>11, MonitorShapes, Carries DEF Apart, Quiet
<1>13. Apart(W3) /\ ~Quiet(W3)  BY <1>12, MonitorShapes, Carries DEF Apart, Quiet
<1>14. Apart(W4) /\ ~Quiet(W4)  BY <1>13, MonitorShapes, Carries DEF Apart, Quiet
<1>15. Apart(W5) /\ ~Quiet(W5)  BY <1>14, MonitorShapes, Carries DEF Apart, Quiet
<1>16. Apart(W6) /\ ~Quiet(W6)  BY <1>15, MonitorShapes, Carries DEF Apart, Quiet
<1>17. \A w \in Thd : Apart(Poke(w)) /\ Apart(PokeAll(w)) /\ Quiet(Poke(w)) /\ Quiet(PokeAll(w))
  BY <1>2, <1>8, MonitorShapes, Carries DEF Apart, Quiet
<1>18. QED  BY <1>1, <1>2, <1>3, <1>4, <1>5, <1>6, <1>7, <1>8, <1>9, <1>10, <1>11, <1>12, <1>13,
               <1>14, <1>15, <1>16, <1>17

\* A rest that makes no thread and is not in cond_wait's part.
LEMMA KnownApart ==
    ASSUME NEW x, NEW o \in OpName, NEW a \in Semaphore \cup {NoThd}, NEW q, Shape(x, o, a, q),
           Apart(x), Apart(q), o \notin {"init", "tid_read", "tid_next", "unblock"},
           q # <<>> => Head(q).op \notin {"init", "tid_next"}
    PROVE  MakesKnown(x) /\ x \in Seq(Action) /\ x # <<>> /\ Head(x) \in Action
           /\ Head(x) = Act(Head(x).op, Head(x).arg)
<1>1. \A t : ~Unnamed(x, t) /\ ~Unnamed(q, t)  BY DEF Apart, Unnamed
<1>2. \A t : ~Begins(q, "tid_next", t) /\ ~Begins(q, "init", t)  BY DEF Begins, Act
<1>3. x \in Seq(Action) /\ x # <<>> /\ Head(x) = Act(o, a) /\ Tail(x) = q /\ Head(x).op = o /\ Head(x).arg = a
  BY DEF Shape
<1>4. Head(x) \in Action  BY <1>3 DEF Act, Action
<1>5. MakesKnown(x)  BY <1>1, <1>2, <1>3 DEF MakesKnown, Apart
<1>6. QED  BY <1>3, <1>4, <1>5

\* Two operations in a row, and the last one.
LEMMA HeadFacts ==
    ASSUME NEW x, NEW o, NEW a, NEW q, Shape(x, o, a, q)
    PROVE  /\ x # <<>> /\ Tail(x) = q /\ Head(x).op = o /\ Head(x).arg = a
           /\ \A p, b : Begins(x, p, b) <=> p = o /\ b = a
           /\ \A l : Takes(x, l) <=> o \in {"own", "up"} /\ l = a
           /\ \A l : Holds(x, l) <=> \/ o = "disown" /\ l = a
                                     \/ l = "lock" /\ o \in {"wait", "signal", "broadcast"}
                                     \/ l = "lock" /\ o = "up" /\ a \in Thd
                                     \/ l = "tid" /\ o \in {"tid_read", "tid_next"}
           /\ InWait(x) <=> ~Quiet(x) /\ o \in {"disown", "up", "down_own"}
<1>1. x # <<>> /\ Head(x) = Act(o, a) /\ Tail(x) = q /\ Head(x).op = o /\ Head(x).arg = a  BY DEF Shape
<1>2. \A p, b : Act(o, a) = Act(p, b) <=> p = o /\ b = a  BY DEF Act
<1>3. \A p, b : Begins(x, p, b) <=> p = o /\ b = a  BY <1>1, <1>2 DEF Begins
<1>4. \A l : Takes(x, l) <=> o \in {"own", "up"} /\ l = a  BY <1>1, <1>2 DEF Takes
<1>5. \A l : Holds(x, l) <=> \/ o = "disown" /\ l = a
                             \/ l = "lock" /\ o \in {"wait", "signal", "broadcast"}
                             \/ l = "lock" /\ o = "up" /\ a \in Thd
                             \/ l = "tid" /\ o \in {"tid_read", "tid_next"}
  BY <1>1, <1>2 DEF Holds
<1>6. InWait(x) <=> ~Quiet(x) /\ o \in {"disown", "up", "down_own"}  BY <1>1 DEF InWait, Quiet
<1>7. QED  BY <1>1, <1>3, <1>4, <1>5, <1>6

\* A call that is over holds, takes, makes and begins nothing.
LEMMA EmptyFacts ==
    /\ \A p, b : ~Begins(<<>>, p, b)
    /\ \A l : ~Takes(<<>>, l) /\ ~Holds(<<>>, l) /\ ~Has(<<>>, l)
    /\ ~InWait(<<>>) /\ Apart(<<>>) /\ Quiet(<<>>) /\ \A t : ~Unnamed(<<>>, t) /\ ~Making(<<>>, t)
  BY Nothing DEF Begins, Takes, Holds, Has, InWait, Apart, Quiet, Unnamed, Making

\* Which operation comes after which.
Follows(o, a, p, b) ==
    \/ o = "down" /\ a \in Lock /\ p = "own" /\ b = a
    \/ o = "own" /\ a = "lock" /\ p \in {"wait", "signal", "broadcast"}
    \/ o = "own" /\ a = "lock" /\ p = "disown" /\ b = a
    \/ o = "own" /\ a = "tid" /\ p = "tid_read"
    \/ o = "disown" /\ a \in Lock /\ p = "up" /\ b = a
    \/ o = "up" /\ a \in Lock /\ p \in {"down_own", "unblock"}
    \/ o = "up" /\ a \in Thd /\ (p = "broadcast" \/ (p = "disown" /\ b = "lock"))
    \/ o \in {"signal", "broadcast", "wait"} /\ p = "disown" /\ b = "lock"
    \/ o \in {"down_own", "init", "intr_enable"} /\ p = "down"
    \/ o = "tid_read" /\ p = "tid_next" /\ b = a
    \/ o = "tid_next" /\ p = "disown" /\ b = "tid"
    \/ o = "unblock" /\ p = "intr_enable"
    \/ o = "idle" /\ p = "up" /\ b = "idle_started"
    \/ o = "up" /\ a = "idle_started" /\ p = "block"

\* What two operations in a row say of the locks.
LEMMA PairLocks ==
    ASSUME NEW x, NEW o, NEW a, NEW q, NEW p, NEW b, NEW r,
           Shape(x, o, a, q), Shape(q, p, b, r), Follows(o, a, p, b),
           o \in {"signal", "broadcast"} => q = U2
    PROVE  LocksKnown(x)
<1>1. /\ Tail(x) = q /\ Head(x).op = o /\ Head(x).arg = a
      /\ \A l : Has(x, l) <=> \/ o \in {"own", "up", "disown"} /\ l = a
                              \/ l = "lock" /\ o \in {"wait", "signal", "broadcast"}
                              \/ l = "lock" /\ o = "up" /\ a \in Thd
                              \/ l = "tid" /\ o \in {"tid_read", "tid_next"}
      /\ \A l : Holds(x, l) <=> \/ o = "disown" /\ l = a
                                \/ l = "lock" /\ o \in {"wait", "signal", "broadcast"}
                                \/ l = "lock" /\ o = "up" /\ a \in Thd
                                \/ l = "tid" /\ o \in {"tid_read", "tid_next"}
  BY HeadFacts DEF Has
<1>2. /\ \A c, l : Begins(q, c, l) <=> c = p /\ l = b
      /\ \A l : Has(q, l) <=> \/ p \in {"own", "up", "disown"} /\ l = b
                              \/ l = "lock" /\ p \in {"wait", "signal", "broadcast"}
                              \/ l = "lock" /\ p = "up" /\ b \in Thd
                              \/ l = "tid" /\ p \in {"tid_read", "tid_next"}
      /\ \A l : Holds(q, l) <=> \/ p = "disown" /\ l = b
                                \/ l = "lock" /\ p \in {"wait", "signal", "broadcast"}
                                \/ l = "lock" /\ p = "up" /\ b \in Thd
                                \/ l = "tid" /\ p \in {"tid_read", "tid_next"}
  BY HeadFacts DEF Has
<1>3. /\ Lock = {"lock", "tid"} /\ Lock \subseteq Semaphore /\ Thd \subseteq Semaphore
      /\ "idle_started" \in Semaphore /\ "idle_started" \notin Thd /\ "idle_started" \notin Lock
      /\ "lock" \notin Thd /\ "tid" \notin Thd
  BY Names DEF Lock
<1>4. CASE o = "down"  BY <1>1, <1>2, <1>3, <1>4 DEF LocksKnown, Follows
<1>5. CASE o = "own"  BY <1>1, <1>2, <1>3, <1>5 DEF LocksKnown, Follows
<1>6. CASE o = "disown"  BY <1>1, <1>2, <1>3, <1>6 DEF LocksKnown, Follows
<1>7. CASE o = "up"
  <2>1. CASE a \in Lock  BY <1>1, <1>2, <1>3, <1>7, <2>1 DEF LocksKnown, Follows
  <2>2. CASE a \notin Lock /\ a \in Thd  BY <1>1, <1>2, <1>3, <1>7, <2>2 DEF LocksKnown, Follows
  <2>3. CASE a = "idle_started"  BY <1>1, <1>2, <1>3, <1>7, <2>3 DEF LocksKnown, Follows
  <2>4. QED  BY <1>7, <2>1, <2>2, <2>3 DEF Follows
<1>8. CASE o \in {"signal", "broadcast", "wait"}  BY <1>1, <1>2, <1>3, <1>8 DEF LocksKnown, Follows
<1>9. CASE o \in {"down_own", "init", "intr_enable"}  BY <1>1, <1>2, <1>3, <1>9 DEF LocksKnown, Follows
<1>10. CASE o \in {"tid_read", "tid_next"}  BY <1>1, <1>2, <1>3, <1>10 DEF LocksKnown, Follows
<1>11. CASE o \in {"unblock", "idle"}  BY <1>1, <1>2, <1>3, <1>11 DEF LocksKnown, Follows
<1>12. QED  BY <1>4, <1>5, <1>6, <1>7, <1>8, <1>9, <1>10, <1>11 DEF Follows

\* What two operations in a row say of cond_wait.
LEMMA PairWaits ==
    ASSUME NEW x, NEW o, NEW a, NEW q, NEW p, NEW b, NEW r,
           Shape(x, o, a, q), Shape(q, p, b, r), Follows(o, a, p, b),
           \/ Quiet(x) \/ o \in {"down_own", "disown", "down", "wait"} \/ p \in {"wait", "down_own"},
           o = "wait" => ~Quiet(q),
           o = "down_own" => a = NoThd
    PROVE  WaitsKnown(x)
<1>1. /\ Tail(x) = q /\ Head(x).op = o
      /\ InWait(x) <=> ~Quiet(x) /\ o \in {"disown", "up", "down_own"}
  BY HeadFacts
<1>2. /\ \A c, l : Begins(q, c, l) <=> c = p /\ l = b
      /\ InWait(q) <=> ~Quiet(q) /\ p \in {"disown", "up", "down_own"}
  BY HeadFacts
<1>3. o # "down_own" => (Quiet(x) <=> Quiet(q))  BY Carries DEF Quiet
<1>4. o = "down_own" => ~Quiet(x)
  BY DEF Quiet, Shape
<1>5. Lock \cap Thd = {} /\ "idle_started" \notin Thd  BY Names DEF Lock
<1>6. \A t \in Thd : ~Begins(q, "up", t)  BY <1>2, <1>5 DEF Follows
<1>7. o = "wait" => ~InWait(x) /\ InWait(q)  BY <1>1, <1>2 DEF Follows
<1>8. o = "down_own" => InWait(x) /\ ~InWait(q)  BY <1>1, <1>2, <1>4 DEF Follows
<1>9. ASSUME o \notin {"wait", "down_own"} PROVE InWait(q) <=> InWait(x)
  <2>1. CASE Quiet(x)  BY <1>1, <1>2, <1>3, <1>9, <2>1
  <2>2. CASE ~Quiet(x) /\ o \in {"disown", "down"}  BY <1>1, <1>2, <1>3, <1>9, <2>2 DEF Follows
  <2>3. CASE ~Quiet(x) /\ p \in {"wait", "down_own"}  BY <1>1, <1>2, <1>3, <1>9, <2>3 DEF Follows
  <2>4. QED  BY <1>9, <2>1, <2>2, <2>3
<1>10. QED  BY <1>1, <1>6, <1>7, <1>8, <1>9 DEF WaitsKnown

\* What a call ends with.
Ends(o, a) ==
    \/ o = "up" /\ a \in {"lock", "sema"}
    \/ o = "down" /\ a \in {"sema", "idle_started"}
    \/ o = "try" /\ a = "lock"
    \/ o \in {"unblock", "block", "hlt", "nap", "yield", "exit"}

\* The last operation of a call leaves nothing held.
LEMMA LastKnown ==
    ASSUME NEW x, NEW o, NEW a, Shape(x, o, a, <<>>), Ends(o, a)
    PROVE  LocksKnown(x) /\ WaitsKnown(x)
<1>1. /\ Tail(x) = <<>> /\ Head(x).op = o /\ Head(x).arg = a
      /\ \A l : Has(x, l) <=> \/ o \in {"own", "up", "disown"} /\ l = a
                              \/ l = "lock" /\ o \in {"wait", "signal", "broadcast"}
                              \/ l = "lock" /\ o = "up" /\ a \in Thd
                              \/ l = "tid" /\ o \in {"tid_read", "tid_next"}
      /\ \A l : Holds(x, l) <=> \/ o = "disown" /\ l = a
                                \/ l = "lock" /\ o \in {"wait", "signal", "broadcast"}
                                \/ l = "lock" /\ o = "up" /\ a \in Thd
                                \/ l = "tid" /\ o \in {"tid_read", "tid_next"}
      /\ InWait(x) <=> ~Quiet(x) /\ o \in {"disown", "up", "down_own"}
  BY HeadFacts DEF Has
<1>2. /\ Lock = {"lock", "tid"} /\ "lock" \in Semaphore /\ "sema" \in Semaphore
      /\ "lock" \notin Thd /\ "sema" \notin Thd
  BY Names DEF Lock
<1>3. LocksKnown(x)
  <2>1. CASE o = "up"  BY <1>1, <1>2, <2>1, EmptyFacts DEF LocksKnown, Ends
  <2>2. CASE o = "down"  BY <1>1, <1>2, <2>2, EmptyFacts DEF LocksKnown, Ends
  <2>3. CASE o = "try"  BY <1>1, <1>2, <2>3, EmptyFacts DEF LocksKnown, Ends
  <2>4. CASE o \in {"unblock", "block", "hlt", "nap", "yield", "exit"}
    BY <1>1, <1>2, <2>4, EmptyFacts DEF LocksKnown
  <2>5. QED  BY <2>1, <2>2, <2>3, <2>4 DEF Ends
<1>4. o # "down_own" => Quiet(x)  BY Carries, EmptyFacts DEF Quiet
<1>5. WaitsKnown(x)  BY <1>1, <1>4, EmptyFacts DEF WaitsKnown, Ends
<1>6. QED  BY <1>3, <1>5

\* A rest that makes no thread: all but its end, and its end.
LEMMA KnownPair ==
    ASSUME NEW x, NEW o \in OpName, NEW a \in Semaphore \cup {NoThd}, NEW q, NEW p, NEW b, NEW r,
           Shape(x, o, a, q), Shape(q, p, b, r), Follows(o, a, p, b), Apart(q),
           o \notin {"init", "tid_read", "tid_next", "unblock"}, p \notin {"init", "tid_next"},
           o \in {"signal", "broadcast"} => q = U2,
           \/ Quiet(x) \/ o \in {"down_own", "disown", "down", "wait"} \/ p \in {"wait", "down_own"},
           o = "wait" => ~Quiet(q),
           o = "down_own" => a = NoThd
    PROVE  Known(x)
<1>1. Apart(x)  BY Carries DEF Apart
<1>2. LocksKnown(x)  BY PairLocks
<1>3. WaitsKnown(x)  BY PairWaits
<1>4. Head(q).op = p  BY DEF Shape
<1>5. MakesKnown(x) /\ x \in Seq(Action) /\ x # <<>> /\ Head(x) \in Action /\ Head(x) = Act(Head(x).op, Head(x).arg)
  BY <1>1, <1>4, KnownApart
<1>6. QED  BY <1>2, <1>3, <1>5 DEF Known

\* A rest of one operation is known.
LEMMA KnownLast ==
    ASSUME NEW x, NEW o \in OpName, NEW a \in Semaphore \cup {NoThd}, Shape(x, o, a, <<>>), Ends(o, a),
           o # "unblock"
    PROVE  Known(x)
<1>1. Apart(x)  BY Carries, EmptyFacts DEF Apart
<1>2. o \notin {"init", "tid_read", "tid_next", "unblock"}  BY DEF Ends
<1>3. MakesKnown(x) /\ x \in Seq(Action) /\ x # <<>> /\ Head(x) \in Action /\ Head(x) = Act(Head(x).op, Head(x).arg)
  BY <1>1, <1>2, EmptyFacts, KnownApart
<1>4. QED  BY <1>3, LastKnown DEF Known

\* Every rest of a use of the lock is known.
LEMMA MonitorKnown ==
    /\ Known(U1) /\ Known(U2) /\ Known(U3) /\ Known(U4) /\ Known(S1) /\ Known(S2) /\ Known(S3)
    /\ Known(B1) /\ Known(B2) /\ Known(B3)
    /\ Known(W1) /\ Known(W2) /\ Known(W3) /\ Known(W4) /\ Known(W5) /\ Known(W6)
    /\ \A w \in Thd : Known(Poke(w)) /\ Known(PokeAll(w))
<1>0. {"up", "disown", "own", "down", "signal", "broadcast", "down_own", "wait"} \subseteq OpName  BY DEF OpName
<1>a. {"lock", NoThd} \subseteq Semaphore \cup {NoThd} /\ "lock" \in Lock  BY Names
<1>1. Known(U1)  BY <1>0, <1>a, MonitorShapes, KnownLast DEF Ends
<1>2. Known(U2)
  <2>1. Follows("disown", "lock", "up", "lock")  BY <1>a DEF Follows
  <2>2. QED  BY <1>0, <1>a, <2>1, MonitorShapes, MonitorMentions, KnownPair
<1>3. Known(U3)
  <2>1. Follows("own", "lock", "disown", "lock")  BY <1>a DEF Follows
  <2>2. QED  BY <1>0, <1>a, <2>1, MonitorShapes, MonitorMentions, KnownPair
<1>4. Known(U4)
  <2>1. Follows("down", "lock", "own", "lock")  BY <1>a DEF Follows
  <2>2. QED  BY <1>0, <1>a, <2>1, MonitorShapes, MonitorMentions, KnownPair
<1>5. Known(S1)
  <2>1. Follows("signal", NoThd, "disown", "lock")  BY <1>a DEF Follows
  <2>2. QED  BY <1>0, <1>a, <2>1, MonitorShapes, MonitorMentions, KnownPair
<1>6. Known(S2)
  <2>1. Follows("own", "lock", "signal", NoThd)  BY <1>a DEF Follows
  <2>2. QED  BY <1>0, <1>a, <2>1, MonitorShapes, MonitorMentions, KnownPair
<1>7. Known(S3)
  <2>1. Follows("down", "lock", "own", "lock")  BY <1>a DEF Follows
  <2>2. QED  BY <1>0, <1>a, <2>1, MonitorShapes, MonitorMentions, KnownPair
<1>8. Known(B1)
  <2>1. Follows("broadcast", NoThd, "disown", "lock")  BY <1>a DEF Follows
  <2>2. QED  BY <1>0, <1>a, <2>1, MonitorShapes, MonitorMentions, KnownPair
<1>9. Known(B2)
  <2>1. Follows("own", "lock", "broadcast", NoThd)  BY <1>a DEF Follows
  <2>2. QED  BY <1>0, <1>a, <2>1, MonitorShapes, MonitorMentions, KnownPair
<1>10. Known(B3)
  <2>1. Follows("down", "lock", "own", "lock")  BY <1>a DEF Follows
  <2>2. QED  BY <1>0, <1>a, <2>1, MonitorShapes, MonitorMentions, KnownPair
<1>11. Known(W1)
  <2>1. Follows("down_own", NoThd, "down", "lock")  BY <1>a DEF Follows
  <2>2. QED  BY <1>0, <1>a, <2>1, MonitorShapes, MonitorMentions, KnownPair
<1>12. Known(W2)
  <2>1. Follows("up", "lock", "down_own", NoThd)  BY <1>a DEF Follows
  <2>2. QED  BY <1>0, <1>a, <2>1, MonitorShapes, MonitorMentions, KnownPair
<1>13. Known(W3)
  <2>1. Follows("disown", "lock", "up", "lock")  BY <1>a DEF Follows
  <2>2. QED  BY <1>0, <1>a, <2>1, MonitorShapes, MonitorMentions, KnownPair
<1>14. Known(W4)
  <2>1. Follows("wait", NoThd, "disown", "lock")  BY <1>a DEF Follows
  <2>2. QED  BY <1>0, <1>a, <2>1, MonitorShapes, MonitorMentions, KnownPair
<1>15. Known(W5)
  <2>1. Follows("own", "lock", "wait", NoThd)  BY <1>a DEF Follows
  <2>2. QED  BY <1>0, <1>a, <2>1, MonitorShapes, MonitorMentions, KnownPair
<1>16. Known(W6)
  <2>1. Follows("down", "lock", "own", "lock")  BY <1>a DEF Follows
  <2>2. QED  BY <1>0, <1>a, <2>1, MonitorShapes, MonitorMentions, KnownPair
<1>17. ASSUME NEW w \in Thd PROVE Known(Poke(w)) /\ Known(PokeAll(w))
  <2>1. Follows("up", w, "disown", "lock") /\ Follows("up", w, "broadcast", NoThd)  BY DEF Follows
  <2>2. w \in Semaphore \cup {NoThd}  BY Names
  <2>3. Known(Poke(w))  BY <1>0, <2>1, <2>2, MonitorShapes, MonitorMentions, KnownPair
  <2>4. Known(PokeAll(w))  BY <1>0, <2>1, <2>2, MonitorShapes, MonitorMentions, KnownPair
  <2>5. QED  BY <2>3, <2>4
<1>18. QED  BY <1>1, <1>2, <1>3, <1>4, <1>5, <1>6, <1>7, <1>8, <1>9, <1>10, <1>11, <1>12, <1>13,
               <1>14, <1>15, <1>16, <1>17

-----------------------------------------------------------------------------
\* The rests of thread_create(u), followed by e.
LEMMA MakeShapes ==
    ASSUME NEW u \in Thd, NEW e \in Seq(Action)
    PROVE  /\ Shape(C1(u, e), "unblock", u, e) /\ Shape(C2(u, e), "up", "tid", C1(u, e))
           /\ Shape(C3(u, e), "disown", "tid", C2(u, e)) /\ Shape(C4(u, e), "tid_next", u, C3(u, e))
           /\ Shape(C5(u, e), "tid_read", u, C4(u, e)) /\ Shape(C6(u, e), "own", "tid", C5(u, e))
           /\ Shape(C7(u, e), "down", "tid", C6(u, e)) /\ Shape(C8(u, e), "init", u, C7(u, e))
<1>0. {"unblock", "up", "disown", "own", "down", "tid_next", "tid_read", "init"} \subseteq OpName  BY DEF OpName
<1>a. {"tid", u} \subseteq Semaphore \cup {NoThd}  BY Names
<1>1. C1(u, e) \in Seq(Action) /\ Shape(C1(u, e), "unblock", u, e)  BY <1>0, <1>a, PreShape DEF C1
<1>2. C2(u, e) \in Seq(Action) /\ Shape(C2(u, e), "up", "tid", C1(u, e))  BY <1>0, <1>a, <1>1, PreShape DEF C2
<1>3. C3(u, e) \in Seq(Action) /\ Shape(C3(u, e), "disown", "tid", C2(u, e))  BY <1>0, <1>a, <1>2, PreShape DEF C3
<1>4. C4(u, e) \in Seq(Action) /\ Shape(C4(u, e), "tid_next", u, C3(u, e))  BY <1>0, <1>a, <1>3, PreShape DEF C4
<1>5. C5(u, e) \in Seq(Action) /\ Shape(C5(u, e), "tid_read", u, C4(u, e))  BY <1>0, <1>a, <1>4, PreShape DEF C5
<1>6. C6(u, e) \in Seq(Action) /\ Shape(C6(u, e), "own", "tid", C5(u, e))  BY <1>0, <1>a, <1>5, PreShape DEF C6
<1>7. C7(u, e) \in Seq(Action) /\ Shape(C7(u, e), "down", "tid", C6(u, e))  BY <1>0, <1>a, <1>6, PreShape DEF C7
<1>8. Shape(C8(u, e), "init", u, C7(u, e))  BY <1>0, <1>a, <1>7, PreShape DEF C8
<1>9. QED  BY <1>1, <1>2, <1>3, <1>4, <1>5, <1>6, <1>7, <1>8

\* A rest that makes thread u and no other, and is not in cond_wait.
Makes(x, u) == Quiet(x) /\ \A t : Making(x, t) <=> t = u

\* Every rest of thread_create makes its thread and no other.
LEMMA MakeMentions ==
    ASSUME NEW u \in Thd, NEW e \in Seq(Action), Apart(e), Quiet(e)
    PROVE  /\ Makes(C1(u, e), u) /\ Makes(C2(u, e), u) /\ Makes(C3(u, e), u) /\ Makes(C4(u, e), u)
           /\ Makes(C5(u, e), u) /\ Makes(C6(u, e), u) /\ Makes(C7(u, e), u) /\ Makes(C8(u, e), u)
<1>1. Makes(C1(u, e), u)
  <2>1. Shape(C1(u, e), "unblock", u, e)  BY MakeShapes
  <2>2. Quiet(C1(u, e))  BY <2>1, Carries DEF Quiet
  <2>3. \A t : Act("unblock", t) = Act("unblock", u) <=> t = u  BY DEF Act
  <2>4. \A t : Making(C1(u, e), t) <=> t = u  BY <2>1, <2>3 DEF Shape, Making, Apart
  <2>5. QED  BY <2>2, <2>4 DEF Makes
<1>2. ASSUME NEW x, NEW o, NEW a, NEW q, Shape(x, o, a, q), Makes(q, u), o \notin {"unblock", "down_own"}
      PROVE  Makes(x, u)
  BY <1>2, Carries DEF Makes, Quiet
<1>3. Makes(C2(u, e), u)  BY <1>1, <1>2, MakeShapes
<1>4. Makes(C3(u, e), u)  BY <1>3, <1>2, MakeShapes
<1>5. Makes(C4(u, e), u)  BY <1>4, <1>2, MakeShapes
<1>6. Makes(C5(u, e), u)  BY <1>5, <1>2, MakeShapes
<1>7. Makes(C6(u, e), u)  BY <1>6, <1>2, MakeShapes
<1>8. Makes(C7(u, e), u)  BY <1>7, <1>2, MakeShapes
<1>9. Makes(C8(u, e), u)  BY <1>8, <1>2, MakeShapes
<1>10. QED  BY <1>1, <1>3, <1>4, <1>5, <1>6, <1>7, <1>8, <1>9

\* Before the tid is assigned.
Early(o, a) == o \in {"init", "tid_read"} \/ (o \in {"down", "own"} /\ a = "tid")

\* A rest of thread_create is known when the rest after it is.
LEMMA KnownMaking ==
    ASSUME NEW u \in Worker \cup {IdleThread},
           NEW x, NEW o \in OpName, NEW a \in Semaphore \cup {NoThd}, NEW q, NEW p, NEW b, NEW r,
           Shape(x, o, a, q), Shape(q, p, b, r), Follows(o, a, p, b),
           Makes(q, u), o \notin {"unblock", "down_own", "wait", "signal", "broadcast"},
           o \in {"init", "tid_read", "tid_next"} => a = u,
           o # "tid_read" => (Early(o, a) <=> Early(p, b)) /\ p # "tid_next"
    PROVE  Known(x)
<1>1. Makes(x, u)  BY Carries DEF Makes, Quiet
<1>2. LocksKnown(x)  BY PairLocks
<1>3. WaitsKnown(x)  BY <1>1, PairWaits DEF Makes
<1>4. x \in Seq(Action) /\ x # <<>> /\ Head(x) = Act(o, a) /\ Tail(x) = q /\ Head(x).op = o /\ Head(x).arg = a
  BY DEF Shape
<1>5. Head(x) \in Action  BY <1>4 DEF Act, Action
<1>6. \A t : (Making(x, t) <=> t = u) /\ (Making(q, t) <=> t = u)  BY <1>1 DEF Makes
<1>7. \A s, c : Act(s, c) \in {Act("down", "tid"), Act("own", "tid")} <=> s \in {"down", "own"} /\ c = "tid"
  BY DEF Act
<1>8. \A t : Unnamed(x, t) <=> t = u /\ Early(o, a)
  BY <1>4, <1>6, <1>7 DEF Unnamed, Early
<1>9. Head(q) = Act(p, b) /\ Head(q).op = p /\ q # <<>>  BY DEF Shape
<1>10. \A t : Unnamed(q, t) <=> t = u /\ Early(p, b)
  BY <1>6, <1>7, <1>9 DEF Unnamed, Early
<1>11. \A c, t : Begins(q, c, t) <=> c = p /\ t = b  BY HeadFacts
<1>12. p # "init"  BY DEF Follows
<1>13. o = "tid_read" => p = "tid_next" /\ b = a /\ ~Early(p, b)  BY DEF Follows, Early
<1>14. MakesKnown(x)
  <2>1. CASE o = "tid_read"
    <3>1. Early(o, a)  BY <2>1 DEF Early
    <3>2. QED  BY <1>4, <1>6, <1>8, <1>10, <1>11, <1>12, <1>13, <2>1, <3>1 DEF MakesKnown
  <2>2. CASE o # "tid_read"
    BY <1>4, <1>6, <1>8, <1>10, <1>11, <1>12, <2>2 DEF MakesKnown
  <2>3. QED  BY <2>1, <2>2
<1>15. QED  BY <1>2, <1>3, <1>4, <1>5, <1>14 DEF Known

\* What comes after thread_create.
After(e) == e \in Seq(Action) /\ (e = <<>> \/ e = E2)

\* The rests of thread_start after thread_create.
LEMMA StartShapes ==
    /\ Shape(E1, "down", "idle_started", <<>>) /\ Shape(E2, "intr_enable", NoThd, E1)
    /\ E1 \in Seq(Action) /\ E2 \in Seq(Action)
<1>0. {"down", "intr_enable"} \subseteq OpName  BY DEF OpName
<1>1. E1 \in Seq(Action) /\ Shape(E1, "down", "idle_started", <<>>)  BY <1>0, Names, Nothing, PreShape DEF E1
<1>2. E2 \in Seq(Action) /\ Shape(E2, "intr_enable", NoThd, E1)  BY <1>0, <1>1, PreShape DEF E2
<1>3. QED  BY <1>1, <1>2

\* thread_start after thread_create makes no thread and does not wait.
LEMMA StartMentions == Apart(E1) /\ Quiet(E1) /\ Apart(E2) /\ Quiet(E2)
<1>1. Apart(E1) /\ Quiet(E1)  BY StartShapes, Carries, EmptyFacts DEF Apart, Quiet
<1>2. Apart(E2) /\ Quiet(E2)  BY <1>1, StartShapes, Carries DEF Apart, Quiet
<1>3. QED  BY <1>1, <1>2

\* Every rest of thread_create is known.
LEMMA MakeKnown ==
    ASSUME NEW u \in Worker \cup {IdleThread}, NEW e, After(e)
    PROVE  /\ Known(C1(u, e)) /\ Known(C2(u, e)) /\ Known(C3(u, e)) /\ Known(C4(u, e))
           /\ Known(C5(u, e)) /\ Known(C6(u, e)) /\ Known(C7(u, e)) /\ Known(C8(u, e))
<1>0. {"unblock", "up", "disown", "own", "down", "tid_next", "tid_read", "init", "intr_enable"} \subseteq OpName
  BY DEF OpName
<1>a. {"tid", u} \subseteq Semaphore \cup {NoThd} /\ "tid" \in Lock /\ u \in Thd  BY Names
<1>b. e \in Seq(Action) /\ Apart(e) /\ Quiet(e)  BY StartShapes, StartMentions, EmptyFacts DEF After
<1>c. /\ Shape(C1(u, e), "unblock", u, e) /\ Shape(C2(u, e), "up", "tid", C1(u, e))
      /\ Shape(C3(u, e), "disown", "tid", C2(u, e)) /\ Shape(C4(u, e), "tid_next", u, C3(u, e))
      /\ Shape(C5(u, e), "tid_read", u, C4(u, e)) /\ Shape(C6(u, e), "own", "tid", C5(u, e))
      /\ Shape(C7(u, e), "down", "tid", C6(u, e)) /\ Shape(C8(u, e), "init", u, C7(u, e))
  BY <1>a, <1>b, MakeShapes
<1>d. /\ Makes(C1(u, e), u) /\ Makes(C2(u, e), u) /\ Makes(C3(u, e), u) /\ Makes(C4(u, e), u)
      /\ Makes(C5(u, e), u) /\ Makes(C6(u, e), u) /\ Makes(C7(u, e), u) /\ Makes(C8(u, e), u)
  BY <1>a, <1>b, MakeMentions
<1>1. Known(C1(u, e))
  <2>1. PICK x : x = C1(u, e)  OBVIOUS
  <2>2. Shape(x, "unblock", u, e) /\ Makes(x, u)  BY <1>c, <1>d, <2>1
  <2>3. LocksKnown(x) /\ WaitsKnown(x)
    <3>1. CASE e = <<>>  BY <2>2, <3>1, LastKnown DEF Ends
    <3>2. CASE e # <<>>
      <4>1. Shape(e, "intr_enable", NoThd, E1)  BY <3>2, StartShapes DEF After
      <4>2. Follows("unblock", u, "intr_enable", NoThd)  BY DEF Follows
      <4>3. QED  BY <2>2, <4>1, <4>2, PairLocks, PairWaits DEF Makes
    <3>3. QED  BY <3>1, <3>2
  <2>4. /\ x \in Seq(Action) /\ x # <<>> /\ Head(x) = Act("unblock", u) /\ Tail(x) = e /\ Head(x).op = "unblock"
        /\ Head(x).arg = u
    BY <2>2 DEF Shape
  <2>5. Head(x) \in Action  BY <1>0, <1>a, <2>4 DEF Act, Action
  <2>6. \A t : (Making(x, t) <=> t = u) /\ ~Making(e, t)  BY <1>b, <2>2 DEF Makes, Apart
  <2>7. \A t : ~Unnamed(x, t) /\ ~Unnamed(e, t)
    <3>1. Act("unblock", u) \notin {Act("down", "tid"), Act("own", "tid")}  BY DEF Act
    <3>2. QED  BY <2>4, <2>6, <3>1 DEF Unnamed
  <2>8. \A t : ~Begins(e, "tid_next", t) /\ ~Begins(e, "init", t)
    BY StartShapes, EmptyFacts, HeadFacts DEF After
  <2>9. MakesKnown(x)  BY <1>b, <2>4, <2>6, <2>7, <2>8 DEF MakesKnown
  <2>10. QED  BY <2>1, <2>3, <2>4, <2>5, <2>9 DEF Known
<1>2. Known(C2(u, e))
  <2>1. Follows("up", "tid", "unblock", u)  BY <1>a DEF Follows
  <2>2. Early("up", "tid") <=> Early("unblock", u)  BY DEF Early
  <2>3. QED  BY <1>0, <1>a, <1>c, <1>d, <2>1, <2>2, KnownMaking
<1>3. Known(C3(u, e))
  <2>1. Follows("disown", "tid", "up", "tid")  BY <1>a DEF Follows
  <2>2. Early("disown", "tid") <=> Early("up", "tid")  BY DEF Early
  <2>3. QED  BY <1>0, <1>a, <1>c, <1>d, <2>1, <2>2, KnownMaking
<1>4. Known(C4(u, e))
  <2>1. Follows("tid_next", u, "disown", "tid")  BY <1>a DEF Follows
  <2>2. Early("tid_next", u) <=> Early("disown", "tid")  BY DEF Early
  <2>3. QED  BY <1>0, <1>a, <1>c, <1>d, <2>1, <2>2, KnownMaking
<1>5. Known(C5(u, e))
  <2>1. Follows("tid_read", u, "tid_next", u)  BY <1>a DEF Follows
  <2>3. QED  BY <1>0, <1>a, <1>c, <1>d, <2>1, KnownMaking
<1>6. Known(C6(u, e))
  <2>1. Follows("own", "tid", "tid_read", u)  BY <1>a DEF Follows
  <2>2. Early("own", "tid") <=> Early("tid_read", u)  BY DEF Early
  <2>3. QED  BY <1>0, <1>a, <1>c, <1>d, <2>1, <2>2, KnownMaking
<1>7. Known(C7(u, e))
  <2>1. Follows("down", "tid", "own", "tid")  BY <1>a DEF Follows
  <2>2. Early("down", "tid") <=> Early("own", "tid")  BY DEF Early
  <2>3. QED  BY <1>0, <1>a, <1>c, <1>d, <2>1, <2>2, KnownMaking
<1>8. Known(C8(u, e))
  <2>1. Follows("init", u, "down", "tid")  BY <1>a DEF Follows
  <2>2. Early("init", u) <=> Early("down", "tid")  BY DEF Early
  <2>3. QED  BY <1>0, <1>a, <1>c, <1>d, <2>1, <2>2, KnownMaking
<1>9. QED  BY <1>1, <1>2, <1>3, <1>4, <1>5, <1>6, <1>7, <1>8

\* The idle thread, and the calls of one operation.
LEMMA IdleShapes ==
    /\ Shape(I1, "block", NoThd, <<>>) /\ Shape(I2, "up", "idle_started", I1) /\ Shape(I3, "idle", NoThd, I2)
    /\ Shape(Halted, "hlt", NoThd, <<>>)
<1>0. {"block", "up", "idle", "hlt"} \subseteq OpName  BY DEF OpName
<1>1. I1 \in Seq(Action) /\ Shape(I1, "block", NoThd, <<>>)  BY <1>0, Nothing, PreShape DEF I1
<1>2. I2 \in Seq(Action) /\ Shape(I2, "up", "idle_started", I1)  BY <1>0, <1>1, Names, PreShape DEF I2
<1>3. Shape(I3, "idle", NoThd, I2)  BY <1>0, <1>2, PreShape DEF I3
<1>4. Shape(Halted, "hlt", NoThd, <<>>)  BY <1>0, Nothing, PreShape DEF Halted
<1>5. QED  BY <1>1, <1>2, <1>3, <1>4

\* Every rest of the idle thread and of thread_start is known.
LEMMA IdleKnown == Known(I1) /\ Known(I2) /\ Known(I3) /\ Known(Halted) /\ Known(E1) /\ Known(E2)
<1>0. {"block", "up", "idle", "hlt", "down", "intr_enable"} \subseteq OpName  BY DEF OpName
<1>a. {"idle_started", NoThd} \subseteq Semaphore \cup {NoThd}  BY Names
<1>1. Known(I1) /\ Known(Halted)  BY <1>0, <1>a, IdleShapes, KnownLast DEF Ends
<1>2. Apart(I1) /\ Quiet(I1)  BY IdleShapes, Carries, EmptyFacts DEF Apart, Quiet
<1>3. Apart(I2) /\ Quiet(I2)  BY <1>2, IdleShapes, Carries DEF Apart, Quiet
<1>4. Quiet(I3)  BY <1>3, IdleShapes, Carries DEF Quiet
<1>5. Known(I2)
  <2>1. Follows("up", "idle_started", "block", NoThd)  BY DEF Follows
  <2>2. QED  BY <1>0, <1>a, <1>2, <1>3, <2>1, IdleShapes, KnownPair
<1>6. Known(I3)
  <2>1. Follows("idle", NoThd, "up", "idle_started")  BY DEF Follows
  <2>2. QED  BY <1>0, <1>a, <1>3, <1>4, <2>1, IdleShapes, KnownPair
<1>7. Known(E1)  BY <1>0, <1>a, StartShapes, KnownLast DEF Ends
<1>8. Known(E2)
  <2>1. Follows("intr_enable", NoThd, "down", "idle_started")  BY DEF Follows
  <2>2. QED  BY <1>0, <1>a, <2>1, StartShapes, StartMentions, KnownPair
<1>9. QED  BY <1>1, <1>5, <1>6, <1>7, <1>8

OneCall(o, a) ==
    \/ <<o, a>> \in {<<"try", "lock">>, <<"down", "sema">>, <<"up", "sema">>}
    \/ o \in {"nap", "yield", "exit"} /\ a = NoThd

\* Every call of one operation is known.
LEMMA OneKnown ==
    ASSUME NEW o, NEW a, OneCall(o, a)
    PROVE  Shape(One(o, a), o, a, <<>>) /\ Known(One(o, a))
<1>1. o \in OpName  BY DEF OpName, OneCall
<1>2. a \in Semaphore \cup {NoThd}  BY Names DEF OneCall
<1>3. Shape(One(o, a), o, a, <<>>)  BY <1>1, <1>2, Nothing, PreShape DEF One
<1>4. Ends(o, a) /\ o # "unblock"  BY DEF Ends, OneCall
<1>5. QED  BY <1>1, <1>2, <1>3, <1>4, KnownLast

\* The rests of a thread that is past thread_start: each is understood, and
\* the next one is such a rest again.
WorkHead(q) ==
    LET o == Head(q).op  a == Head(q).arg
    IN  /\ o \in OpName \ {"idle", "block", "hlt", "intr_enable"}
        /\ o \in {"down", "up"} => a # "idle_started"
        /\ o \in {"init", "tid_read", "tid_next", "unblock"} => a \in Worker
        /\ \A t : Making(q, t) => t \in Worker
StartHead(q) ==
    LET o == Head(q).op  a == Head(q).arg
    IN  /\ o \in {"init", "down", "own", "tid_read", "tid_next", "disown", "up", "unblock", "intr_enable"}
        /\ o \in {"own", "disown", "up"} => a = "tid"
        /\ o = "down" => a \in {"tid", "idle_started"}
        /\ o \in {"init", "tid_read", "tid_next", "unblock"} => a = IdleThread
        /\ \A t : Making(q, t) => t = IdleThread
        /\ o = "intr_enable" => q = E2
        /\ o = "down" /\ a = "idle_started" => q = E1
        /\ ~Making(q, IdleThread) => q \in {E1, E2}

\* A rest begins with an operation of a set and goes on within another set.
Leads(x, ops, args, set) == Head(x).op \in ops /\ Head(x).arg \in args /\ Tail(x) \in set

\* A rest of a shape leads to the rest after it.
LEMMA ShapeLeads ==
    ASSUME NEW x, NEW o, NEW a, NEW q, Shape(x, o, a, q), NEW ops, NEW args, NEW set,
           o \in ops, a \in args, q \in set
    PROVE  Leads(x, ops, args, set)
  BY DEF Shape, Leads

MonitorOps == {"up", "disown", "own", "down", "signal", "broadcast", "down_own", "wait"}
MonitorArgs == {"lock", NoThd} \cup Thd

\* A rest of a use of the lock leads to another one or to the end.
LEMMA MonitorRests ==
    ASSUME NEW q \in MonitorRest
    PROVE  Known(q) /\ Apart(q) /\ Leads(q, MonitorOps, MonitorArgs, MonitorRest \cup {<<>>})
<1> DEFINE R == MonitorRest \cup {<<>>}
           L(x) == Leads(x, MonitorOps, MonitorArgs, R)
<1>1. /\ \A w \in Thd : Poke(w) \in R /\ PokeAll(w) \in R
      /\ {U1, U2, U3, U4, S1, S2, S3, B1, B2, B3, W1, W2, W3, W4, W5, W6, <<>>} \subseteq R
  BY DEF MonitorRest
<1>2. ASSUME NEW x, NEW o \in MonitorOps, NEW a \in MonitorArgs, NEW y \in R, Shape(x, o, a, y) PROVE L(x)
  BY <1>2, ShapeLeads
<1>3. {"lock", NoThd} \subseteq MonitorArgs /\ Thd \subseteq MonitorArgs  BY DEF MonitorArgs
<1>4. MonitorOps = {"up", "disown", "own", "down", "signal", "broadcast", "down_own", "wait"}  BY DEF MonitorOps
<1> HIDE DEF R, L
<1>5. L(U1) /\ L(U2) /\ L(U3) /\ L(U4)  BY <1>1, <1>2, <1>3, <1>4, MonitorShapes
<1>6. L(S1) /\ L(S2) /\ L(S3) /\ L(B1) /\ L(B2) /\ L(B3)  BY <1>1, <1>2, <1>3, <1>4, MonitorShapes
<1>7. L(W1) /\ L(W2) /\ L(W3) /\ L(W4) /\ L(W5) /\ L(W6)  BY <1>1, <1>2, <1>3, <1>4, MonitorShapes
<1>8. \A w \in Thd : L(Poke(w)) /\ L(PokeAll(w))  BY <1>1, <1>2, <1>3, <1>4, MonitorShapes
<1>9. Known(q)  BY MonitorKnown DEF MonitorRest
<1>10. Apart(q)  BY MonitorMentions DEF MonitorRest
<1>11. L(q)  BY <1>5, <1>6, <1>7, <1>8 DEF MonitorRest
<1>12. QED  BY <1>9, <1>10, <1>11 DEF L, R

MakeOps == {"init", "tid_read", "tid_next", "unblock"}
TidOps == {"down", "own", "disown", "up"}

\* A rest of thread_create leads to another one or to what follows it.
LEMMA MakeRests ==
    ASSUME NEW u \in Worker \cup {IdleThread}, NEW e, After(e), NEW q \in MakeRest(u, e)
    PROVE  /\ Known(q) /\ Makes(q, u)
           /\ \/ Leads(q, MakeOps, {u}, MakeRest(u, e) \cup {e})
              \/ Leads(q, TidOps, {"tid"}, MakeRest(u, e) \cup {e})
<1> DEFINE R == MakeRest(u, e) \cup {e}
           L(x) == Leads(x, MakeOps, {u}, R) \/ Leads(x, TidOps, {"tid"}, R)
<1>1. u \in Thd /\ e \in Seq(Action) /\ Apart(e) /\ Quiet(e)
  BY Names, StartShapes, StartMentions, EmptyFacts DEF After
<1>2. Known(q)  BY MakeKnown DEF MakeRest
<1>3. Makes(q, u)  BY <1>1, MakeMentions DEF MakeRest
<1>4. {e, C1(u, e), C2(u, e), C3(u, e), C4(u, e), C5(u, e), C6(u, e), C7(u, e), C8(u, e)} \subseteq R  BY DEF MakeRest
<1>5. ASSUME NEW x, NEW o \in MakeOps, NEW y \in R, Shape(x, o, u, y) PROVE L(x)
  BY <1>5, ShapeLeads
<1>6. ASSUME NEW x, NEW o \in TidOps, NEW y \in R, Shape(x, o, "tid", y) PROVE L(x)
  BY <1>6, ShapeLeads
<1>7. /\ "init" \in MakeOps /\ "tid_read" \in MakeOps /\ "tid_next" \in MakeOps /\ "unblock" \in MakeOps
      /\ "down" \in TidOps /\ "own" \in TidOps /\ "disown" \in TidOps /\ "up" \in TidOps
  BY DEF MakeOps, TidOps
<1> HIDE DEF R, L
<1>8. L(C1(u, e)) /\ L(C4(u, e)) /\ L(C5(u, e)) /\ L(C8(u, e))  BY <1>1, <1>4, <1>5, <1>7, MakeShapes
<1>9. L(C2(u, e)) /\ L(C3(u, e)) /\ L(C6(u, e)) /\ L(C7(u, e))  BY <1>1, <1>4, <1>6, <1>7, MakeShapes
<1>10. L(q)  BY <1>8, <1>9 DEF MakeRest
<1>11. QED  BY <1>2, <1>3, <1>10 DEF L, R

\* A rest of thread_start leads to another one.
LEMMA StartRests ==
    ASSUME NEW q \in StartRest
    PROVE  /\ Known(q) /\ StartHead(q) /\ Tail(q) \in StartRest \cup {<<>>}
           /\ q = E1 \/ Tail(q) \in StartRest
<1>0. After(E2)  BY StartShapes DEF After
<1>1. CASE q \in MakeRest(IdleThread, E2)
  <2>1. /\ Known(q) /\ Makes(q, IdleThread)
        /\ \/ Leads(q, MakeOps, {IdleThread}, MakeRest(IdleThread, E2) \cup {E2})
           \/ Leads(q, TidOps, {"tid"}, MakeRest(IdleThread, E2) \cup {E2})
    BY <1>0, <1>1, MakeRests
  <2>2. StartHead(q)  BY <2>1 DEF StartHead, Makes, Leads, MakeOps, TidOps
  <2>3. Tail(q) \in MakeRest(IdleThread, E2) \cup {E2}  BY <2>1 DEF Leads
  <2>4. QED  BY <2>1, <2>2, <2>3 DEF StartRest
<1>2. CASE q = E1
  <2>1. Known(q) /\ Apart(q) /\ Shape(q, "down", "idle_started", <<>>)
    BY <1>2, IdleKnown, StartMentions, StartShapes
  <2>2. QED  BY <1>2, <2>1 DEF StartHead, Shape, Apart
<1>3. CASE q = E2
  <2>1. Known(q) /\ Apart(q) /\ Shape(q, "intr_enable", NoThd, E1)
    BY <1>3, IdleKnown, StartMentions, StartShapes
  <2>2. QED  BY <1>3, <2>1 DEF StartHead, Shape, Apart, StartRest
<1>4. QED  BY <1>1, <1>2, <1>3 DEF StartRest

\* A rest of a thread's work leads to another one.
LEMMA WorkRests ==
    ASSUME NEW q \in WorkRest, q # <<>>
    PROVE  Known(q) /\ WorkHead(q) /\ Tail(q) \in WorkRest
<1>0. <<>> \in WorkRest /\ MonitorRest \subseteq WorkRest /\ \A u \in Worker : MakeRest(u, <<>>) \subseteq WorkRest
  BY DEF WorkRest
<1>1. CASE q \in MonitorRest
  <2>1. Known(q) /\ Apart(q) /\ Leads(q, MonitorOps, MonitorArgs, MonitorRest \cup {<<>>})
    BY <1>1, MonitorRests
  <2>2. WorkHead(q)  BY <2>1, Names DEF WorkHead, Apart, OpName, Leads, MonitorOps, MonitorArgs
  <2>3. Tail(q) \in MonitorRest \cup {<<>>}  BY <2>1 DEF Leads
  <2>4. QED  BY <1>0, <2>1, <2>2, <2>3
<1>2. CASE q \in OneRest
  <2>1. PICK o, a : OneCall(o, a) /\ q = One(o, a)  BY <1>2 DEF OneRest, OneCall
  <2>2. Known(q) /\ Shape(q, o, a, <<>>)  BY <2>1, OneKnown
  <2>3. o # "unblock"  BY <2>1 DEF OneCall
  <2>4. Apart(q)  BY <2>2, <2>3, Carries, EmptyFacts DEF Apart
  <2>5. Head(q).op = o /\ Head(q).arg = a /\ Tail(q) = <<>>  BY <2>2 DEF Shape
  <2>6. o \in {"try", "down", "up", "nap", "yield", "exit"} /\ (o \in {"down", "up"} => a = "sema")
    BY <2>1 DEF OneCall
  <2>7. WorkHead(q)  BY <2>4, <2>5, <2>6 DEF WorkHead, Apart, OpName
  <2>8. QED  BY <1>0, <2>2, <2>5, <2>7
<1>3. CASE \E u \in Worker : q \in MakeRest(u, <<>>)
  <2>0. After(<<>>)  BY Nothing DEF After
  <2>1. PICK u \in Worker : q \in MakeRest(u, <<>>)  BY <1>3
  <2>2. /\ Known(q) /\ Makes(q, u)
        /\ \/ Leads(q, MakeOps, {u}, MakeRest(u, <<>>) \cup {<<>>})
           \/ Leads(q, TidOps, {"tid"}, MakeRest(u, <<>>) \cup {<<>>})
    BY <2>0, <2>1, MakeRests
  <2>3. WorkHead(q)  BY <2>2 DEF WorkHead, Makes, OpName, Leads, MakeOps, TidOps
  <2>4. Tail(q) \in MakeRest(u, <<>>) \cup {<<>>}  BY <2>2 DEF Leads
  <2>5. QED  BY <1>0, <2>2, <2>3, <2>4
<1>4. QED  BY <1>1, <1>2, <1>3 DEF WorkRest

\* The rests of the idle thread lead round.
LEMMA IdleRests ==
    /\ \A q \in IdleRest : Known(q) /\ q # <<>>
    /\ Tail(I3) = I2 /\ Tail(I2) = I1
    /\ Head(I1) = Act("block", NoThd) /\ Head(I2) = Act("up", "idle_started")
    /\ Head(I3) = Act("idle", NoThd) /\ Head(Halted) = Act("hlt", NoThd)
    /\ \A o, a : Act(o, a).op = o /\ Act(o, a).arg = a
    /\ I3 \notin {I1, I2, Halted} /\ \A q \in IdleRest : Apart(q) /\ Quiet(q)
<1>1. \A o, a : Act(o, a).op = o /\ Act(o, a).arg = a  BY DEF Act
<1>2. \A q \in IdleRest : Known(q) /\ q # <<>>  BY IdleKnown, IdleShapes DEF IdleRest, Shape
<1>3. /\ Tail(I3) = I2 /\ Tail(I2) = I1
      /\ Head(I1) = Act("block", NoThd) /\ Head(I2) = Act("up", "idle_started")
      /\ Head(I3) = Act("idle", NoThd) /\ Head(Halted) = Act("hlt", NoThd)
  BY IdleShapes DEF Shape
<1>4. I3 \notin {I1, I2, Halted}  BY <1>1, <1>3
<1>5. Apart(I1) /\ Quiet(I1)  BY IdleShapes, Carries, EmptyFacts DEF Apart, Quiet
<1>6. Apart(I2) /\ Quiet(I2)  BY <1>5, IdleShapes, Carries DEF Apart, Quiet
<1>7. Apart(I3) /\ Quiet(I3)  BY <1>6, IdleShapes, Carries DEF Apart, Quiet
<1>8. Apart(Halted) /\ Quiet(Halted)  BY IdleShapes, Carries, EmptyFacts DEF Apart, Quiet
<1>9. QED  BY <1>1, <1>2, <1>3, <1>4, <1>5, <1>6, <1>7, <1>8 DEF IdleRest

-----------------------------------------------------------------------------
\* The calls are such rests.
LEMMA DoSeq == \A o \in OpName, a \in Semaphore \cup {NoThd} : Do(o, a) \in Seq(Action)
<1>1. ASSUME NEW o \in OpName, NEW a \in Semaphore \cup {NoThd} PROVE Do(o, a) \in Seq(Action)
  <2>1. [op |-> o, arg |-> a] \in Action  BY DEF Action
  <2>2. QED  BY <2>1 DEF Do
<1>2. QED  BY <1>1

\* Concatenation, with a name of its own.
Join(s, t) == s \o t

\* Concatenation of calls is closed, associative, and has a unit.
LEMMA Joined ==
    /\ \A s, t \in Seq(Action) : Join(s, t) \in Seq(Action)
    /\ \A s, t, u \in Seq(Action) : Join(Join(s, t), u) = Join(s, Join(t, u))
    /\ \A s \in Seq(Action) : Join(s, <<>>) = s /\ Join(<<>>, s) = s
  BY ConcatProperties, ConcatAssociative, ConcatEmptySeq DEF Join

\* The uses of the lock are the longest of their rests.
LEMMA MonitorCalls ==
    /\ Under(<<>>) = U4 /\ Under(cond_signal) = S3 /\ Under(cond_broadcast) = B3 /\ Under(cond_wait) = W6
    /\ Do("own", "lock") \o lock_release("lock") = U3
<1>0. {"up", "disown", "own", "down", "signal", "broadcast", "down_own", "wait"} \subseteq OpName  BY DEF OpName
<1>1. PICK down, own, disown, up, wait, nap, sig, all \in Seq(Action) :
           /\ down = Do("down", "lock") /\ own = Do("own", "lock") /\ disown = Do("disown", "lock")
           /\ up = Do("up", "lock") /\ wait = Do("wait", NoThd) /\ nap = Do("down_own", NoThd)
           /\ sig = Do("signal", NoThd) /\ all = Do("broadcast", NoThd)
  BY <1>0, DoSeq, Names
<1>2. U1 = Join(up, <<>>)  BY <1>1 DEF U1, Pre, Join
<1>3. U2 = Join(disown, up) /\ U2 \in Seq(Action)
  <2>1. U1 = up  BY <1>2, Joined
  <2>2. U2 = Join(disown, up)  BY <1>1, <2>1 DEF U2, Pre, Join
  <2>3. QED  BY <2>2, Joined
<1>4. lock_release("lock") = U2  BY <1>1, <1>3 DEF lock_release, Join
<1>5. lock_acquire("lock") = Join(down, own)  BY <1>1 DEF lock_acquire, Join
<1>6. \A x : Under(x) = Join(Join(Join(down, own), x), U2)  BY <1>4, <1>5 DEF Under, Join
<1>7. \A x \in Seq(Action) : Under(x) = Join(down, Join(own, Join(x, U2)))
  <2>1. ASSUME NEW x \in Seq(Action) PROVE Under(x) = Join(down, Join(own, Join(x, U2)))
    <3>1. Join(down, own) \in Seq(Action) /\ Join(x, U2) \in Seq(Action)  BY <1>3, Joined
    <3>2. Under(x) = Join(Join(down, own), Join(x, U2))  BY <1>3, <1>6, <3>1, Joined
    <3>3. QED  BY <3>1, <3>2, Joined
  <2>2. QED  BY <2>1
<1>8. U3 = Join(own, U2) /\ U4 = Join(down, Join(own, U2))  BY <1>1 DEF U3, U4, Pre, Join
<1>9. <<>> \in Seq(Action) /\ Join(<<>>, U2) = U2  BY <1>3, Joined, Nothing
<1>10. Under(<<>>) = U4  BY <1>7, <1>8, <1>9
<1>11. Under(cond_signal) = S3
  <2>1. S3 = Join(down, Join(own, Join(sig, U2)))  BY <1>1 DEF S3, S2, S1, Pre, Join
  <2>2. cond_signal = sig  BY <1>1 DEF cond_signal
  <2>3. QED  BY <1>7, <2>1, <2>2
<1>12. Under(cond_broadcast) = B3
  <2>1. B3 = Join(down, Join(own, Join(all, U2)))  BY <1>1 DEF B3, B2, B1, Pre, Join
  <2>2. cond_broadcast = all  BY <1>1 DEF cond_broadcast
  <2>3. QED  BY <1>7, <2>1, <2>2
<1>13. Under(cond_wait) = W6
  <2>1. PICK acq \in Seq(Action) : acq = Join(down, own)  BY Joined
  <2>2. Join(acq, U2) = U4 /\ U4 \in Seq(Action)  BY <1>3, <1>8, <2>1, Joined
  <2>3. cond_wait = Join(Join(Join(wait, U2), nap), acq)  BY <1>1, <1>4, <1>5, <2>1 DEF cond_wait, Join
  <2>4. PICK n \in Seq(Action) : n = Join(nap, acq)  BY Joined
  <2>5. cond_wait = Join(Join(wait, U2), n) /\ Join(wait, U2) \in Seq(Action)
    <3>1. PICK v \in Seq(Action) : v = Join(wait, U2)  BY <1>3, Joined
    <3>2. Join(Join(v, nap), acq) = Join(v, n)  BY <2>4, Joined
    <3>3. QED  BY <2>3, <3>1, <3>2
  <2>6. cond_wait \in Seq(Action)  BY <2>5, Joined
  <2>7. Join(cond_wait, U2) = Join(Join(wait, U2), Join(n, U2))  BY <1>3, <2>5, Joined
  <2>8. Join(n, U2) = Join(nap, U4)  BY <1>3, <2>2, <2>4, Joined
  <2>9. PICK w1 \in Seq(Action) : w1 = Join(nap, U4)  BY <2>2, Joined
  <2>10. Join(Join(wait, U2), w1) = Join(wait, Join(U2, w1))  BY <1>3, Joined
  <2>11. Join(U2, w1) = Join(disown, Join(up, w1))  BY <1>3, Joined
  <2>12. W6 = Join(down, Join(own, Join(wait, Join(disown, Join(up, w1)))))
    BY <1>1, <2>9 DEF W6, W5, W4, W3, W2, W1, Pre, Join
  <2>13. Join(cond_wait, U2) = Join(wait, Join(disown, Join(up, w1)))
    BY <2>7, <2>8, <2>9, <2>10, <2>11
  <2>14. QED  BY <1>7, <2>6, <2>12, <2>13
<1>14. Do("own", "lock") \o lock_release("lock") = U3  BY <1>1, <1>4, <1>8 DEF Join
<1>15. QED  BY <1>10, <1>11, <1>12, <1>13, <1>14

\* thread_create and thread_start are the longest of their rests.
LEMMA MakeCalls ==
    /\ \A u \in Thd : thread_create(u) = C8(u, <<>>)
    /\ thread_start = C8(IdleThread, E2)
<1>1. ASSUME NEW u \in Thd, NEW e \in Seq(Action)
      PROVE  thread_create(u) \in Seq(Action) /\ Join(thread_create(u), e) = C8(u, e)
  <2>0. {"unblock", "up", "disown", "own", "down", "tid_next", "tid_read", "init"} \subseteq OpName  BY DEF OpName
  <2>a. {"tid", u} \subseteq Semaphore \cup {NoThd}  BY Names
  <2>1. PICK init, down, own, read, next, disown, up, un \in Seq(Action) :
             /\ init = Do("init", u) /\ down = Do("down", "tid") /\ own = Do("own", "tid")
             /\ read = Do("tid_read", u) /\ next = Do("tid_next", u) /\ disown = Do("disown", "tid")
             /\ up = Do("up", "tid") /\ un = Do("unblock", u)
    BY <2>0, <2>a, DoSeq
  <2>b. PICK a1 \in Seq(Action) : a1 = Join(down, own)  BY Joined
  <2>c. PICK a2 \in Seq(Action) : a2 = Join(a1, read)  BY Joined
  <2>d. PICK a3, rel \in Seq(Action) : a3 = Join(a2, next) /\ rel = Join(disown, up)  BY Joined
  <2>e. PICK a4 \in Seq(Action) : a4 = Join(a3, rel)  BY Joined
  <2>2. /\ a1 = Join(down, own) /\ a2 = Join(a1, read) /\ a3 = Join(a2, next)
        /\ rel = Join(disown, up) /\ a4 = Join(a3, rel)
    BY <2>b, <2>c, <2>d, <2>e
  <2>3. thread_create(u) = Join(Join(init, a4), un)
    BY <2>1, <2>2 DEF thread_create, allocate_tid, lock_acquire, lock_release, Join
  <2>4. Join(init, a4) \in Seq(Action) /\ thread_create(u) \in Seq(Action)  BY <2>3, Joined
  <2>5. PICK x \in Seq(Action) : x = Join(un, e)  BY Joined
  <2>6. Join(thread_create(u), e) = Join(Join(init, a4), x)  BY <2>3, <2>4, <2>5, Joined
  <2>7. Join(Join(init, a4), x) = Join(init, Join(a4, x))  BY Joined
  <2>8. PICK y \in Seq(Action) : y = Join(disown, Join(up, x))  BY Joined
  <2>9. Join(rel, x) = y  BY <2>2, <2>8, Joined
  <2>10. Join(a4, x) = Join(a3, y)  BY <2>2, <2>9, Joined
  <2>11. PICK z \in Seq(Action) : z = Join(next, y)  BY Joined
  <2>12. Join(a3, y) = Join(a2, z)
    <3>1. Join(Join(a2, next), y) = Join(a2, Join(next, y))  BY Joined
    <3>2. QED  BY <2>2, <2>11, <3>1
  <2>13. PICK v \in Seq(Action) : v = Join(read, z)  BY Joined
  <2>14. Join(a2, z) = Join(a1, v)
    <3>1. Join(Join(a1, read), z) = Join(a1, Join(read, z))  BY Joined
    <3>2. QED  BY <2>2, <2>13, <3>1
  <2>15. Join(a1, v) = Join(down, Join(own, v))  BY <2>2, Joined
  <2>16. C8(u, e) = Join(init, Join(down, Join(own, v)))
    BY <2>1, <2>5, <2>8, <2>11, <2>13 DEF C8, C7, C6, C5, C4, C3, C2, C1, Pre, Join
  <2>17. QED  BY <2>4, <2>6, <2>7, <2>10, <2>12, <2>14, <2>15, <2>16
<1>2. ASSUME NEW u \in Thd PROVE thread_create(u) = C8(u, <<>>)
  <2>1. <<>> \in Seq(Action)  BY Nothing
  <2>2. thread_create(u) \in Seq(Action) /\ Join(thread_create(u), <<>>) = C8(u, <<>>)  BY <1>1, <2>1
  <2>3. QED  BY <2>2, Joined
<1>3. thread_start = C8(IdleThread, E2)
  <2>0. {"down", "intr_enable"} \subseteq OpName  BY DEF OpName
  <2>1. PICK on, down \in Seq(Action) : on = Do("intr_enable", NoThd) /\ down = Do("down", "idle_started")
    BY <2>0, Names, DoSeq
  <2>2. IdleThread \in Thd  BY Names
  <2>3. PICK c \in Seq(Action) : c = thread_create(IdleThread)  BY <1>1, <2>2, Nothing
  <2>4. thread_start = Join(Join(c, on), down)  BY <2>1, <2>3 DEF thread_start, Join
  <2>5. thread_start = Join(c, Join(on, down))  BY <2>4, Joined
  <2>6. E2 = Join(on, down)
    <3>1. E1 = Join(down, <<>>)  BY <2>1 DEF E1, Pre, Join
    <3>2. E1 = down  BY <3>1, Joined
    <3>3. QED  BY <2>1, <3>2 DEF E2, Pre, Join
  <2>7. QED  BY <1>1, <2>2, <2>3, <2>5, <2>6, StartShapes
<1>4. QED  BY <1>2, <1>3

\* The idle thread's loop and the calls of one operation are rests.
LEMMA OneCalls ==
    /\ idle = I3 /\ Do("hlt", NoThd) = Halted /\ Do("block", NoThd) = I1
    /\ lock_try_acquire("lock") = One("try", "lock")
    /\ Do("down", "sema") = One("down", "sema") /\ Do("up", "sema") = One("up", "sema")
    /\ \A o \in {"nap", "yield", "exit"} : Do(o, NoThd) = One(o, NoThd)
<1>0. {"hlt", "block", "try", "down", "up", "nap", "yield", "exit", "idle"} \subseteq OpName  BY DEF OpName
<1>1. ASSUME NEW o \in OpName, NEW a \in Semaphore \cup {NoThd} PROVE Do(o, a) = One(o, a)
  <2>1. Do(o, a) \in Seq(Action)  BY DoSeq
  <2>2. Join(Do(o, a), <<>>) = Do(o, a)  BY <2>1, Joined
  <2>3. QED  BY <2>2 DEF One, Pre, Join
<1>2. {"lock", "sema", NoThd, "idle_started"} \subseteq Semaphore \cup {NoThd}  BY Names
<1>3. Do("hlt", NoThd) = Halted /\ Do("block", NoThd) = I1  BY <1>0, <1>1, <1>2 DEF One, Halted, I1
<1>4. idle = I3
  <2>1. PICK self, up, block \in Seq(Action) :
             self = Do("idle", NoThd) /\ up = Do("up", "idle_started") /\ block = Do("block", NoThd)
    BY <1>0, <1>2, DoSeq
  <2>2. idle = Join(Join(self, up), block)  BY <2>1 DEF idle, Join
  <2>3. idle = Join(self, Join(up, block))  BY <2>2, Joined
  <2>4. QED  BY <1>3, <2>1, <2>3 DEF I3, I2, Pre, Join
<1>5. QED  BY <1>0, <1>1, <1>2, <1>3, <1>4 DEF lock_try_acquire

-----------------------------------------------------------------------------
\* What a rest's first operation says.
LEMMA HeadOf ==
    ASSUME NEW q, Known(q), NEW o, NEW a, o = Head(q).op, a = Head(q).arg
    PROVE  /\ \A p, b : Begins(q, p, b) <=> p = o /\ b = a
           /\ \A l : Takes(q, l) <=> o \in {"own", "up"} /\ l = a
           /\ \A l : Holds(q, l) <=> \/ o = "disown" /\ l = a
                                     \/ l = "lock" /\ o \in {"wait", "signal", "broadcast"}
                                     \/ l = "lock" /\ o = "up" /\ a \in Thd
                                     \/ l = "tid" /\ o \in {"tid_read", "tid_next"}
           /\ InWait(q) => o \in {"disown", "up", "down_own"}
<1>1. q # <<>> /\ Head(q) = Act(o, a) /\ Head(q).op = o /\ Head(q).arg = a  BY DEF Known
<1>2. \A p, b : Act(o, a) = Act(p, b) <=> p = o /\ b = a  BY DEF Act
<1>3. \A p, b : Begins(q, p, b) <=> p = o /\ b = a  BY <1>1, <1>2 DEF Begins
<1>4. \A l : Takes(q, l) <=> o \in {"own", "up"} /\ l = a  BY <1>1, <1>2 DEF Takes
<1>5. \A l : Holds(q, l) <=> \/ o = "disown" /\ l = a
                             \/ l = "lock" /\ o \in {"wait", "signal", "broadcast"}
                             \/ l = "lock" /\ o = "up" /\ a \in Thd
                             \/ l = "tid" /\ o \in {"tid_read", "tid_next"}
  BY <1>1, <1>2 DEF Holds
<1>6. InWait(q) => o \in {"disown", "up", "down_own"}  BY <1>1 DEF InWait
<1>7. QED  BY <1>3, <1>4, <1>5, <1>6

\* What thread t does next and where it is in which call.
LEMMA RestOf ==
    ASSUME Rests, NEW t \in Thd, todo[t] # <<>>
    PROVE  /\ Known(todo[t])
           /\ \/ t = IdleThread /\ todo[t] \in IdleRest
              \/ t # IdleThread /\ todo[t] \in WorkRest /\ WorkHead(todo[t]) /\ Tail(todo[t]) \in WorkRest
              \/ t = MainThread /\ todo[t] \in StartRest /\ StartHead(todo[t])
                 /\ Tail(todo[t]) \in StartRest \cup {<<>>}
<1>1. t = MainThread \/ t = IdleThread \/ t \in Worker  BY DEF Thd
<1>2. CASE t = IdleThread
  <2>1. todo[t] \in IdleRest  BY <1>2 DEF Rests
  <2>2. QED  BY <1>2, <2>1, IdleRests
<1>3. CASE t # IdleThread /\ todo[t] \in WorkRest  BY <1>3, WorkRests
<1>4. CASE t = MainThread /\ todo[t] \in StartRest  BY <1>4, StartRests
<1>5. QED  BY <1>1, <1>2, <1>3, <1>4 DEF Rests

\* The rest of t becomes z, the others' stay.
Becomes(t, z) == DOMAIN todo' = Thd /\ \A u \in Thd : todo'[u] = IF u = t THEN z ELSE todo[u]

\* What Then does to the calls.
LEMMA ThenBecomes ==
    ASSUME Rests, running \in Thd, NEW z, Then(z)
    PROVE  Becomes(running, z)
  BY DEF Rests, Then, Becomes

\* Nothing changes in what the rests say of locks, of conditions, of threads
\* being made, and of tids.
LockSame ==
    \A t \in Thd : \A l \in Lock : /\ Has(todo'[t], l) <=> Has(todo[t], l)
                                   /\ Holds(todo'[t], l) <=> Holds(todo[t], l)
SignalSame ==
    \A t \in Thd : /\ InWait(todo'[t]) <=> InWait(todo[t])
                   /\ \A u \in Thd : Begins(todo'[t], "up", u) <=> Begins(todo[t], "up", u)
MakeSame ==
    \A t \in Thd : /\ \A u : Making(todo'[t], u) <=> Making(todo[t], u)
                   /\ \A u : Begins(todo'[t], "init", u) <=> Begins(todo[t], "init", u)
NameSame ==
    \A t \in Thd : /\ \A u : Unnamed(todo'[t], u) <=> Unnamed(todo[t], u)
                   /\ \A u : Begins(todo'[t], "tid_next", u) <=> Begins(todo[t], "tid_next", u)

\* Only the operation that matters to a part of the invariant changes what it reads.
LEMMA AdvanceSame ==
    ASSUME NEW t \in Thd, NEW q, NEW z, NEW o, NEW a, Known(q), q = todo[t], z = Tail(q),
           o = Head(q).op, a = Head(q).arg, Becomes(t, z)
    PROVE  /\ o \notin {"own", "disown"} /\ ~(o \in {"up", "down"} /\ a \in Lock) => LockSame
           /\ o \notin {"wait", "down_own"} /\ ~(o = "up" /\ a \in Thd) => SignalSame
           /\ o \notin {"unblock", "init"} => MakeSame
           /\ o \notin {"tid_read", "tid_next"} => NameSame
<1>0. \A u \in Thd : todo'[u] = IF u = t THEN z ELSE todo[u]  BY DEF Becomes
<1>1. LocksKnown(q) /\ WaitsKnown(q) /\ MakesKnown(q)  BY DEF Known
<1>2. ASSUME o \notin {"own", "disown"}, ~(o \in {"up", "down"} /\ a \in Lock) PROVE LockSame
  <2>1. CASE o # "down"
    <3>1. \A l \in Lock : (Has(z, l) <=> Has(q, l)) /\ (Holds(z, l) <=> Holds(q, l))
      BY <1>1, <1>2, <2>1 DEF LocksKnown
    <3>2. QED  BY <1>0, <3>1 DEF LockSame
  <2>2. CASE o = "down"
    <3>1. z = <<>>  BY <1>1, <1>2, <2>2 DEF LocksKnown
    <3>2. \A l \in Lock : ~Has(q, l) /\ ~Holds(q, l)  BY <2>2, HeadOf DEF Has
    <3>3. QED  BY <1>0, <3>1, <3>2, EmptyFacts DEF LockSame
  <2>3. QED  BY <2>1, <2>2
<1>3. ASSUME o \notin {"wait", "down_own"}, ~(o = "up" /\ a \in Thd) PROVE SignalSame
  <2>1. InWait(z) <=> InWait(q)  BY <1>1, <1>3 DEF WaitsKnown
  <2>2. \A u \in Thd : ~Begins(z, "up", u)  BY <1>1 DEF WaitsKnown
  <2>3. \A u \in Thd : ~Begins(q, "up", u)  BY <1>3, HeadOf
  <2>4. QED  BY <1>0, <2>1, <2>2, <2>3 DEF SignalSame
<1>4. ASSUME o \notin {"unblock", "init"} PROVE MakeSame
  <2>1. \A u : Making(z, u) <=> Making(q, u)  BY <1>1, <1>4 DEF MakesKnown
  <2>2. \A u : ~Begins(z, "init", u)  BY <1>1 DEF MakesKnown
  <2>3. \A u : ~Begins(q, "init", u)  BY <1>4, HeadOf
  <2>4. QED  BY <1>0, <2>1, <2>2, <2>3 DEF MakeSame
<1>5. ASSUME o \notin {"tid_read", "tid_next"} PROVE NameSame
  <2>1. \A u : Unnamed(z, u) <=> Unnamed(q, u)  BY <1>1, <1>5 DEF MakesKnown
  <2>2. \A u : ~Begins(z, "tid_next", u)  BY <1>1, <1>5 DEF MakesKnown
  <2>3. \A u : ~Begins(q, "tid_next", u)  BY <1>5, HeadOf
  <2>4. QED  BY <1>0, <2>1, <2>2, <2>3 DEF NameSame
<1>6. QED  BY <1>2, <1>3, <1>4, <1>5

\* A rest that says nothing about locks, conditions, new threads or tids.
Silent(z) ==
    /\ \A l \in Lock : ~Has(z, l) /\ ~Holds(z, l)
    /\ ~InWait(z) /\ \A u \in Thd : ~Begins(z, "up", u)
    /\ \A u : ~Making(z, u) /\ ~Begins(z, "init", u) /\ ~Unnamed(z, u) /\ ~Begins(z, "tid_next", u)

\* A call that says nothing may replace one that says nothing.
LEMMA SilentSame ==
    ASSUME NEW t \in Thd, NEW z, Becomes(t, z), Silent(todo[t]), Silent(z)
    PROVE  LockSame /\ SignalSame /\ MakeSame /\ NameSame
<1>0. \A u \in Thd : todo'[u] = IF u = t THEN z ELSE todo[u]  BY DEF Becomes
<1>1. LockSame  BY <1>0 DEF LockSame, Silent
<1>2. SignalSame  BY <1>0 DEF SignalSame, Silent
<1>3. MakeSame  BY <1>0 DEF MakeSame, Silent
<1>4. NameSame  BY <1>0 DEF NameSame, Silent
<1>5. QED  BY <1>1, <1>2, <1>3, <1>4

\* The rests that say nothing of locks, signals and threads being made.
LEMMA SilentRests ==
    /\ Silent(<<>>) /\ Silent(I1) /\ Silent(I2) /\ Silent(I3) /\ Silent(Halted)
    /\ Silent(U4) /\ Silent(S3) /\ Silent(B3) /\ Silent(W6)
    /\ \A o, a : OneCall(o, a) => Silent(One(o, a))
<1>1. Silent(<<>>)  BY EmptyFacts DEF Silent
<1>2. ASSUME NEW x, NEW o, NEW a, NEW q, Shape(x, o, a, q), Apart(x),
             o \in {"down", "block", "idle", "hlt", "try", "nap", "yield", "exit"}
             \/ (o = "up" /\ a \in {"sema", "idle_started"} /\ Quiet(x))
      PROVE  Silent(x)
  <2>1. /\ \A p, b : Begins(x, p, b) <=> p = o /\ b = a
        /\ \A l : Takes(x, l) <=> o \in {"own", "up"} /\ l = a
        /\ \A l : Holds(x, l) <=> \/ o = "disown" /\ l = a
                                  \/ l = "lock" /\ o \in {"wait", "signal", "broadcast"}
                                  \/ l = "lock" /\ o = "up" /\ a \in Thd
                                  \/ l = "tid" /\ o \in {"tid_read", "tid_next"}
        /\ InWait(x) <=> ~Quiet(x) /\ o \in {"disown", "up", "down_own"}
    BY <1>2, HeadFacts
  <2>2. Lock = {"lock", "tid"} /\ "sema" \notin Thd /\ "idle_started" \notin Thd  BY Names DEF Lock
  <2>3. \A l \in Lock : ~Has(x, l) /\ ~Holds(x, l)  BY <1>2, <2>1, <2>2 DEF Has
  <2>4. ~InWait(x) /\ \A u \in Thd : ~Begins(x, "up", u)  BY <1>2, <2>1, <2>2
  <2>5. \A u : ~Making(x, u) /\ ~Unnamed(x, u)  BY <1>2 DEF Apart, Unnamed
  <2>6. \A u : ~Begins(x, "init", u) /\ ~Begins(x, "tid_next", u)  BY <1>2, <2>1
  <2>7. QED  BY <2>3, <2>4, <2>5, <2>6 DEF Silent
<1>3. \A q \in IdleRest : Apart(q) /\ Quiet(q)  BY IdleRests
<1>4. Silent(I1) /\ Silent(I2) /\ Silent(I3) /\ Silent(Halted)  BY <1>2, <1>3, IdleShapes DEF IdleRest
<1>5. Silent(U4) /\ Silent(S3) /\ Silent(B3) /\ Silent(W6)  BY <1>2, MonitorShapes, MonitorMentions
<1>6. ASSUME NEW o, NEW a, OneCall(o, a) PROVE Silent(One(o, a))
  <2>1. Shape(One(o, a), o, a, <<>>)  BY <1>6, OneKnown
  <2>2. o \notin {"unblock", "down_own"}  BY <1>6 DEF OneCall
  <2>3. Apart(One(o, a)) /\ Quiet(One(o, a))  BY <2>1, <2>2, Carries, EmptyFacts DEF Apart, Quiet
  <2>4. \/ o \in {"down", "block", "idle", "hlt", "try", "nap", "yield", "exit"}
        \/ (o = "up" /\ a \in {"sema", "idle_started"})
    BY <1>6 DEF OneCall
  <2>5. QED  BY <1>2, <2>1, <2>3, <2>4
<1>7. QED  BY <1>1, <1>4, <1>5, <1>6

-----------------------------------------------------------------------------
\* What stays as it is when the rests say the same.
LEMMA LockedStay ==
    ASSUME Locked, LockSame, holder' = holder, \A l \in Lock : value'[l] = value[l]
    PROVE  Locked'
<1>1. ASSUME NEW l \in Lock
      PROVE  /\ \A t \in Thd : holder'[l] = t <=> Holds(todo'[t], l)
             /\ \/ value'[l] = 1 /\ \A t \in Thd : ~Has(todo'[t], l)
                \/ value'[l] = 0 /\ \E t \in Thd : \A u \in Thd : Has(todo'[u], l) <=> u = t
  BY DEF Locked, LockSame
<1>2. QED  BY <1>1 DEF Locked

\* The condition variable's part stays when its readings do.
LEMMA SignalsStay ==
    ASSUME Signals, SignalSame, cond \in Seq(Thd), cond' = cond, \A t \in Thd : value'[t] = value[t]
    PROVE  Signals'
<1>0. ToSet(cond) \subseteq Thd  BY SeqElements
<1>1. \A t \in ToSet(cond) : InWait(todo'[t]) /\ value'[t] = 0 /\ \A u \in Thd : ~Begins(todo'[u], "up", t)
  BY <1>0 DEF Signals, SignalSame
<1>2. \A t, u \in Thd : Begins(todo'[u], "up", t) =>
         InWait(todo'[t]) /\ value'[t] = 0 /\ \A v \in Thd : Begins(todo'[v], "up", t) => v = u
  BY DEF Signals, SignalSame
<1>3. \A t \in Thd : InWait(todo'[t]) =>
         t \in ToSet(cond) \/ value'[t] > 0 \/ \E u \in Thd : Begins(todo'[u], "up", t)
  BY DEF Signals, SignalSame
<1>4. QED  BY <1>1, <1>2, <1>3 DEF Signals

Dead == {"free", "page", "dying"}

\* The tids' part stays when its readings do and no thread appears.
LEMMA TidsStay ==
    ASSUME Tids, NameSame, tid' = tid, next_tid' = next_tid,
           \A t \in Thd : status[t] \in Dead => status'[t] \in Dead
    PROVE  Tids'
<1>1. \A t \in Thd : Named(t)' => Named(t)  BY DEF Named, NameSame, Dead
<1>2. \A t, u \in Thd : Begins(todo'[u], "tid_next", t) <=> Begins(todo[u], "tid_next", t)  BY DEF NameSame
<1>3. QED  BY <1>1, <1>2 DEF Tids

\* Threads being made stay as they are when nobody touches them.
LEMMA MadeStay ==
    ASSUME Made, MakeSame, Queue,
           \A u \in Thd : (\E t \in Thd : Making(todo[t], u)) => status'[u] = status[u] /\ todo'[u] = todo[u]
    PROVE  Made'
<1>1. ASSUME NEW t \in Thd, NEW u \in Thd, Making(todo'[t], u)
      PROVE  /\ u # MainThread /\ \A v \in Thd : Making(todo'[v], u) => v = t
             /\ IF Begins(todo'[t], "init", u) THEN status'[u] = "page"
                ELSE status'[u] = "blocked" /\ todo'[u] = (IF u = IdleThread THEN I3 ELSE <<>>)
  <2>1. Making(todo[t], u)  BY <1>1 DEF MakeSame
  <2>2. status'[u] = status[u] /\ todo'[u] = todo[u]  BY <2>1
  <2>3. \A v \in Thd : Making(todo'[v], u) => v = t  BY <2>1 DEF Made, MakeSame
  <2>4. Begins(todo'[t], "init", u) <=> Begins(todo[t], "init", u)  BY DEF MakeSame
  <2>5. QED  BY <2>1, <2>2, <2>3, <2>4 DEF Made
<1>2. QED  BY <1>1 DEF Made

\* A thread that is being made is not at work: it does not run, waits for no
\* semaphore and is not the idle thread yet.
LEMMA MadeIdle ==
    ASSUME KInv, NEW t \in Thd, NEW u \in Thd, Making(todo[t], u)
    PROVE  /\ u # running /\ u # idle_thread /\ status[u] \in {"page", "blocked"}
           /\ todo[u] \in {<<>>, I3} /\ \A s : ~Downs(u, s)
           /\ u = IdleThread => idle_thread = NoThd
<1>1. status[u] \in {"page", "blocked"} /\ todo[u] \in {<<>>, I3}
  <2>1. CASE Begins(todo[t], "init", u)
    <3>1. status[u] = "page"  BY <2>1 DEF KInv, Made
    <3>2. QED  BY <3>1 DEF KInv, Absent
  <2>2. CASE ~Begins(todo[t], "init", u)  BY <2>2 DEF KInv, Made
  <2>3. QED  BY <2>1, <2>2
<1>2. u # running  BY <1>1 DEF KInv, Queue
<1>3. ~(idle_thread = IdleThread /\ u = IdleThread)
  <2>1. SUFFICES ASSUME idle_thread = IdleThread, u = IdleThread PROVE FALSE  OBVIOUS
  <2>2. todo[u] \in {I1, I2, Halted}  BY <2>1 DEF KInv, Starting
  <2>3. I3 \notin {I1, I2, Halted} /\ I1 # <<>> /\ I2 # <<>> /\ Halted # <<>>  BY IdleRests DEF IdleRest
  <2>4. QED  BY <1>1, <2>2, <2>3
<1>4. idle_thread \in {NoThd, IdleThread} /\ NoThd \notin Thd  BY Names DEF KInv, KTypes
<1>5. \A s : ~Downs(u, s)
  <2>1. Head(I3) = Act("idle", NoThd)  BY IdleRests
  <2>2. \A s : Act("idle", NoThd) # Act("down", s) /\ Act("idle", NoThd) # Act("down_own", s)  BY DEF Act
  <2>3. QED  BY <1>1, <2>1, <2>2 DEF Downs, Begins
<1>6. QED  BY <1>1, <1>2, <1>3, <1>4, <1>5

\* Who downs a semaphore: one semaphore, and not the idle thread.
LEMMA DownsOne ==
    ASSUME Rests, NEW t \in Thd, NEW s, Downs(t, s)
    PROVE  /\ todo[t] # <<>> /\ t # IdleThread /\ Known(todo[t])
           /\ Head(todo[t]).op \in {"down", "down_own"}
           /\ s = (IF Head(todo[t]).op = "down_own" THEN t ELSE Head(todo[t]).arg)
           /\ Head(todo[t]).op = "down" => s \in Lock \cup {"sema", "idle_started"}
           /\ s \in Semaphore /\ \A r : Downs(t, r) => r = s
<1>1. todo[t] # <<>>  BY DEF Downs, Begins
<1>2. Known(todo[t])  BY <1>1, RestOf
<1>3. PICK o, a : o = Head(todo[t]).op /\ a = Head(todo[t]).arg  OBVIOUS
<1>4. \A p, b : Begins(todo[t], p, b) <=> p = o /\ b = a  BY <1>2, <1>3, HeadOf
<1>5. /\ o \in {"down", "down_own"} /\ s = (IF o = "down_own" THEN t ELSE a)
      /\ \A r : Downs(t, r) => r = s
  BY <1>4 DEF Downs
<1>6. t # IdleThread
  <2>1. SUFFICES ASSUME t = IdleThread PROVE FALSE  OBVIOUS
  <2>2. todo[t] \in {I1, I2, I3, Halted}  BY <1>1, <2>1 DEF Rests, IdleRest
  <2>3. o \in {"block", "up", "idle", "hlt"}  BY <1>3, <2>2, IdleRests
  <2>4. QED  BY <1>5, <2>3
<1>7. o = "down" => a \in Lock \cup {"sema", "idle_started"}
  BY <1>2, <1>3 DEF Known, LocksKnown
<1>8. s \in Semaphore  BY <1>5, <1>7, Names DEF Lock
<1>9. QED  BY <1>1, <1>2, <1>3, <1>5, <1>6, <1>7, <1>8

\* More threads look at a semaphore.
LEMMA FiniteThreads == IsFiniteSet(Thd) /\ \A s : IsFiniteSet(Coming(s)) /\ Cardinality(Coming(s)) \in Nat
<1>1. IsFiniteSet({MainThread}) /\ IsFiniteSet({IdleThread})  BY FS_Singleton
<1>2. IsFiniteSet({MainThread} \cup {IdleThread})  BY <1>1, FS_Union
<1>3. IsFiniteSet(({MainThread} \cup {IdleThread}) \cup Worker)  BY <1>2, FS_Union, KernelAssumption
<1>4. Thd = ({MainThread} \cup {IdleThread}) \cup Worker  BY DEF Thd
<1>5. IsFiniteSet(Thd)  BY <1>3, <1>4
<1>6. ASSUME NEW s PROVE IsFiniteSet(Coming(s)) /\ Cardinality(Coming(s)) \in Nat
  <2>1. Coming(s) \subseteq Thd  BY DEF Coming
  <2>2. QED  BY <1>5, <2>1, FS_Subset, FS_CardinalityType
<1>7. QED  BY <1>5, <1>6

\* There are still enough threads on their way when none turns away.
LEMMA EnoughStay ==
    ASSUME KTypes, Enough,
           \A s \in Semaphore : waiters'[s] # <<>> =>
             waiters[s] # <<>> /\ value'[s] <= value[s] /\ value'[s] \in Nat /\ Coming(s) \subseteq Coming(s)'
    PROVE  Enough'
<1>1. ASSUME NEW s \in Semaphore, waiters'[s] # <<>> PROVE Cardinality(Coming(s)') >= value'[s]
  <2>1. IsFiniteSet(Coming(s)') /\ Coming(s) \subseteq Coming(s)'
    <3>1. Coming(s)' \subseteq Thd  BY DEF Coming
    <3>2. QED  BY <1>1, <3>1, FiniteThreads, FS_Subset
  <2>2. Cardinality(Coming(s)) <= Cardinality(Coming(s)') /\ Cardinality(Coming(s)') \in Nat
    BY <2>1, FS_Subset, FS_CardinalityType
  <2>3. Cardinality(Coming(s)) >= value[s] /\ Cardinality(Coming(s)) \in Nat
    BY <1>1, FiniteThreads DEF Enough
  <2>4. value[s] \in Nat  BY DEF KTypes
  <2>5. QED  BY <1>1, <2>2, <2>3, <2>4
<1>2. QED  BY <1>1 DEF Enough

-----------------------------------------------------------------------------
\* Steps in which no thread is switched to.
Allowed(t, z) ==
    \/ t = MainThread /\ z \in WorkRest \cup StartRest
    \/ t = IdleThread /\ z \in {<<>>} \cup IdleRest
    \/ t \in Worker /\ z \in WorkRest

\* A thread may go on with any rest allowed to it.
LEMMA RestsBecome ==
    ASSUME Rests, NEW t \in Thd, NEW z, Becomes(t, z), Allowed(t, z)
    PROVE  Rests'
<1>1. DOMAIN todo' = Thd /\ \A u \in Thd : todo'[u] = IF u = t THEN z ELSE todo[u]  BY DEF Becomes
<1>2. MainThread \in Thd /\ IdleThread \in Thd /\ MainThread # IdleThread /\ Worker \subseteq Thd
      /\ MainThread \notin Worker /\ IdleThread \notin Worker
  BY Names
<1>3. QED  BY <1>1, <1>2 DEF Rests, Allowed

\* What is left of a call is allowed.
LEMMA NextAllowed ==
    ASSUME Rests, NEW t \in Thd, todo[t] # <<>>, Head(todo[t]).op \notin {"block", "hlt"}
    PROVE  Allowed(t, Tail(todo[t]))
<1>1. <<>> \in WorkRest  BY DEF WorkRest
<1>2. t = MainThread \/ t = IdleThread \/ t \in Worker  BY DEF Thd
<1>3. CASE t = IdleThread
  <2>1. todo[t] \in {I1, I2, I3, Halted}  BY <1>3 DEF Rests, IdleRest
  <2>2. todo[t] \in {I2, I3}  BY <2>1, IdleRests
  <2>3. Tail(todo[t]) \in IdleRest  BY <2>2, IdleRests DEF IdleRest
  <2>4. QED  BY <1>3, <2>3 DEF Allowed
<1>4. CASE t # IdleThread
  <2>1. \/ Tail(todo[t]) \in WorkRest
        \/ t = MainThread /\ Tail(todo[t]) \in StartRest \cup {<<>>}
    BY <1>4, RestOf
  <2>2. QED  BY <1>1, <1>2, <1>4, <2>1 DEF Allowed
<1>5. QED  BY <1>3, <1>4

\* Blocked threads stay where they are: Waiting and Absent.
LEMMA WaitingStay ==
    ASSUME Waiting, KTypes, NEW z, Becomes(running, z), Queue, waiters' = waiters,
           \A t \in Thd : status[t] = "blocked" => status'[t] = "blocked"
    PROVE  Waiting'
<1>1. ASSUME NEW s \in Semaphore PROVE IsInjective(waiters'[s])
                         /\ \A t \in ToSet(waiters'[s]) : status'[t] = "blocked" /\ Downs(t, s)'
  <2>1. IsInjective(waiters[s])  BY DEF Waiting
  <2>2. ASSUME NEW t \in ToSet(waiters[s]) PROVE status'[t] = "blocked" /\ Downs(t, s)'
    <3>1. waiters[s] \in Seq(Thd)  BY DEF KTypes
    <3>2. t \in Thd  BY <3>1, SeqElements
    <3>3. status[t] = "blocked" /\ Downs(t, s)  BY DEF Waiting
    <3>4. t # running  BY <3>2, <3>3 DEF Queue
    <3>5. todo'[t] = todo[t]  BY <3>2, <3>4 DEF Becomes
    <3>6. QED  BY <3>2, <3>3, <3>5 DEF Downs
  <2>3. QED  BY <2>1, <2>2
<1>2. QED  BY <1>1 DEF Waiting

\* An operation that leaves the scheduler, locks and semaphores alone.
LEMMA StillStep ==
    ASSUME KInv, todo[running] # <<>>, NEW o, o = Head(todo[running]).op,
           Becomes(running, Tail(todo[running])),
           UNCHANGED <<status, running, ready_list, all_list, idle_thread, waiters>>,
           o \notin {"unblock", "init", "idle", "block", "hlt"}
    PROVE  Rests' /\ Queue' /\ Waiting' /\ Asleep' /\ Absent' /\ Made'
<1>0. running \in Thd /\ Rests /\ KTypes /\ Queue /\ Waiting /\ Asleep /\ Absent /\ Made  BY DEF KInv, KTypes
<1>1. Known(todo[running])  BY <1>0, RestOf
<1>2. MakeSame  BY <1>0, <1>1, AdvanceSame
<1>3. Rests'  BY <1>0, NextAllowed, RestsBecome
<1>4. Queue'  BY <1>0 DEF Queue
<1>5. Waiting'  BY <1>0, WaitingStay
<1>6. Asleep'  BY <1>0, <1>2 DEF Asleep, MakeSame
<1>7. Absent'
  <2>1. status[running] = "running"  BY <1>0 DEF Queue
  <2>2. \A t \in Thd : status[t] \in {"free", "page", "dying"} => todo'[t] = <<>>
    BY <1>0, <2>1 DEF Absent, Becomes
  <2>3. QED  BY <1>0, <2>2 DEF Absent
<1>8. Made'
  <2>1. ASSUME NEW u \in Thd, NEW t \in Thd, Making(todo[t], u) PROVE status'[u] = status[u] /\ todo'[u] = todo[u]
    <3>1. u # running  BY <2>1, MadeIdle
    <3>2. QED  BY <3>1 DEF Becomes
  <2>2. QED  BY <1>0, <1>2, <2>1, MadeStay
<1>9. QED  BY <1>3, <1>4, <1>5, <1>6, <1>7, <1>8

\* Until the idle thread has named itself the main thread is in thread_start,
\* and no other thread but these two is there.
LEMMA Beginning ==
    ASSUME KInv, idle_thread = NoThd
    PROVE  /\ todo[MainThread] \in StartRest /\ todo[MainThread] # <<>> /\ value["idle_started"] = 0
           /\ StartHead(todo[MainThread])
           /\ running = MainThread \/ (running = IdleThread /\ todo[IdleThread] = I3)
           /\ \A t \in Worker : status[t] = "free" /\ todo[t] = <<>>
           /\ \/ Making(todo[MainThread], IdleThread) /\ running = MainThread /\ ~intr
              \/ todo[IdleThread] = I3 /\ status[IdleThread] \in {"running", "ready"}
<1>1. NoThd # IdleThread /\ Worker \subseteq Thd  BY Names
<1>2. /\ todo[MainThread] \in StartRest /\ value["idle_started"] = 0 /\ \A t \in Worker : status[t] = "free"
      /\ \/ Making(todo[MainThread], IdleThread) /\ running = MainThread /\ ~intr
         \/ todo[IdleThread] = I3 /\ status[IdleThread] \in {"running", "ready"}
  BY <1>1 DEF KInv, Starting
<1>3. Known(todo[MainThread]) /\ StartHead(todo[MainThread])  BY <1>2, StartRests
<1>4. todo[MainThread] # <<>>  BY <1>3 DEF Known
<1>5. \A t \in Worker : status[t] = "free" /\ todo[t] = <<>>  BY <1>1, <1>2 DEF KInv, Absent
<1>6. running \in Thd /\ status[running] = "running"  BY DEF KInv, KTypes, Queue
<1>7. running \notin Worker  BY <1>2, <1>6
<1>8. running = MainThread \/ running = IdleThread  BY <1>6, <1>7 DEF Thd
<1>9. QED  BY <1>2, <1>3, <1>4, <1>5, <1>8, Names

\* thread_start's part under an operation that switches no thread.
LEMMA StartingStay ==
    ASSUME KInv, todo[running] # <<>>, NEW o, NEW a, o = Head(todo[running]).op, a = Head(todo[running]).arg,
           Becomes(running, Tail(todo[running])), UNCHANGED <<running, idle_thread>>,
           \A t \in Thd : status'[t] = status[t] \/ (status[t] = "blocked" /\ status'[t] = "ready"),
           intr' = intr \/ o = "intr_enable",
           value'["idle_started"] = value["idle_started"] \/ (o \in {"up", "down"} /\ a = "idle_started"),
           o \notin {"unblock", "idle", "block", "hlt"},
           o = "down" /\ a = "idle_started" => value["idle_started"] > 0
    PROVE  Starting'
<1>0. running \in Thd /\ idle_thread \in {NoThd, IdleThread} /\ NoThd # IdleThread /\ IdleThread \in Thd
      /\ MainThread \in Thd /\ MainThread # IdleThread /\ Worker \subseteq Thd
  BY Names DEF KInv, KTypes
<1>1. \A u \in Thd : todo'[u] = IF u = running THEN Tail(todo[running]) ELSE todo[u]  BY DEF Becomes
<1>2. CASE idle_thread = IdleThread
  <2>1. todo[IdleThread] \in {I1, I2, Halted} /\ status[IdleThread] \in {"running", "ready", "blocked"}
    BY <1>2 DEF KInv, Starting
  <2>2. todo'[IdleThread] \in {I1, I2, Halted}
    <3>1. CASE running # IdleThread  BY <1>0, <1>1, <2>1, <3>1
    <3>2. CASE running = IdleThread
      <4>1. todo[IdleThread] = I2  BY <2>1, <3>2, IdleRests
      <4>2. QED  BY <1>0, <1>1, <3>2, <4>1, IdleRests
    <3>3. QED  BY <3>1, <3>2
  <2>3. status'[IdleThread] \in {"running", "ready", "blocked"}  BY <1>0, <2>1
  <2>4. QED  BY <1>0, <1>2, <2>2, <2>3 DEF Starting
<1>3. CASE idle_thread = NoThd
  <2>1. /\ todo[MainThread] \in StartRest /\ value["idle_started"] = 0 /\ StartHead(todo[MainThread])
        /\ running = MainThread \/ (running = IdleThread /\ todo[IdleThread] = I3)
        /\ \A t \in Worker : status[t] = "free"
        /\ \/ Making(todo[MainThread], IdleThread) /\ running = MainThread /\ ~intr
           \/ todo[IdleThread] = I3 /\ status[IdleThread] \in {"running", "ready"}
    BY <1>3, Beginning
  <2>2. running = MainThread  BY <2>1, IdleRests
  <2>3. PICK q : q = todo[MainThread]  OBVIOUS
  <2>4. o = Head(q).op /\ a = Head(q).arg /\ q \in StartRest /\ StartHead(q)  BY <2>1, <2>2, <2>3
  <2>5. q # E1
    <3>1. SUFFICES ASSUME q = E1 PROVE FALSE  OBVIOUS
    <3>2. o = "down" /\ a = "idle_started"  BY <2>4, <3>1, StartShapes DEF Shape
    <3>3. QED  BY <2>1, <3>2
  <2>6. Tail(q) \in StartRest /\ Known(q)  BY <2>4, <2>5, StartRests
  <2>7. value'["idle_started"] = 0
    <3>1. ~(o \in {"up", "down"} /\ a = "idle_started")  BY <2>1, <2>4 DEF StartHead
    <3>2. QED  BY <2>1, <3>1
  <2>8. \A t \in Worker : status'[t] = "free"  BY <1>0, <2>1
  <2>9. \/ Making(Tail(q), IdleThread) /\ running' = MainThread /\ ~intr'
        \/ todo'[IdleThread] = I3 /\ status'[IdleThread] \in {"running", "ready"}
    <3>1. CASE Making(q, IdleThread) /\ ~intr
      <4>1. Making(Tail(q), IdleThread)  BY <2>4, <2>6, <3>1 DEF Known, MakesKnown
      <4>2. o # "intr_enable"
        <5>1. SUFFICES ASSUME o = "intr_enable" PROVE FALSE  OBVIOUS
        <5>2. q = E2  BY <2>4, <5>1 DEF StartHead
        <5>3. QED  BY <3>1, <5>2, StartMentions DEF Apart
      <4>3. QED  BY <2>2, <3>1, <4>1, <4>2
    <3>2. CASE todo[IdleThread] = I3 /\ status[IdleThread] \in {"running", "ready"}
      BY <1>0, <1>1, <2>2, <3>2
    <3>3. QED  BY <2>1, <2>3, <3>1, <3>2
  <2>10. todo'[MainThread] = Tail(q)  BY <1>0, <1>1, <2>2, <2>3
  <2>11. QED  BY <1>0, <1>3, <2>6, <2>7, <2>8, <2>9, <2>10 DEF Starting
<1>4. QED  BY <1>0, <1>2, <1>3

\* What the first operation says of a rest.
LEMMA BeginsFacts ==
    ASSUME NEW z, NEW p, NEW b, Begins(z, p, b)
    PROVE  /\ \A l : Takes(z, l) <=> p \in {"own", "up"} /\ l = b
           /\ \A l : Holds(z, l) <=> \/ p = "disown" /\ l = b
                                     \/ l = "lock" /\ p \in {"wait", "signal", "broadcast"}
                                     \/ l = "lock" /\ p = "up" /\ b \in Thd
                                     \/ l = "tid" /\ p \in {"tid_read", "tid_next"}
<1>1. z # <<>> /\ Head(z) = Act(p, b)  BY DEF Begins
<1>2. \A o, a : Act(o, a).op = o /\ Act(o, a).arg = a  BY DEF Act
<1>3. \A o, a : Act(p, b) = Act(o, a) <=> p = o /\ b = a  BY DEF Act
<1>4. QED  BY <1>1, <1>2, <1>3 DEF Takes, Holds

\* The operation the running thread is at.
LEMMA AtStep ==
    ASSUME KInv, NEW op, Step(op)
    PROVE  /\ running \in Thd /\ todo[running] # <<>> /\ Known(todo[running]) /\ Head(todo[running]).op = op
           /\ Now = Head(todo[running]) /\ Rests /\ KTypes
           /\ Done => Becomes(running, Tail(todo[running]))
           /\ \A z : Then(z) => Becomes(running, z)
<1>1. running \in Thd /\ Rests /\ KTypes  BY DEF KInv, KTypes
<1>2. todo[running] # <<>> /\ Head(todo[running]).op = op /\ Now = Head(todo[running])  BY DEF Step, Now
<1>3. Known(todo[running])  BY <1>1, <1>2, RestOf
<1>4. QED  BY <1>1, <1>2, <1>3, ThenBecomes DEF Done

\* The other threads are still on their way.
LEMMA ComingStay ==
    ASSUME NEW z, Becomes(running, z), \A s : ~Downs(running, s),
           \A t \in Thd : status[t] \in {"ready", "running"} /\ t # running => status'[t] \in {"ready", "running"}
    PROVE  \A s : Coming(s) \subseteq Coming(s)'
<1>1. ASSUME NEW s, NEW t \in Coming(s) PROVE t \in Coming(s)'
  <2>1. t \in Thd /\ status[t] \in {"ready", "running"} /\ Downs(t, s) /\ t # running  BY <1>1 DEF Coming
  <2>2. todo'[t] = todo[t]  BY <2>1 DEF Becomes
  <2>3. QED  BY <2>1, <2>2 DEF Coming, Downs
<1>2. QED  BY <1>1

\* A thread at another operation is on its way to no semaphore.
LEMMA NotDown ==
    ASSUME Rests, running \in Thd, todo[running] = <<>> \/ Head(todo[running]).op \notin {"down", "down_own"}
    PROVE  \A s : ~Downs(running, s)
  BY DownsOne

\* lock_acquire and lock_release set the holder.
LEMMA SetHolderStep ==
    ASSUME KInv, SetHolder
    PROVE  KInv'
<1>1. PICK o \in {"own", "disown"} : Step(o)  BY DEF SetHolder
<1>2. PICK q, a : q = todo[running] /\ a = Head(q).arg  OBVIOUS
<1>3. /\ running \in Thd /\ q # <<>> /\ Known(q) /\ Head(q).op = o /\ Now = Head(q)
      /\ Rests /\ KTypes /\ Becomes(running, Tail(q))
  BY <1>1, <1>2, AtStep DEF SetHolder
<1>4. /\ holder' = [holder EXCEPT ![a] = IF o = "own" THEN running ELSE NoThd]
      /\ UNCHANGED <<status, running, ready_list, all_list, idle_thread, intr, value, waiters, cond, tid, next_tid>>
  BY <1>2, <1>3 DEF SetHolder, sched
<1>5. LocksKnown(q)  BY <1>3 DEF Known
<1>6. a \in Lock  BY <1>2, <1>3, <1>5 DEF LocksKnown
<1>7. KTypes'
  <2>1. holder' \in [Lock -> Thd \cup {NoThd}]  BY <1>3, <1>4, <1>6 DEF KTypes
  <2>2. QED  BY <1>3, <1>4, <2>1 DEF KTypes
<1>8. Rests' /\ Queue' /\ Waiting' /\ Asleep' /\ Absent' /\ Made'  BY <1>2, <1>3, <1>4, StillStep
<1>9. Starting'  BY <1>2, <1>3, <1>4, StartingStay
<1>10. SignalSame /\ NameSame  BY <1>2, <1>3, AdvanceSame
<1>11. Signals'  BY <1>3, <1>4, <1>10, SignalsStay DEF KInv, KTypes
<1>12. Tids'  BY <1>4, <1>10, TidsStay DEF KInv
<1>13. Enough'
  <2>1. \A s : Coming(s) \subseteq Coming(s)'
    <3>1. \A s : ~Downs(running, s)  BY <1>2, <1>3, NotDown
    <3>2. QED  BY <1>3, <1>4, <3>1, ComingStay
  <2>2. \A s \in Semaphore : value[s] \in Nat  BY <1>3 DEF KTypes
  <2>3. QED  BY <1>3, <1>4, <2>1, <2>2, EnoughStay DEF KInv
<1>14. Locked'
  <2>1. PICK z : z = Tail(q)  OBVIOUS
  <2>2. \A u \in Thd : todo'[u] = IF u = running THEN z ELSE todo[u]  BY <1>3, <2>1 DEF Becomes
  <2>3. Lock = {"lock", "tid"} /\ Lock \cap Thd = {} /\ NoThd \notin Thd  BY Names DEF Lock
  <2>4. Has(q, a) /\ \A l \in Lock : Has(q, l) => l = a
    BY <1>2, <1>3, <2>3, HeadOf DEF Has
  <2>5. Has(z, a) /\ \A l \in Lock : Has(z, l) => l = a
    <3>1. CASE o = "own"  BY <1>2, <1>3, <1>5, <2>1, <3>1 DEF LocksKnown, Has
    <3>2. CASE o = "disown"
      <4>1. Begins(z, "up", a)  BY <1>2, <1>3, <1>5, <2>1, <3>2 DEF LocksKnown
      <4>2. QED  BY <1>6, <2>3, <4>1, BeginsFacts DEF Has
    <3>3. QED  BY <1>1, <3>1, <3>2
  <2>6. Holds(z, a) <=> o = "own"
    <3>1. CASE o = "own"  BY <1>2, <1>3, <1>5, <2>1, <3>1 DEF LocksKnown
    <3>2. CASE o = "disown"
      <4>1. Begins(z, "up", a)  BY <1>2, <1>3, <1>5, <2>1, <3>2 DEF LocksKnown
      <4>2. QED  BY <1>6, <2>3, <3>2, <4>1, BeginsFacts
    <3>3. QED  BY <1>1, <3>1, <3>2
  <2>7. ASSUME NEW l \in Lock
        PROVE  /\ \A t \in Thd : holder'[l] = t <=> Holds(todo'[t], l)
               /\ \/ value'[l] = 1 /\ \A t \in Thd : ~Has(todo'[t], l)
                  \/ value'[l] = 0 /\ \E t \in Thd : \A u \in Thd : Has(todo'[u], l) <=> u = t
    <3>1. /\ \A t \in Thd : holder[l] = t <=> Holds(todo[t], l)
          /\ \/ value[l] = 1 /\ \A t \in Thd : ~Has(todo[t], l)
             \/ value[l] = 0 /\ \E t \in Thd : \A u \in Thd : Has(todo[u], l) <=> u = t
      BY DEF KInv, Locked
    <3>2. \A t \in Thd : Has(todo'[t], l) <=> Has(todo[t], l)  BY <1>2, <2>2, <2>4, <2>5, <2>7
    <3>3. \A t \in Thd : holder'[l] = t <=> Holds(todo'[t], l)
      <4>1. CASE l # a
        <5>1. ~Holds(q, l) /\ ~Holds(z, l)  BY <2>4, <2>5, <2>7, <4>1 DEF Has
        <5>2. holder'[l] = holder[l]  BY <1>3, <1>4, <4>1 DEF KTypes
        <5>3. QED  BY <1>2, <2>2, <3>1, <5>1, <5>2
      <4>2. CASE l = a
        <5>1. \A u \in Thd : Has(todo[u], a) <=> u = running  BY <1>2, <1>3, <2>4, <3>1, <4>2
        <5>2. \A u \in Thd : u # running => ~Holds(todo[u], a)  BY <5>1 DEF Has
        <5>3. holder'[l] = IF o = "own" THEN running ELSE NoThd  BY <1>3, <1>4, <1>6, <4>2 DEF KTypes
        <5>4. QED  BY <1>3, <2>2, <2>3, <2>6, <4>2, <5>2, <5>3
      <4>3. QED  BY <4>1, <4>2
    <3>4. QED  BY <1>4, <3>1, <3>2, <3>3
  <2>8. QED  BY <2>7 DEF Locked
<1>15. QED  BY <1>7, <1>8, <1>9, <1>11, <1>12, <1>13, <1>14 DEF KInv

\* allocate_tid reads and writes next_tid.
LEMMA TidReadStep ==
    ASSUME KInv, TidRead
    PROVE  KInv'
<1>1. Step("tid_read")  BY DEF TidRead
<1>2. PICK q, a : q = todo[running] /\ a = Head(q).arg  OBVIOUS
<1>3. /\ running \in Thd /\ q # <<>> /\ Known(q) /\ Head(q).op = "tid_read" /\ Now = Head(q)
      /\ Rests /\ KTypes /\ Becomes(running, Tail(q))
  BY <1>1, <1>2, AtStep DEF TidRead
<1>4. /\ tid' = [tid EXCEPT ![a] = next_tid]
      /\ UNCHANGED <<status, running, ready_list, all_list, idle_thread, intr, value, waiters, holder, cond, next_tid>>
  BY <1>2, <1>3 DEF TidRead, sched
<1>5. /\ a \in Worker \cup {IdleThread} /\ \A t : Making(q, t) <=> t = a
      /\ \A t : Unnamed(q, t) <=> t = a
      /\ Begins(Tail(q), "tid_next", a) /\ \A t : ~Unnamed(Tail(q), t)
  BY <1>2, <1>3 DEF Known, MakesKnown
<1>6. a \in Thd  BY <1>5, Names
<1>7. KTypes'
  <2>1. tid' \in [Thd -> Nat]  BY <1>3, <1>4 DEF KTypes
  <2>2. QED  BY <1>3, <1>4, <2>1 DEF KTypes
<1>8. Rests' /\ Queue' /\ Waiting' /\ Asleep' /\ Absent' /\ Made'  BY <1>2, <1>3, <1>4, StillStep
<1>9. Starting'  BY <1>2, <1>3, <1>4, StartingStay
<1>10. SignalSame /\ LockSame  BY <1>2, <1>3, AdvanceSame
<1>11. Signals' /\ Locked'  BY <1>3, <1>4, <1>10, SignalsStay, LockedStay DEF KInv, KTypes
<1>13. Enough'
  <2>1. \A s : Coming(s) \subseteq Coming(s)'
    <3>1. \A s : ~Downs(running, s)  BY <1>2, <1>3, NotDown
    <3>2. QED  BY <1>3, <1>4, <3>1, ComingStay
  <2>2. \A s \in Semaphore : value[s] \in Nat  BY <1>3 DEF KTypes
  <2>3. QED  BY <1>3, <1>4, <2>1, <2>2, EnoughStay DEF KInv
<1>14. Tids'
  <2>1. PICK z : z = Tail(q)  OBVIOUS
  <2>2. \A u \in Thd : todo'[u] = IF u = running THEN z ELSE todo[u]  BY <1>3, <2>1 DEF Becomes
  <2>3. "tid" \in Lock  BY Names
  <2>4. \A u \in Thd : \A t : Begins(todo[u], "tid_next", t) => u = running
    <3>1. SUFFICES ASSUME NEW u \in Thd, NEW t, Begins(todo[u], "tid_next", t) PROVE u = running  OBVIOUS
    <3>2. Has(todo[u], "tid")  BY <3>1, BeginsFacts DEF Has
    <3>3. Has(todo[running], "tid")  BY <1>2, <1>3, HeadOf DEF Has
    <3>4. QED  BY <1>3, <2>3, <3>2, <3>3 DEF KInv, Locked
  <2>5. \A t : ~Begins(q, "tid_next", t)  BY <1>2, <1>3, HeadOf
  <2>6. \A u \in Thd : \A t : ~Begins(todo[u], "tid_next", t)  BY <1>2, <2>4, <2>5
  <2>7. \A t \in Thd : Named(t) => tid[t] < next_tid  BY <2>6 DEF KInv, Tids
  <2>8. \A t \in Thd : t # a /\ Named(t)' => Named(t) /\ tid'[t] = tid[t]
    <3>1. \A u \in Thd : \A t : t # a => (Unnamed(todo'[u], t) <=> Unnamed(todo[u], t))
      BY <1>2, <1>5, <2>1, <2>2
    <3>2. QED  BY <1>3, <1>4, <3>1 DEF Named, KTypes
  <2>9. tid'[a] = next_tid  BY <1>3, <1>4, <1>6 DEF KTypes
  <2>10. \A u \in Thd : \A t : Begins(todo'[u], "tid_next", t) <=> u = running /\ t = a
    <3>1. \A t : Begins(z, "tid_next", t) <=> t = a
      <4>1. \A t : Act("tid_next", a) = Act("tid_next", t) <=> t = a  BY DEF Act
      <4>2. QED  BY <1>5, <2>1, <4>1 DEF Begins
    <3>2. QED  BY <2>2, <2>6, <3>1
  <2>11. \A t \in Thd : Named(t)' =>
           \/ tid'[t] < next_tid'
           \/ tid'[t] = next_tid' /\ \E u \in Thd : Begins(todo'[u], "tid_next", t)
    <3>1. SUFFICES ASSUME NEW t \in Thd, Named(t)'
                   PROVE  \/ tid'[t] < next_tid'
                          \/ tid'[t] = next_tid' /\ \E u \in Thd : Begins(todo'[u], "tid_next", t)
      OBVIOUS
    <3>2. CASE t = a  BY <1>3, <1>4, <2>9, <2>10, <3>2
    <3>3. CASE t # a  BY <1>4, <2>7, <2>8, <3>1, <3>3
    <3>4. QED  BY <3>2, <3>3
  <2>12. \A t, u \in Thd : Begins(todo'[u], "tid_next", t) => tid'[t] = next_tid'  BY <1>4, <2>9, <2>10
  <2>13. \A t, u \in Thd : Named(t)' /\ Named(u)' /\ t # u => tid'[t] # tid'[u]
    <3>1. SUFFICES ASSUME NEW t \in Thd, NEW u \in Thd, Named(t)', Named(u)', t # u PROVE tid'[t] # tid'[u]
      OBVIOUS
    <3>2. \A v \in Thd : tid[v] \in Nat /\ next_tid \in Nat  BY <1>3 DEF KTypes
    <3>3. CASE t = a  BY <2>7, <2>8, <2>9, <3>1, <3>2, <3>3
    <3>4. CASE u = a  BY <2>7, <2>8, <2>9, <3>1, <3>2, <3>4
    <3>5. CASE t # a /\ u # a  BY <2>8, <3>1, <3>5 DEF KInv, Tids
    <3>6. QED  BY <3>3, <3>4, <3>5
  <2>14. QED  BY <2>11, <2>12, <2>13 DEF Tids
<1>15. QED  BY <1>7, <1>8, <1>9, <1>11, <1>13, <1>14 DEF KInv

\* A step that takes the running thread on in its call and changes nothing else
\* but, in thread_start, that interrupts are enabled.
LEMMA AdvanceStep ==
    ASSUME KInv, NEW o \in {"intr_enable", "nap", "try", "signal", "broadcast"}, Step(o), Done,
           intr' = intr \/ o = "intr_enable",
           UNCHANGED <<status, running, ready_list, all_list, idle_thread, value, waiters, holder, cond, tid, next_tid>>
    PROVE  KInv'
<1>2. PICK q, a : q = todo[running] /\ a = Head(q).arg  OBVIOUS
<1>3. /\ running \in Thd /\ q # <<>> /\ Known(q) /\ Head(q).op = o
      /\ Rests /\ KTypes /\ Becomes(running, Tail(q))
  BY <1>2, AtStep
<1>7. KTypes'  BY <1>3 DEF KTypes
<1>8. Rests' /\ Queue' /\ Waiting' /\ Asleep' /\ Absent' /\ Made'  BY <1>2, <1>3, StillStep
<1>9. Starting'  BY <1>2, <1>3, StartingStay
<1>10. SignalSame /\ LockSame /\ NameSame  BY <1>2, <1>3, AdvanceSame
<1>11. Signals' /\ Locked'  BY <1>3, <1>10, SignalsStay, LockedStay DEF KInv, KTypes
<1>12. Tids'  BY <1>10, TidsStay DEF KInv
<1>13. Enough'
  <2>1. \A s : Coming(s) \subseteq Coming(s)'
    <3>1. \A s : ~Downs(running, s)  BY <1>2, <1>3, NotDown
    <3>2. QED  BY <1>3, <3>1, ComingStay
  <2>2. \A s \in Semaphore : value[s] \in Nat  BY <1>3 DEF KTypes
  <2>3. QED  BY <1>3, <2>1, <2>2, EnoughStay DEF KInv
<1>15. QED  BY <1>7, <1>8, <1>9, <1>11, <1>12, <1>13 DEF KInv

\* thread_start's intr_enable.
LEMMA IntrEnableStep ==
    ASSUME KInv, IntrEnable
    PROVE  KInv'
  BY AdvanceStep DEF IntrEnable, sched

\* allocate_tid: the counter goes up.
LEMMA TidNextStep ==
    ASSUME KInv, TidNext
    PROVE  KInv'
<1>1. Step("tid_next")  BY DEF TidNext
<1>2. PICK q, a : q = todo[running] /\ a = Head(q).arg  OBVIOUS
<1>3. /\ running \in Thd /\ q # <<>> /\ Known(q) /\ Head(q).op = "tid_next" /\ Now = Head(q)
      /\ Rests /\ KTypes /\ Becomes(running, Tail(q))
  BY <1>1, <1>2, AtStep DEF TidNext
<1>4. /\ next_tid' = tid[a] + 1
      /\ UNCHANGED <<status, running, ready_list, all_list, idle_thread, intr, value, waiters, holder, cond, tid>>
  BY <1>2, <1>3 DEF TidNext, sched
<1>5. a \in Worker \cup {IdleThread} /\ \A t : Unnamed(Tail(q), t) <=> Unnamed(q, t)
  BY <1>2, <1>3 DEF Known, MakesKnown
<1>6. a \in Thd  BY <1>5, Names
<1>a. next_tid' = next_tid + 1 /\ next_tid \in Nat /\ \A t \in Thd : tid[t] \in Nat
  <2>1. Begins(q, "tid_next", a)  BY <1>2, <1>3, HeadOf
  <2>2. tid[a] = next_tid  BY <1>2, <1>3, <1>6, <2>1 DEF KInv, Tids
  <2>3. QED  BY <1>3, <1>4, <2>2 DEF KTypes
<1>7. KTypes'  BY <1>3, <1>4, <1>a DEF KTypes
<1>8. Rests' /\ Queue' /\ Waiting' /\ Asleep' /\ Absent' /\ Made'  BY <1>2, <1>3, <1>4, StillStep
<1>9. Starting'  BY <1>2, <1>3, <1>4, StartingStay
<1>10. SignalSame /\ LockSame  BY <1>2, <1>3, AdvanceSame
<1>11. Signals' /\ Locked'  BY <1>3, <1>4, <1>10, SignalsStay, LockedStay DEF KInv, KTypes
<1>13. Enough'
  <2>1. \A s : Coming(s) \subseteq Coming(s)'
    <3>1. \A s : ~Downs(running, s)  BY <1>2, <1>3, NotDown
    <3>2. QED  BY <1>3, <1>4, <3>1, ComingStay
  <2>2. \A s \in Semaphore : value[s] \in Nat  BY <1>3 DEF KTypes
  <2>3. QED  BY <1>3, <1>4, <2>1, <2>2, EnoughStay DEF KInv
<1>14. Tids'
  <2>1. PICK z : z = Tail(q)  OBVIOUS
  <2>2. \A u \in Thd : todo'[u] = IF u = running THEN z ELSE todo[u]  BY <1>3, <2>1 DEF Becomes
  <2>3. \A t \in Thd : Named(t)' => Named(t)
    <3>1. \A u \in Thd : \A t : Unnamed(todo'[u], t) <=> Unnamed(todo[u], t)  BY <1>2, <1>5, <2>1, <2>2
    <3>2. QED  BY <1>4, <3>1 DEF Named
  <2>4. \A t \in Thd : Named(t) => tid[t] <= next_tid  BY <1>a DEF KInv, Tids
  <2>5. \A u \in Thd : \A t : ~Begins(todo'[u], "tid_next", t)
    <3>1. SUFFICES ASSUME NEW u \in Thd, NEW t, Begins(todo'[u], "tid_next", t) PROVE FALSE  OBVIOUS
    <3>2. ~Begins(z, "tid_next", t)  BY <1>3, <2>1 DEF Known, MakesKnown
    <3>3. u # running /\ Begins(todo[u], "tid_next", t)  BY <2>2, <3>1, <3>2
    <3>4. Has(todo[u], "tid")  BY <3>3, BeginsFacts DEF Has
    <3>5. Has(todo[running], "tid")  BY <1>2, <1>3, HeadOf DEF Has
    <3>6. QED  BY <1>3, <3>3, <3>4, <3>5, Names DEF KInv, Locked
  <2>6. \A t \in Thd : Named(t)' => tid'[t] < next_tid'
    <3>1. SUFFICES ASSUME NEW t \in Thd, Named(t) PROVE tid[t] < next_tid'  BY <1>4, <2>3
    <3>2. QED  BY <1>a, <2>4, <3>1
  <2>7. \A t, u \in Thd : Named(t)' /\ Named(u)' /\ t # u => tid'[t] # tid'[u]
    BY <1>4, <2>3 DEF KInv, Tids
  <2>8. QED  BY <2>5, <2>6, <2>7 DEF Tids
<1>15. QED  BY <1>7, <1>8, <1>9, <1>11, <1>13, <1>14 DEF KInv

\* cond_wait: the thread's semaphore has nobody waiting on it and nobody about
\* to raise it when it is initialized again.
LEMMA CondPushStep ==
    ASSUME KInv, CondPush
    PROVE  KInv'
<1>1. Step("wait")  BY DEF CondPush
<1>2. PICK q, a : q = todo[running] /\ a = Head(q).arg  OBVIOUS
<1>3. /\ running \in Thd /\ q # <<>> /\ Known(q) /\ Head(q).op = "wait" /\ Now = Head(q)
      /\ Rests /\ KTypes /\ Becomes(running, Tail(q))
  BY <1>1, <1>2, AtStep DEF CondPush
<1>4. /\ value' = [value EXCEPT ![running] = 0] /\ waiters' = [waiters EXCEPT ![running] = <<>>]
      /\ cond' = Append(cond, running)
      /\ UNCHANGED <<status, running, ready_list, all_list, idle_thread, intr, holder, tid, next_tid>>
  BY DEF CondPush, sched
<1>5. running \in Semaphore /\ "idle_started" \in Semaphore /\ running \notin Lock \cup {"sema", "idle_started"}
      /\ Lock \subseteq Semaphore
  BY <1>3, Names DEF Lock
<1>6. waiters[running] = <<>>
  <2>1. SUFFICES ASSUME waiters[running] # <<>> PROVE FALSE  OBVIOUS
  <2>2. waiters[running] \in Seq(Thd)  BY <1>3, <1>5 DEF KTypes
  <2>3. PICK t \in ToSet(waiters[running]) : t \in Thd  BY <2>1, <2>2, SeqElements
  <2>4. status[t] = "blocked" /\ Downs(t, running)  BY <1>5 DEF KInv, Waiting
  <2>5. t # running  BY <1>3, <2>4 DEF KInv, Queue
  <2>6. QED  BY <1>3, <1>5, <2>3, <2>4, <2>5, DownsOne
<1>a. UNCHANGED waiters  BY <1>3, <1>4, <1>5, <1>6 DEF KTypes
<1>b. \A s \in Semaphore : value'[s] = IF s = running THEN 0 ELSE value[s]  BY <1>3, <1>4 DEF KTypes
<1>7. KTypes'
  <2>1. value' \in [Semaphore -> Nat] /\ waiters' \in [Semaphore -> Seq(Thd)]  BY <1>3, <1>4, <1>5, <1>a DEF KTypes
  <2>2. cond' \in Seq(Thd)  BY <1>3, <1>4 DEF KTypes
  <2>3. QED  BY <1>3, <1>4, <2>1, <2>2 DEF KTypes
<1>8. Rests' /\ Queue' /\ Waiting' /\ Asleep' /\ Absent' /\ Made'  BY <1>2, <1>3, <1>4, <1>a, StillStep
<1>9. Starting'
  <2>1. value'["idle_started"] = value["idle_started"]  BY <1>5, <1>b
  <2>2. QED  BY <1>2, <1>3, <1>4, <2>1, StartingStay
<1>10. NameSame /\ LockSame  BY <1>2, <1>3, AdvanceSame
<1>11. Locked'
  <2>1. \A l \in Lock : value'[l] = value[l]  BY <1>5, <1>b
  <2>2. QED  BY <1>4, <1>10, <2>1, LockedStay DEF KInv
<1>12. Tids'  BY <1>4, <1>10, TidsStay DEF KInv
<1>13. Enough'
  <2>1. \A s : Coming(s) \subseteq Coming(s)'
    <3>1. \A s : ~Downs(running, s)  BY <1>2, <1>3, NotDown
    <3>2. QED  BY <1>3, <1>4, <3>1, ComingStay
  <2>2. \A s \in Semaphore : value[s] \in Nat  BY <1>3 DEF KTypes
  <2>3. \A s \in Semaphore : value'[s] \in Nat /\ value'[s] <= value[s]  BY <1>b, <2>2
  <2>4. QED  BY <1>3, <1>a, <2>1, <2>3, EnoughStay DEF KInv
<1>14. Signals'
  <2>1. PICK z : z = Tail(q)  OBVIOUS
  <2>2. \A u \in Thd : todo'[u] = IF u = running THEN z ELSE todo[u]  BY <1>3, <2>1 DEF Becomes
  <2>3. ~InWait(q) /\ InWait(z) /\ \A t \in Thd : ~Begins(z, "up", t)
    BY <1>3, <2>1 DEF Known, WaitsKnown
  <2>4. cond \in Seq(Thd)  BY <1>3 DEF KTypes
  <2>5. running \notin ToSet(cond) /\ ToSet(cond) \subseteq Thd  BY <1>2, <2>3, <2>4, SeqElements DEF KInv, Signals
  <2>6. IsInjective(cond') /\ ToSet(cond') = ToSet(cond) \cup {running}
    BY <1>3, <1>4, <2>4, <2>5, AppendElements DEF KInv, Signals
  <2>7. \A u \in Thd : ~Begins(todo[u], "up", running)  BY <1>2, <1>3, <2>3 DEF KInv, Signals
  <2>8. \A t \in Thd : value'[t] = IF t = running THEN 0 ELSE value[t]  BY <1>b, Names
  <2>9. \A t, u \in Thd : Begins(todo'[u], "up", t) => u # running /\ t # running /\ Begins(todo[u], "up", t)
    BY <2>2, <2>3, <2>7
  <2>10. \A t \in ToSet(cond') : InWait(todo'[t]) /\ value'[t] = 0 /\ \A u \in Thd : ~Begins(todo'[u], "up", t)
    <3>1. ASSUME NEW t \in ToSet(cond)
          PROVE  InWait(todo'[t]) /\ value'[t] = 0 /\ \A u \in Thd : ~Begins(todo'[u], "up", t)
      <4>1. t \in Thd /\ t # running  BY <2>5
      <4>2. InWait(todo[t]) /\ value[t] = 0 /\ \A u \in Thd : ~Begins(todo[u], "up", t)  BY DEF KInv, Signals
      <4>3. QED  BY <2>2, <2>8, <2>9, <4>1, <4>2
    <3>2. InWait(todo'[running]) /\ value'[running] = 0 /\ \A u \in Thd : ~Begins(todo'[u], "up", running)
      BY <1>3, <2>2, <2>3, <2>8, <2>9
    <3>3. QED  BY <2>6, <3>1, <3>2
  <2>11. \A t, u \in Thd : Begins(todo'[u], "up", t) =>
         InWait(todo'[t]) /\ value'[t] = 0 /\ \A v \in Thd : Begins(todo'[v], "up", t) => v = u
    <3>1. SUFFICES ASSUME NEW t \in Thd, NEW u \in Thd, Begins(todo'[u], "up", t)
                   PROVE  InWait(todo'[t]) /\ value'[t] = 0 /\ \A v \in Thd : Begins(todo'[v], "up", t) => v = u
      OBVIOUS
    <3>2. t # running /\ Begins(todo[u], "up", t)  BY <2>9, <3>1
    <3>3. InWait(todo[t]) /\ value[t] = 0 /\ \A v \in Thd : Begins(todo[v], "up", t) => v = u
      BY <3>2 DEF KInv, Signals
    <3>4. QED  BY <2>2, <2>8, <2>9, <3>2, <3>3
  <2>12. \A t \in Thd : InWait(todo'[t]) =>
         t \in ToSet(cond') \/ value'[t] > 0 \/ \E u \in Thd : Begins(todo'[u], "up", t)
    <3>1. SUFFICES ASSUME NEW t \in Thd, InWait(todo'[t]), t # running
                   PROVE  t \in ToSet(cond') \/ value'[t] > 0 \/ \E u \in Thd : Begins(todo'[u], "up", t)
      BY <2>6
    <3>2. InWait(todo[t])  BY <2>2, <3>1
    <3>3. t \in ToSet(cond) \/ value[t] > 0 \/ \E u \in Thd : Begins(todo[u], "up", t)
      BY <3>2 DEF KInv, Signals
    <3>4. \A u \in Thd : Begins(todo[u], "up", t) => u # running  BY <1>2, <1>3, HeadOf
    <3>5. QED  BY <2>2, <2>6, <2>8, <3>1, <3>3, <3>4
  <2>13. QED  BY <2>6, <2>10, <2>11, <2>12 DEF Signals
<1>15. QED  BY <1>7, <1>8, <1>9, <1>11, <1>12, <1>13, <1>14 DEF KInv

\* A thread past thread_start.
LEMMA Started ==
    ASSUME KInv, running # IdleThread,
           \/ todo[running] = <<>>
           \/ Head(todo[running]).op \notin {"init", "down", "own", "tid_read", "tid_next", "disown", "up",
                                             "unblock", "intr_enable"}
    PROVE  /\ idle_thread = IdleThread /\ todo[running] \in WorkRest
           /\ \A z \in WorkRest : Allowed(running, z)
<1>1. running \in Thd /\ Rests /\ idle_thread \in {NoThd, IdleThread}  BY DEF KInv, KTypes
<1>2. running = MainThread \/ running \in Worker  BY <1>1 DEF Thd
<1>3. todo[running] \notin StartRest
  <2>1. SUFFICES ASSUME todo[running] \in StartRest PROVE FALSE  OBVIOUS
  <2>2. Known(todo[running]) /\ StartHead(todo[running])  BY <2>1, StartRests
  <2>3. todo[running] # <<>>  BY <2>2 DEF Known
  <2>4. QED  BY <2>2, <2>3 DEF StartHead
<1>4. todo[running] \in WorkRest  BY <1>1, <1>2, <1>3 DEF Rests
<1>5. idle_thread # NoThd  BY <1>3, Beginning
<1>6. QED  BY <1>1, <1>2, <1>4, <1>5 DEF Allowed

\* The rest of the running thread becomes z, nobody is switched to, woken or made.
LEMMA StillMove ==
    ASSUME KInv, NEW z, Becomes(running, z), Allowed(running, z), MakeSame,
           UNCHANGED <<status, running, ready_list, all_list, idle_thread, waiters>>
    PROVE  Rests' /\ Queue' /\ Waiting' /\ Asleep' /\ Absent' /\ Made'
<1>0. running \in Thd /\ Rests /\ KTypes /\ Queue /\ Waiting /\ Asleep /\ Absent /\ Made  BY DEF KInv, KTypes
<1>3. Rests'  BY <1>0, RestsBecome
<1>4. Queue'  BY <1>0 DEF Queue
<1>5. Waiting'  BY <1>0, WaitingStay
<1>6. Asleep'  BY <1>0 DEF Asleep, MakeSame
<1>7. Absent'
  <2>1. status[running] = "running"  BY <1>0 DEF Queue
  <2>2. \A t \in Thd : status[t] \in {"free", "page", "dying"} => todo'[t] = <<>>
    BY <1>0, <2>1 DEF Absent, Becomes
  <2>3. QED  BY <1>0, <2>2 DEF Absent
<1>8. Made'
  <2>1. ASSUME NEW u \in Thd, NEW t \in Thd, Making(todo[t], u) PROVE status'[u] = status[u] /\ todo'[u] = todo[u]
    <3>1. u # running  BY <2>1, MadeIdle
    <3>2. QED  BY <3>1 DEF Becomes
  <2>2. QED  BY <1>0, <2>1, MadeStay
<1>9. QED  BY <1>3, <1>4, <1>5, <1>6, <1>7, <1>8

\* Once the idle thread has run, other threads leave it be.
LEMMA StartedStay ==
    ASSUME KInv, NEW z, Becomes(running, z), idle_thread = IdleThread, running # IdleThread,
           UNCHANGED idle_thread, status'[IdleThread] \in {"running", "ready", "blocked"}
    PROVE  Starting'
<1>1. IdleThread \in Thd /\ NoThd # IdleThread  BY Names
<1>2. todo[IdleThread] \in {I1, I2, Halted}  BY DEF KInv, Starting
<1>3. todo'[IdleThread] \in {I1, I2, Halted}  BY <1>1, <1>2 DEF Becomes
<1>4. QED  BY <1>1, <1>3 DEF Starting

\* Only cond_broadcast's round begins with "broadcast", only the wait inside
\* cond_wait with "down_own".
LEMMA MonitorOnly ==
    ASSUME NEW q \in WorkRest, q # <<>>, Head(q).op \in {"broadcast", "down_own"}
    PROVE  q = IF Head(q).op = "broadcast" THEN B1 ELSE W1
<1>0. "broadcast" # "down_own"  OBVIOUS
<1>1. CASE q \in MonitorRest
  <2> DEFINE Others == {"broadcast", "down_own"}
  <2>1. /\ Head(U1).op \notin Others /\ Head(U2).op \notin Others /\ Head(U3).op \notin Others
        /\ Head(U4).op \notin Others /\ Head(S1).op \notin Others /\ Head(S2).op \notin Others
        /\ Head(S3).op \notin Others /\ Head(B2).op \notin Others /\ Head(B3).op \notin Others
        /\ Head(B1).op = "broadcast" /\ Head(W1).op = "down_own"
    BY MonitorShapes DEF Shape
  <2>2. /\ Head(W2).op \notin Others /\ Head(W3).op \notin Others
        /\ Head(W4).op \notin Others /\ Head(W5).op \notin Others /\ Head(W6).op \notin Others
    BY MonitorShapes DEF Shape
  <2>a. \A w \in Thd : Head(Poke(w)).op = "up" /\ Head(PokeAll(w)).op = "up"
    <3>1. \A w \in Thd : Shape(Poke(w), "up", w, U2) /\ Shape(PokeAll(w), "up", w, B1)  BY MonitorShapes
    <3>2. QED  BY <3>1 DEF Shape
  <2>3. q \in {B1, W1}  BY <1>1, <2>1, <2>2, <2>a DEF MonitorRest
  <2>4. QED  BY <2>1, <2>3
<1>2. CASE q \in OneRest
  <2>1. PICK o, a : OneCall(o, a) /\ q = One(o, a)  BY <1>2 DEF OneRest, OneCall
  <2>2. Head(q).op = o  BY <2>1, OneKnown DEF Shape
  <2>3. QED  BY <2>1, <2>2 DEF OneCall
<1>3. CASE \E u \in Worker : q \in MakeRest(u, <<>>)
  <2>1. PICK u \in Worker : q \in MakeRest(u, <<>>)  BY <1>3
  <2>2. After(<<>>)  BY Nothing DEF After
  <2>3. \/ Leads(q, MakeOps, {u}, MakeRest(u, <<>>) \cup {<<>>})
        \/ Leads(q, TidOps, {"tid"}, MakeRest(u, <<>>) \cup {<<>>})
    BY <2>1, <2>2, MakeRests
  <2>4. QED  BY <2>3 DEF Leads, MakeOps, TidOps
<1>4. QED  BY <1>1, <1>2, <1>3 DEF WorkRest

\* cond_signal, and a round of cond_broadcast, take the first waiter off the list.
LEMMA CondPopStep ==
    ASSUME KInv, CondPop, cond # <<>>
    PROVE  KInv'
<1>1. PICK o \in {"signal", "broadcast"} : Step(o)  BY DEF CondPop
<1>2. PICK q, h : q = todo[running] /\ h = Head(cond)  OBVIOUS
<1>3. /\ running \in Thd /\ q # <<>> /\ Known(q) /\ Head(q).op = o /\ Now = Head(q)
      /\ Rests /\ KTypes /\ \A z : Then(z) => Becomes(running, z)
  BY <1>1, <1>2, AtStep
<1>4. running # IdleThread
  <2>1. SUFFICES ASSUME running = IdleThread PROVE FALSE  OBVIOUS
  <2>2. q \in {I1, I2, I3, Halted}  BY <1>2, <1>3, <2>1 DEF Rests, IdleRest
  <2>3. QED  BY <1>3, <2>2, IdleRests
<1>5. idle_thread = IdleThread /\ q \in WorkRest /\ \A z \in WorkRest : Allowed(running, z)
  BY <1>2, <1>3, <1>4, Started
<1>6. cond \in Seq(Thd) /\ IsInjective(cond)  BY <1>3 DEF KTypes, KInv, Signals
<1>7. h \in Thd /\ h \in ToSet(cond) /\ Tail(cond) \in Seq(Thd) /\ IsInjective(Tail(cond))
      /\ ToSet(Tail(cond)) = ToSet(cond) \ {h} /\ ToSet(cond) \subseteq Thd
  BY <1>2, <1>6, TailElements, SeqElements
<1>8. Tail(q) = U2  BY <1>3 DEF Known, LocksKnown
<1>9. PICK z : z = IF o = "signal" THEN Poke(h) ELSE PokeAll(h)  OBVIOUS
<1>10. Then(z)
  <2>1. Then(Do("up", h) \o (IF o = "signal" THEN Tail(q) ELSE q))  BY <1>2, <1>3 DEF CondPop
  <2>2. CASE o = "signal"  BY <1>8, <1>9, <2>1, <2>2 DEF Poke, Pre
  <2>3. CASE o = "broadcast"
    <3>1. q = B1  BY <1>3, <1>5, <2>3, MonitorOnly
    <3>2. QED  BY <1>9, <2>1, <2>3, <3>1 DEF PokeAll, Pre
  <2>4. QED  BY <2>2, <2>3
<1>11. Becomes(running, z) /\ z \in WorkRest
  <2>1. z \in MonitorRest  BY <1>7, <1>9 DEF MonitorRest
  <2>2. QED  BY <1>3, <1>10, <2>1 DEF WorkRest
<1>12. /\ cond' = Tail(cond)
       /\ UNCHANGED <<status, running, ready_list, all_list, idle_thread, intr, value, waiters, holder, tid, next_tid>>
  BY DEF CondPop, sched
<1>13. \A u \in Thd : todo'[u] = IF u = running THEN z ELSE todo[u]  BY <1>11 DEF Becomes
<1>14. Apart(q) /\ Apart(z) /\ Quiet(z) /\ Known(z) /\ Head(z).op = "up" /\ Head(z).arg = h
  <2>1. Apart(U2) /\ Apart(z) /\ Quiet(z)  BY <1>7, <1>9, MonitorMentions
  <2>2. Apart(q)  BY <1>3, <1>8, <2>1 DEF Known, MakesKnown, Apart
  <2>3. Known(z)  BY <1>7, <1>9, MonitorKnown
  <2>4. Head(z).op = "up" /\ Head(z).arg = h
    <3>1. Shape(z, "up", h, U2) \/ Shape(z, "up", h, B1)  BY <1>7, <1>9, MonitorShapes
    <3>2. QED  BY <3>1 DEF Shape
  <2>5. QED  BY <2>1, <2>2, <2>3, <2>4
<1>15. \A p, b : (Begins(q, p, b) => p = o) /\ (Begins(z, p, b) <=> p = "up" /\ b = h)
  BY <1>3, <1>14, HeadOf
<1>16. MakeSame  BY <1>2, <1>13, <1>14, <1>15 DEF MakeSame, Apart
<1>17. NameSame  BY <1>2, <1>13, <1>14, <1>15 DEF NameSame, Apart, Unnamed
<1>18. LockSame
  <2>1. h \notin Lock  BY <1>7, Names DEF Lock
  <2>2. \A l \in Lock : (Holds(q, l) <=> l = "lock") /\ ~Takes(q, l)  BY <1>3, HeadOf
  <2>3. \A l \in Lock : (Holds(z, l) <=> l = "lock") /\ ~Takes(z, l)  BY <1>7, <1>14, <2>1, HeadOf
  <2>4. QED  BY <1>2, <1>13, <2>2, <2>3 DEF LockSame, Has
<1>19. KTypes'  BY <1>3, <1>7, <1>12 DEF KTypes
<1>20. Rests' /\ Queue' /\ Waiting' /\ Asleep' /\ Absent' /\ Made'  BY <1>5, <1>11, <1>12, <1>16, StillMove
<1>21. Starting'
  <2>1. status[IdleThread] \in {"running", "ready", "blocked"}  BY <1>5 DEF KInv, Starting
  <2>2. QED  BY <1>4, <1>5, <1>11, <1>12, <2>1, StartedStay
<1>22. Locked' /\ Tids'  BY <1>12, <1>17, <1>18, LockedStay, TidsStay DEF KInv
<1>23. Enough'
  <2>1. \A s : Coming(s) \subseteq Coming(s)'
    <3>1. \A s : ~Downs(running, s)  BY <1>2, <1>3, NotDown
    <3>2. QED  BY <1>11, <1>12, <3>1, ComingStay
  <2>2. \A s \in Semaphore : value[s] \in Nat  BY <1>3 DEF KTypes
  <2>3. QED  BY <1>3, <1>12, <2>1, <2>2, EnoughStay DEF KInv
<1>24. Signals'
  <2>1. ~InWait(q)  BY <1>3, HeadOf
  <2>2. ~InWait(z)  BY <1>14 DEF InWait, Quiet
  <2>3. InWait(todo[h]) /\ value[h] = 0 /\ h # running /\ \A u \in Thd : ~Begins(todo[u], "up", h)
    BY <1>2, <1>7, <2>1 DEF KInv, Signals
  <2>4. \A t \in Thd : InWait(todo'[t]) <=> InWait(todo[t])  BY <1>2, <1>13, <2>1, <2>2
  <2>5. \A t, u \in Thd : Begins(todo'[u], "up", t) <=> Begins(todo[u], "up", t) \/ (u = running /\ t = h)
    BY <1>1, <1>2, <1>13, <1>15
  <2>6. \A t \in ToSet(cond') : InWait(todo'[t]) /\ value'[t] = 0 /\ \A u \in Thd : ~Begins(todo'[u], "up", t)
    <3>1. SUFFICES ASSUME NEW t \in ToSet(cond), t # h
                   PROVE  InWait(todo'[t]) /\ value'[t] = 0 /\ \A u \in Thd : ~Begins(todo'[u], "up", t)
      BY <1>7, <1>12
    <3>2. t \in Thd  BY <1>7
    <3>3. InWait(todo[t]) /\ value[t] = 0 /\ \A u \in Thd : ~Begins(todo[u], "up", t)  BY DEF KInv, Signals
    <3>4. QED  BY <1>12, <2>4, <2>5, <3>1, <3>2, <3>3
  <2>7. \A t, u \in Thd : Begins(todo'[u], "up", t) =>
         InWait(todo'[t]) /\ value'[t] = 0 /\ \A v \in Thd : Begins(todo'[v], "up", t) => v = u
    <3>1. SUFFICES ASSUME NEW t \in Thd, NEW u \in Thd, Begins(todo'[u], "up", t)
                   PROVE  InWait(todo'[t]) /\ value'[t] = 0 /\ \A v \in Thd : Begins(todo'[v], "up", t) => v = u
      OBVIOUS
    <3>2. CASE t = h  BY <1>7, <1>12, <2>3, <2>4, <2>5, <3>1, <3>2
    <3>3. CASE t # h
      <4>1. Begins(todo[u], "up", t)  BY <2>5, <3>1, <3>3
      <4>2. InWait(todo[t]) /\ value[t] = 0 /\ \A v \in Thd : Begins(todo[v], "up", t) => v = u
        BY <4>1 DEF KInv, Signals
      <4>3. QED  BY <1>12, <2>4, <2>5, <3>3, <4>2
    <3>4. QED  BY <3>2, <3>3
  <2>8. \A t \in Thd : InWait(todo'[t]) =>
         t \in ToSet(cond') \/ value'[t] > 0 \/ \E u \in Thd : Begins(todo'[u], "up", t)
    <3>1. SUFFICES ASSUME NEW t \in Thd, InWait(todo'[t])
                   PROVE  t \in ToSet(cond') \/ value'[t] > 0 \/ \E u \in Thd : Begins(todo'[u], "up", t)
      OBVIOUS
    <3>2. t \in ToSet(cond) \/ value[t] > 0 \/ \E u \in Thd : Begins(todo[u], "up", t)
      BY <2>4, <3>1 DEF KInv, Signals
    <3>3. QED  BY <1>3, <1>7, <1>12, <2>5, <3>2
  <2>9. QED  BY <1>7, <1>12, <2>6, <2>7, <2>8 DEF Signals
<1>25. QED  BY <1>19, <1>20, <1>21, <1>22, <1>23, <1>24 DEF KInv

\* cond_signal and cond_broadcast with nobody waiting.
LEMMA CondNoneStep ==
    ASSUME KInv, CondPop, cond = <<>>
    PROVE  KInv'
<1>1. PICK o \in {"signal", "broadcast"} : Step(o)  BY DEF CondPop
<1>2. Done /\ UNCHANGED <<status, running, ready_list, all_list, idle_thread, intr, value, waiters, holder, cond, tid,
                          next_tid>>
  BY DEF CondPop, sched
<1>3. QED  BY <1>1, <1>2, AdvanceStep

\* Taking a semaphore that can be had.
LEMMA TakeEnough ==
    ASSUME KInv, NEW s \in Semaphore, value[s] > 0, value' = [value EXCEPT ![s] = @ - 1],
           NEW z, Becomes(running, z), \A r : Downs(running, r) => r = s, UNCHANGED <<status, waiters>>
    PROVE  Enough' /\ value' \in [Semaphore -> Nat] /\ \A r \in Semaphore : r # s => value'[r] = value[r]
<1>1. value \in [Semaphore -> Nat] /\ running \in Thd  BY DEF KInv, KTypes
<1>2. value[s] \in Nat  BY <1>1
<1>3. value[s] - 1 \in Nat  BY <1>2
<1>4. value' \in [Semaphore -> Nat] /\ value'[s] = value[s] - 1 /\ \A r \in Semaphore : r # s => value'[r] = value[r]
  BY <1>1, <1>3
<1>5. \A t \in Thd : t # running => todo'[t] = todo[t]  BY DEF Becomes
<1>6. \A r : Coming(r) \ {running} \subseteq Coming(r)'  BY <1>5 DEF Coming, Downs
<1>7. ASSUME NEW r \in Semaphore, waiters'[r] # <<>> PROVE Cardinality(Coming(r)') >= value'[r]
  <2>0. Coming(r)' \subseteq Thd  BY DEF Coming
  <2>1. IsFiniteSet(Coming(r)') /\ Cardinality(Coming(r)') \in Nat  BY <2>0, FiniteThreads, FS_Subset, FS_CardinalityType
  <2>2. Cardinality(Coming(r)) >= value[r]  BY <1>7 DEF KInv, Enough
  <2>3. IsFiniteSet(Coming(r)) /\ Cardinality(Coming(r)) \in Nat  BY FiniteThreads
  <2>4. CASE r # s
    <3>1. running \notin Coming(r)  BY <2>4 DEF Coming
    <3>2. Coming(r) \subseteq Coming(r)'  BY <1>6, <3>1
    <3>3. Cardinality(Coming(r)) <= Cardinality(Coming(r)')  BY <2>1, <3>2, FS_Subset
    <3>4. value[r] \in Nat /\ value'[r] = value[r]  BY <1>1, <1>4, <2>4
    <3>5. QED  BY <2>1, <2>2, <2>3, <3>3, <3>4
  <2>5. CASE r = s
    <3>1. PICK c : c = Coming(r) \ {running}  OBVIOUS
    <3>2. Cardinality(c) \in Nat /\ Cardinality(c) >= Cardinality(Coming(r)) - 1
      <4>1. CASE running \in Coming(r)
        <5>1. Cardinality(c) = Cardinality(Coming(r)) - 1 /\ IsFiniteSet(c)  BY <2>3, <3>1, <4>1, FS_RemoveElement
        <5>2. Cardinality(c) \in Nat  BY <5>1, FS_CardinalityType
        <5>3. QED  BY <2>3, <5>1, <5>2
      <4>2. CASE running \notin Coming(r)
        <5>1. c = Coming(r)  BY <3>1, <4>2
        <5>2. QED  BY <2>3, <5>1
      <4>3. QED  BY <4>1, <4>2
    <3>3. c \subseteq Coming(r)'  BY <1>6, <3>1
    <3>4. Cardinality(c) <= Cardinality(Coming(r)')  BY <2>1, <3>3, FS_Subset
    <3>5. value[r] \in Nat /\ value'[r] = value[r] - 1  BY <1>1, <1>4, <2>5
    <3>6. QED  BY <2>1, <2>2, <2>3, <3>2, <3>4, <3>5
  <2>6. QED  BY <2>4, <2>5
<1>8. QED  BY <1>4, <1>7 DEF Enough

\* Taking the semaphore of a lock.
LEMMA TakeLock ==
    ASSUME KInv, NEW s \in Lock, value[s] > 0, value' = [value EXCEPT ![s] = @ - 1], UNCHANGED holder,
           NEW z, Becomes(running, z), Begins(z, "own", s), \A l \in Lock : ~Has(todo[running], l)
    PROVE  Locked'
<1>1. value \in [Semaphore -> Nat] /\ running \in Thd /\ Lock \subseteq Semaphore  BY DEF KInv, KTypes, Semaphore
<1>2. \A u \in Thd : todo'[u] = IF u = running THEN z ELSE todo[u]  BY DEF Becomes
<1>3. \A l \in Lock : ~Holds(z, l) /\ (Has(z, l) <=> l = s)  BY BeginsFacts DEF Has
<1>4. ASSUME NEW l \in Lock
      PROVE  /\ \A t \in Thd : holder'[l] = t <=> Holds(todo'[t], l)
             /\ \/ value'[l] = 1 /\ \A t \in Thd : ~Has(todo'[t], l)
                \/ value'[l] = 0 /\ \E t \in Thd : \A u \in Thd : Has(todo'[u], l) <=> u = t
  <2>1. /\ \A t \in Thd : holder[l] = t <=> Holds(todo[t], l)
        /\ \/ value[l] = 1 /\ \A t \in Thd : ~Has(todo[t], l)
           \/ value[l] = 0 /\ \E t \in Thd : \A u \in Thd : Has(todo[u], l) <=> u = t
    BY DEF KInv, Locked
  <2>2. ~Holds(todo[running], l) /\ ~Holds(z, l)  BY <1>3 DEF Has
  <2>3. \A t \in Thd : holder'[l] = t <=> Holds(todo'[t], l)  BY <1>2, <2>1, <2>2
  <2>4. CASE l # s
    <3>1. value'[l] = value[l]  BY <1>1, <2>4
    <3>2. ~Has(z, l) /\ ~Has(todo[running], l)  BY <1>3, <2>4
    <3>3. \A u \in Thd : Has(todo'[u], l) <=> Has(todo[u], l)  BY <1>2, <3>2
    <3>4. QED  BY <2>1, <2>3, <3>1, <3>3
  <2>5. CASE l = s
    <3>1. value[l] = 1 /\ \A t \in Thd : ~Has(todo[t], l)  BY <2>1, <2>5
    <3>2. value'[l] = 0  BY <1>1, <2>5, <3>1
    <3>3. \A u \in Thd : Has(todo'[u], l) <=> u = running  BY <1>2, <1>3, <2>5, <3>1
    <3>4. QED  BY <1>1, <2>3, <3>2, <3>3
  <2>6. QED  BY <2>4, <2>5
<1>5. QED  BY <1>4 DEF Locked

\* lock_try_acquire.
LEMMA TryAcquireStep ==
    ASSUME KInv, TryAcquire
    PROVE  KInv'
<1>1. Step("try")  BY DEF TryAcquire
<1>2. PICK q, a : q = todo[running] /\ a = Head(q).arg  OBVIOUS
<1>3. /\ running \in Thd /\ q # <<>> /\ Known(q) /\ Head(q).op = "try" /\ Now = Head(q)
      /\ Rests /\ KTypes /\ \A z : Then(z) => Becomes(running, z)
  BY <1>1, <1>2, AtStep
<1>4. a = "lock" /\ Tail(q) = <<>>  BY <1>2, <1>3 DEF Known, LocksKnown
<1>5. CASE ~(value[a] > 0)
  <2>1. /\ UNCHANGED <<status, running, ready_list, all_list, idle_thread, intr, value, waiters, holder, cond, tid, next_tid>>
        /\ Done
    BY <1>2, <1>3, <1>5 DEF TryAcquire, sched
  <2>2. QED  BY <1>1, <2>1, AdvanceStep
<1>6. CASE value[a] > 0
  <2>1. /\ value' = [value EXCEPT ![a] = @ - 1]
        /\ UNCHANGED <<status, running, ready_list, all_list, idle_thread, intr, waiters, holder, cond, tid, next_tid>>
        /\ Then(Do("own", a) \o lock_release(a))
    BY <1>2, <1>3, <1>6 DEF TryAcquire, sched
  <2>2. Becomes(running, U3)  BY <1>3, <1>4, <2>1, MonitorCalls
  <2>3. running # IdleThread
    <3>1. SUFFICES ASSUME running = IdleThread PROVE FALSE  OBVIOUS
    <3>2. q \in {I1, I2, I3, Halted}  BY <1>2, <1>3, <3>1 DEF Rests, IdleRest
    <3>3. QED  BY <1>3, <3>2, IdleRests
  <2>4. U3 \in WorkRest  BY DEF WorkRest, MonitorRest
  <2>5. idle_thread = IdleThread /\ Allowed(running, U3)  BY <1>2, <1>3, <2>3, <2>4, Started
  <2>6. Begins(U3, "own", "lock") /\ ~InWait(U3) /\ \A p, b : Begins(U3, p, b) <=> p = "own" /\ b = "lock"
    <3>1. Known(U3) /\ Head(U3).op = "own" /\ Head(U3).arg = "lock"  BY MonitorKnown, MonitorShapes DEF Shape
    <3>2. QED  BY <3>1, HeadOf
  <2>7. ~InWait(q) /\ (\A l \in Lock : ~Has(q, l)) /\ \A p, b : Begins(q, p, b) => p = "try"
    BY <1>3, HeadOf DEF Has
  <2>8. Apart(U3) /\ Apart(q)
    <3>1. Apart(<<>>)  BY EmptyFacts
    <3>2. QED  BY <1>3, <1>4, <3>1, MonitorMentions DEF Known, MakesKnown, Apart
  <2>9. \A u \in Thd : todo'[u] = IF u = running THEN U3 ELSE todo[u]  BY <2>2 DEF Becomes
  <2>10. MakeSame  BY <1>2, <2>6, <2>7, <2>8, <2>9 DEF MakeSame, Apart
  <2>11. NameSame  BY <1>2, <2>6, <2>7, <2>8, <2>9 DEF NameSame, Apart, Unnamed
  <2>12. SignalSame  BY <1>2, <2>6, <2>7, <2>9 DEF SignalSame
  <2>13. Rests' /\ Queue' /\ Waiting' /\ Asleep' /\ Absent' /\ Made'  BY <2>1, <2>2, <2>5, <2>10, StillMove
  <2>14. Starting'
    <3>1. status[IdleThread] \in {"running", "ready", "blocked"}  BY <2>5 DEF KInv, Starting
    <3>2. QED  BY <2>1, <2>2, <2>3, <2>5, <3>1, StartedStay
  <2>15. "lock" \in Lock /\ "lock" \in Semaphore /\ "lock" \notin Thd /\ Thd \subseteq Semaphore  BY Names
  <2>16. Locked'  BY <1>2, <1>4, <1>6, <2>1, <2>2, <2>6, <2>7, <2>15, TakeLock
  <2>17. Enough' /\ value' \in [Semaphore -> Nat] /\ \A r \in Semaphore : r # a => value'[r] = value[r]
    <3>1. \A r : ~Downs(running, r)  BY <1>2, <1>3, NotDown
    <3>2. QED  BY <1>4, <1>6, <2>1, <2>2, <2>15, <3>1, TakeEnough
  <2>18. KTypes'  BY <1>3, <2>1, <2>17 DEF KTypes
  <2>19. Signals'
    <3>1. \A t \in Thd : value'[t] = value[t]  BY <1>4, <2>15, <2>17
    <3>2. QED  BY <1>3, <2>1, <2>12, <3>1, SignalsStay DEF KInv, KTypes
  <2>20. Tids'  BY <2>1, <2>11, TidsStay DEF KInv
  <2>21. QED  BY <2>13, <2>14, <2>16, <2>17, <2>18, <2>19, <2>20 DEF KInv
<1>7. QED  BY <1>5, <1>6

\* sema_down of a semaphore that can be had.
LEMMA SemaTakeStep ==
    ASSUME KInv, SemaDown, NEW s, s = (IF Now.op = "down_own" THEN running ELSE Now.arg), value[s] > 0
    PROVE  KInv'
<1>1. PICK o \in {"down", "down_own"} : Step(o)  BY DEF SemaDown
<1>2. PICK q, z : q = todo[running] /\ z = Tail(q)  OBVIOUS
<1>3. /\ running \in Thd /\ q # <<>> /\ Known(q) /\ Head(q).op = o /\ Now = Head(q)
      /\ Rests /\ KTypes /\ (Done => Becomes(running, z))
  BY <1>1, <1>2, AtStep
<1>4. /\ value' = [value EXCEPT ![s] = @ - 1] /\ Done
      /\ UNCHANGED <<status, running, ready_list, all_list, idle_thread, intr, waiters, holder, cond, tid, next_tid>>
  BY DEF SemaDown, sched
<1>5. Becomes(running, z)  BY <1>3, <1>4
<1>6. /\ o = "down" => s = Head(q).arg /\ s \in Lock \cup {"sema", "idle_started"}
      /\ o = "down_own" => s = running
      /\ s \in Semaphore /\ \A r : Downs(running, r) => r = s
  <2>1. Downs(running, s)
    <3>1. CASE o = "down"
      <4>1. Begins(q, "down", s)  BY <1>3, <3>1, HeadOf
      <4>2. QED  BY <1>2, <4>1 DEF Downs
    <3>2. CASE o = "down_own"
      <4>1. running # IdleThread
        <5>1. SUFFICES ASSUME running = IdleThread PROVE FALSE  OBVIOUS
        <5>2. q \in {I1, I2, I3, Halted}  BY <1>2, <1>3, <5>1 DEF Rests, IdleRest
        <5>3. QED  BY <1>3, <3>2, <5>2, IdleRests
      <4>2. q \in WorkRest  BY <1>2, <1>3, <3>2, <4>1, Started
      <4>3. q = W1  BY <1>3, <3>2, <4>2, MonitorOnly
      <4>4. Begins(q, "down_own", NoThd)  BY <4>3, MonitorShapes DEF Shape, Begins
      <4>5. QED  BY <1>2, <1>3, <3>2, <4>4 DEF Downs
    <3>3. QED  BY <1>1, <3>1, <3>2
  <2>2. QED  BY <1>1, <1>2, <1>3, <2>1, DownsOne
<1>7. Enough' /\ value' \in [Semaphore -> Nat] /\ \A r \in Semaphore : r # s => value'[r] = value[r]
  BY <1>4, <1>5, <1>6, TakeEnough
<1>8. KTypes'  BY <1>3, <1>4, <1>7 DEF KTypes
<1>9. Rests' /\ Queue' /\ Waiting' /\ Asleep' /\ Absent' /\ Made'  BY <1>2, <1>3, <1>4, <1>5, StillStep
<1>10. NameSame  BY <1>2, <1>3, <1>5, AdvanceSame
<1>11. Tids'  BY <1>4, <1>10, TidsStay DEF KInv
<1>12. Starting'
  <2>1. value'["idle_started"] = value["idle_started"] \/ (o = "down" /\ s = "idle_started")
    BY <1>3, <1>6, <1>7, Names
  <2>2. QED  BY <1>2, <1>3, <1>4, <1>5, <1>6, <2>1, StartingStay
<1>13. Locked'
  <2>1. CASE o = "down" /\ s \in Lock
    <3>1. Begins(z, "own", s)  BY <1>2, <1>3, <1>6, <2>1 DEF Known, LocksKnown
    <3>2. \A l \in Lock : ~Has(q, l)  BY <1>3, <2>1, HeadOf DEF Has
    <3>3. QED  BY <1>2, <1>4, <1>5, <2>1, <3>1, <3>2, TakeLock
  <2>2. CASE ~(o = "down" /\ s \in Lock)
    <3>1. s \notin Lock  BY <1>1, <1>3, <1>6, <2>2, Names DEF Lock
    <3>2. LockSame  BY <1>1, <1>2, <1>3, <1>5, <1>6, <2>2, AdvanceSame
    <3>3. \A l \in Lock : value'[l] = value[l]  BY <1>7, <3>1 DEF Semaphore
    <3>4. QED  BY <1>4, <3>2, <3>3, LockedStay DEF KInv
  <2>3. QED  BY <2>1, <2>2
<1>14. Signals'
  <2>1. CASE o = "down"
    <3>1. SignalSame  BY <1>2, <1>3, <1>5, <2>1, AdvanceSame
    <3>2. s \notin Thd /\ Thd \subseteq Semaphore  BY <1>6, <2>1, Names DEF Lock
    <3>3. \A t \in Thd : value'[t] = value[t]  BY <1>7, <3>2
    <3>4. QED  BY <1>3, <1>4, <3>1, <3>3, SignalsStay DEF KInv, KTypes
  <2>2. CASE o = "down_own"
    <3>0. s = running  BY <1>6, <2>2
    <3>1. \A u \in Thd : todo'[u] = IF u = running THEN z ELSE todo[u]  BY <1>5 DEF Becomes
    <3>2. InWait(q) /\ ~InWait(z) /\ \A t \in Thd : ~Begins(z, "up", t)
      BY <1>2, <1>3, <2>2 DEF Known, WaitsKnown
    <3>3. \A t : ~Begins(q, "up", t)  BY <1>3, <2>2, HeadOf
    <3>4. cond \in Seq(Thd) /\ ToSet(cond) \subseteq Thd  BY <1>3, SeqElements DEF KTypes
    <3>5. value[running] # 0  BY <3>0
    <3>6. running \notin ToSet(cond) /\ \A u \in Thd : ~Begins(todo[u], "up", running)
      BY <1>3, <3>5 DEF KInv, Signals
    <3>7. \A t \in Thd : t # running => value'[t] = value[t] /\ todo'[t] = todo[t]
      BY <1>7, <3>0, <3>1, Names
    <3>8. \A t, u \in Thd : Begins(todo'[u], "up", t) <=> Begins(todo[u], "up", t)  BY <1>2, <3>1, <3>2, <3>3
    <3>9. \A t \in ToSet(cond) : InWait(todo'[t]) /\ value'[t] = 0 /\ \A u \in Thd : ~Begins(todo'[u], "up", t)
      <4>1. SUFFICES ASSUME NEW t \in ToSet(cond)
                     PROVE  InWait(todo'[t]) /\ value'[t] = 0 /\ \A u \in Thd : ~Begins(todo'[u], "up", t)
        OBVIOUS
      <4>2. t \in Thd /\ t # running  BY <3>4, <3>6
      <4>3. InWait(todo[t]) /\ value[t] = 0 /\ \A u \in Thd : ~Begins(todo[u], "up", t)  BY DEF KInv, Signals
      <4>4. QED  BY <3>7, <3>8, <4>2, <4>3
    <3>10. \A t, u \in Thd : Begins(todo'[u], "up", t) =>
             InWait(todo'[t]) /\ value'[t] = 0 /\ \A v \in Thd : Begins(todo'[v], "up", t) => v = u
      <4>1. SUFFICES ASSUME NEW t \in Thd, NEW u \in Thd, Begins(todo[u], "up", t)
                     PROVE  InWait(todo'[t]) /\ value'[t] = 0 /\ \A v \in Thd : Begins(todo'[v], "up", t) => v = u
        BY <3>8
      <4>2. t # running  BY <3>6, <4>1
      <4>3. InWait(todo[t]) /\ value[t] = 0 /\ \A v \in Thd : Begins(todo[v], "up", t) => v = u
        BY <4>1 DEF KInv, Signals
      <4>4. QED  BY <3>7, <3>8, <4>2, <4>3
    <3>11. \A t \in Thd : InWait(todo'[t]) =>
             t \in ToSet(cond) \/ value'[t] > 0 \/ \E u \in Thd : Begins(todo'[u], "up", t)
      <4>1. SUFFICES ASSUME NEW t \in Thd, InWait(todo'[t])
                     PROVE  t \in ToSet(cond) \/ value'[t] > 0 \/ \E u \in Thd : Begins(todo'[u], "up", t)
        OBVIOUS
      <4>2. t # running  BY <3>1, <3>2, <4>1
      <4>3. t \in ToSet(cond) \/ value[t] > 0 \/ \E u \in Thd : Begins(todo[u], "up", t)
        BY <3>7, <4>1, <4>2 DEF KInv, Signals
      <4>4. QED  BY <3>7, <3>8, <4>2, <4>3
    <3>12. QED  BY <1>4, <3>9, <3>10, <3>11 DEF Signals, KInv
  <2>3. QED  BY <1>1, <2>1, <2>2
<1>15. QED  BY <1>7, <1>8, <1>9, <1>11, <1>12, <1>13, <1>14 DEF KInv

\* sema_up of s, by the running thread or by a device's interrupt handler.
LEMMA WakeStep ==
    ASSUME KInv, NEW s \in Semaphore, NEW z, Becomes(running, z), Allowed(running, z), MakeSame,
           \A r : Downs(running, r) => Downs(running, r)',
           status' = Woken(s).st, ready_list' = Woken(s).list, waiters' = Woken(s).wait,
           value' = [value EXCEPT ![s] = @ + 1],
           UNCHANGED <<running, all_list, idle_thread, cond, holder, tid, next_tid>>
    PROVE  /\ KTypes' /\ Rests' /\ Queue' /\ Waiting' /\ Asleep' /\ Absent' /\ Made' /\ Enough'
           /\ \A t \in Thd : status'[t] = status[t] \/ (status[t] = "blocked" /\ status'[t] = "ready")
           /\ \A r \in Semaphore : value'[r] = IF r = s THEN value[s] + 1 ELSE value[r]
<1>0. running \in Thd /\ Rests /\ KTypes /\ Queue /\ Waiting /\ Asleep /\ Absent /\ Made /\ Enough
  BY DEF KInv, KTypes
<1>1. /\ \A r \in Semaphore : value'[r] = (IF r = s THEN value[s] + 1 ELSE value[r]) /\ value[r] \in Nat
      /\ value' \in [Semaphore -> Nat]
  BY <1>0 DEF KTypes
<1>2. Rests'  BY <1>0, RestsBecome
<1>3. \A t \in Thd : t # running => todo'[t] = todo[t]  BY DEF Becomes
<1>4. CASE waiters[s] = <<>>
  <2>1. UNCHANGED <<status, ready_list, waiters>>  BY <1>4 DEF Woken
  <2>2. Queue' /\ Waiting' /\ Asleep' /\ Absent' /\ Made'  BY <2>1, StillMove
  <2>3. Enough'
    <3>1. \A r : Coming(r) \subseteq Coming(r)'  BY <1>3, <2>1 DEF Coming, Downs
    <3>2. \A r \in Semaphore : waiters'[r] # <<>> => waiters[r] # <<>> /\ value'[r] <= value[r] /\ value'[r] \in Nat
      BY <1>1, <1>4, <2>1
    <3>3. QED  BY <1>0, <3>1, <3>2, EnoughStay
  <2>4. KTypes'  BY <1>0, <1>1, <2>1 DEF KTypes
  <2>5. QED  BY <1>1, <1>2, <2>1, <2>2, <2>3, <2>4
<1>5. CASE waiters[s] # <<>>
  <2>1. PICK h : h = Head(waiters[s])  OBVIOUS
  <2>2. /\ status' = [status EXCEPT ![h] = "ready"] /\ ready_list' = Append(ready_list, h)
        /\ waiters' = [waiters EXCEPT ![s] = Tail(@)]
    BY <1>5, <2>1 DEF Woken
  <2>3. waiters[s] \in Seq(Thd) /\ IsInjective(waiters[s])  BY <1>0 DEF KTypes, Waiting
  <2>4. /\ h \in Thd /\ h \in ToSet(waiters[s]) /\ Tail(waiters[s]) \in Seq(Thd) /\ IsInjective(Tail(waiters[s]))
        /\ ToSet(Tail(waiters[s])) = ToSet(waiters[s]) \ {h}
    BY <1>5, <2>1, <2>3, TailElements
  <2>5. status[h] = "blocked" /\ Downs(h, s)  BY <1>0, <2>4 DEF Waiting
  <2>6. h # running /\ h # IdleThread /\ \A r : Downs(h, r) => r = s  BY <1>0, <2>4, <2>5, DownsOne DEF Queue
  <2>7. h # idle_thread  BY <1>0, <2>4, <2>6, Names DEF KTypes
  <2>8. \A t \in Thd : ~Making(todo[t], h)  BY <2>4, <2>5, MadeIdle
  <2>9. \A t \in Thd : status'[t] = IF t = h THEN "ready" ELSE status[t]  BY <1>0, <2>2 DEF KTypes
  <2>10. \A r \in Semaphore : waiters'[r] = IF r = s THEN Tail(waiters[s]) ELSE waiters[r]  BY <1>0, <2>2 DEF KTypes
  <2>11. ready_list \in Seq(Thd) /\ IsInjective(ready_list) /\ h \notin ToSet(ready_list)
    BY <1>0, <2>4, <2>5 DEF KTypes, Queue
  <2>12. /\ ready_list' \in Seq(Thd) /\ IsInjective(ready_list') /\ ToSet(ready_list') = ToSet(ready_list) \cup {h}
    BY <2>2, <2>4, <2>11, AppendElements
  <2>13. Queue'
    <3>1. \A t \in Thd : status'[t] = "running" <=> t = running'  BY <1>0, <2>6, <2>9 DEF Queue
    <3>2. \A t \in Thd : t \in ToSet(ready_list') <=> status'[t] = "ready" /\ t # idle_thread'
      BY <1>0, <2>7, <2>9, <2>12 DEF Queue
    <3>3. QED  BY <2>12, <3>1, <3>2 DEF Queue
  <2>14. \A r \in Semaphore : \A t \in ToSet(waiters[r]) : t \in Thd /\ t # running /\ status[t] = "blocked" /\ Downs(t, r)
    <3>1. SUFFICES ASSUME NEW r \in Semaphore, NEW t \in ToSet(waiters[r])
                   PROVE  t \in Thd /\ t # running /\ status[t] = "blocked" /\ Downs(t, r)
      OBVIOUS
    <3>2. waiters[r] \in Seq(Thd)  BY <1>0 DEF KTypes
    <3>3. t \in Thd  BY <3>2, SeqElements
    <3>4. status[t] = "blocked" /\ Downs(t, r)  BY <1>0 DEF Waiting
    <3>5. QED  BY <1>0, <3>3, <3>4 DEF Queue
  <2>15. \A r \in Semaphore : ToSet(waiters'[r]) = ToSet(waiters[r]) \ {h}
    <3>1. SUFFICES ASSUME NEW r \in Semaphore PROVE ToSet(waiters'[r]) = ToSet(waiters[r]) \ {h}  OBVIOUS
    <3>2. CASE r = s  BY <2>4, <2>10, <3>2
    <3>3. CASE r # s
      <4>1. h \notin ToSet(waiters[r])  BY <2>6, <2>14, <3>3
      <4>2. QED  BY <2>10, <3>3, <4>1
    <3>4. QED  BY <3>2, <3>3
  <2>16. Waiting'
    <3>1. SUFFICES ASSUME NEW r \in Semaphore
                   PROVE  IsInjective(waiters'[r])
                          /\ \A t \in ToSet(waiters'[r]) : status'[t] = "blocked" /\ Downs(t, r)'
      BY DEF Waiting
    <3>2. IsInjective(waiters'[r])  BY <1>0, <2>4, <2>10 DEF Waiting
    <3>3. ASSUME NEW t \in ToSet(waiters'[r]) PROVE status'[t] = "blocked" /\ Downs(t, r)'
      <4>1. t \in ToSet(waiters[r]) /\ t # h  BY <2>15
      <4>2. t \in Thd /\ t # running /\ status[t] = "blocked" /\ Downs(t, r)  BY <2>14, <4>1
      <4>3. todo'[t] = todo[t]  BY <1>3, <4>2
      <4>4. QED  BY <2>9, <4>1, <4>2, <4>3 DEF Downs
    <3>4. QED  BY <3>2, <3>3
  <2>17. Asleep'
    <3>1. SUFFICES ASSUME NEW t \in Thd, status'[t] = "blocked"
                   PROVE  \/ t = idle_thread' \/ \E r \in Semaphore : t \in ToSet(waiters'[r])
                          \/ \E u \in Thd : Making(todo'[u], t)
      BY DEF Asleep
    <3>2. t # h /\ status[t] = "blocked"  BY <2>9, <3>1
    <3>3. \/ t = idle_thread \/ \E r \in Semaphore : t \in ToSet(waiters[r])
          \/ \E u \in Thd : Making(todo[u], t)
      BY <1>0, <3>2 DEF Asleep
    <3>4. QED  BY <2>15, <3>2, <3>3 DEF MakeSame
  <2>18. Absent'
    <3>1. \A t \in Thd : (status'[t] \in {"free", "page", "dying"} => status'[t] = status[t])
                         /\ (status[t] \in {"free", "page", "dying"} => status'[t] = status[t])
      BY <2>5, <2>9
    <3>2. status[running] = "running"  BY <1>0 DEF Queue
    <3>3. \A t \in Thd : status'[t] \in {"free", "page", "dying"} => todo'[t] = <<>>
      BY <1>0, <1>3, <3>1, <3>2 DEF Absent
    <3>4. \A t \in Thd : status'[t] = "dying" => t = MainThread  BY <1>0, <3>1 DEF Absent
    <3>5. \A t \in Thd : t \in ToSet(all_list) <=> status'[t] \notin {"free", "page", "dying"}
      BY <1>0, <3>1 DEF Absent
    <3>6. QED  BY <1>0, <3>3, <3>4, <3>5 DEF Absent
  <2>19. Made'
    <3>1. ASSUME NEW u \in Thd, NEW t \in Thd, Making(todo[t], u) PROVE status'[u] = status[u] /\ todo'[u] = todo[u]
      <4>1. u # running /\ u # h  BY <2>8, <3>1, MadeIdle
      <4>2. QED  BY <1>3, <2>9, <4>1
    <3>2. QED  BY <1>0, <3>1, MadeStay
  <2>20. KTypes'
    <3>1. status' \in [Thd -> {"free", "page", "blocked", "ready", "running", "dying"}]  BY <1>0, <2>2 DEF KTypes
    <3>2. waiters' \in [Semaphore -> Seq(Thd)]  BY <1>0, <2>2, <2>4 DEF KTypes
    <3>3. QED  BY <1>0, <1>1, <2>12, <3>1, <3>2 DEF KTypes
  <2>21. Enough'
    <3>1. \A r : Coming(r) \subseteq Coming(r)'  BY <1>3, <2>5, <2>9 DEF Coming, Downs
    <3>2. SUFFICES ASSUME NEW r \in Semaphore, waiters'[r] # <<>> PROVE Cardinality(Coming(r)') >= value'[r]
      BY DEF Enough
    <3>3. Coming(r)' \subseteq Thd  BY DEF Coming
    <3>4. IsFiniteSet(Coming(r)') /\ Cardinality(Coming(r)') \in Nat
      BY <3>3, FiniteThreads, FS_Subset, FS_CardinalityType
    <3>5. IsFiniteSet(Coming(r)) /\ Cardinality(Coming(r)) \in Nat  BY FiniteThreads
    <3>6. waiters[r] # <<>>  BY <1>5, <2>10, <3>2
    <3>7. Cardinality(Coming(r)) >= value[r] /\ value[r] \in Nat  BY <1>0, <1>1, <3>6 DEF Enough
    <3>8. CASE r # s
      <4>1. Cardinality(Coming(r)) <= Cardinality(Coming(r)')  BY <3>1, <3>4, FS_Subset
      <4>2. value'[r] = value[r]  BY <1>1, <3>8
      <4>3. QED  BY <3>4, <3>5, <3>7, <4>1, <4>2
    <3>9. CASE r = s
      <4>1. h \notin Coming(r)  BY <2>5 DEF Coming
      <4>2. h \in Coming(r)'
        <5>1. todo'[h] = todo[h] /\ status'[h] = "ready"  BY <1>3, <2>4, <2>6, <2>9
        <5>2. QED  BY <2>4, <2>5, <3>9, <5>1 DEF Coming, Downs
      <4>3. PICK c : c = Coming(r) \cup {h}  OBVIOUS
      <4>4. c \subseteq Coming(r)'  BY <3>1, <4>2, <4>3
      <4>5. Cardinality(c) = Cardinality(Coming(r)) + 1  BY <3>5, <4>1, <4>3, FS_AddElement
      <4>6. Cardinality(c) <= Cardinality(Coming(r)')  BY <3>4, <4>4, FS_Subset
      <4>7. value'[r] = value[r] + 1  BY <1>1, <3>9
      <4>8. QED  BY <3>4, <3>5, <3>7, <4>5, <4>6, <4>7
    <3>10. QED  BY <3>8, <3>9
  <2>22. \A t \in Thd : status'[t] = status[t] \/ (status[t] = "blocked" /\ status'[t] = "ready")  BY <2>5, <2>9
  <2>23. QED  BY <1>1, <1>2, <2>13, <2>16, <2>17, <2>18, <2>19, <2>20, <2>21, <2>22
<1>6. QED  BY <1>4, <1>5

\* sema_up: the first waiter is made ready and the count goes up.
LEMMA SemaUpStep ==
    ASSUME KInv, SemaUp
    PROVE  KInv'
<1>1. Step("up")  BY DEF SemaUp
<1>2. PICK q, a, z : q = todo[running] /\ a = Head(q).arg /\ z = Tail(q)  OBVIOUS
<1>3. /\ running \in Thd /\ q # <<>> /\ Known(q) /\ Head(q).op = "up" /\ Now = Head(q)
      /\ Rests /\ KTypes /\ Becomes(running, z)
  BY <1>1, <1>2, AtStep DEF SemaUp
<1>4. /\ value' = [value EXCEPT ![a] = @ + 1]
      /\ status' = Woken(a).st /\ ready_list' = Woken(a).list /\ waiters' = Woken(a).wait
      /\ UNCHANGED <<running, all_list, idle_thread, intr, holder, cond, tid, next_tid>>
  BY <1>2, <1>3 DEF SemaUp
<1>5. a \in Semaphore  BY <1>2, <1>3 DEF Known, LocksKnown
<1>6. MakeSame /\ NameSame  BY <1>2, <1>3, AdvanceSame
<1>7. Allowed(running, z)  BY <1>2, <1>3, NextAllowed
<1>8. \A r : ~Downs(running, r)  BY <1>2, <1>3, NotDown
<1>9. /\ KTypes' /\ Rests' /\ Queue' /\ Waiting' /\ Asleep' /\ Absent' /\ Made' /\ Enough'
      /\ \A t \in Thd : status'[t] = status[t] \/ (status[t] = "blocked" /\ status'[t] = "ready")
      /\ \A r \in Semaphore : value'[r] = IF r = a THEN value[a] + 1 ELSE value[r]
  BY <1>3, <1>4, <1>5, <1>6, <1>7, <1>8, WakeStep
<1>10. Tids'  BY <1>4, <1>6, <1>9, TidsStay DEF KInv, Dead
<1>11. Starting'
  <2>1. value'["idle_started"] = value["idle_started"] \/ a = "idle_started"  BY <1>9, Names
  <2>2. QED  BY <1>2, <1>3, <1>4, <1>9, <2>1, StartingStay
<1>12. \A u \in Thd : todo'[u] = IF u = running THEN z ELSE todo[u]  BY <1>3 DEF Becomes
<1>13. Lock \subseteq Semaphore /\ Thd \subseteq Semaphore /\ Lock \cap Thd = {}  BY Names DEF Lock
<1>14. Locked'
  <2>1. CASE a \in Lock
    <3>1. \A l \in Lock : ~Has(z, l) /\ ~Holds(z, l)  BY <1>2, <1>3, <2>1 DEF Known, LocksKnown, Has
    <3>2. \A l \in Lock : (Has(q, l) <=> l = a) /\ ~Holds(q, l)  BY <1>2, <1>3, <1>13, <2>1, HeadOf DEF Has
    <3>3. SUFFICES ASSUME NEW l \in Lock
                   PROVE  /\ \A t \in Thd : holder'[l] = t <=> Holds(todo'[t], l)
                          /\ \/ value'[l] = 1 /\ \A t \in Thd : ~Has(todo'[t], l)
                             \/ value'[l] = 0 /\ \E t \in Thd : \A u \in Thd : Has(todo'[u], l) <=> u = t
      BY DEF Locked
    <3>4. /\ \A t \in Thd : holder[l] = t <=> Holds(todo[t], l)
          /\ \/ value[l] = 1 /\ \A t \in Thd : ~Has(todo[t], l)
             \/ value[l] = 0 /\ \E t \in Thd : \A u \in Thd : Has(todo[u], l) <=> u = t
      BY DEF KInv, Locked
    <3>5. \A t \in Thd : holder'[l] = t <=> Holds(todo'[t], l)  BY <1>2, <1>4, <1>12, <3>1, <3>2, <3>4
    <3>6. CASE l # a
      <4>1. value'[l] = value[l]  BY <1>9, <1>13, <3>6
      <4>2. \A u \in Thd : Has(todo'[u], l) <=> Has(todo[u], l)  BY <1>2, <1>12, <3>1, <3>2, <3>6
      <4>3. QED  BY <3>4, <3>5, <4>1, <4>2
    <3>7. CASE l = a
      <4>1. Has(todo[running], l)  BY <1>2, <3>2, <3>7
      <4>2. value[l] = 0 /\ \A u \in Thd : Has(todo[u], l) => u = running  BY <1>3, <3>4, <4>1
      <4>3. value'[l] = 1  BY <1>9, <1>5, <3>7, <4>2
      <4>4. \A t \in Thd : ~Has(todo'[t], l)  BY <1>12, <3>1, <4>2
      <4>5. QED  BY <3>5, <4>3, <4>4
    <3>8. QED  BY <3>6, <3>7
  <2>2. CASE a \notin Lock
    <3>1. LockSame  BY <1>2, <1>3, <2>2, AdvanceSame
    <3>2. \A l \in Lock : value'[l] = value[l]  BY <1>9, <1>13, <2>2
    <3>3. QED  BY <1>4, <3>1, <3>2, LockedStay DEF KInv
  <2>3. QED  BY <2>1, <2>2
<1>15. Signals'
  <2>1. CASE a \notin Thd
    <3>1. SignalSame  BY <1>2, <1>3, <2>1, AdvanceSame
    <3>2. \A t \in Thd : value'[t] = value[t]  BY <1>9, <1>13, <2>1
    <3>3. QED  BY <1>3, <1>4, <3>1, <3>2, SignalsStay DEF KInv, KTypes
  <2>2. CASE a \in Thd
    <3>1. (InWait(z) <=> InWait(q)) /\ \A t \in Thd : ~Begins(z, "up", t)
      BY <1>2, <1>3 DEF Known, WaitsKnown
    <3>2. \A t : Begins(q, "up", t) <=> t = a  BY <1>2, <1>3, HeadOf
    <3>3. cond \in Seq(Thd) /\ ToSet(cond) \subseteq Thd  BY <1>3, SeqElements DEF KTypes
    <3>4. value[a] = 0 /\ \A v \in Thd : Begins(todo[v], "up", a) => v = running
      BY <1>2, <1>3, <2>2, <3>2 DEF KInv, Signals
    <3>5. a \notin ToSet(cond)  BY <1>2, <1>3, <3>2 DEF KInv, Signals
    <3>6. \A t \in Thd : value'[t] = IF t = a THEN 1 ELSE value[t]  BY <1>9, <1>13, <3>4
    <3>7. \A t \in Thd : InWait(todo'[t]) <=> InWait(todo[t])  BY <1>2, <1>12, <3>1
    <3>8. \A t, u \in Thd : Begins(todo'[u], "up", t) <=> t # a /\ Begins(todo[u], "up", t)
      BY <1>2, <1>12, <3>1, <3>2, <3>4
    <3>9. \A t \in ToSet(cond) : InWait(todo'[t]) /\ value'[t] = 0 /\ \A u \in Thd : ~Begins(todo'[u], "up", t)
      <4>1. SUFFICES ASSUME NEW t \in ToSet(cond)
                     PROVE  InWait(todo'[t]) /\ value'[t] = 0 /\ \A u \in Thd : ~Begins(todo'[u], "up", t)
        OBVIOUS
      <4>2. t \in Thd /\ t # a  BY <3>3, <3>5
      <4>3. InWait(todo[t]) /\ value[t] = 0 /\ \A u \in Thd : ~Begins(todo[u], "up", t)  BY DEF KInv, Signals
      <4>4. QED  BY <3>6, <3>7, <3>8, <4>2, <4>3
    <3>10. \A t, u \in Thd : Begins(todo'[u], "up", t) =>
             InWait(todo'[t]) /\ value'[t] = 0 /\ \A v \in Thd : Begins(todo'[v], "up", t) => v = u
      <4>1. SUFFICES ASSUME NEW t \in Thd, NEW u \in Thd, t # a, Begins(todo[u], "up", t)
                     PROVE  InWait(todo'[t]) /\ value'[t] = 0 /\ \A v \in Thd : Begins(todo'[v], "up", t) => v = u
        BY <3>8
      <4>2. InWait(todo[t]) /\ value[t] = 0 /\ \A v \in Thd : Begins(todo[v], "up", t) => v = u
        BY <4>1 DEF KInv, Signals
      <4>3. QED  BY <3>6, <3>7, <3>8, <4>1, <4>2
    <3>11. \A t \in Thd : InWait(todo'[t]) =>
             t \in ToSet(cond) \/ value'[t] > 0 \/ \E u \in Thd : Begins(todo'[u], "up", t)
      <4>1. SUFFICES ASSUME NEW t \in Thd, InWait(todo'[t])
                     PROVE  t \in ToSet(cond) \/ value'[t] > 0 \/ \E u \in Thd : Begins(todo'[u], "up", t)
        OBVIOUS
      <4>2. t \in ToSet(cond) \/ value[t] > 0 \/ \E u \in Thd : Begins(todo[u], "up", t)
        BY <3>7, <4>1 DEF KInv, Signals
      <4>3. QED  BY <3>6, <3>8, <4>2
    <3>12. QED  BY <1>4, <3>9, <3>10, <3>11 DEF Signals, KInv
  <2>3. QED  BY <2>1, <2>2
<1>16. QED  BY <1>9, <1>10, <1>11, <1>14, <1>15 DEF KInv

\* An interrupt takes the idle thread out of hlt and leaves other rests alone.
LEMMA ResumedFacts ==
    ASSUME KInv, Then(Resumed(running))
    PROVE  /\ Becomes(running, Resumed(running)) /\ Allowed(running, Resumed(running))
           /\ LockSame /\ SignalSame /\ MakeSame /\ NameSame
           /\ \A t \in Thd : todo'[t] = todo[t] \/ (t = IdleThread /\ todo[t] = Halted /\ todo'[t] = I1)
           /\ \A r : \A t \in Thd : Downs(t, r)' <=> Downs(t, r)
<1>1. running \in Thd /\ Rests /\ KTypes  BY DEF KInv, KTypes
<1>2. PICK z : z = Resumed(running)  OBVIOUS
<1>3. Becomes(running, z)  BY <1>1, <1>2, ThenBecomes
<1>4. \A u \in Thd : todo'[u] = IF u = running THEN z ELSE todo[u]  BY <1>3 DEF Becomes
<1>5. CASE todo[running] = Halted
  <2>1. z = I1  BY <1>2, <1>5, OneCalls DEF Resumed
  <2>2. Halted # <<>> /\ Head(Halted).op = "hlt" /\ Head(I1).op = "block" /\ I1 # <<>>
    BY IdleRests DEF IdleRest
  <2>3. running = IdleThread
    <3>1. SUFFICES ASSUME running # IdleThread PROVE FALSE  OBVIOUS
    <3>2. \/ WorkHead(todo[running])
          \/ StartHead(todo[running])
      BY <1>1, <1>5, <2>2, <3>1, RestOf
    <3>3. QED  BY <1>5, <2>2, <3>2 DEF WorkHead, StartHead
  <2>4. LockSame /\ SignalSame /\ MakeSame /\ NameSame  BY <1>1, <1>3, <1>5, <2>1, SilentRests, SilentSame
  <2>5. Allowed(running, z)  BY <2>1, <2>3 DEF Allowed, IdleRest
  <2>6. \A o, a : ~Begins(I1, "down", a) /\ ~Begins(I1, "down_own", a) /\ ~Begins(Halted, "down", a)
                  /\ ~Begins(Halted, "down_own", a)
    <3>1. \A o, a : Act(o, a).op = o  BY DEF Act
    <3>2. QED  BY <2>2, <3>1 DEF Begins
  <2>7. \A r : \A t \in Thd : Downs(t, r)' <=> Downs(t, r)
    <3>1. SUFFICES ASSUME NEW r, NEW t \in Thd PROVE Downs(t, r)' <=> Downs(t, r)  OBVIOUS
    <3>2. CASE t = running  BY <1>4, <1>5, <2>1, <2>6, <3>2 DEF Downs
    <3>3. CASE t # running
      <4>1. todo'[t] = todo[t]  BY <1>4, <3>3
      <4>2. QED  BY <4>1 DEF Downs
    <3>4. QED  BY <3>2, <3>3
  <2>8. QED  BY <1>2, <1>3, <1>4, <1>5, <2>1, <2>3, <2>4, <2>5, <2>7
<1>6. CASE todo[running] # Halted
  <2>1. z = todo[running]  BY <1>2, <1>6, OneCalls DEF Resumed
  <2>2. \A u \in Thd : todo'[u] = todo[u]  BY <1>4, <2>1
  <2>3. LockSame /\ SignalSame /\ MakeSame /\ NameSame  BY <2>2 DEF LockSame, SignalSame, MakeSame, NameSame
  <2>4. Allowed(running, z)  BY <1>1, <2>1 DEF Allowed, Rests, Thd
  <2>5. \A r : \A t \in Thd : Downs(t, r)' <=> Downs(t, r)  BY <2>2 DEF Downs
  <2>6. QED  BY <1>2, <1>3, <2>2, <2>3, <2>4, <2>5
<1>7. QED  BY <1>5, <1>6

\* thread_start's part when no call but the idle thread's changes.
LEMMA StartingSame ==
    ASSUME KInv, UNCHANGED <<idle_thread, intr>>, value'["idle_started"] = value["idle_started"],
           \A t \in Thd : todo'[t] = todo[t] \/ (t = IdleThread /\ todo[t] = Halted /\ todo'[t] = I1),
           \A t \in Thd : \/ status'[t] = status[t]
                          \/ status[t] \in {"ready", "running", "blocked"} /\ status'[t] \in {"ready", "running"},
           running' = running \/ intr
    PROVE  Starting'
<1>0. idle_thread \in {NoThd, IdleThread} /\ NoThd # IdleThread /\ IdleThread \in Thd
      /\ MainThread \in Thd /\ MainThread # IdleThread /\ Worker \subseteq Thd
  BY Names DEF KInv, KTypes
<1>1. CASE idle_thread = IdleThread
  <2>1. todo[IdleThread] \in {I1, I2, Halted} /\ status[IdleThread] \in {"running", "ready", "blocked"}
    BY <1>1 DEF KInv, Starting
  <2>2. todo'[IdleThread] \in {I1, I2, Halted} /\ status'[IdleThread] \in {"running", "ready", "blocked"}
    BY <1>0, <2>1
  <2>3. QED  BY <1>0, <1>1, <2>2 DEF Starting
<1>2. CASE idle_thread = NoThd
  <2>1. /\ todo[MainThread] \in StartRest /\ value["idle_started"] = 0 /\ \A t \in Worker : status[t] = "free"
        /\ \/ Making(todo[MainThread], IdleThread) /\ running = MainThread /\ ~intr
           \/ todo[IdleThread] = I3 /\ status[IdleThread] \in {"running", "ready"}
    BY <1>2, Beginning
  <2>2. todo'[MainThread] = todo[MainThread]  BY <1>0
  <2>3. \A t \in Worker : status'[t] = "free"  BY <1>0, <2>1
  <2>4. CASE Making(todo[MainThread], IdleThread) /\ running = MainThread /\ ~intr
    BY <1>0, <1>2, <2>1, <2>2, <2>3, <2>4 DEF Starting
  <2>5. CASE todo[IdleThread] = I3 /\ status[IdleThread] \in {"running", "ready"}
    <3>1. todo'[IdleThread] = I3 /\ status'[IdleThread] \in {"running", "ready"}  BY <1>0, <2>5, IdleRests
    <3>2. QED  BY <1>0, <1>2, <2>1, <2>2, <2>3, <3>1 DEF Starting
  <2>6. QED  BY <2>1, <2>4, <2>5
<1>3. QED  BY <1>0, <1>1, <1>2

\* An interrupt whose handler raises a semaphore.
LEMMA DeviceInterruptStep ==
    ASSUME KInv, DeviceInterrupt
    PROVE  KInv'
<1>1. /\ Then(Resumed(running)) /\ value' = [value EXCEPT !["sema"] = @ + 1]
      /\ status' = Woken("sema").st /\ ready_list' = Woken("sema").list /\ waiters' = Woken("sema").wait
      /\ UNCHANGED <<running, all_list, idle_thread, intr, holder, cond, tid, next_tid>>
  BY DEF DeviceInterrupt
<1>2. running \in Thd /\ KTypes  BY DEF KInv, KTypes
<1>3. PICK z : z = Resumed(running)  OBVIOUS
<1>4. /\ Becomes(running, z) /\ Allowed(running, z) /\ LockSame /\ SignalSame /\ MakeSame /\ NameSame
      /\ \A t \in Thd : todo'[t] = todo[t] \/ (t = IdleThread /\ todo[t] = Halted /\ todo'[t] = I1)
      /\ \A r : \A t \in Thd : Downs(t, r)' <=> Downs(t, r)
  BY <1>1, <1>3, ResumedFacts
<1>5. \A r : Downs(running, r) => Downs(running, r)'  BY <1>1, <1>2, <1>4
<1>6. "sema" \in Semaphore /\ "sema" \notin Lock \cup Thd /\ "sema" # "idle_started" /\ "idle_started" \in Semaphore
      /\ Lock \subseteq Semaphore /\ Thd \subseteq Semaphore
  BY Names DEF Lock
<1>7. /\ KTypes' /\ Rests' /\ Queue' /\ Waiting' /\ Asleep' /\ Absent' /\ Made' /\ Enough'
      /\ \A t \in Thd : status'[t] = status[t] \/ (status[t] = "blocked" /\ status'[t] = "ready")
      /\ \A r \in Semaphore : value'[r] = IF r = "sema" THEN value["sema"] + 1 ELSE value[r]
  BY <1>1, <1>4, <1>5, <1>6, WakeStep
<1>8. Tids'  BY <1>1, <1>4, <1>7, TidsStay DEF KInv, Dead
<1>9. Starting'  BY <1>1, <1>4, <1>6, <1>7, StartingSame
<1>10. Locked'
  <2>1. \A l \in Lock : value'[l] = value[l]  BY <1>6, <1>7
  <2>2. QED  BY <1>1, <1>4, <2>1, LockedStay DEF KInv
<1>11. Signals'
  <2>1. \A t \in Thd : value'[t] = value[t]  BY <1>6, <1>7
  <2>2. QED  BY <1>1, <1>2, <1>4, <2>1, SignalsStay DEF KInv, KTypes
<1>12. QED  BY <1>7, <1>8, <1>9, <1>10, <1>11 DEF KInv

\* The tids' part stays when threads only lose their names.
LEMMA TidsLess ==
    ASSUME Tids, tid' = tid, next_tid' = next_tid, \A t \in Thd : Named(t)' => Named(t),
           \A t, u \in Thd : Begins(todo'[u], "tid_next", t) <=> Begins(todo[u], "tid_next", t)
    PROVE  Tids'
  BY DEF Tids

\* Which thread an operation belongs to.
LEMMA NotIdle ==
    ASSUME KInv, running = IdleThread, todo[running] # <<>>
    PROVE  /\ Head(todo[running]).op \in {"block", "up", "idle", "hlt"}
           /\ Head(todo[running]).op = "idle" => todo[running] = I3
           /\ Head(todo[running]).op = "block" => todo[running] = I1
<1>1. todo[running] \in {I1, I2, I3, Halted}  BY DEF KInv, Rests, IdleRest
<1>2. QED  BY <1>1, IdleRests

\* thread_create's init_thread.
LEMMA InitThreadStep ==
    ASSUME KInv, InitThread
    PROVE  KInv'
<1>1. Step("init")  BY DEF InitThread
<1>2. PICK q, a, z, w : q = todo[running] /\ a = Head(q).arg /\ z = Tail(q) /\ w = (IF a = IdleThread THEN I3 ELSE <<>>)
  OBVIOUS
<1>3. /\ running \in Thd /\ q # <<>> /\ Known(q) /\ Head(q).op = "init" /\ Now = Head(q) /\ Rests /\ KTypes
  BY <1>1, <1>2, AtStep
<1>4. /\ a \in Worker \cup {IdleThread} /\ (\A t : Making(q, t) <=> t = a) /\ (\A t : Making(z, t) <=> Making(q, t))
      /\ (\A t : Unnamed(z, t) <=> Unnamed(q, t)) /\ (\A t : ~Begins(z, "tid_next", t)) /\ (\A t : ~Begins(z, "init", t))
  BY <1>2, <1>3 DEF Known, MakesKnown
<1>5. a \in Thd  BY <1>4, Names
<1>6. /\ status' = [status EXCEPT ![a] = "blocked"] /\ all_list' = Append(all_list, a)
      /\ UNCHANGED <<running, ready_list, idle_thread, intr, value, waiters, holder, cond, tid, next_tid>>
  BY <1>2, <1>3 DEF InitThread
<1>7. Begins(q, "init", a) /\ \A p, b : Begins(q, p, b) => p = "init"  BY <1>2, <1>3, HeadOf
<1>8. status[a] = "page"  BY <1>2, <1>3, <1>4, <1>5, <1>7 DEF KInv, Made
<1>9. a # running /\ todo[a] = <<>>  BY <1>3, <1>5, <1>8 DEF KInv, Queue, Absent
<1>10. DOMAIN todo' = Thd /\ \A u \in Thd : todo'[u] = IF u = running THEN z ELSE IF u = a THEN w ELSE todo[u]
  BY <1>2, <1>3, <1>5, <1>9, OneCalls DEF InitThread, Rests
<1>11. \A t \in Thd : status'[t] = IF t = a THEN "blocked" ELSE status[t]  BY <1>3, <1>6 DEF KTypes
<1>12. running # IdleThread  BY <1>2, <1>3, NotIdle
<1>13. Silent(w)  BY <1>2, SilentRests
<1>14. LockSame
  <2>1. \A l \in Lock : (Has(z, l) <=> Has(q, l)) /\ (Holds(z, l) <=> Holds(q, l))
    BY <1>2, <1>3 DEF Known, LocksKnown
  <2>2. \A l \in Lock : ~Has(w, l) /\ ~Holds(w, l)  BY <1>13 DEF Silent
  <2>3. QED  BY <1>2, <1>9, <1>10, <2>1, <2>2, EmptyFacts DEF LockSame
<1>15. SignalSame
  <2>1. (InWait(z) <=> InWait(q)) /\ \A t \in Thd : ~Begins(z, "up", t)  BY <1>2, <1>3 DEF Known, WaitsKnown
  <2>2. ~InWait(w) /\ \A t \in Thd : ~Begins(w, "up", t)  BY <1>13 DEF Silent
  <2>3. \A t : ~Begins(q, "up", t) /\ ~Begins(todo[a], "up", t) /\ ~InWait(todo[a])  BY <1>7, <1>9, EmptyFacts
  <2>4. QED  BY <1>2, <1>10, <2>1, <2>2, <2>3 DEF SignalSame
<1>16. NameSame
  <2>1. \A u : ~Unnamed(w, u) /\ ~Begins(w, "tid_next", u)  BY <1>13 DEF Silent
  <2>2. \A t : ~Begins(q, "tid_next", t) /\ ~Begins(todo[a], "tid_next", t) /\ ~Unnamed(todo[a], t)
    BY <1>7, <1>9, EmptyFacts
  <2>3. QED  BY <1>2, <1>4, <1>10, <2>1, <2>2 DEF NameSame
<1>17. \A t \in Thd : \A u : Making(todo'[t], u) <=> Making(todo[t], u)
  <2>1. \A u : ~Making(w, u)  BY <1>13 DEF Silent
  <2>2. \A u : Making(z, u) <=> Making(q, u)  BY <1>4
  <2>3. \A u : ~Making(todo[a], u)  BY <1>9, EmptyFacts
  <2>4. QED  BY <1>2, <1>10, <2>1, <2>2, <2>3
<1>18. KTypes'
  <2>1. status' \in [Thd -> {"free", "page", "blocked", "ready", "running", "dying"}] /\ all_list' \in Seq(Thd)
    BY <1>3, <1>5, <1>6 DEF KTypes
  <2>2. QED  BY <1>3, <1>6, <2>1 DEF KTypes
<1>19. Rests'
  <2>1. Allowed(running, z)  BY <1>2, <1>3, NextAllowed
  <2>2. a = IdleThread => w \in IdleRest  BY <1>2 DEF IdleRest
  <2>3. a # IdleThread => w = <<>> /\ <<>> \in WorkRest /\ a \in Worker  BY <1>2, <1>4 DEF WorkRest
  <2>4. todo'[MainThread] \in WorkRest \cup StartRest  BY <1>3, <1>4, <1>10, <2>1, Names DEF Rests, Allowed
  <2>5. todo'[IdleThread] \in {<<>>} \cup IdleRest  BY <1>3, <1>10, <1>12, <2>2, Names DEF Rests
  <2>6. \A t \in Worker : todo'[t] \in WorkRest  BY <1>3, <1>4, <1>10, <2>1, <2>3, Names DEF Rests, Allowed
  <2>7. QED  BY <1>10, <2>4, <2>5, <2>6 DEF Rests
<1>20. Queue'
  <2>1. \A t \in Thd : (status'[t] = "running" <=> status[t] = "running") /\ (status'[t] = "ready" <=> status[t] = "ready")
    BY <1>8, <1>11
  <2>2. QED  BY <1>6, <2>1 DEF KInv, Queue
<1>21. \A t \in Thd : status[t] \in {"ready", "running", "blocked"} /\ t # running
                       => todo'[t] = todo[t] /\ status'[t] = status[t]
  BY <1>8, <1>10, <1>11
<1>22. Waiting'
  <2>1. SUFFICES ASSUME NEW s \in Semaphore
                 PROVE  IsInjective(waiters[s]) /\ \A t \in ToSet(waiters[s]) : status'[t] = "blocked" /\ Downs(t, s)'
    BY <1>6 DEF Waiting
  <2>2. IsInjective(waiters[s])  BY DEF KInv, Waiting
  <2>3. ASSUME NEW t \in ToSet(waiters[s]) PROVE status'[t] = "blocked" /\ Downs(t, s)'
    <3>1. waiters[s] \in Seq(Thd)  BY <1>3 DEF KTypes
    <3>2. t \in Thd  BY <3>1, SeqElements
    <3>3. status[t] = "blocked" /\ Downs(t, s)  BY DEF KInv, Waiting
    <3>4. t # running  BY <3>2, <3>3 DEF KInv, Queue
    <3>5. QED  BY <1>21, <3>2, <3>3, <3>4 DEF Downs
  <2>4. QED  BY <2>2, <2>3
<1>23. Asleep'
  <2>1. SUFFICES ASSUME NEW t \in Thd, status'[t] = "blocked"
                 PROVE  \/ t = idle_thread \/ \E r \in Semaphore : t \in ToSet(waiters[r])
                        \/ \E u \in Thd : Making(todo'[u], t)
    BY <1>6 DEF Asleep
  <2>2. CASE t = a  BY <1>2, <1>3, <1>4, <1>17, <2>2
  <2>3. CASE t # a  BY <1>11, <1>17, <2>1, <2>3 DEF KInv, Asleep
  <2>4. QED  BY <2>2, <2>3
<1>24. Absent'
  <2>1. all_list \in Seq(Thd) /\ IsInjective(all_list) /\ a \notin ToSet(all_list)
    BY <1>3, <1>5, <1>8 DEF KTypes, KInv, Absent
  <2>2. IsInjective(all_list') /\ ToSet(all_list') = ToSet(all_list) \cup {a}  BY <1>5, <1>6, <2>1, AppendElements
  <2>3. \A t \in Thd : t \in ToSet(all_list') <=> status'[t] \notin {"free", "page", "dying"}
    BY <1>11, <2>2 DEF KInv, Absent
  <2>4. status[running] = "running"  BY <1>3 DEF KInv, Queue
  <2>5. \A t \in Thd : status'[t] \in {"free", "page", "dying"} => t # a /\ t # running /\ status'[t] = status[t]
    BY <1>9, <1>11, <2>4
  <2>6. \A t \in Thd : status'[t] \in {"free", "page", "dying"} => todo'[t] = <<>>
    BY <1>10, <2>5 DEF KInv, Absent
  <2>7. \A t \in Thd : status'[t] = "dying" => t = MainThread  BY <2>5 DEF KInv, Absent
  <2>8. QED  BY <2>2, <2>3, <2>6, <2>7 DEF Absent
<1>25. Starting'
  <2>1. idle_thread \in {NoThd, IdleThread} /\ NoThd # IdleThread /\ IdleThread \in Thd /\ MainThread \in Thd
        /\ Worker \subseteq Thd /\ MainThread # IdleThread /\ IdleThread \notin Worker
    BY <1>3, Names DEF KTypes
  <2>2. CASE idle_thread = IdleThread
    <3>1. a # IdleThread  BY <1>2, <1>3, <1>4, <1>5, <2>1, <2>2, MadeIdle
    <3>2. todo'[IdleThread] = todo[IdleThread] /\ status'[IdleThread] = status[IdleThread]
      BY <1>10, <1>11, <1>12, <2>1, <3>1
    <3>3. QED  BY <1>6, <2>1, <2>2, <3>2 DEF KInv, Starting
  <2>3. CASE idle_thread = NoThd
    <3>1. /\ todo[MainThread] \in StartRest /\ value["idle_started"] = 0 /\ StartHead(todo[MainThread])
          /\ running = MainThread /\ \A t \in Worker : status[t] = "free"
          /\ \/ Making(todo[MainThread], IdleThread) /\ ~intr
             \/ status[IdleThread] \in {"running", "ready"}
      BY <1>12, <2>3, Beginning
    <3>2. a = IdleThread  BY <1>2, <1>3, <3>1 DEF StartHead
    <3>3. Making(z, IdleThread) /\ ~intr  BY <1>2, <1>4, <1>8, <3>1, <3>2
    <3>4. z \in StartRest
      <4>1. q # E1  BY <1>3, StartShapes DEF Shape
      <4>2. QED  BY <1>2, <3>1, <4>1, StartRests
    <3>5. todo'[MainThread] = z  BY <1>10, <2>1, <3>1
    <3>6. \A t \in Worker : status'[t] = "free"  BY <1>11, <2>1, <3>1, <3>2
    <3>7. QED  BY <1>6, <2>1, <2>3, <3>1, <3>3, <3>4, <3>5, <3>6 DEF Starting
  <2>4. QED  BY <2>1, <2>2, <2>3
<1>26. Made'
  <2>1. SUFFICES ASSUME NEW t \in Thd, NEW u \in Thd, Making(todo'[t], u)
                 PROVE  /\ u # MainThread /\ \A v \in Thd : Making(todo'[v], u) => v = t
                        /\ IF Begins(todo'[t], "init", u) THEN status'[u] = "page"
                           ELSE status'[u] = "blocked" /\ todo'[u] = (IF u = IdleThread THEN I3 ELSE <<>>)
    BY DEF Made
  <2>2. Making(todo[t], u)  BY <1>17, <2>1
  <2>3. u # MainThread /\ \A v \in Thd : Making(todo'[v], u) => v = t  BY <1>17, <2>2 DEF KInv, Made
  <2>4. CASE u = a
    <3>1. t = running  BY <1>2, <1>3, <1>4, <1>5, <2>2, <2>4 DEF KInv, Made
    <3>2. ~Begins(todo'[t], "init", u)  BY <1>3, <1>4, <1>10, <3>1
    <3>3. todo'[u] = w /\ status'[u] = "blocked"  BY <1>5, <1>9, <1>10, <1>11, <2>4
    <3>4. QED  BY <1>2, <2>3, <2>4, <3>2, <3>3
  <2>5. CASE u # a
    <3>1. t # running /\ u # running  BY <1>2, <1>4, <2>2, <2>5, MadeIdle
    <3>2. t # a  BY <1>9, <2>2, EmptyFacts
    <3>3. todo'[t] = todo[t] /\ todo'[u] = todo[u] /\ status'[u] = status[u]  BY <1>10, <1>11, <2>5, <3>1, <3>2
    <3>4. IF Begins(todo[t], "init", u) THEN status[u] = "page"
          ELSE status[u] = "blocked" /\ todo[u] = (IF u = IdleThread THEN I3 ELSE <<>>)
      BY <2>2 DEF KInv, Made
    <3>5. QED  BY <2>3, <3>3, <3>4
  <2>6. QED  BY <2>4, <2>5
<1>27. Locked' /\ Signals'  BY <1>3, <1>6, <1>14, <1>15, LockedStay, SignalsStay DEF KInv, KTypes
<1>28. Tids'
  <2>1. Unnamed(q, a)  BY <1>3, <1>4 DEF Unnamed
  <2>2. Unnamed(todo'[running], a)  BY <1>2, <1>3, <2>1, <1>16 DEF NameSame
  <2>3. \A t \in Thd : Named(t)' => Named(t)
    <3>1. SUFFICES ASSUME NEW t \in Thd, Named(t)' PROVE Named(t)  OBVIOUS
    <3>2. t # a  BY <1>3, <2>2, <3>1 DEF Named
    <3>3. QED  BY <1>11, <1>16, <3>1, <3>2 DEF Named, NameSame
  <2>4. QED  BY <1>6, <1>16, <2>3, TidsLess DEF KInv, NameSame
<1>29. Enough'
  <2>1. \A s : ~Downs(running, s)  BY <1>2, <1>3, NotDown
  <2>2. \A s : Coming(s) \subseteq Coming(s)'  BY <1>21, <2>1 DEF Coming, Downs
  <2>3. \A s \in Semaphore : value[s] \in Nat  BY <1>3 DEF KTypes
  <2>4. QED  BY <1>3, <1>6, <2>2, <2>3, EnoughStay DEF KInv
<1>30. QED
  BY <1>18, <1>19, <1>20, <1>22, <1>23, <1>24, <1>25, <1>26, <1>27, <1>28, <1>29 DEF KInv

\* thread_create's thread_unblock: the new thread becomes ready.
LEMMA ThreadUnblockStep ==
    ASSUME KInv, ThreadUnblock
    PROVE  KInv'
<1>1. Step("unblock")  BY DEF ThreadUnblock
<1>2. PICK q, a, z : q = todo[running] /\ a = Head(q).arg /\ z = Tail(q)  OBVIOUS
<1>3. /\ running \in Thd /\ q # <<>> /\ Known(q) /\ Head(q).op = "unblock" /\ Now = Head(q) /\ Rests /\ KTypes
      /\ Becomes(running, z)
  BY <1>1, <1>2, AtStep DEF ThreadUnblock
<1>4. a \in Worker \cup {IdleThread} /\ (\A t : Making(q, t) <=> t = a) /\ (\A t : ~Making(z, t))
  BY <1>2, <1>3 DEF Known, MakesKnown, Apart
<1>5. a \in Thd  BY <1>4, Names
<1>6. /\ status' = [status EXCEPT ![a] = "ready"] /\ ready_list' = Append(ready_list, a)
      /\ UNCHANGED <<running, all_list, idle_thread, intr, value, waiters, holder, cond, tid, next_tid>>
  BY <1>2, <1>3 DEF ThreadUnblock
<1>7. status[a] = "blocked" /\ todo[a] = (IF a = IdleThread THEN I3 ELSE <<>>)
  <2>1. ~Begins(q, "init", a)  BY <1>3, HeadOf
  <2>2. QED  BY <1>2, <1>3, <1>4, <1>5, <2>1 DEF KInv, Made
<1>8. a # running /\ a # idle_thread /\ (a = IdleThread => idle_thread = NoThd) /\ \A s : ~Downs(a, s)
  BY <1>2, <1>3, <1>4, <1>5, MadeIdle
<1>9. \A u \in Thd : todo'[u] = IF u = running THEN z ELSE todo[u]  BY <1>3 DEF Becomes
<1>10. \A t \in Thd : status'[t] = IF t = a THEN "ready" ELSE status[t]  BY <1>3, <1>6 DEF KTypes
<1>11. running # IdleThread  BY <1>2, <1>3, NotIdle
<1>12. LockSame /\ SignalSame /\ NameSame  BY <1>2, <1>3, AdvanceSame
<1>13. ready_list \in Seq(Thd) /\ IsInjective(ready_list) /\ a \notin ToSet(ready_list)
  BY <1>3, <1>5, <1>7 DEF KTypes, KInv, Queue
<1>14. ready_list' \in Seq(Thd) /\ IsInjective(ready_list') /\ ToSet(ready_list') = ToSet(ready_list) \cup {a}
  BY <1>5, <1>6, <1>13, AppendElements
<1>15. KTypes'
  <2>1. status' \in [Thd -> {"free", "page", "blocked", "ready", "running", "dying"}]  BY <1>3, <1>5, <1>6 DEF KTypes
  <2>2. QED  BY <1>3, <1>6, <1>14, <2>1 DEF KTypes
<1>16. Rests'
  <2>1. Allowed(running, z)  BY <1>2, <1>3, NextAllowed
  <2>2. QED  BY <1>3, <2>1, RestsBecome
<1>17. Queue'
  <2>1. \A t \in Thd : status'[t] = "running" <=> t = running'  BY <1>6, <1>8, <1>10 DEF KInv, Queue
  <2>2. \A t \in Thd : t \in ToSet(ready_list') <=> status'[t] = "ready" /\ t # idle_thread'
    BY <1>6, <1>8, <1>10, <1>14 DEF KInv, Queue
  <2>3. QED  BY <1>14, <2>1, <2>2 DEF Queue
<1>18. Waiting'
  <2>1. SUFFICES ASSUME NEW s \in Semaphore
                 PROVE  IsInjective(waiters[s]) /\ \A t \in ToSet(waiters[s]) : status'[t] = "blocked" /\ Downs(t, s)'
    BY <1>6 DEF Waiting
  <2>2. IsInjective(waiters[s])  BY DEF KInv, Waiting
  <2>3. ASSUME NEW t \in ToSet(waiters[s]) PROVE status'[t] = "blocked" /\ Downs(t, s)'
    <3>1. waiters[s] \in Seq(Thd)  BY <1>3 DEF KTypes
    <3>2. t \in Thd  BY <3>1, SeqElements
    <3>3. status[t] = "blocked" /\ Downs(t, s)  BY DEF KInv, Waiting
    <3>4. t # running /\ t # a  BY <1>8, <3>2, <3>3 DEF KInv, Queue
    <3>5. todo'[t] = todo[t] /\ status'[t] = status[t]  BY <1>9, <1>10, <3>2, <3>4
    <3>6. QED  BY <3>3, <3>5 DEF Downs
  <2>4. QED  BY <2>2, <2>3
<1>19. \A t \in Thd : \A u : Making(todo'[t], u) <=> u # a /\ Making(todo[t], u)
  <2>1. SUFFICES ASSUME NEW t \in Thd, NEW u PROVE Making(todo'[t], u) <=> u # a /\ Making(todo[t], u)  OBVIOUS
  <2>2. CASE t = running  BY <1>2, <1>4, <1>9, <2>2
  <2>3. CASE t # running
    <3>1. ~Making(todo[t], a)  BY <1>2, <1>3, <1>4, <1>5, <2>3 DEF KInv, Made
    <3>2. QED  BY <1>9, <2>3, <3>1
  <2>4. QED  BY <2>2, <2>3
<1>20. Asleep'
  <2>1. SUFFICES ASSUME NEW t \in Thd, status'[t] = "blocked"
                 PROVE  \/ t = idle_thread \/ \E r \in Semaphore : t \in ToSet(waiters[r])
                        \/ \E u \in Thd : Making(todo'[u], t)
    BY <1>6 DEF Asleep
  <2>2. t # a /\ status[t] = "blocked"  BY <1>10, <2>1
  <2>3. QED  BY <1>19, <2>2 DEF KInv, Asleep
<1>21. Absent'
  <2>1. \A t \in Thd : (status'[t] \in {"free", "page", "dying"} <=> status[t] \in {"free", "page", "dying"})
                       /\ (status'[t] = "dying" <=> status[t] = "dying")
    BY <1>7, <1>10
  <2>2. status[running] = "running"  BY <1>3 DEF KInv, Queue
  <2>3. \A t \in Thd : status'[t] \in {"free", "page", "dying"} => todo'[t] = <<>>
    BY <1>9, <2>1, <2>2 DEF KInv, Absent
  <2>4. QED  BY <1>6, <2>1, <2>3 DEF KInv, Absent
<1>22. Starting'
  <2>1. idle_thread \in {NoThd, IdleThread} /\ NoThd # IdleThread /\ IdleThread \in Thd /\ MainThread \in Thd
        /\ Worker \subseteq Thd /\ MainThread # IdleThread /\ IdleThread \notin Worker
    BY <1>3, Names DEF KTypes
  <2>2. CASE idle_thread = IdleThread
    <3>1. status[IdleThread] \in {"running", "ready", "blocked"}  BY <2>2 DEF KInv, Starting
    <3>2. QED  BY <1>3, <1>6, <1>8, <1>10, <1>11, <2>1, <2>2, <3>1, StartedStay
  <2>3. CASE idle_thread = NoThd
    <3>1. /\ todo[MainThread] \in StartRest /\ value["idle_started"] = 0 /\ StartHead(todo[MainThread])
          /\ running = MainThread /\ \A t \in Worker : status[t] = "free"
      BY <1>11, <2>3, Beginning
    <3>2. a = IdleThread  BY <1>2, <1>3, <3>1 DEF StartHead
    <3>3. todo'[IdleThread] = I3 /\ status'[IdleThread] = "ready"  BY <1>7, <1>9, <1>10, <1>11, <2>1, <3>2
    <3>4. z \in StartRest
      <4>1. q # E1  BY <1>3, StartShapes DEF Shape
      <4>2. QED  BY <1>2, <3>1, <4>1, StartRests
    <3>5. todo'[MainThread] = z  BY <1>9, <2>1, <3>1
    <3>6. \A t \in Worker : status'[t] = "free"  BY <1>10, <2>1, <3>1, <3>2
    <3>7. QED  BY <1>6, <2>1, <2>3, <3>1, <3>3, <3>4, <3>5, <3>6 DEF Starting
  <2>4. QED  BY <2>1, <2>2, <2>3
<1>23. Made'
  <2>1. SUFFICES ASSUME NEW t \in Thd, NEW u \in Thd, Making(todo'[t], u)
                 PROVE  /\ u # MainThread /\ \A v \in Thd : Making(todo'[v], u) => v = t
                        /\ IF Begins(todo'[t], "init", u) THEN status'[u] = "page"
                           ELSE status'[u] = "blocked" /\ todo'[u] = (IF u = IdleThread THEN I3 ELSE <<>>)
    BY DEF Made
  <2>2. Making(todo[t], u) /\ u # a  BY <1>19, <2>1
  <2>3. u # MainThread /\ \A v \in Thd : Making(todo'[v], u) => v = t  BY <1>19, <2>2 DEF KInv, Made
  <2>4. t # running /\ u # running  BY <1>2, <1>4, <2>2, MadeIdle
  <2>5. todo'[t] = todo[t] /\ todo'[u] = todo[u] /\ status'[u] = status[u]  BY <1>9, <1>10, <2>2, <2>4
  <2>6. IF Begins(todo[t], "init", u) THEN status[u] = "page"
        ELSE status[u] = "blocked" /\ todo[u] = (IF u = IdleThread THEN I3 ELSE <<>>)
    BY <2>2 DEF KInv, Made
  <2>7. QED  BY <2>3, <2>5, <2>6
<1>24. Locked' /\ Signals'  BY <1>3, <1>6, <1>12, LockedStay, SignalsStay DEF KInv, KTypes
<1>25. Tids'
  <2>1. \A t \in Thd : status[t] \in Dead => status'[t] \in Dead  BY <1>7, <1>10 DEF Dead
  <2>2. QED  BY <1>6, <1>12, <2>1, TidsStay DEF KInv
<1>26. Enough'
  <2>1. \A s : ~Downs(running, s)  BY <1>2, <1>3, NotDown
  <2>2. \A s : Coming(s) \subseteq Coming(s)'  BY <1>3, <1>10, <2>1, ComingStay
  <2>3. \A s \in Semaphore : value[s] \in Nat  BY <1>3 DEF KTypes
  <2>4. QED  BY <1>3, <1>6, <2>2, <2>3, EnoughStay DEF KInv
<1>27. QED
  BY <1>15, <1>16, <1>17, <1>18, <1>20, <1>21, <1>22, <1>23, <1>24, <1>25, <1>26 DEF KInv

\* The idle thread names itself.
LEMMA IdleSelfStep ==
    ASSUME KInv, IdleSelf
    PROVE  KInv'
<1>1. Step("idle")  BY DEF IdleSelf
<1>2. PICK q, z : q = todo[running] /\ z = Tail(q)  OBVIOUS
<1>3. /\ running \in Thd /\ q # <<>> /\ Known(q) /\ Head(q).op = "idle" /\ Rests /\ KTypes /\ Becomes(running, z)
  BY <1>1, <1>2, AtStep DEF IdleSelf
<1>4. running = IdleThread
  <2>1. SUFFICES ASSUME running # IdleThread PROVE FALSE  OBVIOUS
  <2>2. WorkHead(q) \/ StartHead(q)  BY <1>2, <1>3, <2>1, RestOf
  <2>3. QED  BY <1>3, <2>2 DEF WorkHead, StartHead
<1>5. q = I3 /\ z = I2  BY <1>2, <1>3, <1>4, NotIdle, IdleRests
<1>6. idle_thread = NoThd
  <2>1. idle_thread # IdleThread  BY <1>2, <1>4, <1>5, IdleRests DEF KInv, Starting
  <2>2. QED  BY <1>3, <2>1 DEF KTypes
<1>7. /\ idle_thread' = IdleThread
      /\ UNCHANGED <<status, running, ready_list, all_list, intr, value, waiters, holder, cond, tid, next_tid>>
  BY <1>4 DEF IdleSelf, sched
<1>8. LockSame /\ SignalSame /\ MakeSame /\ NameSame  BY <1>2, <1>3, <1>5, SilentRests, SilentSame
<1>9. \A u \in Thd : todo'[u] = IF u = running THEN z ELSE todo[u]  BY <1>3 DEF Becomes
<1>10. status[running] = "running" /\ NoThd \notin Thd /\ NoThd # IdleThread /\ IdleThread \in Thd
  BY <1>3, Names DEF KInv, Queue
<1>11. KTypes'  BY <1>3, <1>7 DEF KTypes
<1>12. Rests'
  <2>1. Allowed(running, z)  BY <1>4, <1>5 DEF Allowed, IdleRest
  <2>2. QED  BY <1>3, <2>1, RestsBecome
<1>13. Queue'
  <2>1. \A t \in Thd : t \in ToSet(ready_list) <=> status[t] = "ready" /\ t # IdleThread
    BY <1>4, <1>6, <1>10 DEF KInv, Queue
  <2>2. QED  BY <1>7, <2>1 DEF KInv, Queue
<1>14. Waiting'  BY <1>3, <1>7, WaitingStay DEF KInv
<1>15. Asleep'  BY <1>6, <1>7, <1>8, <1>10 DEF KInv, Asleep, MakeSame
<1>16. Absent'
  <2>1. \A t \in Thd : status[t] \in {"free", "page", "dying"} => todo'[t] = <<>>  BY <1>9, <1>10 DEF KInv, Absent
  <2>2. QED  BY <1>7, <2>1 DEF KInv, Absent
<1>17. Starting'
  <2>1. todo'[IdleThread] = I2 /\ status'[IdleThread] = "running"  BY <1>4, <1>5, <1>7, <1>9, <1>10
  <2>2. QED  BY <1>7, <1>10, <2>1 DEF Starting
<1>18. Made'
  <2>1. ASSUME NEW u \in Thd, NEW t \in Thd, Making(todo[t], u) PROVE status'[u] = status[u] /\ todo'[u] = todo[u]
    <3>1. u # running  BY <2>1, MadeIdle
    <3>2. QED  BY <1>7, <1>9, <3>1
  <2>2. QED  BY <1>8, <2>1, MadeStay DEF KInv
<1>19. Locked' /\ Signals'  BY <1>3, <1>7, <1>8, LockedStay, SignalsStay DEF KInv, KTypes
<1>20. Tids'  BY <1>7, <1>8, TidsStay DEF KInv
<1>21. Enough'
  <2>1. \A s : ~Downs(running, s)  BY <1>2, <1>3, NotDown
  <2>2. \A s : Coming(s) \subseteq Coming(s)'  BY <1>3, <1>7, <2>1, ComingStay
  <2>3. \A s \in Semaphore : value[s] \in Nat  BY <1>3 DEF KTypes
  <2>4. QED  BY <1>3, <1>7, <2>2, <2>3, EnoughStay DEF KInv
<1>22. QED
  BY <1>11, <1>12, <1>13, <1>14, <1>15, <1>16, <1>17, <1>18, <1>19, <1>20, <1>21 DEF KInv

\* A thread makes a call.
LEMMA CallStep ==
    ASSUME KInv, NEW p \in Programs, Call(p)
    PROVE  KInv'
<1>1. p \in WorkRest /\ Silent(p)
  <2>1. p \in {U4, S3, B3, W6, One("try", "lock"), One("down", "sema"), One("up", "sema"), One("nap", NoThd),
               One("yield", NoThd), One("exit", NoThd)}
    BY MonitorCalls, OneCalls DEF Programs
  <2>2. p \in WorkRest  BY <2>1 DEF WorkRest, MonitorRest, OneRest
  <2>3. /\ OneCall("try", "lock") /\ OneCall("down", "sema") /\ OneCall("up", "sema") /\ OneCall("nap", NoThd)
        /\ OneCall("yield", NoThd) /\ OneCall("exit", NoThd)
    BY DEF OneCall
  <2>4. Silent(p)  BY <2>1, <2>3, SilentRests
  <2>5. QED  BY <2>2, <2>4
<1>2. running \in Thd /\ Rests /\ KTypes  BY DEF KInv, KTypes
<1>3. /\ running # IdleThread /\ todo[running] = <<>> /\ Then(p)
      /\ UNCHANGED <<status, running, ready_list, all_list, idle_thread, intr, value, waiters, holder, cond, tid, next_tid>>
  BY DEF Call, sched
<1>4. Becomes(running, p)  BY <1>2, <1>3, ThenBecomes
<1>5. idle_thread = IdleThread /\ Allowed(running, p)  BY <1>1, <1>3, Started
<1>6. LockSame /\ SignalSame /\ MakeSame /\ NameSame  BY <1>1, <1>2, <1>3, <1>4, SilentRests, SilentSame
<1>7. Rests' /\ Queue' /\ Waiting' /\ Asleep' /\ Absent' /\ Made'  BY <1>3, <1>4, <1>5, <1>6, StillMove
<1>8. Starting'
  <2>1. status[IdleThread] \in {"running", "ready", "blocked"}  BY <1>5 DEF KInv, Starting
  <2>2. QED  BY <1>3, <1>4, <1>5, <2>1, StartedStay
<1>9. KTypes'  BY <1>2, <1>3 DEF KTypes
<1>10. Locked' /\ Signals'  BY <1>2, <1>3, <1>6, LockedStay, SignalsStay DEF KInv, KTypes
<1>11. Tids'  BY <1>3, <1>6, TidsStay DEF KInv
<1>12. Enough'
  <2>1. \A s : ~Downs(running, s)  BY <1>2, <1>3, NotDown
  <2>2. \A s : Coming(s) \subseteq Coming(s)'  BY <1>3, <1>4, <2>1, ComingStay
  <2>3. \A s \in Semaphore : value[s] \in Nat  BY <1>2 DEF KTypes
  <2>4. QED  BY <1>2, <1>3, <2>2, <2>3, EnoughStay DEF KInv
<1>13. QED  BY <1>7, <1>8, <1>9, <1>10, <1>11, <1>12 DEF KInv

\* thread_create gets a page.
LEMMA GetPageStep ==
    ASSUME KInv, NEW u \in Worker, GetPage(u)
    PROVE  KInv'
<1>1. running \in Thd /\ Rests /\ KTypes /\ u \in Thd /\ u # IdleThread /\ u # MainThread /\ IdleThread \in Thd
  BY Names DEF KInv, KTypes
<1>2. PICK z : z = C8(u, <<>>)  OBVIOUS
<1>3. /\ running # IdleThread /\ todo[running] = <<>> /\ status[u] = "free" /\ status' = [status EXCEPT ![u] = "page"]
      /\ Then(z)
      /\ UNCHANGED <<running, ready_list, all_list, idle_thread, intr, value, waiters, holder, cond, tid, next_tid>>
  BY <1>1, <1>2, MakeCalls DEF GetPage
<1>4. Becomes(running, z) /\ \A t \in Thd : todo'[t] = IF t = running THEN z ELSE todo[t]
  BY <1>1, <1>3, ThenBecomes DEF Becomes
<1>5. \A t \in Thd : status'[t] = IF t = u THEN "page" ELSE status[t]  BY <1>1, <1>3 DEF KTypes
<1>6. z \in WorkRest  BY <1>2 DEF WorkRest, MakeRest
<1>7. idle_thread = IdleThread /\ Allowed(running, z)  BY <1>3, <1>6, Started
<1>8. Known(z) /\ Head(z).op = "init" /\ Head(z).arg = u /\ \A t : Making(z, t) <=> t = u
  <2>1. After(<<>>) /\ <<>> \in Seq(Action)  BY Nothing DEF After
  <2>2. Known(z)  BY <1>2, <2>1, MakeKnown
  <2>a. Shape(z, "init", u, C7(u, <<>>))  BY <1>1, <1>2, <2>1, MakeShapes
  <2>3. Head(z).op = "init" /\ Head(z).arg = u  BY <2>a DEF Shape
  <2>4. QED  BY <2>2, <2>3 DEF Known, MakesKnown
<1>9. u # running /\ todo[u] = <<>>  BY <1>1, <1>3 DEF KInv, Queue, Absent
<1>10. \A p, b : Begins(z, p, b) <=> p = "init" /\ b = u  BY <1>8, HeadOf
<1>11. LockSame
  <2>1. \A l \in Lock : ~Has(z, l) /\ ~Holds(z, l)  BY <1>8, HeadOf DEF Has
  <2>2. QED  BY <1>3, <1>4, <2>1, EmptyFacts DEF LockSame
<1>12. SignalSame
  <2>1. ~InWait(z) /\ \A t : ~Begins(z, "up", t)  BY <1>8, <1>10, HeadOf
  <2>2. QED  BY <1>3, <1>4, <2>1, EmptyFacts DEF SignalSame
<1>13. KTypes'
  <2>1. status' \in [Thd -> {"free", "page", "blocked", "ready", "running", "dying"}]  BY <1>1, <1>3 DEF KTypes
  <2>2. QED  BY <1>1, <1>3, <2>1 DEF KTypes
<1>14. Rests'  BY <1>1, <1>4, <1>7, RestsBecome
<1>15. Queue'
  <2>1. \A t \in Thd : (status'[t] = "running" <=> status[t] = "running") /\ (status'[t] = "ready" <=> status[t] = "ready")
    BY <1>3, <1>5
  <2>2. QED  BY <1>3, <2>1 DEF KInv, Queue
<1>16. Waiting'
  <2>1. \A t \in Thd : status[t] = "blocked" => status'[t] = "blocked"  BY <1>3, <1>5
  <2>2. QED  BY <1>1, <1>3, <1>4, <2>1, WaitingStay DEF KInv
<1>17. Asleep'
  <2>1. \A t \in Thd : status'[t] = "blocked" => status[t] = "blocked"  BY <1>5
  <2>2. \A t \in Thd : \A v : Making(todo[t], v) => Making(todo'[t], v)  BY <1>3, <1>4, EmptyFacts
  <2>3. QED  BY <1>3, <2>1, <2>2 DEF KInv, Asleep
<1>18. Absent'
  <2>1. \A t \in Thd : (status'[t] \in {"free", "page", "dying"} <=> status[t] \in {"free", "page", "dying"})
                       /\ (status'[t] = "dying" => status[t] = "dying")
    BY <1>3, <1>5
  <2>2. status[running] = "running"  BY <1>1 DEF KInv, Queue
  <2>3. \A t \in Thd : status'[t] \in {"free", "page", "dying"} => todo'[t] = <<>>
    BY <1>4, <2>1, <2>2 DEF KInv, Absent
  <2>4. QED  BY <1>3, <2>1, <2>3 DEF KInv, Absent
<1>19. Starting'
  <2>1. status'[IdleThread] \in {"running", "ready", "blocked"}  BY <1>1, <1>5, <1>7 DEF KInv, Starting
  <2>2. QED  BY <1>3, <1>4, <1>7, <2>1, StartedStay
<1>20. Made'
  <2>1. SUFFICES ASSUME NEW t \in Thd, NEW v \in Thd, Making(todo'[t], v)
                 PROVE  /\ v # MainThread /\ \A w \in Thd : Making(todo'[w], v) => w = t
                        /\ IF Begins(todo'[t], "init", v) THEN status'[v] = "page"
                           ELSE status'[v] = "blocked" /\ todo'[v] = (IF v = IdleThread THEN I3 ELSE <<>>)
    BY DEF Made
  <2>2. \A w \in Thd : ~Making(todo[w], u)  BY <1>1, <1>3, MadeIdle
  <2>3. CASE t = running
    <3>1. v = u  BY <1>4, <1>8, <2>1, <2>3
    <3>2. \A w \in Thd : Making(todo'[w], v) => w = t  BY <1>4, <2>2, <2>3, <3>1
    <3>3. Begins(todo'[t], "init", v) /\ status'[v] = "page"  BY <1>1, <1>4, <1>5, <1>10, <2>3, <3>1
    <3>4. QED  BY <1>1, <3>1, <3>2, <3>3
  <2>4. CASE t # running
    <3>1. todo'[t] = todo[t] /\ Making(todo[t], v)  BY <1>4, <2>1, <2>4
    <3>2. v # u /\ v # running  BY <2>2, <3>1, MadeIdle
    <3>3. todo'[v] = todo[v] /\ status'[v] = status[v]  BY <1>4, <1>5, <3>2
    <3>4. \A w \in Thd : Making(todo'[w], v) => Making(todo[w], v)  BY <1>4, <1>8, <3>2
    <3>5. /\ v # MainThread /\ \A w \in Thd : Making(todo[w], v) => w = t
          /\ IF Begins(todo[t], "init", v) THEN status[v] = "page"
             ELSE status[v] = "blocked" /\ todo[v] = (IF v = IdleThread THEN I3 ELSE <<>>)
      BY <3>1 DEF KInv, Made
    <3>6. QED  BY <3>1, <3>3, <3>4, <3>5
  <2>5. QED  BY <2>3, <2>4
<1>21. Locked' /\ Signals'  BY <1>1, <1>3, <1>11, <1>12, LockedStay, SignalsStay DEF KInv, KTypes
<1>22. Tids'
  <2>1. \A t, w \in Thd : Begins(todo'[w], "tid_next", t) <=> Begins(todo[w], "tid_next", t)
    <3>1. \A t : ~Begins(z, "tid_next", t) /\ ~Begins(todo[running], "tid_next", t)  BY <1>3, <1>10, EmptyFacts
    <3>2. QED  BY <1>4, <3>1
  <2>2. \A t \in Thd : Named(t)' => Named(t)
    <3>1. SUFFICES ASSUME NEW t \in Thd, Named(t)' PROVE Named(t)  OBVIOUS
    <3>2. t # u /\ status'[t] = status[t]  BY <1>5, <3>1 DEF Named
    <3>3. \A w \in Thd : Unnamed(todo[w], t) => Unnamed(todo'[w], t)  BY <1>3, <1>4, EmptyFacts
    <3>4. QED  BY <3>1, <3>2, <3>3 DEF Named
  <2>3. QED  BY <1>3, <2>1, <2>2, TidsLess DEF KInv
<1>23. Enough'
  <2>1. \A s : ~Downs(running, s)  BY <1>1, <1>3, NotDown
  <2>2. \A t \in Thd : status[t] \in {"ready", "running"} /\ t # running => status'[t] \in {"ready", "running"}
    BY <1>3, <1>5
  <2>3. \A s : Coming(s) \subseteq Coming(s)'  BY <1>4, <2>1, <2>2, ComingStay
  <2>4. \A s \in Semaphore : value[s] \in Nat  BY <1>1 DEF KTypes
  <2>5. QED  BY <1>1, <1>3, <2>3, <2>4, EnoughStay DEF KInv
<1>24. QED
  BY <1>13, <1>14, <1>15, <1>16, <1>17, <1>18, <1>19, <1>20, <1>21, <1>22, <1>23 DEF KInv

-----------------------------------------------------------------------------
\* Switching threads: the running one gets status x, the next one runs.
Moved(x) ==
    /\ running' \in Thd /\ ready_list' \in Seq(Thd) /\ Queue'
    /\ status' \in [Thd -> {"free", "page", "blocked", "ready", "running", "dying"}]
    /\ \A t \in Thd : t # running =>
         \/ status'[t] = status[t]
         \/ status'[t] = "running" /\ (status[t] = "ready" \/ (status[t] = "blocked" /\ t = idle_thread))
    /\ x = "ready" => status'[running] \in {"ready", "running"}
    /\ x = "blocked" => status'[running] = "blocked" \/ (status'[running] = "running" /\ running = idle_thread)
    /\ x = "dying" => status'[running] = IF running = MainThread THEN "dying" ELSE "free"

\* What schedule does to the running thread and the ready list.
LEMMA ScheduleMoves ==
    ASSUME KInv, NEW x \in {"ready", "blocked", "dying"}, NEW list \in Seq(Thd), IsInjective(list),
           \A t \in Thd : t \in ToSet(list) <=>
             (IF t = running THEN x = "ready" ELSE status[t] = "ready") /\ t # idle_thread,
           Schedule([status EXCEPT ![running] = x], list),
           list = <<>> => idle_thread = IdleThread, UNCHANGED idle_thread, x = "dying" => running # IdleThread
    PROVE  Moved(x)
<1>1. PICK st : st = [status EXCEPT ![running] = x]  OBVIOUS
<1>2. PICK next : next = next_thread_to_run(list)  OBVIOUS
<1>3. /\ running' = next /\ ready_list' = IF list = <<>> THEN list ELSE Tail(list)
      /\ status' = [t \in Thd |->
             CASE t = next -> "running"
               [] t # next /\ st[t] = "dying" /\ t # MainThread -> "free"
               [] OTHER -> st[t]]
  BY <1>1, <1>2 DEF Schedule
<1>4. KTypes /\ running \in Thd /\ IdleThread \in Thd /\ status[running] = "running"
      /\ \A t \in Thd : status[t] = "running" <=> t = running
  BY Names DEF KInv, KTypes, Queue
<1>5. \A t \in Thd : st[t] = IF t = running THEN x ELSE status[t]  BY <1>1, <1>4 DEF KTypes
<1>6. \A t \in Thd : status[t] = "dying" => t = MainThread  BY DEF KInv, Absent
<1>7. \A t \in Thd : status'[t] = IF t = next THEN "running"
                                  ELSE IF st[t] = "dying" /\ t # MainThread THEN "free" ELSE st[t]
  BY <1>3
<1>8. \A t \in Thd : t \in ToSet(list) <=> st[t] = "ready" /\ t # idle_thread  BY <1>5
<1>9. /\ next \in Thd /\ ready_list' \in Seq(Thd) /\ IsInjective(ready_list')
      /\ ToSet(ready_list') = ToSet(list) \ {next}
      /\ \/ st[next] = "ready" /\ next # idle_thread
         \/ next = IdleThread /\ idle_thread = IdleThread
  <2>1. CASE list = <<>>
    <3>1. next = IdleThread /\ idle_thread = IdleThread /\ ready_list' = <<>>  BY <1>2, <1>3, <2>1 DEF next_thread_to_run
    <3>2. QED  BY <1>4, <2>1, <3>1, EmptyProperties
  <2>2. CASE list # <<>>
    <3>1. next = Head(list) /\ ready_list' = Tail(list)  BY <1>2, <1>3, <2>2 DEF next_thread_to_run
    <3>2. next \in Thd /\ next \in ToSet(list)  BY <2>2, <3>1, TailElements
    <3>3. ready_list' \in Seq(Thd) /\ IsInjective(ready_list') /\ ToSet(ready_list') = ToSet(list) \ {next}
      BY <2>2, <3>1, TailElements
    <3>4. QED  BY <1>8, <3>2, <3>3
  <2>3. QED  BY <2>1, <2>2
<1>10. Queue'
  <2>1. \A t \in Thd : status'[t] = "running" <=> t = running'  BY <1>3, <1>4, <1>5, <1>7
  <2>2. \A t \in Thd : t \in ToSet(ready_list') <=> status'[t] = "ready" /\ t # idle_thread'
    <3>1. SUFFICES ASSUME NEW t \in Thd PROVE t \in ToSet(ready_list') <=> status'[t] = "ready" /\ t # idle_thread
      OBVIOUS
    <3>2. status'[t] = "ready" <=> t # next /\ st[t] = "ready"  BY <1>7
    <3>3. QED  BY <1>8, <1>9, <3>2
  <2>3. QED  BY <1>9, <2>1, <2>2 DEF Queue
<1>11. status' \in [Thd -> {"free", "page", "blocked", "ready", "running", "dying"}]
  <2>1. \A t \in Thd : status'[t] \in {"free", "page", "blocked", "ready", "running", "dying"}
    BY <1>4, <1>5, <1>7 DEF KTypes
  <2>2. QED  BY <1>3, <2>1
<1>12. ASSUME NEW t \in Thd, t # running
       PROVE  \/ status'[t] = status[t]
              \/ status'[t] = "running" /\ (status[t] = "ready" \/ (status[t] = "blocked" /\ t = idle_thread))
  <2>1. CASE t # next  BY <1>5, <1>6, <1>7, <1>12, <2>1
  <2>2. CASE t = next
    <3>1. CASE st[next] = "ready"  BY <1>5, <1>7, <1>12, <2>2, <3>1
    <3>2. CASE next = IdleThread /\ idle_thread = IdleThread
      <4>1. status[IdleThread] \in {"running", "ready", "blocked"}  BY <3>2 DEF KInv, Starting
      <4>2. status[t] \in {"ready", "blocked"}  BY <1>4, <1>12, <2>2, <3>2, <4>1
      <4>3. QED  BY <1>7, <2>2, <3>2, <4>2
    <3>3. QED  BY <1>9, <3>1, <3>2
  <2>3. QED  BY <2>1, <2>2
<1>13. x = "ready" => status'[running] \in {"ready", "running"}  BY <1>4, <1>5, <1>7
<1>14. x = "blocked" => status'[running] = "blocked" \/ (status'[running] = "running" /\ running = idle_thread)
  BY <1>4, <1>5, <1>7, <1>9
<1>15. x = "dying" => status'[running] = IF running = MainThread THEN "dying" ELSE "free"
  BY <1>4, <1>5, <1>7, <1>9
<1>16. QED  BY <1>3, <1>9, <1>10, <1>11, <1>12, <1>13, <1>14, <1>15 DEF Moved

\* What thread_yield does to them.
LEMMA YieldMoves ==
    ASSUME KInv, thread_yield(status, ready_list), UNCHANGED idle_thread
    PROVE  Moved("ready")
<1>1. running \in Thd /\ ready_list \in Seq(Thd) /\ IsInjective(ready_list) /\ status[running] = "running"
      /\ idle_thread \in {NoThd, IdleThread}
  BY DEF KInv, KTypes, Queue
<1>2. \A t \in Thd : t \in ToSet(ready_list) <=> status[t] = "ready" /\ t # idle_thread  BY DEF KInv, Queue
<1>3. PICK list : list = IF running # idle_thread THEN Append(ready_list, running) ELSE ready_list  OBVIOUS
<1>4. Schedule([status EXCEPT ![running] = "ready"], list)  BY <1>3 DEF thread_yield
<1>5. CASE running # idle_thread
  <2>1. list = Append(ready_list, running) /\ running \notin ToSet(ready_list)  BY <1>1, <1>2, <1>3, <1>5
  <2>2. list \in Seq(Thd) /\ list # <<>> /\ IsInjective(list) /\ ToSet(list) = ToSet(ready_list) \cup {running}
    BY <1>1, <2>1, AppendElements
  <2>3. QED  BY <1>1, <1>2, <1>4, <1>5, <2>2, ScheduleMoves
<1>6. CASE running = idle_thread
  <2>1. idle_thread = IdleThread  BY <1>1, <1>6, Names
  <2>2. list = ready_list  BY <1>3, <1>6
  <2>3. QED  BY <1>1, <1>2, <1>4, <1>6, <2>1, <2>2, ScheduleMoves
<1>7. QED  BY <1>5, <1>6

\* What thread_block and thread_exit do to them.
LEMMA BlockMoves ==
    ASSUME KInv, NEW x \in {"blocked", "dying"}, Schedule([status EXCEPT ![running] = x], ready_list),
           ready_list = <<>> => idle_thread = IdleThread, UNCHANGED idle_thread, x = "dying" => running # IdleThread
    PROVE  Moved(x)
<1>1. running \in Thd /\ ready_list \in Seq(Thd) /\ IsInjective(ready_list) /\ status[running] = "running"
  BY DEF KInv, KTypes, Queue
<1>2. \A t \in Thd : t \in ToSet(ready_list) <=> status[t] = "ready" /\ t # idle_thread  BY DEF KInv, Queue
<1>3. \A t \in Thd : t \in ToSet(ready_list) <=>
             (IF t = running THEN x = "ready" ELSE status[t] = "ready") /\ t # idle_thread
  BY <1>1, <1>2
<1>4. QED  BY <1>1, <1>3, ScheduleMoves

\* What a switch leaves alone.
LEMMA MovedKeeps ==
    ASSUME KInv, NEW x \in {"ready", "blocked", "dying"}, Moved(x), NEW z, Becomes(running, z), Allowed(running, z),
           LockSame, SignalSame, MakeSame, NameSame,
           UNCHANGED <<idle_thread, value, holder, cond, tid, next_tid>>,
           waiters' \in [Semaphore -> Seq(Thd)], all_list' \in Seq(Thd)
    PROVE  /\ KTypes' /\ Rests' /\ Queue' /\ Made' /\ Locked' /\ Signals' /\ Tids'
           /\ \A t \in Thd : t # running => (status'[t] \in Dead <=> status[t] \in Dead)
           /\ \A t \in Thd : t # running /\ status[t] = "blocked" /\ t # idle_thread => status'[t] = "blocked"
<1>1. running \in Thd /\ Rests /\ KTypes /\ status[running] = "running"  BY DEF KInv, KTypes, Queue
<1>2. /\ running' \in Thd /\ ready_list' \in Seq(Thd) /\ Queue'
      /\ status' \in [Thd -> {"free", "page", "blocked", "ready", "running", "dying"}]
      /\ \A t \in Thd : t # running =>
           \/ status'[t] = status[t]
           \/ status'[t] = "running" /\ (status[t] = "ready" \/ (status[t] = "blocked" /\ t = idle_thread))
  BY DEF Moved
<1>3. KTypes'  BY <1>1, <1>2 DEF KTypes
<1>4. Rests'  BY <1>1, RestsBecome
<1>5. \A t \in Thd : t # running => (status'[t] \in Dead <=> status[t] \in Dead)  BY <1>2 DEF Dead
<1>6. \A t \in Thd : t # running /\ status[t] = "blocked" /\ t # idle_thread => status'[t] = "blocked"  BY <1>2
<1>7. Made'
  <2>1. ASSUME NEW u \in Thd, NEW t \in Thd, Making(todo[t], u) PROVE status'[u] = status[u] /\ todo'[u] = todo[u]
    <3>1. u # running /\ u # idle_thread /\ status[u] \in {"page", "blocked"}  BY <2>1, MadeIdle
    <3>2. QED  BY <1>2, <3>1 DEF Becomes
  <2>2. QED  BY <2>1, MadeStay DEF KInv
<1>8. Locked' /\ Signals'  BY <1>1, LockedStay, SignalsStay DEF KInv, KTypes
<1>9. Tids'
  <2>1. \A t \in Thd : status[t] \in Dead => status'[t] \in Dead  BY <1>1, <1>5 DEF Dead
  <2>2. QED  BY <2>1, TidsStay DEF KInv
<1>10. QED  BY <1>2, <1>3, <1>4, <1>5, <1>6, <1>7, <1>8, <1>9

\* A switch of threads keeps the waiting ones waiting.
LEMMA MovedWaiting ==
    ASSUME KInv, NEW x, Moved(x), NEW z, Becomes(running, z), UNCHANGED <<waiters, idle_thread>>,
           \A t \in Thd : t # running /\ status[t] = "blocked" /\ t # idle_thread => status'[t] = "blocked"
    PROVE  Waiting'
<1>1. SUFFICES ASSUME NEW s \in Semaphore
               PROVE  IsInjective(waiters[s]) /\ \A t \in ToSet(waiters[s]) : status'[t] = "blocked" /\ Downs(t, s)'
  BY DEF Waiting
<1>2. IsInjective(waiters[s])  BY DEF KInv, Waiting
<1>3. ASSUME NEW t \in ToSet(waiters[s]) PROVE status'[t] = "blocked" /\ Downs(t, s)'
  <2>1. waiters[s] \in Seq(Thd)  BY DEF KInv, KTypes
  <2>2. t \in Thd  BY <2>1, SeqElements
  <2>3. status[t] = "blocked" /\ Downs(t, s)  BY DEF KInv, Waiting
  <2>a. t # IdleThread  BY <2>2, <2>3, DownsOne DEF KInv
  <2>b. idle_thread \in {NoThd, IdleThread}  BY DEF KInv, KTypes
  <2>c. t # running  BY <2>2, <2>3 DEF KInv, Queue
  <2>4. t # running /\ t # idle_thread  BY <2>2, <2>a, <2>b, <2>c, Names
  <2>5. todo'[t] = todo[t] /\ status'[t] = "blocked"  BY <2>2, <2>3, <2>4 DEF Becomes
  <2>6. QED  BY <2>3, <2>5 DEF Downs
<1>4. QED  BY <1>2, <1>3

\* A switch of threads leaves nobody asleep on no list.
LEMMA MovedAsleep ==
    ASSUME KInv, NEW x, Moved(x), MakeSame, UNCHANGED <<waiters, idle_thread>>,
           x \in {"ready", "dying"} \/ (x = "blocked" /\ running = idle_thread)
    PROVE  Asleep'
<1>1. SUFFICES ASSUME NEW t \in Thd, status'[t] = "blocked"
               PROVE  \/ t = idle_thread \/ \E r \in Semaphore : t \in ToSet(waiters[r])
                      \/ \E u \in Thd : Making(todo'[u], t)
  BY DEF Asleep
<1>2. CASE t = running
  <2>1. x = "blocked"  BY <1>1, <1>2 DEF Moved
  <2>2. QED  BY <1>2, <2>1
<1>3. CASE t # running
  <2>1. status[t] = "blocked"  BY <1>1, <1>3 DEF Moved
  <2>2. QED  BY <2>1 DEF KInv, Asleep, MakeSame
<1>4. QED  BY <1>2, <1>3

\* A switch of threads makes none appear or vanish.
LEMMA MovedAbsent ==
    ASSUME KInv, NEW x \in {"ready", "blocked"}, Moved(x), NEW z, Becomes(running, z), UNCHANGED all_list
    PROVE  Absent'
<1>1. \A t \in Thd : /\ status'[t] \in {"free", "page", "dying"} => t # running /\ status'[t] = status[t]
                     /\ status[t] \in {"free", "page", "dying"} => status'[t] = status[t]
  <2>1. status[running] = "running" /\ running \in Thd  BY DEF KInv, Queue, KTypes
  <2>2. status'[running] \in {"ready", "running", "blocked"}  BY DEF Moved
  <2>3. \A t \in Thd : t # running =>
           \/ status'[t] = status[t]
           \/ status'[t] = "running" /\ (status[t] = "ready" \/ (status[t] = "blocked" /\ t = idle_thread))
    BY DEF Moved
  <2>4. QED  BY <2>1, <2>2, <2>3
<1>2. \A t \in Thd : status'[t] \in {"free", "page", "dying"} => todo'[t] = <<>>  BY <1>1 DEF KInv, Absent, Becomes
<1>3. \A t \in Thd : t \in ToSet(all_list) <=> status'[t] \notin {"free", "page", "dying"}
  BY <1>1 DEF KInv, Absent
<1>4. \A t \in Thd : status'[t] = "dying" => t = MainThread  BY <1>1 DEF KInv, Absent
<1>5. QED  BY <1>2, <1>3, <1>4 DEF KInv, Absent

\* A switch of threads keeps enough of them on their way.
LEMMA MovedEnough ==
    ASSUME KInv, NEW x, Moved(x), NEW z, Becomes(running, z), UNCHANGED <<waiters, value>>,
           \/ \A r : ~Downs(running, r)
           \/ x = "ready" /\ \A r : \A t \in Thd : Downs(t, r)' <=> Downs(t, r)
    PROVE  Enough'
<1>1. running \in Thd /\ status[running] = "running" /\ \A t \in Thd : status[t] = "running" <=> t = running
  BY DEF KInv, KTypes, Queue
<1>2. ASSUME NEW s, NEW t \in Coming(s) PROVE t \in Coming(s)'
  <2>1. t \in Thd /\ status[t] \in {"ready", "running"} /\ Downs(t, s)  BY <1>2 DEF Coming
  <2>2. CASE t # running
    <3>1. status'[t] \in {"ready", "running"}  BY <2>1, <2>2 DEF Moved
    <3>2. todo'[t] = todo[t]  BY <2>1, <2>2 DEF Becomes
    <3>3. QED  BY <2>1, <3>1, <3>2 DEF Coming, Downs
  <2>3. CASE t = running
    <3>1. x = "ready" /\ \A v \in Thd : Downs(v, s)' <=> Downs(v, s)  BY <2>1, <2>3
    <3>2. status'[t] \in {"ready", "running"}  BY <2>3, <3>1 DEF Moved
    <3>3. Downs(t, s)'  BY <2>1, <3>1
    <3>4. QED  BY <2>1, <3>2, <3>3 DEF Coming
  <2>4. QED  BY <2>2, <2>3
<1>3. \A s : Coming(s) \subseteq Coming(s)'  BY <1>2
<1>4. KTypes /\ Enough /\ \A s \in Semaphore : value[s] \in Nat  BY DEF KInv, KTypes
<1>5. QED  BY <1>3, <1>4, EnoughStay

\* The idle thread blocks, and is itself what runs next when nobody is ready.
LEMMA IdleBlockStep ==
    ASSUME KInv, IdleBlock
    PROVE  KInv'
<1>1. Step("block")  BY DEF IdleBlock
<1>2. PICK q : q = todo[running]  OBVIOUS
<1>3. /\ running \in Thd /\ q # <<>> /\ Known(q) /\ Head(q).op = "block" /\ Rests /\ KTypes
      /\ \A z : Then(z) => Becomes(running, z)
  BY <1>1, <1>2, AtStep
<1>4. running = IdleThread
  <2>1. SUFFICES ASSUME running # IdleThread PROVE FALSE  OBVIOUS
  <2>2. WorkHead(q) \/ StartHead(q)  BY <1>2, <1>3, <2>1, RestOf
  <2>3. QED  BY <1>3, <2>2 DEF WorkHead, StartHead
<1>5. q = I1  BY <1>2, <1>3, <1>4, NotIdle
<1>6. /\ Schedule([status EXCEPT ![running] = "blocked"], ready_list)
      /\ UNCHANGED <<all_list, idle_thread, intr, value, waiters, holder, cond, tid, next_tid>>
      /\ Becomes(running, Halted)
  BY <1>3, OneCalls DEF IdleBlock, thread_block
<1>7. idle_thread = IdleThread /\ IdleThread \in Thd /\ NoThd # IdleThread
  <2>1. I1 # I3  BY IdleRests
  <2>2. idle_thread # NoThd
    <3>1. SUFFICES ASSUME idle_thread = NoThd PROVE FALSE  OBVIOUS
    <3>2. running = MainThread \/ todo[IdleThread] = I3  BY <3>1, Beginning
    <3>3. QED  BY <1>2, <1>4, <1>5, <2>1, <3>2, Names
  <2>3. QED  BY <1>3, <2>2, Names DEF KTypes
<1>8. Moved("blocked")  BY <1>6, <1>7, BlockMoves
<1>9. Allowed(running, Halted)  BY <1>4 DEF Allowed, IdleRest
<1>10. LockSame /\ SignalSame /\ MakeSame /\ NameSame  BY <1>2, <1>3, <1>5, <1>6, SilentRests, SilentSame
<1>11. /\ KTypes' /\ Rests' /\ Queue' /\ Made' /\ Locked' /\ Signals' /\ Tids'
       /\ \A t \in Thd : t # running /\ status[t] = "blocked" /\ t # idle_thread => status'[t] = "blocked"
  BY <1>3, <1>6, <1>8, <1>9, <1>10, MovedKeeps DEF KTypes
<1>12. Waiting'  BY <1>6, <1>8, <1>11, MovedWaiting
<1>13. Asleep'  BY <1>4, <1>6, <1>7, <1>8, <1>10, MovedAsleep
<1>14. Absent'  BY <1>6, <1>8, MovedAbsent
<1>15. Starting'
  <2>1. todo'[IdleThread] = Halted /\ status'[IdleThread] \in {"running", "blocked"}
    BY <1>4, <1>6, <1>7, <1>8 DEF Becomes, Moved
  <2>2. QED  BY <1>6, <1>7, <2>1 DEF Starting
<1>16. Enough'
  <2>1. \A r : ~Downs(running, r)  BY <1>2, <1>3, NotDown
  <2>2. QED  BY <1>6, <1>8, <2>1, MovedEnough
<1>17. QED  BY <1>11, <1>12, <1>13, <1>14, <1>15, <1>16 DEF KInv

\* thread_yield of a thread past thread_start.
LEMMA YieldStep ==
    ASSUME KInv, thread_yield(status, ready_list), NEW z, Becomes(running, z), Allowed(running, z),
           LockSame, SignalSame, MakeSame, NameSame,
           \/ \A r : ~Downs(running, r)
           \/ \A r : \A t \in Thd : Downs(t, r)' <=> Downs(t, r),
           UNCHANGED <<all_list, idle_thread, value, waiters, holder, cond, tid, next_tid>>
    PROVE  /\ Moved("ready")
           /\ KTypes' /\ Rests' /\ Queue' /\ Waiting' /\ Asleep' /\ Absent' /\ Made' /\ Locked' /\ Signals' /\ Tids' /\ Enough'
<1>1. Moved("ready")  BY YieldMoves
<1>2. KTypes  BY DEF KInv
<1>3. /\ KTypes' /\ Rests' /\ Queue' /\ Made' /\ Locked' /\ Signals' /\ Tids'
      /\ \A t \in Thd : t # running /\ status[t] = "blocked" /\ t # idle_thread => status'[t] = "blocked"
  BY <1>1, <1>2, MovedKeeps DEF KTypes
<1>4. Waiting'  BY <1>1, <1>3, MovedWaiting
<1>5. Asleep'  BY <1>1, MovedAsleep
<1>6. Absent'  BY <1>1, MovedAbsent
<1>7. Enough'  BY <1>1, MovedEnough
<1>8. QED  BY <1>1, <1>3, <1>4, <1>5, <1>6, <1>7

\* timer_sleep's round and thread_yield.
LEMMA YieldsStep ==
    ASSUME KInv, NEW o \in {"nap", "yield"}, Step(o), thread_yield(status, ready_list),
           todo' = todo \/ Done, UNCHANGED <<all_list, idle_thread, value, waiters, holder, cond, tid, next_tid>>
    PROVE  KInv'
<1>2. PICK q : q = todo[running]  OBVIOUS
<1>3. /\ running \in Thd /\ q # <<>> /\ Known(q) /\ Head(q).op = o /\ Rests /\ KTypes
      /\ (Done => Becomes(running, Tail(q)))
  BY <1>2, AtStep
<1>4. running # IdleThread  BY <1>2, <1>3, NotIdle
<1>5. idle_thread = IdleThread /\ q \in WorkRest /\ \A z \in WorkRest : Allowed(running, z)
  BY <1>2, <1>3, <1>4, Started
<1>6. PICK z : Becomes(running, z) /\ Allowed(running, z) /\ LockSame /\ SignalSame /\ MakeSame /\ NameSame
  <2>1. CASE todo' = todo
    <3>1. Becomes(running, q)  BY <1>2, <1>3, <2>1 DEF Becomes, Rests
    <3>2. LockSame /\ SignalSame /\ MakeSame /\ NameSame  BY <2>1 DEF LockSame, SignalSame, MakeSame, NameSame
    <3>3. QED  BY <1>5, <3>1, <3>2
  <2>2. CASE Done
    <3>1. Becomes(running, Tail(q))  BY <1>3, <2>2
    <3>2. LockSame /\ SignalSame /\ MakeSame /\ NameSame  BY <1>2, <1>3, <3>1, AdvanceSame
    <3>3. Allowed(running, Tail(q))  BY <1>2, <1>3, NextAllowed
    <3>4. QED  BY <3>1, <3>2, <3>3
  <2>3. QED  BY <2>1, <2>2
<1>7. \A r : ~Downs(running, r)  BY <1>2, <1>3, NotDown
<1>8. /\ Moved("ready")
      /\ KTypes' /\ Rests' /\ Queue' /\ Waiting' /\ Asleep' /\ Absent' /\ Made' /\ Locked' /\ Signals' /\ Tids' /\ Enough'
  BY <1>6, <1>7, YieldStep
<1>9. Starting'
  <2>1. status[IdleThread] \in {"running", "ready", "blocked"} /\ IdleThread \in Thd
    BY <1>5, Names DEF KInv, Starting
  <2>2. status'[IdleThread] \in {"running", "ready", "blocked"}  BY <1>4, <1>8, <2>1 DEF Moved
  <2>3. QED  BY <1>4, <1>5, <1>6, <2>2, StartedStay
<1>10. QED  BY <1>8, <1>9 DEF KInv

\* timer_sleep: yields until its ticks have passed.
LEMMA TimerSleepStep ==
    ASSUME KInv, TimerSleep
    PROVE  KInv'
<1>1. Step("nap") /\ UNCHANGED <<all_list, idle_thread, intr, value, waiters, holder, cond, tid, next_tid>>
  BY DEF TimerSleep
<1>2. CASE Done /\ UNCHANGED sched  BY <1>1, <1>2, AdvanceStep DEF sched
<1>3. CASE thread_yield(status, ready_list) /\ UNCHANGED todo  BY <1>1, <1>3, YieldsStep
<1>4. QED  BY <1>2, <1>3 DEF TimerSleep

\* thread_yield.
LEMMA ThreadYieldStep ==
    ASSUME KInv, ThreadYield
    PROVE  KInv'
  BY YieldsStep DEF ThreadYield

\* A thread about to exit says nothing else.
LEMMA ExitSilent ==
    ASSUME NEW q \in WorkRest, q # <<>>, Head(q).op = "exit"
    PROVE  Silent(q)
<1>1. q \notin MonitorRest
  <2>1. SUFFICES ASSUME q \in MonitorRest PROVE FALSE  OBVIOUS
  <2>2. Leads(q, MonitorOps, MonitorArgs, MonitorRest \cup {<<>>})  BY <2>1, MonitorRests
  <2>3. QED  BY <2>2 DEF Leads, MonitorOps
<1>2. \A u \in Worker : q \notin MakeRest(u, <<>>)
  <2>1. SUFFICES ASSUME NEW u \in Worker, q \in MakeRest(u, <<>>) PROVE FALSE  OBVIOUS
  <2>2. After(<<>>)  BY Nothing DEF After
  <2>3. \/ Leads(q, MakeOps, {u}, MakeRest(u, <<>>) \cup {<<>>})
        \/ Leads(q, TidOps, {"tid"}, MakeRest(u, <<>>) \cup {<<>>})
    BY <2>1, <2>2, MakeRests
  <2>4. QED  BY <2>3 DEF Leads, MakeOps, TidOps
<1>3. q \in OneRest  BY <1>1, <1>2 DEF WorkRest
<1>4. PICK o, a : OneCall(o, a) /\ q = One(o, a)  BY <1>3 DEF OneRest, OneCall
<1>5. QED  BY <1>4, SilentRests

\* thread_exit: off the list of all threads, and freed by the next one.
LEMMA ThreadExitStep ==
    ASSUME KInv, ThreadExit
    PROVE  KInv'
<1>1. Step("exit")  BY DEF ThreadExit
<1>2. PICK q : q = todo[running]  OBVIOUS
<1>3. /\ running \in Thd /\ q # <<>> /\ Known(q) /\ Head(q).op = "exit" /\ Rests /\ KTypes
      /\ \A z : Then(z) => Becomes(running, z)
  BY <1>1, <1>2, AtStep
<1>4. /\ Schedule([status EXCEPT ![running] = "dying"], ready_list) /\ all_list' = list_remove(all_list, running)
      /\ UNCHANGED <<idle_thread, intr, value, waiters, holder, cond, tid, next_tid>> /\ Becomes(running, <<>>)
  BY <1>3 DEF ThreadExit
<1>5. running # IdleThread  BY <1>2, <1>3, NotIdle
<1>6. idle_thread = IdleThread /\ q \in WorkRest /\ Allowed(running, <<>>) /\ IdleThread \in Thd
  <2>1. <<>> \in WorkRest  BY DEF WorkRest
  <2>2. QED  BY <1>2, <1>3, <1>5, <2>1, Started, Names
<1>7. Moved("dying")  BY <1>4, <1>5, <1>6, BlockMoves
<1>8. status[running] = "running"  BY <1>3 DEF KInv, Queue
<1>9. all_list' \in Seq(Thd) /\ IsInjective(all_list') /\ ToSet(all_list') = ToSet(all_list) \ {running}
  <2>1. all_list \in Seq(Thd) /\ IsInjective(all_list) /\ running \in ToSet(all_list)
    BY <1>3, <1>8 DEF KTypes, KInv, Absent
  <2>2. DOMAIN all_list = 1 .. Len(all_list) /\ \E i \in 1 .. Len(all_list) : all_list[i] = running
    BY <2>1, SeqElements
  <2>3. PICK i : i = CHOOSE j \in DOMAIN all_list : all_list[j] = running  OBVIOUS
  <2>4. i \in 1 .. Len(all_list) /\ all_list[i] = running  BY <2>2, <2>3
  <2>5. all_list' = RemoveAt(all_list, i)  BY <1>4, <2>3 DEF list_remove
  <2>6. QED  BY <2>1, <2>4, <2>5, RemoveAtElements
<1>10. Silent(q)  BY <1>3, <1>6, ExitSilent
<1>11. LockSame /\ SignalSame /\ MakeSame /\ NameSame  BY <1>2, <1>3, <1>4, <1>10, SilentRests, SilentSame
<1>12. /\ KTypes' /\ Rests' /\ Queue' /\ Made' /\ Locked' /\ Signals' /\ Tids'
       /\ \A t \in Thd : t # running => (status'[t] \in Dead <=> status[t] \in Dead)
       /\ \A t \in Thd : t # running /\ status[t] = "blocked" /\ t # idle_thread => status'[t] = "blocked"
  BY <1>3, <1>4, <1>6, <1>7, <1>9, <1>11, MovedKeeps DEF KTypes
<1>13. Waiting'  BY <1>4, <1>7, <1>12, MovedWaiting
<1>14. Asleep'  BY <1>4, <1>7, <1>11, MovedAsleep
<1>15. Absent'
  <2>1. status'[running] = IF running = MainThread THEN "dying" ELSE "free"  BY <1>7 DEF Moved
  <2>2. \A t \in Thd : t # running => (status'[t] = "dying" => status[t] = "dying")  BY <1>7 DEF Moved
  <2>3. \A t \in Thd : t \in ToSet(all_list') <=> status'[t] \notin {"free", "page", "dying"}
    BY <1>9, <1>12, <2>1 DEF KInv, Absent, Dead
  <2>4. \A t \in Thd : status'[t] \in {"free", "page", "dying"} => todo'[t] = <<>>
    BY <1>4, <1>12 DEF KInv, Absent, Dead, Becomes
  <2>5. \A t \in Thd : status'[t] = "dying" => t = MainThread  BY <2>1, <2>2 DEF KInv, Absent
  <2>6. QED  BY <1>9, <2>3, <2>4, <2>5 DEF Absent
<1>16. Starting'
  <2>1. status[IdleThread] \in {"running", "ready", "blocked"}  BY <1>6 DEF KInv, Starting
  <2>2. status'[IdleThread] \in {"running", "ready", "blocked"}  BY <1>5, <1>6, <1>7, <2>1 DEF Moved
  <2>3. QED  BY <1>4, <1>5, <1>6, <2>2, StartedStay
<1>17. Enough'
  <2>1. \A r : ~Downs(running, r)  BY <1>2, <1>3, NotDown
  <2>2. QED  BY <1>4, <1>7, <2>1, MovedEnough
<1>18. QED  BY <1>12, <1>13, <1>14, <1>15, <1>16, <1>17 DEF KInv

\* The timer's interrupt, which may preempt the running thread.
LEMMA TimerInterruptStep ==
    ASSUME KInv, TimerInterrupt
    PROVE  KInv'
<1>1. /\ Then(Resumed(running)) /\ intr /\ thread_tick
      /\ UNCHANGED <<all_list, idle_thread, intr, value, waiters, holder, cond, tid, next_tid>>
  BY DEF TimerInterrupt
<1>2. running \in Thd /\ KTypes /\ status[running] = "running"  BY DEF KInv, KTypes, Queue
<1>3. PICK z : z = Resumed(running)  OBVIOUS
<1>4. /\ Becomes(running, z) /\ Allowed(running, z) /\ LockSame /\ SignalSame /\ MakeSame /\ NameSame
      /\ \A t \in Thd : todo'[t] = todo[t] \/ (t = IdleThread /\ todo[t] = Halted /\ todo'[t] = I1)
      /\ \A r : \A t \in Thd : Downs(t, r)' <=> Downs(t, r)
  BY <1>1, <1>3, ResumedFacts
<1>5. CASE thread_yield(status, ready_list)
  <2>1. /\ Moved("ready")
        /\ KTypes' /\ Rests' /\ Queue' /\ Waiting' /\ Asleep' /\ Absent' /\ Made' /\ Locked' /\ Signals' /\ Tids' /\ Enough'
    BY <1>1, <1>4, <1>5, YieldStep
  <2>2. \A t \in Thd : \/ status'[t] = status[t]
                       \/ status[t] \in {"ready", "running", "blocked"} /\ status'[t] \in {"ready", "running"}
    BY <1>2, <2>1 DEF Moved
  <2>3. Starting'  BY <1>1, <1>4, <2>2, StartingSame
  <2>4. QED  BY <2>1, <2>3 DEF KInv
<1>6. CASE UNCHANGED <<status, running, ready_list>>
  <2>1. Rests' /\ Queue' /\ Waiting' /\ Asleep' /\ Absent' /\ Made'  BY <1>1, <1>4, <1>6, StillMove
  <2>2. Starting'  BY <1>1, <1>4, <1>6, StartingSame
  <2>3. KTypes'  BY <1>1, <1>2, <1>6 DEF KTypes
  <2>4. Locked' /\ Signals'  BY <1>1, <1>2, <1>4, LockedStay, SignalsStay DEF KInv, KTypes
  <2>5. Tids'  BY <1>1, <1>4, <1>6, TidsStay DEF KInv
  <2>6. Enough'
    <3>1. \A s : Coming(s) \subseteq Coming(s)'  BY <1>4, <1>6 DEF Coming
    <3>2. \A s \in Semaphore : value[s] \in Nat  BY <1>2 DEF KTypes
    <3>3. QED  BY <1>1, <1>2, <3>1, <3>2, EnoughStay DEF KInv
  <2>7. QED  BY <2>1, <2>2, <2>3, <2>4, <2>5, <2>6 DEF KInv
<1>7. QED  BY <1>1, <1>5, <1>6 DEF thread_tick

\* sema_down of a semaphore that is 0: the thread waits.  Before the idle thread
\* has run this is the main thread at the end of thread_start.
LEMMA SemaBlockStep ==
    ASSUME KInv, SemaDown, NEW s, s = (IF Now.op = "down_own" THEN running ELSE Now.arg), ~(value[s] > 0)
    PROVE  KInv'
<1>1. PICK o \in {"down", "down_own"} : Step(o)  BY DEF SemaDown
<1>2. PICK q : q = todo[running]  OBVIOUS
<1>3. running \in Thd /\ q # <<>> /\ Known(q) /\ Head(q).op = o /\ Now = Head(q) /\ Rests /\ KTypes
  BY <1>1, <1>2, AtStep
<1>4. /\ waiters' = [waiters EXCEPT ![s] = Append(@, running)]
      /\ Schedule([status EXCEPT ![running] = "blocked"], ready_list)
      /\ UNCHANGED <<value, todo, all_list, idle_thread, intr, holder, cond, tid, next_tid>>
  BY DEF SemaDown, thread_block
<1>5. running # IdleThread  BY <1>2, <1>3, NotIdle
<1>6. Downs(running, s)
  <2>1. CASE o = "down"
    <3>1. Begins(q, "down", s)  BY <1>3, <2>1, HeadOf
    <3>2. QED  BY <1>2, <3>1 DEF Downs
  <2>2. CASE o = "down_own"
    <3>1. q \in WorkRest  BY <1>2, <1>3, <1>5, <2>2, Started
    <3>2. q = W1  BY <1>3, <2>2, <3>1, MonitorOnly
    <3>3. Begins(q, "down_own", NoThd)  BY <3>2, MonitorShapes DEF Shape, Begins
    <3>4. QED  BY <1>2, <1>3, <2>2, <3>3 DEF Downs
  <2>3. QED  BY <1>1, <2>1, <2>2
<1>7. s \in Semaphore /\ \A r : Downs(running, r) => r = s  BY <1>3, <1>6, DownsOne
<1>8. value[s] = 0
  <2>1. value[s] \in Nat  BY <1>3, <1>7 DEF KTypes
  <2>2. QED  BY <2>1
<1>9. idle_thread \in {NoThd, IdleThread} /\ IdleThread \in Thd /\ MainThread \in Thd /\ NoThd \notin Thd
      /\ Worker \subseteq Thd
  BY <1>3, Names DEF KTypes
<1>10. idle_thread = NoThd =>
         /\ running = MainThread /\ todo[IdleThread] = I3 /\ status[IdleThread] = "ready" /\ todo[MainThread] \in StartRest
         /\ value["idle_started"] = 0 /\ \A t \in Worker : status[t] = "free"
  <2>1. SUFFICES ASSUME idle_thread = NoThd
                 PROVE  /\ running = MainThread /\ todo[IdleThread] = I3 /\ status[IdleThread] = "ready"
                        /\ todo[MainThread] \in StartRest
                        /\ value["idle_started"] = 0 /\ \A t \in Worker : status[t] = "free"
    OBVIOUS
  <2>2. /\ q \in StartRest /\ StartHead(q) /\ running = MainThread /\ value["idle_started"] = 0
        /\ todo[MainThread] \in StartRest /\ \A t \in Worker : status[t] = "free" /\ todo[t] = <<>>
        /\ \/ Making(todo[MainThread], IdleThread)
           \/ todo[IdleThread] = I3 /\ status[IdleThread] \in {"running", "ready"}
    BY <1>2, <1>5, <2>1, Beginning
  <2>3. o = "down" /\ s = Head(q).arg /\ s \in {"tid", "idle_started"}  BY <1>1, <1>3, <2>2 DEF StartHead
  <2>4. s # "tid"
    <3>1. SUFFICES ASSUME s = "tid" PROVE FALSE  OBVIOUS
    <3>2. PICK t \in Thd : Has(todo[t], "tid")  BY <1>8, <3>1, Names DEF KInv, Locked
    <3>3. t # MainThread
      <4>1. ~Has(q, "tid")  BY <1>3, <2>3, HeadOf DEF Has
      <4>2. QED  BY <1>2, <2>2, <3>2, <4>1
    <3>4. t \notin Worker  BY <2>2, <3>2, EmptyFacts
    <3>5. t = IdleThread  BY <3>3, <3>4 DEF Thd
    <3>6. todo[IdleThread] \in {<<>>, I1, I2, I3, Halted}  BY <1>3 DEF Rests, IdleRest
    <3>7. ~Has(todo[IdleThread], "tid")  BY <3>6, SilentRests, Names DEF Silent
    <3>8. QED  BY <3>2, <3>5, <3>7
  <2>5. q = E1  BY <1>3, <2>2, <2>3, <2>4 DEF StartHead
  <2>6. ~Making(q, IdleThread)  BY <2>5, StartMentions DEF Apart
  <2>7. todo[IdleThread] = I3 /\ status[IdleThread] \in {"running", "ready"}  BY <1>2, <2>2, <2>6
  <2>8. status[IdleThread] # "running"  BY <1>5, <1>9 DEF KInv, Queue
  <2>9. QED  BY <2>2, <2>7, <2>8
<1>11. ready_list = <<>> => idle_thread = IdleThread
  <2>1. SUFFICES ASSUME idle_thread = NoThd PROVE ready_list # <<>>  BY <1>9
  <2>2. IdleThread \in ToSet(ready_list)  BY <1>9, <1>10, <2>1 DEF KInv, Queue
  <2>3. QED  BY <2>2, EmptyProperties
<1>12. Moved("blocked")  BY <1>4, <1>11, BlockMoves
<1>13. Becomes(running, q) /\ Allowed(running, q)
  <2>1. Becomes(running, q)  BY <1>2, <1>3, <1>4 DEF Becomes, Rests
  <2>2. Allowed(running, q)  BY <1>2, <1>3 DEF Allowed, Rests, Thd
  <2>3. QED  BY <2>1, <2>2
<1>14. LockSame /\ SignalSame /\ MakeSame /\ NameSame  BY <1>4 DEF LockSame, SignalSame, MakeSame, NameSame
<1>15. waiters[s] \in Seq(Thd) /\ IsInjective(waiters[s]) /\ running \notin ToSet(waiters[s])
  <2>1. waiters[s] \in Seq(Thd)  BY <1>3, <1>7 DEF KTypes
  <2>2. status[running] = "running"  BY <1>3 DEF KInv, Queue
  <2>3. QED  BY <1>7, <2>1, <2>2 DEF KInv, Waiting
<1>16. /\ \A r \in Semaphore : waiters'[r] = IF r = s THEN Append(waiters[s], running) ELSE waiters[r]
       /\ Append(waiters[s], running) \in Seq(Thd) /\ IsInjective(Append(waiters[s], running))
       /\ ToSet(Append(waiters[s], running)) = ToSet(waiters[s]) \cup {running}
  BY <1>3, <1>4, <1>15, AppendElements DEF KTypes
<1>17. waiters' \in [Semaphore -> Seq(Thd)]  BY <1>3, <1>4, <1>16 DEF KTypes
<1>18. /\ KTypes' /\ Rests' /\ Queue' /\ Made' /\ Locked' /\ Signals' /\ Tids'
       /\ \A t \in Thd : t # running /\ status[t] = "blocked" /\ t # idle_thread => status'[t] = "blocked"
  BY <1>3, <1>4, <1>12, <1>13, <1>14, <1>17, MovedKeeps DEF KTypes
<1>19. running # idle_thread  BY <1>3, <1>5, <1>9
<1>20. status'[running] = "blocked"  BY <1>12, <1>19 DEF Moved
<1>21. Waiting'
  <2>1. SUFFICES ASSUME NEW r \in Semaphore
                 PROVE  IsInjective(waiters'[r]) /\ \A t \in ToSet(waiters'[r]) : status'[t] = "blocked" /\ Downs(t, r)'
    BY DEF Waiting
  <2>2. IsInjective(waiters'[r])  BY <1>16 DEF KInv, Waiting
  <2>3. ASSUME NEW t \in ToSet(waiters[r]) PROVE status'[t] = "blocked" /\ Downs(t, r)'
    <3>1. waiters[r] \in Seq(Thd)  BY <1>3 DEF KTypes
    <3>2. t \in Thd  BY <3>1, SeqElements
    <3>3. status[t] = "blocked" /\ Downs(t, r)  BY DEF KInv, Waiting
    <3>4. t # IdleThread  BY <1>3, <3>2, <3>3, DownsOne
    <3>5. t # running /\ t # idle_thread  BY <1>9, <3>2, <3>3, <3>4 DEF KInv, Queue
    <3>6. QED  BY <1>4, <1>18, <3>2, <3>3, <3>5 DEF Downs
  <2>4. CASE r = s
    <3>1. Downs(running, r) /\ todo' = todo  BY <1>4, <1>6, <2>4
    <3>2. ASSUME NEW t, t = running PROVE status'[t] = "blocked" /\ Downs(t, r)'
      BY <1>20, <3>1, <3>2 DEF Downs
    <3>3. QED  BY <1>16, <2>2, <2>3, <2>4, <3>2
  <2>5. CASE r # s  BY <1>16, <2>2, <2>3, <2>5
  <2>6. QED  BY <2>4, <2>5
<1>22. Asleep'
  <2>1. SUFFICES ASSUME NEW t \in Thd, status'[t] = "blocked"
                 PROVE  \/ t = idle_thread \/ \E r \in Semaphore : t \in ToSet(waiters'[r])
                        \/ \E u \in Thd : Making(todo[u], t)
    BY <1>4 DEF Asleep
  <2>2. \A r \in Semaphore : ToSet(waiters[r]) \subseteq ToSet(waiters'[r])  BY <1>16
  <2>3. CASE t = running  BY <1>7, <1>16, <2>3
  <2>4. CASE t # running
    <3>1. status[t] = "blocked"  BY <1>12, <2>1, <2>4 DEF Moved
    <3>2. QED  BY <2>2, <3>1 DEF KInv, Asleep
  <2>5. QED  BY <2>3, <2>4
<1>23. Absent'  BY <1>4, <1>12, <1>13, MovedAbsent
<1>24. status'[IdleThread] = status[IdleThread] \/ status'[IdleThread] = "running"
  BY <1>5, <1>9, <1>12 DEF Moved
<1>25. Starting'
  <2>1. CASE idle_thread = IdleThread
    <3>1. status[IdleThread] \in {"running", "ready", "blocked"}  BY <2>1 DEF KInv, Starting
    <3>2. QED  BY <1>4, <1>5, <1>13, <1>24, <2>1, <3>1, StartedStay
  <2>2. CASE idle_thread = NoThd
    <3>1. \A t \in Worker : status'[t] = "free"  BY <1>5, <1>9, <1>10, <1>12, <2>2, Names DEF Moved
    <3>2. QED  BY <1>4, <1>9, <1>10, <1>24, <2>2, <3>1 DEF Starting
  <2>3. QED  BY <1>9, <2>1, <2>2
<1>26. Enough'
  <2>1. SUFFICES ASSUME NEW r \in Semaphore, waiters'[r] # <<>> PROVE Cardinality(Coming(r)') >= value[r]
    BY <1>4 DEF Enough
  <2>2. Coming(r)' \subseteq Thd  BY DEF Coming
  <2>3. IsFiniteSet(Coming(r)') /\ Cardinality(Coming(r)') \in Nat
    BY <2>2, FiniteThreads, FS_Subset, FS_CardinalityType
  <2>4. CASE r = s  BY <1>8, <2>3, <2>4
  <2>5. CASE r # s
    <3>1. waiters[r] # <<>>  BY <1>16, <2>1, <2>5
    <3>2. Cardinality(Coming(r)) >= value[r] /\ value[r] \in Nat  BY <1>3, <3>1 DEF KInv, Enough, KTypes
    <3>3. Coming(r) \subseteq Coming(r)'
      <4>1. SUFFICES ASSUME NEW t \in Coming(r) PROVE t \in Coming(r)'  OBVIOUS
      <4>2. t \in Thd /\ status[t] \in {"ready", "running"} /\ Downs(t, r)  BY DEF Coming
      <4>3. t # running  BY <1>7, <2>5, <4>2
      <4>4. status'[t] \in {"ready", "running"}  BY <1>12, <4>2, <4>3 DEF Moved
      <4>5. QED  BY <1>4, <4>2, <4>4 DEF Coming, Downs
    <3>4. Cardinality(Coming(r)) <= Cardinality(Coming(r)') /\ Cardinality(Coming(r)) \in Nat
      BY <2>3, <3>3, FS_Subset, FiniteThreads
    <3>5. QED  BY <2>3, <3>2, <3>4
  <2>6. QED  BY <2>4, <2>5
<1>27. QED  BY <1>18, <1>21, <1>22, <1>23, <1>25, <1>26 DEF KInv

\* sema_down, whether it blocks or not.
LEMMA SemaDownStep ==
    ASSUME KInv, SemaDown
    PROVE  KInv'
<1>1. PICK s : s = (IF Now.op = "down_own" THEN running ELSE Now.arg)  OBVIOUS
<1>2. CASE value[s] > 0  BY <1>1, <1>2, SemaTakeStep
<1>3. CASE ~(value[s] > 0)  BY <1>1, <1>3, SemaBlockStep
<1>4. QED  BY <1>2, <1>3

\* The state that thread_init leaves.
LEMMA KernStart ==
    ASSUME KernInit
    PROVE  KInv
<1>1. /\ MainThread \in Thd /\ IdleThread \in Thd /\ MainThread # IdleThread /\ Worker \subseteq Thd
      /\ MainThread \notin Worker /\ IdleThread \notin Worker /\ NoThd \notin Thd
      /\ Lock \subseteq Semaphore /\ Thd \subseteq Semaphore /\ "idle_started" \in Semaphore
      /\ "idle_started" \notin Lock /\ Lock \cap Thd = {}
  BY Names DEF Lock, Semaphore
<1>2. PICK c : c = C8(IdleThread, E2)  OBVIOUS
<1>3. DOMAIN todo = Thd /\ \A t \in Thd : todo[t] = IF t = MainThread THEN c ELSE <<>>
  BY <1>2, MakeCalls DEF KernInit
<1>4. \A t \in Thd : status[t] = IF t = MainThread THEN "running" ELSE IF t = IdleThread THEN "page" ELSE "free"
  <2>1. SUFFICES ASSUME NEW t \in Thd
                 PROVE  status[t] = IF t = MainThread THEN "running" ELSE IF t = IdleThread THEN "page" ELSE "free"
    OBVIOUS
  <2>2. status[t] = CASE t = MainThread -> "running" [] t = IdleThread -> "page" [] OTHER -> "free"  BY DEF KernInit
  <2>3. CASE t = MainThread  BY <1>1, <2>2, <2>3
  <2>4. CASE t = IdleThread  BY <1>1, <2>2, <2>4
  <2>5. CASE t # MainThread /\ t # IdleThread  BY <2>2, <2>5
  <2>6. QED  BY <2>3, <2>4, <2>5
<1>5. /\ running = MainThread /\ ready_list = <<>> /\ all_list = <<MainThread>> /\ idle_thread = NoThd /\ intr = FALSE
      /\ cond = <<>> /\ next_tid = 2
      /\ \A s \in Semaphore : value[s] = (IF s \in Lock THEN 1 ELSE 0) /\ waiters[s] = <<>>
      /\ \A l \in Lock : holder[l] = NoThd
      /\ \A t \in Thd : tid[t] = IF t = MainThread THEN 1 ELSE 0
  BY DEF KernInit
<1>6. c \in StartRest /\ Known(c) /\ Head(c).op = "init" /\ Head(c).arg = IdleThread
      /\ \A t : Making(c, t) <=> t = IdleThread
  <2>1. c \in StartRest  BY <1>2 DEF StartRest, MakeRest
  <2>2. Known(c)  BY <2>1, StartRests
  <2>3. Shape(c, "init", IdleThread, C7(IdleThread, E2))  BY <1>1, <1>2, StartShapes, MakeShapes
  <2>4. Head(c).op = "init" /\ Head(c).arg = IdleThread  BY <2>3 DEF Shape
  <2>5. QED  BY <2>1, <2>2, <2>4 DEF Known, MakesKnown
<1>7. /\ \A p, b : Begins(c, p, b) <=> p = "init" /\ b = IdleThread
      /\ \A l \in Lock : ~Has(c, l) /\ ~Holds(c, l)
      /\ ~InWait(c)
  BY <1>6, HeadOf DEF Has
<1>8. KTypes
  <2>1. status \in [Thd -> {"free", "page", "blocked", "ready", "running", "dying"}]
    <3>1. \A t \in Thd : status[t] \in {"free", "page", "blocked", "ready", "running", "dying"}  BY <1>4
    <3>2. QED  BY <3>1 DEF KernInit
  <2>2. value \in [Semaphore -> Nat] /\ waiters \in [Semaphore -> Seq(Thd)]  BY DEF KernInit
  <2>3. tid \in [Thd -> Nat] /\ next_tid \in Nat /\ holder \in [Lock -> Thd \cup {NoThd}]  BY DEF KernInit
  <2>4. QED  BY <1>1, <1>5, <2>1, <2>2, <2>3 DEF KTypes
<1>9. Rests  BY <1>1, <1>3, <1>6 DEF Rests, WorkRest
<1>10. Queue  BY <1>1, <1>4, <1>5, EmptyProperties DEF Queue
<1>11. Waiting  BY <1>5, EmptyProperties DEF Waiting
<1>12. Asleep  BY <1>4 DEF Asleep
<1>13. Absent
  <2>1. IsInjective(all_list) /\ ToSet(all_list) = {MainThread}
    <3>1. all_list = Append(<<>>, MainThread)  BY <1>5
    <3>2. <<>> \in Seq(Thd)  OBVIOUS
    <3>3. PICK e \in Seq(Thd) : e = <<>>  BY <3>2
    <3>4. ToSet(e) = {} /\ IsInjective(e)  BY <3>3, EmptyProperties
    <3>5. PICK m \in Thd : m = MainThread  BY <1>1
    <3>6. ToSet(Append(e, m)) = ToSet(e) \cup {m}  BY AppendElements
    <3>7. m \notin ToSet(e)  BY <3>4
    <3>8. IsInjective(Append(e, m))  BY <3>4, <3>7, AppendElements
    <3>9. QED  BY <3>1, <3>3, <3>4, <3>5, <3>6, <3>8
  <2>2. QED  BY <1>1, <1>3, <1>4, <2>1 DEF Absent
<1>14. Starting  BY <1>1, <1>3, <1>4, <1>5, <1>6 DEF Starting
<1>15. Made
  <2>1. \A t, u \in Thd : Making(todo[t], u) <=> t = MainThread /\ u = IdleThread
    BY <1>3, <1>6, EmptyFacts
  <2>2. Begins(todo[MainThread], "init", IdleThread) /\ status[IdleThread] = "page"  BY <1>1, <1>3, <1>4, <1>7
  <2>3. QED  BY <1>1, <2>1, <2>2 DEF Made
<1>16. \A t \in Thd : \A l \in Lock : ~Has(todo[t], l) /\ ~Holds(todo[t], l)  BY <1>3, <1>7, EmptyFacts
<1>17. Locked  BY <1>1, <1>5, <1>16 DEF Locked
<1>18. Signals
  <2>1. \A t \in Thd : ~InWait(todo[t]) /\ \A u \in Thd : ~Begins(todo[t], "up", u)  BY <1>3, <1>7, EmptyFacts
  <2>2. QED  BY <1>5, <2>1, EmptyProperties DEF Signals
<1>19. Tids
  <2>1. \A t, u \in Thd : ~Begins(todo[u], "tid_next", t)  BY <1>3, <1>7, EmptyFacts
  <2>2. \A t \in Thd : Named(t) => t = MainThread  BY <1>4 DEF Named
  <2>3. \A t \in Thd : tid[t] < next_tid  BY <1>5
  <2>4. QED  BY <2>1, <2>2, <2>3 DEF Tids
<1>20. Enough  BY <1>5 DEF Enough
<1>21. QED
  BY <1>8, <1>9, <1>10, <1>11, <1>12, <1>13, <1>14, <1>15, <1>17, <1>18, <1>19, <1>20 DEF KInv

\* Every step of a thread, every call and every interrupt keeps the kernel's
\* inductive invariant: which calls threads can be in, which lists they are on,
\* who has which lock, and that enough threads are on their way to a semaphore
\* that somebody waits for.
THEOREM KernInvariant == KernSpec => []KInv
<1>1. ASSUME KInv, [KernNext]_kernVars PROVE KInv'
  <2>1. CASE KernStep
    BY <1>1, <2>1, SemaDownStep, TryAcquireStep, SemaUpStep, SetHolderStep, CondPushStep, CondPopStep, CondNoneStep,
       InitThreadStep, TidReadStep, TidNextStep, ThreadUnblockStep, IntrEnableStep, IdleSelfStep, IdleBlockStep,
       TimerSleepStep, ThreadYieldStep, ThreadExitStep
    DEF KernStep
  <2>2. CASE KernCall  BY <1>1, <2>2, CallStep, GetPageStep DEF KernCall
  <2>3. CASE TimerInterrupt  BY <1>1, <2>3, TimerInterruptStep
  <2>4. CASE DeviceInterrupt  BY <1>1, <2>4, DeviceInterruptStep
  <2>5. CASE UNCHANGED kernVars
    <3>1. UNCHANGED <<status, running, ready_list, all_list, idle_thread, intr, todo, value, waiters, holder, cond, tid,
                      next_tid>>
      BY <2>5 DEF kernVars
    <3>2. KTypes' /\ Rests' /\ Queue'  BY <1>1, <3>1 DEF KInv, KTypes, Rests, Queue
    <3>3. Waiting' /\ Asleep' /\ Absent'  BY <1>1, <3>1 DEF KInv, Waiting, Asleep, Absent, Downs
    <3>4. Starting' /\ Made'  BY <1>1, <3>1 DEF KInv, Starting, Made
    <3>5. Locked' /\ Signals'  BY <1>1, <3>1 DEF KInv, Locked, Signals
    <3>6. Tids' /\ Enough'  BY <1>1, <3>1 DEF KInv, Tids, Named, Enough, Coming, Downs
    <3>7. QED  BY <3>2, <3>3, <3>4, <3>5, <3>6 DEF KInv
  <2>6. QED  BY <1>1, <2>1, <2>2, <2>3, <2>4, <2>5 DEF KernNext
<1>2. QED  BY <1>1, KernStart, PTL DEF KernSpec

\* A thread is on one list, none that has ended is on any, a lock has one
\* owner, and neither sema_up nor cond_signal loses a wake-up, for any number of
\* threads, calls and interrupts.
THEOREM KernelCorrect == KernSpec => []KernelSound
<1>1. ASSUME KInv PROVE KernelSound
  <2>0. KTypes /\ Rests /\ Queue /\ Waiting /\ Asleep /\ Absent /\ Locked /\ Signals /\ Tids /\ Enough /\ NoThd \notin Thd
    BY <1>1, Names DEF KInv
  <2>1. \A s \in Semaphore : \A t \in ToSet(waiters[s]) : t \in Thd /\ status[t] = "blocked" /\ Downs(t, s)
    <3>1. SUFFICES ASSUME NEW s \in Semaphore, NEW t \in ToSet(waiters[s])
                   PROVE  t \in Thd /\ status[t] = "blocked" /\ Downs(t, s)
      OBVIOUS
    <3>2. waiters[s] \in Seq(Thd)  BY <2>0 DEF KTypes
    <3>3. QED  BY <2>0, <3>2, SeqElements DEF Waiting
  <2>2. OneList
    <3>1. running # NoThd /\ {t \in Thd : status[t] = "running"} = {running}  BY <2>0 DEF Queue, KTypes
    <3>2. ToSet(ready_list) \subseteq Thd  BY <2>0, SeqElements DEF KTypes
    <3>3. IsInjective(ready_list) /\ ToSet(ready_list) = {t \in Thd : status[t] = "ready"} \ {idle_thread}
      BY <2>0, <3>2 DEF Queue
    <3>4. ASSUME NEW s \in Semaphore, NEW r \in Semaphore \ {s} PROVE ToSet(waiters[s]) \cap ToSet(waiters[r]) = {}
      <4>1. SUFFICES ASSUME NEW t, t \in ToSet(waiters[s]), t \in ToSet(waiters[r]) PROVE FALSE  OBVIOUS
      <4>2. t \in Thd /\ Downs(t, s) /\ Downs(t, r)  BY <2>1, <4>1
      <4>3. QED  BY <2>0, <4>2, DownsOne
    <3>5. \A s \in Semaphore :
            /\ IsInjective(waiters[s])
            /\ \A t \in ToSet(waiters[s]) : status[t] = "blocked"
            /\ \A r \in Semaphore \ {s} : ToSet(waiters[s]) \cap ToSet(waiters[r]) = {}
      BY <2>0, <2>1, <3>4 DEF Waiting
    <3>6. \A t \in Thd : status[t] = "blocked" =>
            \/ t = idle_thread \/ \E s \in Semaphore : t \in ToSet(waiters[s])
            \/ \E u \in Thd : \E i \in DOMAIN todo[u] : todo[u][i] = [op |-> "unblock", arg |-> t]
      BY <2>0 DEF Asleep, Making, Mentions, Act
    <3>7. QED  BY <3>1, <3>3, <3>5, <3>6 DEF OneList
  <2>3. NoneFreed
    <3>1. ToSet(all_list) \subseteq Thd  BY <2>0, SeqElements DEF KTypes
    <3>2. ToSet(all_list) = {t \in Thd : status[t] \notin {"free", "page", "dying"}} /\ IsInjective(all_list)
      BY <2>0, <3>1 DEF Absent
    <3>3. \A s \in Semaphore : ToSet(waiters[s]) \subseteq ToSet(all_list)  BY <2>1, <3>2
    <3>4. \A t \in Thd : todo[t] # <<>> => t \in ToSet(all_list)  BY <2>0, <3>2 DEF Absent
    <3>5. ToSet(cond) \subseteq ToSet(all_list)
      <4>1. SUFFICES ASSUME NEW t \in ToSet(cond) PROVE t \in ToSet(all_list)  OBVIOUS
      <4>2. cond \in Seq(Thd)  BY <2>0 DEF KTypes
      <4>3. t \in Thd /\ InWait(todo[t])  BY <2>0, <4>2, SeqElements DEF Signals
      <4>4. QED  BY <3>4, <4>3, EmptyFacts
    <3>6. \A l \in Lock : holder[l] # NoThd => holder[l] \in ToSet(all_list)
      <4>1. SUFFICES ASSUME NEW l \in Lock, holder[l] # NoThd PROVE holder[l] \in ToSet(all_list)  OBVIOUS
      <4>2. holder[l] \in Thd  BY <2>0, <4>1 DEF KTypes
      <4>3. Holds(todo[holder[l]], l)  BY <2>0, <4>2 DEF Locked
      <4>4. QED  BY <3>4, <4>2, <4>3 DEF Holds
    <3>7. ASSUME NEW t \in Thd, t \in ToSet(all_list), status[t] # "blocked" PROVE Named(t)
      <4>1. status[t] \notin {"free", "page", "dying"}  BY <3>2, <3>7
      <4>2. \A u \in Thd : ~Making(todo[u], t)  BY <1>1, <3>7, <4>1, MadeIdle
      <4>3. QED  BY <4>1, <4>2 DEF Named, Unnamed
    <3>8. \A t, u \in ToSet(all_list) \cap {x \in Thd : status[x] # "blocked"} : t # u => tid[t] # tid[u]
      BY <2>0, <3>7 DEF Tids
    <3>9. QED  BY <3>2, <3>3, <3>5, <3>6, <3>8 DEF NoneFreed
  <2>4. LockExclusive
    <3>1. SUFFICES ASSUME NEW l \in Lock
                   PROVE  /\ value[l] + Cardinality({t \in Thd : Owns(t, l)}) = 1
                          /\ holder[l] # NoThd => Owns(holder[l], l)
      BY DEF LockExclusive
    <3>2. \A t \in Thd : Owns(t, l) <=> Has(todo[t], l)
      BY <2>0 DEF Owns, Has, Takes, Act, Locked
    <3>3. CASE value[l] = 1 /\ \A t \in Thd : ~Has(todo[t], l)
      <4>1. {t \in Thd : Owns(t, l)} = {}  BY <3>2, <3>3
      <4>2. Cardinality({t \in Thd : Owns(t, l)}) = 0  BY <4>1, FS_EmptySet
      <4>3. QED  BY <3>3, <4>2 DEF Owns
    <3>4. CASE value[l] = 0 /\ \E t \in Thd : \A u \in Thd : Has(todo[u], l) <=> u = t
      <4>1. PICK t \in Thd : \A u \in Thd : Has(todo[u], l) <=> u = t  BY <3>4
      <4>2. {u \in Thd : Owns(u, l)} = {t}  BY <3>2, <4>1
      <4>3. Cardinality({u \in Thd : Owns(u, l)}) = 1  BY <4>2, FS_Singleton
      <4>4. QED  BY <3>4, <4>3 DEF Owns
    <3>5. QED  BY <2>0, <3>3, <3>4 DEF Locked
  <2>5. WakeupKept
    <3>1. SUFFICES ASSUME NEW s \in Semaphore, value[s] > 0, waiters[s] # <<>>
                   PROVE  \E t \in Thd : /\ status[t] \in {"ready", "running"} /\ todo[t] # <<>>
                                         /\ Head(todo[t]).op \in {"down", "down_own"}
                                         /\ s = (IF Head(todo[t]).op = "down_own" THEN t ELSE Head(todo[t]).arg)
      BY DEF WakeupKept
    <3>2. Cardinality(Coming(s)) >= value[s] /\ value[s] \in Nat /\ Cardinality(Coming(s)) \in Nat
      BY <2>0, <3>1, FiniteThreads DEF Enough, KTypes
    <3>3. Cardinality(Coming(s)) # 0  BY <3>1, <3>2
    <3>4. PICK t : t \in Coming(s)  BY <3>3, FS_EmptySet
    <3>5. t \in Thd /\ status[t] \in {"ready", "running"} /\ Downs(t, s)  BY <3>4 DEF Coming
    <3>6. QED  BY <2>0, <3>5, DownsOne
  <2>6. CondSignalKept
    <3>1. SUFFICES ASSUME NEW t \in Thd, todo[t] # <<>>, Head(todo[t]).op = "down_own"
                   PROVE  \/ t \in ToSet(cond) \/ value[t] > 0
                          \/ \E u \in Thd : todo[u] # <<>> /\ Head(todo[u]) = [op |-> "up", arg |-> t]
      BY DEF CondSignalKept
    <3>2. InWait(todo[t])  BY <2>0, <3>1, RestOf DEF Known, WaitsKnown
    <3>3. QED  BY <2>0, <3>2 DEF Signals, Begins, Act
  <2>7. QED  BY <2>2, <2>3, <2>4, <2>5, <2>6 DEF KernelSound
<1>2. QED  BY <1>1, KernInvariant, PTL
=============================================================================
