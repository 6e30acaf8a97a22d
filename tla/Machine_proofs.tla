--------------------------- MODULE Machine_proofs ---------------------------
(***************************************************************************)
(* The safety of the disk driver for any number of threads, sectors and    *)
(* requests, whenever the interrupts come, and of the page and block       *)
(* allocators for any pools and any number of threads.                     *)
(***************************************************************************)
EXTENDS Disk, Memory, SeqLemmas, FiniteSetTheorems, TLAPS

\* Between lock_acquire and lock_release of the channel's lock.
InChannel == {"select", "issue", "down", "busy", "move", "unlock"}

DiskTypes ==
    /\ dpc \in [DiskThread -> {"idle", "lock"} \cup InChannel]
    /\ request \in [DiskThread ->
                      [kind : {"read", "write"}, place : Place, data : DiskValue]]
    /\ channel \in [lock : DiskThread \cup {NoThread}, expecting : BOOLEAN,
                    completion : Nat, place : Place]
    /\ ctl \in [state : {"idle", "read", "offer", "write", "take", "store"},
                irq : BOOLEAN, place : Place, data : DiskValue]
    /\ media \in [Place -> DiskValue] /\ latest \in [Place -> DiskValue]
    /\ got \in [DiskThread -> DiskValue]
    /\ spurious \in 0 .. MaxSpurious

\* The lock is held by whoever is in the channel, so one thread is.
ChannelHeld == \A t \in DiskThread : channel.lock = t <=> dpc[t] \in InChannel

\* What the controller can be at, for a thread at a place with a request of a
\* kind.  A sector may still be stored for an earlier request when a spurious
\* interrupt let its thread go.
States(t) ==
    CASE dpc[t] = "issue" -> {"idle"}
      [] dpc[t] \in {"down", "busy"} /\ request[t].kind = "read" -> {"read", "offer"}
      [] dpc[t] = "move" /\ request[t].kind = "read" -> {"offer"}
      [] dpc[t] = "busy" /\ request[t].kind = "write" -> {"write", "take"}
      [] dpc[t] = "move" /\ request[t].kind = "write" -> {"take"}
      [] OTHER -> {"idle", "store"}

InStep ==
    /\ \A t \in DiskThread : dpc[t] \in InChannel => ctl.state \in States(t)
    /\ channel.lock = NoThread => ctl.state \in {"idle", "store"}

\* The sector the registers and the controller are set to.
Selected ==
    \A t \in DiskThread :
        /\ dpc[t] = "issue" => channel.place = request[t].place
        /\ dpc[t] \in {"busy", "move"} \/ (dpc[t] = "down" /\ request[t].kind = "read")
             => ctl.place = request[t].place

\* Where the sector sent last is.
Stored ==
    /\ \A q \in Place : media[q] = latest[q] \/ (ctl.state = "store" /\ q = ctl.place)
    /\ ctl.state \in {"store", "offer"} => ctl.data = latest[ctl.place]

\* Is the thread yet to wait for the interrupt of its command?
Owing(t) == dpc[t] = "down" \/ (dpc[t] \in {"busy", "move"} /\ request[t].kind = "write")

\* Is the controller yet to raise the interrupt of a command?
Due == ctl.state \in {"read", "write", "take", "store"}

Count(b) == IF b THEN 1 ELSE 0

\* An interrupt is counted in the semaphore, pending or to come, for each
\* thread that has yet to wait for one, and no more but the spurious ones.
Balance ==
    channel.completion + Count(ctl.irq) + Count(Due)
        <= spurious + Count(\E t \in DiskThread : Owing(t))

DiskInv ==
    /\ DiskTypes /\ ChannelHeld /\ InStep /\ Selected /\ Stored /\ ReadsLatest
    /\ Balance
    /\ slow => spurious = 0
    /\ ~diskPanic

-----------------------------------------------------------------------------
LEMMA CountType == \A b \in BOOLEAN : Count(b) \in 0 .. 1 /\ (Count(b) = 0 <=> ~b)
BY DEF Count

\* One thread is in the channel.
LEMMA OneInChannel ==
    ASSUME DiskInv, NEW t \in DiskThread, dpc[t] \in InChannel
    PROVE  /\ channel.lock = t
           /\ \A u \in DiskThread : u # t => dpc[u] \notin InChannel /\ ~Owing(u)
           /\ (\E u \in DiskThread : Owing(u)) <=> Owing(t)
<1>1. channel.lock = t /\ \A u \in DiskThread : u # t => dpc[u] \notin InChannel
  BY DEF DiskInv, ChannelHeld
<1>2. \A u \in DiskThread : dpc[u] \notin InChannel => ~Owing(u)
  BY DEF Owing, InChannel
<1> QED BY <1>1, <1>2

LEMMA DiskInitInv == DiskInit => DiskInv
<1> SUFFICES ASSUME DiskInit PROVE DiskInv
  OBVIOUS
<1> USE DiskAssumption DEF DiskInit
<1>1. DiskBlank \in DiskValue /\ (CHOOSE p \in Place : TRUE) \in Place
  <2>1. 0 \in Drive /\ \E q : q \in DiskSector
    BY DEF Drive
  <2>2. PICK q : q \in DiskSector
    BY <2>1
  <2>3. <<0, q>> \in Place
    BY <2>1, <2>2 DEF Place
  <2>4. DiskBlank \in DiskValue
    BY DEF DiskBlank
  <2> QED BY <2>3, <2>4
<1>2. DiskTypes
  BY <1>1 DEF DiskTypes
<1>3. ChannelHeld /\ InStep /\ Selected /\ Stored /\ ReadsLatest
  BY <1>1 DEF ChannelHeld, InStep, Selected, Stored, ReadsLatest, InChannel
<1>4. Balance
  <2>1. ~Due /\ \A t \in DiskThread : ~Owing(t)
    BY DEF Due, Owing
  <2> QED BY <2>1 DEF Balance, Count
<1> QED BY <1>2, <1>3, <1>4 DEF DiskInv

-----------------------------------------------------------------------------
\* What is left to show of a step of the thread that has the channel and
\* keeps it: its own part of each conjunct.
LEMMA InChannelStep ==
    ASSUME DiskInv, NEW t \in DiskThread, dpc[t] \in InChannel,
           NEW to \in InChannel, To(t, to), request' = request,
           channel'.lock = channel.lock
    PROVE  /\ dpc' \in [DiskThread -> {"idle", "lock"} \cup InChannel]
           /\ dpc'[t] = to
           /\ ChannelHeld'
           /\ ctl'.state \in States(t)' => InStep'
           /\ /\ to = "issue" => channel'.place = request[t].place
              /\ to \in {"busy", "move"} \/ (to = "down" /\ request[t].kind = "read")
                   => ctl'.place = request[t].place
              => Selected'
           /\ (to = "unlock" /\ request[t].kind = "read" =>
                  got'[t] = latest'[request[t].place]) => ReadsLatest'
           /\ (\E u \in DiskThread : Owing(u))' <=> Owing(t)'
           /\ (\E u \in DiskThread : Owing(u)) <=> Owing(t)
<1>1. DiskTypes /\ ChannelHeld
  BY DEF DiskInv
<1>2. \A u \in DiskThread : dpc'[u] = IF u = t THEN to ELSE dpc[u]
  BY <1>1 DEF DiskTypes, To
<1>3. dpc' \in [DiskThread -> {"idle", "lock"} \cup InChannel]
  BY <1>1 DEF DiskTypes, To
<1>4. channel.lock = t /\ \A u \in DiskThread : u # t => dpc[u] \notin InChannel
  BY OneInChannel
<1>5. \A u \in DiskThread : u # t => dpc'[u] \notin InChannel
  BY <1>2, <1>4
<1>6. ChannelHeld'
  BY <1>2, <1>4, <1>5 DEF ChannelHeld
<1>7. ASSUME ctl'.state \in States(t)' PROVE InStep'
  <2>1. channel'.lock # NoThread
    BY <1>4, DiskAssumption
  <2> HIDE DEF States
  <2> QED BY <1>5, <1>7, <2>1 DEF InStep
<1>8. \A u \in DiskThread : u # t => /\ dpc'[u] \notin {"issue", "busy", "move", "down", "unlock"}
                                      /\ ~Owing(u)' /\ ~Owing(u)
  BY <1>4, <1>5 DEF InChannel, Owing
<1>9. ASSUME /\ to = "issue" => channel'.place = request[t].place
             /\ to \in {"busy", "move"} \/ (to = "down" /\ request[t].kind = "read")
                   => ctl'.place = request[t].place
      PROVE Selected'
  BY <1>2, <1>8, <1>9 DEF Selected
<1>10. ASSUME to = "unlock" /\ request[t].kind = "read" =>
                  got'[t] = latest'[request[t].place]
       PROVE  ReadsLatest'
  BY <1>2, <1>8, <1>10 DEF ReadsLatest
<1>11. /\ (\E u \in DiskThread : Owing(u)') <=> Owing(t)'
       /\ (\E u \in DiskThread : Owing(u)) <=> Owing(t)
  BY <1>8
<1> HIDE DEF ChannelHeld, InStep, States, Selected, ReadsLatest, Owing
<1> QED BY <1>2, <1>3, <1>6, <1>7, <1>9, <1>10, <1>11

\* The balance, with what the step changes of it.
LEMMA BalanceStep ==
    ASSUME DiskInv, NEW c \in Nat, NEW i \in BOOLEAN, NEW d \in BOOLEAN,
           NEW o \in BOOLEAN, NEW n \in Nat,
           channel'.completion = c, ctl'.irq = i, Due' <=> d,
           (\E t \in DiskThread : Owing(t))' <=> o, spurious' = n,
           c + Count(i) + Count(d) <= n + Count(o)
    PROVE  Balance'
<1>1. Count(Due)' = Count(d) /\ Count(ctl.irq)' = Count(i)
      /\ Count(\E t \in DiskThread : Owing(t))' = Count(o)
  BY DEF Count
<1> HIDE DEF Due, Owing, Count
<1> QED BY <1>1 DEF Balance

\* In a state of the invariant the balance is one of small numbers.
LEMMA BalanceNow ==
    ASSUME DiskInv
    PROVE  /\ channel.completion \in Nat /\ spurious \in Nat /\ ctl.irq \in BOOLEAN
           /\ Due \in BOOLEAN /\ (\E t \in DiskThread : Owing(t)) \in BOOLEAN
           /\ channel.completion + Count(ctl.irq) + Count(Due)
                <= spurious + Count(\E t \in DiskThread : Owing(t))
<1>1. channel.completion \in Nat /\ spurious \in Nat
  BY DiskAssumption DEF DiskInv, DiskTypes
<1>2. ctl.irq \in BOOLEAN
  BY DEF DiskInv, DiskTypes
<1>3. Due \in BOOLEAN /\ (\E t \in DiskThread : Owing(t)) \in BOOLEAN
  BY DEF Due
<1> HIDE DEF Due, Owing, Count
<1> QED BY <1>1, <1>2, <1>3 DEF DiskInv, Balance

-----------------------------------------------------------------------------
LEMMA RequestStep ==
    ASSUME DiskInv, NEW t \in DiskThread, NEW kind \in {"read", "write"},
           NEW place \in Place, NEW v \in DiskValue,
           DiskRequest(t, kind, place, v)
    PROVE  DiskInv'
<1>1. /\ dpc[t] = "idle" /\ dpc' = [dpc EXCEPT ![t] = "lock"]
      /\ request' = [request EXCEPT ![t] = [kind |-> kind, place |-> place, data |-> v]]
      /\ channel' = channel /\ ctl' = ctl /\ media' = media /\ got' = got
      /\ latest' = latest /\ slow' = slow /\ spurious' = spurious
      /\ diskPanic' = diskPanic
  BY DEF DiskRequest, At, To
<1>2. DiskTypes /\ ChannelHeld /\ InStep /\ Selected /\ Stored /\ ReadsLatest /\ Balance
  BY DEF DiskInv
<1>3. DiskTypes'
  BY <1>1, <1>2 DEF DiskTypes
<1>4. \A u \in DiskThread : /\ dpc'[u] = IF u = t THEN "lock" ELSE dpc[u]
                            /\ u # t => request'[u] = request[u]
  <2>1. \A u \in DiskThread : dpc'[u] = IF u = t THEN "lock" ELSE dpc[u]
    BY <1>1, <1>2 DEF DiskTypes
  <2>2. \A u \in DiskThread : u # t => request'[u] = request[u]
    <3>1. DOMAIN request = DiskThread
      BY <1>2 DEF DiskTypes
    <3> QED BY <1>1, <3>1
  <2> QED BY <2>1, <2>2
<1>5. dpc[t] \notin InChannel /\ dpc'[t] \notin InChannel
  BY <1>1, <1>4 DEF InChannel
<1>6. ChannelHeld'
  BY <1>1, <1>2, <1>4, <1>5 DEF ChannelHeld
<1>7. \A u \in DiskThread : u # t => States(u)' = States(u) /\ (Owing(u)' <=> Owing(u))
  <2> SUFFICES ASSUME NEW u \in DiskThread, u # t
               PROVE  States(u)' = States(u) /\ (Owing(u)' <=> Owing(u))
    OBVIOUS
  <2>1. dpc'[u] = dpc[u] /\ request'[u] = request[u]
    BY <1>4
  <2>2. States(u)' = States(u)
    BY <2>1 DEF States
  <2> QED BY <2>1, <2>2 DEF Owing
<1>8. InStep'
  <2> HIDE DEF States
  <2> QED BY <1>1, <1>2, <1>4, <1>5, <1>7 DEF InStep
<1>9. Selected' /\ Stored' /\ ReadsLatest'
  BY <1>1, <1>2, <1>4 DEF Selected, Stored, ReadsLatest
<1>10. ~Owing(t) /\ ~Owing(t)'
  BY <1>1, <1>4 DEF Owing
<1>11. (\E u \in DiskThread : Owing(u))' <=> (\E u \in DiskThread : Owing(u))
  BY <1>7, <1>10
<1>12. Due' <=> Due
  BY <1>1 DEF Due
<1>13. Balance'
  <2> HIDE DEF Due, Owing, Count
  <2> QED BY <1>1, <1>11, <1>12, BalanceNow, BalanceStep
<1> QED BY <1>1, <1>3, <1>6, <1>8, <1>9, <1>13 DEF DiskInv

LEMMA LockStep ==
    ASSUME DiskInv, NEW t \in DiskThread, DiskLock(t)
    PROVE  DiskInv'
<1>1. /\ dpc[t] = "lock" /\ dpc' = [dpc EXCEPT ![t] = "select"]
      /\ channel.lock = NoThread /\ channel' = [channel EXCEPT !.lock = t]
      /\ request' = request /\ ctl' = ctl /\ media' = media /\ got' = got
      /\ latest' = latest /\ slow' = slow /\ spurious' = spurious
      /\ diskPanic' = diskPanic
  BY DEF DiskLock, At, To
<1>2. DiskTypes /\ ChannelHeld /\ InStep /\ Selected /\ Stored /\ ReadsLatest /\ Balance
  BY DEF DiskInv
<1>3. DiskTypes'
  BY <1>1, <1>2 DEF DiskTypes, InChannel
<1>4. /\ \A u \in DiskThread : dpc'[u] = IF u = t THEN "select" ELSE dpc[u]
      /\ channel'.lock = t /\ channel'.completion = channel.completion
      /\ channel'.place = channel.place
  BY <1>1, <1>2 DEF DiskTypes
<1>5. \A u \in DiskThread : dpc[u] \notin InChannel
  BY <1>1, <1>2, DiskAssumption DEF ChannelHeld
<1>6. "select" \in InChannel
  BY DEF InChannel
<1>7. ChannelHeld'
  BY <1>4, <1>5, <1>6 DEF ChannelHeld
<1>8. States(t)' = {"idle", "store"}
  BY <1>4 DEF States
<1>9. InStep'
  <2> HIDE DEF States
  <2> QED BY <1>1, <1>2, <1>4, <1>5, <1>8, DiskAssumption DEF InStep
<1>10. Selected' /\ Stored' /\ ReadsLatest'
  BY <1>1, <1>2, <1>4 DEF Selected, Stored, ReadsLatest
<1>11. \A u \in DiskThread : ~Owing(u) /\ ~Owing(u)'
  BY <1>4, <1>5 DEF Owing, InChannel
<1>12. (\E u \in DiskThread : Owing(u))' <=> (\E u \in DiskThread : Owing(u))
  BY <1>11
<1>13. Due' <=> Due
  BY <1>1 DEF Due
<1>14. Balance'
  <2> HIDE DEF Due, Owing, Count
  <2> QED BY <1>1, <1>4, <1>12, <1>13, BalanceNow, BalanceStep
<1> QED BY <1>1, <1>3, <1>7, <1>9, <1>10, <1>14 DEF DiskInv

\* wait_until_idle may give up only where the controller is idle anyway: a
\* slow controller has had no spurious interrupt, so the balance is even.
LEMMA SelectStep ==
    ASSUME DiskInv, NEW t \in DiskThread, SelectSector(t)
    PROVE  DiskInv'
<1>1. /\ dpc[t] = "select" /\ To(t, "issue")
      /\ (ctl.state = "idle" \/ slow)
      /\ channel' = [channel EXCEPT !.place = request[t].place]
      /\ ctl' = [ctl EXCEPT !.irq = FALSE]
      /\ request' = request /\ media' = media /\ got' = got
      /\ latest' = latest /\ slow' = slow /\ spurious' = spurious
      /\ diskPanic' = diskPanic
  BY DEF SelectSector, At
<1>2. DiskTypes /\ InStep /\ Selected /\ Stored /\ ReadsLatest /\ Balance
  BY DEF DiskInv
<1>3. dpc[t] \in InChannel /\ "issue" \in InChannel
  BY <1>1 DEF InChannel
<1>4. request[t].place \in Place
  BY <1>2 DEF DiskTypes
<1>5. /\ channel'.lock = channel.lock /\ channel'.place = request[t].place
      /\ channel'.completion = channel.completion
      /\ channel' \in [lock : DiskThread \cup {NoThread}, expecting : BOOLEAN,
                       completion : Nat, place : Place]
  BY <1>1, <1>2, <1>4 DEF DiskTypes
<1>6. /\ ctl'.state = ctl.state /\ ctl'.irq = FALSE /\ ctl'.place = ctl.place
      /\ ctl'.data = ctl.data
      /\ ctl' \in [state : {"idle", "read", "offer", "write", "take", "store"},
                   irq : BOOLEAN, place : Place, data : DiskValue]
  BY <1>1, <1>2 DEF DiskTypes
<1>7. ~Owing(t)
  BY <1>1 DEF Owing
<1>8. ~ \E u \in DiskThread : Owing(u)
  BY <1>3, <1>7, OneInChannel
<1>9. ctl.state = "idle"
  <2>1. CASE slow
    <3>1. spurious = 0
      BY <2>1 DEF DiskInv
    <3>2. ~Due
      <4> HIDE DEF Due, Owing
      <4> QED BY <1>8, <3>1, BalanceNow DEF Count
    <3>3. ctl.state \in States(t)
      BY <1>2, <1>3 DEF InStep
    <3>4. ctl.state \in {"idle", "store"}
      BY <1>1, <3>3 DEF States
    <3> QED BY <3>2, <3>4 DEF Due
  <2> QED BY <1>1, <2>1
<1>10. /\ dpc' \in [DiskThread -> {"idle", "lock"} \cup InChannel] /\ dpc'[t] = "issue"
       /\ ChannelHeld' /\ (ctl'.state \in States(t)' => InStep')
       /\ (channel'.place = request[t].place => Selected')
       /\ ReadsLatest'
       /\ (\E u \in DiskThread : Owing(u))' <=> Owing(t)'
  <2> HIDE DEF ChannelHeld, InStep, States, Selected, ReadsLatest, Owing
  <2> QED BY <1>1, <1>3, <1>5, InChannelStep
<1>11. States(t)' = {"idle"} /\ ~Owing(t)'
  BY <1>10 DEF States, Owing
<1>12. InStep'
  <2> HIDE DEF States, InStep
  <2> QED BY <1>6, <1>9, <1>10, <1>11
<1>13. DiskTypes'
  BY <1>1, <1>2, <1>5, <1>6, <1>10 DEF DiskTypes
<1>14. Stored'
  BY <1>1, <1>2, <1>6 DEF Stored
<1>15. ~Due' /\ ~Due
  BY <1>6, <1>9 DEF Due
<1>16. Balance'
  <2>1. channel.completion + Count(FALSE) + Count(FALSE) <= spurious + Count(FALSE)
    <3> HIDE DEF Due, Owing
    <3> QED BY <1>8, <1>15, BalanceNow DEF Count
  <2>2. (\E u \in DiskThread : Owing(u))' <=> FALSE
    BY <1>10, <1>11
  <2> HIDE DEF Due, Owing, Count
  <2> QED BY <1>1, <1>5, <1>6, <1>15, <2>1, <2>2, BalanceNow, BalanceStep
<1> QED BY <1>1, <1>5, <1>10, <1>12, <1>13, <1>14, <1>16 DEF DiskInv

LEMMA IssueStep ==
    ASSUME DiskInv, NEW t \in DiskThread, IssuePioCommand(t)
    PROVE  DiskInv'
<1> DEFINE to == IF request[t].kind = "read" THEN "down" ELSE "busy"
<1>1. /\ dpc[t] = "issue" /\ To(t, to)
      /\ channel' = [channel EXCEPT !.expecting = TRUE]
      /\ ctl' = [ctl EXCEPT !.state = IF @ = "idle" THEN request[t].kind ELSE @,
                            !.place = IF ctl.state = "idle" THEN channel.place ELSE @]
      /\ request' = request /\ media' = media /\ got' = got
      /\ latest' = latest /\ slow' = slow /\ spurious' = spurious
      /\ diskPanic' = diskPanic
  BY DEF IssuePioCommand, At
<1>2. DiskTypes /\ InStep /\ Selected /\ Stored /\ ReadsLatest /\ Balance
  BY DEF DiskInv
<1>3. dpc[t] \in InChannel /\ to \in InChannel
  BY <1>1 DEF InChannel
<1>4. request[t].kind \in {"read", "write"} /\ channel.place \in Place
      /\ channel.place = request[t].place
  BY <1>1, <1>2 DEF DiskTypes, Selected
<1>5. ctl.state = "idle"
  <2>1. ctl.state \in States(t)
    BY <1>2, <1>3 DEF InStep
  <2> QED BY <1>1, <2>1 DEF States
<1>6. /\ channel'.lock = channel.lock /\ channel'.place = channel.place
      /\ channel'.completion = channel.completion
      /\ channel' \in [lock : DiskThread \cup {NoThread}, expecting : BOOLEAN,
                       completion : Nat, place : Place]
  BY <1>1, <1>2 DEF DiskTypes
<1>7. /\ ctl'.state = request[t].kind /\ ctl'.irq = ctl.irq
      /\ ctl'.place = request[t].place /\ ctl'.data = ctl.data
      /\ ctl' \in [state : {"idle", "read", "offer", "write", "take", "store"},
                   irq : BOOLEAN, place : Place, data : DiskValue]
  BY <1>1, <1>2, <1>4, <1>5 DEF DiskTypes
<1>8. ~Owing(t) /\ to # "unlock" /\ to # "issue"
  BY <1>1 DEF Owing
<1>9. ~ \E u \in DiskThread : Owing(u)
  BY <1>3, <1>8, OneInChannel
<1> HIDE DEF to
<1>10. /\ dpc' \in [DiskThread -> {"idle", "lock"} \cup InChannel] /\ dpc'[t] = to
       /\ ChannelHeld' /\ (ctl'.state \in States(t)' => InStep')
       /\ Selected' /\ ReadsLatest'
       /\ (\E u \in DiskThread : Owing(u))' <=> Owing(t)'
  <2> HIDE DEF ChannelHeld, InStep, States, Selected, ReadsLatest, Owing
  <2> QED BY <1>1, <1>3, <1>6, <1>7, <1>8, InChannelStep
<1>11. ctl'.state \in States(t)' /\ Owing(t)'
  <2>1. CASE request[t].kind = "read"
    <3>1. dpc'[t] = "down" /\ request'[t].kind = "read"
      BY <1>1, <1>10, <2>1 DEF to
    <3> QED BY <1>7, <2>1, <3>1 DEF States, Owing
  <2>2. CASE request[t].kind = "write"
    <3>1. dpc'[t] = "busy" /\ request'[t].kind = "write"
      BY <1>1, <1>10, <2>2 DEF to
    <3> QED BY <1>7, <2>2, <3>1 DEF States, Owing
  <2> QED BY <1>4, <2>1, <2>2
<1>12. DiskTypes'
  BY <1>1, <1>2, <1>6, <1>7, <1>10 DEF DiskTypes
<1>13. Stored'
  BY <1>1, <1>2, <1>4, <1>5, <1>7 DEF Stored
<1>14. Due' /\ ~Due
  BY <1>4, <1>5, <1>7 DEF Due
<1>15. Balance'
  <2>1. channel.completion + Count(ctl.irq) + Count(TRUE) <= spurious + Count(TRUE)
    <3>1. channel.completion + Count(ctl.irq) + 0 <= spurious + 0
      <4> HIDE DEF Due, Owing
      <4> QED BY <1>9, <1>14, BalanceNow DEF Count
    <3>2. Count(ctl.irq) \in 0 .. 1
      BY BalanceNow, CountType
    <3> HIDE DEF Count
    <3>3. Count(TRUE) = 1
      BY DEF Count
    <3>4. channel.completion \in Nat /\ spurious \in Nat
      BY BalanceNow
    <3>5. channel.completion + Count(ctl.irq) + 1 <= spurious + 1
      BY <3>1, <3>2, <3>4
    <3> QED BY <3>3, <3>5
  <2>2. (\E u \in DiskThread : Owing(u))' <=> TRUE
    BY <1>10, <1>11
  <2> HIDE DEF Due, Owing, Count
  <2> QED BY <1>1, <1>6, <1>7, <1>14, <2>1, <2>2, BalanceNow, BalanceStep
<1> QED BY <1>1, <1>10, <1>11, <1>12, <1>13, <1>15 DEF DiskInv

LEMMA DownStep ==
    ASSUME DiskInv, NEW t \in DiskThread, CompletionDown(t)
    PROVE  DiskInv'
<1> DEFINE to == IF request[t].kind = "read" THEN "busy" ELSE "unlock"
<1>1. /\ dpc[t] = "down" /\ To(t, to) /\ channel.completion > 0
      /\ channel' = [channel EXCEPT !.completion = @ - 1]
      /\ ctl' = ctl
      /\ request' = request /\ media' = media /\ got' = got
      /\ latest' = latest /\ slow' = slow /\ spurious' = spurious
      /\ diskPanic' = diskPanic
  BY DEF CompletionDown, At
<1>2. DiskTypes /\ InStep /\ Selected /\ Stored /\ ReadsLatest /\ Balance
  BY DEF DiskInv
<1>3. dpc[t] \in InChannel /\ to \in InChannel
  BY <1>1 DEF InChannel
<1>4. request[t].kind \in {"read", "write"}
  BY <1>2 DEF DiskTypes
<1>5. channel.completion \in Nat /\ channel.completion - 1 \in Nat
  BY <1>1, <1>2 DEF DiskTypes
<1>6. /\ channel'.lock = channel.lock /\ channel'.place = channel.place
      /\ channel'.completion = channel.completion - 1
      /\ channel' \in [lock : DiskThread \cup {NoThread}, expecting : BOOLEAN,
                       completion : Nat, place : Place]
  BY <1>1, <1>2, <1>5 DEF DiskTypes
<1>7. Owing(t) /\ to # "issue" /\ to # "down" /\ to # "move"
  BY <1>1 DEF Owing
<1>8. to = "busy" => request[t].kind = "read" /\ ctl.place = request[t].place
  BY <1>1, <1>2 DEF Selected
<1>9. to = "unlock" => request[t].kind # "read"
  OBVIOUS
<1> HIDE DEF to
<1>10. /\ dpc' \in [DiskThread -> {"idle", "lock"} \cup InChannel] /\ dpc'[t] = to
       /\ ChannelHeld' /\ (ctl'.state \in States(t)' => InStep')
       /\ Selected' /\ ReadsLatest'
       /\ (\E u \in DiskThread : Owing(u))' <=> Owing(t)'
       /\ (\E u \in DiskThread : Owing(u)) <=> Owing(t)
  <2> HIDE DEF ChannelHeld, InStep, States, Selected, ReadsLatest, Owing
  <2> QED BY <1>1, <1>3, <1>6, <1>7, <1>8, <1>9, InChannelStep
<1>11. ctl'.state \in States(t)' /\ ~Owing(t)'
  <2>1. ctl.state \in States(t)
    BY <1>2, <1>3 DEF InStep
  <2>2. CASE request[t].kind = "read"
    <3>1. dpc'[t] = "busy" /\ request'[t].kind = "read"
      BY <1>1, <1>10, <2>2 DEF to
    <3>2. ctl.state \in {"read", "offer"}
      BY <1>1, <2>1, <2>2 DEF States
    <3> QED BY <1>1, <3>1, <3>2 DEF States, Owing
  <2>3. CASE request[t].kind = "write"
    <3>1. dpc'[t] = "unlock" /\ request'[t].kind = "write"
      BY <1>1, <1>10, <2>3 DEF to
    <3>2. ctl.state \in {"idle", "store"}
      BY <1>1, <2>1, <2>3 DEF States
    <3> QED BY <1>1, <3>1, <3>2 DEF States, Owing
  <2> QED BY <1>4, <2>2, <2>3
<1>12. DiskTypes'
  BY <1>1, <1>2, <1>6, <1>10 DEF DiskTypes
<1>13. Stored'
  BY <1>1, <1>2 DEF Stored
<1>14. Due' <=> Due
  BY <1>1 DEF Due
<1>15. Balance'
  <2>1. (channel.completion - 1) + Count(ctl.irq) + Count(Due) <= spurious + Count(FALSE)
    <3>1. Count(FALSE) = 0 /\ Count(\E u \in DiskThread : Owing(u)) = 1
      BY <1>7, <1>10 DEF Count
    <3>2. Count(ctl.irq) \in 0 .. 1 /\ Count(Due) \in 0 .. 1
      BY BalanceNow, CountType
    <3>3. channel.completion \in Nat /\ spurious \in Nat
      BY BalanceNow
    <3>4. channel.completion + Count(ctl.irq) + Count(Due)
            <= spurious + Count(\E u \in DiskThread : Owing(u))
      BY BalanceNow
    <3> HIDE DEF Count, Due, Owing
    <3>5. channel.completion + Count(ctl.irq) + Count(Due) <= spurious + 1
      BY <3>1, <3>4
    <3>6. (channel.completion - 1) + Count(ctl.irq) + Count(Due) <= spurious + 0
      BY <3>2, <3>3, <3>5
    <3> QED BY <3>1, <3>6
  <2>2. (\E u \in DiskThread : Owing(u))' <=> FALSE
    BY <1>10, <1>11
  <2> HIDE DEF Due, Owing, Count
  <2> QED BY <1>1, <1>5, <1>6, <1>14, <2>1, <2>2, BalanceNow, BalanceStep
<1> QED BY <1>1, <1>10, <1>11, <1>12, <1>13, <1>15 DEF DiskInv

\* wait_while_busy ends with data asked for or offered, never in the PANIC.
LEMMA BusyStep ==
    ASSUME DiskInv, NEW t \in DiskThread, WaitWhileBusy(t)
    PROVE  DiskInv'
<1>1. /\ dpc[t] = "busy" /\ ~Busy
      /\ channel' = channel /\ ctl' = ctl
      /\ request' = request /\ media' = media /\ got' = got
      /\ latest' = latest /\ slow' = slow /\ spurious' = spurious
  BY DEF WaitWhileBusy, At
<1>2. DiskTypes /\ InStep /\ Selected /\ Stored /\ ReadsLatest /\ Balance
  BY DEF DiskInv
<1>3. dpc[t] \in InChannel /\ "move" \in InChannel
  BY <1>1 DEF InChannel
<1>4. request[t].kind \in {"read", "write"}
  BY <1>2 DEF DiskTypes
<1>5. ctl.state = IF request[t].kind = "read" THEN "offer" ELSE "take"
  <2>1. ctl.state \in States(t)
    BY <1>2, <1>3 DEF InStep
  <2>2. CASE request[t].kind = "read"
    BY <1>1, <2>1, <2>2 DEF States, Busy
  <2>3. CASE request[t].kind = "write"
    BY <1>1, <2>1, <2>3 DEF States, Busy
  <2> QED BY <1>4, <2>2, <2>3
<1>6. To(t, "move") /\ diskPanic' = diskPanic
  BY <1>5 DEF WaitWhileBusy
<1>7. ctl.place = request[t].place
  BY <1>1, <1>2 DEF Selected
<1>8. /\ dpc' \in [DiskThread -> {"idle", "lock"} \cup InChannel] /\ dpc'[t] = "move"
      /\ ChannelHeld' /\ (ctl'.state \in States(t)' => InStep')
      /\ Selected' /\ ReadsLatest'
      /\ (\E u \in DiskThread : Owing(u))' <=> Owing(t)'
      /\ (\E u \in DiskThread : Owing(u)) <=> Owing(t)
  <2> HIDE DEF ChannelHeld, InStep, States, Selected, ReadsLatest, Owing
  <2> QED BY <1>1, <1>3, <1>6, <1>7, InChannelStep
<1>9. ctl'.state \in States(t)'
  <2>1. dpc'[t] = "move" /\ request'[t].kind = request[t].kind /\ ctl'.state = ctl.state
    BY <1>1, <1>8
  <2> QED BY <1>4, <1>5, <2>1 DEF States
<1>10. Owing(t)' <=> Owing(t)
  BY <1>1, <1>8 DEF Owing
<1>11. DiskTypes' /\ Stored'
  BY <1>1, <1>2, <1>8 DEF DiskTypes, Stored
<1>12. Due' <=> Due
  BY <1>1 DEF Due
<1>13. (\E u \in DiskThread : Owing(u))' <=> (\E u \in DiskThread : Owing(u))
  BY <1>8, <1>10
<1>14. Balance'
  <2> HIDE DEF Due, Owing, Count
  <2> QED BY <1>1, <1>12, <1>13, BalanceNow, BalanceStep
<1> QED BY <1>1, <1>6, <1>8, <1>9, <1>11, <1>14 DEF DiskInv

LEMMA InputStep ==
    ASSUME DiskInv, NEW t \in DiskThread, InputSector(t)
    PROVE  DiskInv'
<1>1. /\ dpc[t] = "move" /\ request[t].kind = "read" /\ To(t, "unlock")
      /\ got' = [got EXCEPT ![t] = ctl.data]
      /\ ctl' = [ctl EXCEPT !.state = IF @ = "offer" THEN "idle" ELSE @]
      /\ channel' = channel /\ request' = request /\ media' = media
      /\ latest' = latest /\ slow' = slow /\ spurious' = spurious
      /\ diskPanic' = diskPanic
  BY DEF InputSector, At
<1>2. DiskTypes /\ InStep /\ Selected /\ Stored /\ ReadsLatest /\ Balance
  BY DEF DiskInv
<1>3. dpc[t] \in InChannel /\ "unlock" \in InChannel
  BY <1>1 DEF InChannel
<1>4. ctl.state = "offer" /\ ctl.place = request[t].place
  <2>1. ctl.state \in States(t)
    BY <1>2, <1>3 DEF InStep
  <2>2. ctl.place = request[t].place
    BY <1>1, <1>2 DEF Selected
  <2> QED BY <1>1, <2>1, <2>2 DEF States
<1>5. /\ ctl'.state = "idle" /\ ctl'.irq = ctl.irq
      /\ ctl' \in [state : {"idle", "read", "offer", "write", "take", "store"},
                   irq : BOOLEAN, place : Place, data : DiskValue]
  BY <1>1, <1>2, <1>4 DEF DiskTypes
<1>6. got' \in [DiskThread -> DiskValue] /\ got'[t] = ctl.data
  BY <1>1, <1>2 DEF DiskTypes
<1>7. got'[t] = latest'[request[t].place]
  BY <1>1, <1>2, <1>4, <1>6 DEF Stored
<1>8. /\ dpc' \in [DiskThread -> {"idle", "lock"} \cup InChannel] /\ dpc'[t] = "unlock"
      /\ ChannelHeld' /\ (ctl'.state \in States(t)' => InStep')
      /\ Selected' /\ ReadsLatest'
      /\ (\E u \in DiskThread : Owing(u))' <=> Owing(t)'
      /\ (\E u \in DiskThread : Owing(u)) <=> Owing(t)
  <2> HIDE DEF ChannelHeld, InStep, States, Selected, ReadsLatest, Owing
  <2> QED BY <1>1, <1>3, <1>7, InChannelStep
<1>9. ctl'.state \in States(t)' /\ ~Owing(t)' /\ ~Owing(t)
  BY <1>1, <1>5, <1>8 DEF States, Owing
<1>10. DiskTypes'
  BY <1>1, <1>2, <1>5, <1>6, <1>8 DEF DiskTypes
<1>11. Stored'
  BY <1>1, <1>2, <1>4, <1>5 DEF Stored
<1>12. Due' <=> Due
  BY <1>4, <1>5 DEF Due
<1>13. (\E u \in DiskThread : Owing(u))' <=> (\E u \in DiskThread : Owing(u))
  BY <1>8, <1>9
<1>14. Balance'
  <2> HIDE DEF Due, Owing, Count
  <2> QED BY <1>1, <1>5, <1>12, <1>13, BalanceNow, BalanceStep
<1> QED BY <1>1, <1>8, <1>9, <1>10, <1>11, <1>14 DEF DiskInv

LEMMA OutputStep ==
    ASSUME DiskInv, NEW t \in DiskThread, OutputSector(t)
    PROVE  DiskInv'
<1>1. /\ dpc[t] = "move" /\ request[t].kind = "write" /\ To(t, "down")
      /\ latest' = [latest EXCEPT ![request[t].place] = request[t].data]
      /\ ctl' = [ctl EXCEPT !.data = request[t].data,
                            !.state = IF @ = "take" THEN "store" ELSE @]
      /\ channel' = channel /\ request' = request /\ media' = media
      /\ got' = got /\ slow' = slow /\ spurious' = spurious
      /\ diskPanic' = diskPanic
  BY DEF OutputSector, At
<1>2. DiskTypes /\ InStep /\ Selected /\ Stored /\ ReadsLatest /\ Balance
  BY DEF DiskInv
<1>3. dpc[t] \in InChannel /\ "down" \in InChannel
  BY <1>1 DEF InChannel
<1>4. ctl.state = "take" /\ ctl.place = request[t].place
  <2>1. ctl.state \in States(t)
    BY <1>2, <1>3 DEF InStep
  <2>2. ctl.place = request[t].place
    BY <1>1, <1>2 DEF Selected
  <2>3. ctl.state = "take"
    BY <1>1, <2>1 DEF States
  <2> QED BY <2>2, <2>3
<1>5. request[t].place \in Place /\ request[t].data \in DiskValue
  BY <1>2 DEF DiskTypes
<1>6. /\ ctl'.state = "store" /\ ctl'.irq = ctl.irq /\ ctl'.place = ctl.place
      /\ ctl'.data = request[t].data
      /\ ctl' \in [state : {"idle", "read", "offer", "write", "take", "store"},
                   irq : BOOLEAN, place : Place, data : DiskValue]
  BY <1>1, <1>2, <1>4, <1>5 DEF DiskTypes
<1>7. /\ latest' \in [Place -> DiskValue]
      /\ \A q \in Place :
           latest'[q] = IF q = request[t].place THEN request[t].data ELSE latest[q]
  BY <1>1, <1>2, <1>5 DEF DiskTypes
<1>8. /\ dpc' \in [DiskThread -> {"idle", "lock"} \cup InChannel] /\ dpc'[t] = "down"
      /\ ChannelHeld' /\ (ctl'.state \in States(t)' => InStep')
      /\ Selected' /\ ReadsLatest'
      /\ (\E u \in DiskThread : Owing(u))' <=> Owing(t)'
      /\ (\E u \in DiskThread : Owing(u)) <=> Owing(t)
  <2> HIDE DEF ChannelHeld, InStep, States, Selected, ReadsLatest, Owing
  <2> QED BY <1>1, <1>3, InChannelStep
<1>9. ctl'.state \in States(t)' /\ Owing(t)' /\ Owing(t)
  <2>1. dpc'[t] = "down" /\ request'[t].kind = "write"
    BY <1>1, <1>8
  <2> QED BY <1>1, <1>6, <2>1 DEF States, Owing
<1>10. DiskTypes'
  BY <1>1, <1>2, <1>6, <1>7, <1>8 DEF DiskTypes
<1>11. Stored'
  <2>1. \A q \in Place : media[q] = latest[q]
    BY <1>2, <1>4 DEF Stored
  <2> QED BY <1>1, <1>4, <1>5, <1>6, <1>7, <2>1 DEF Stored
<1>12. Due' <=> Due
  BY <1>4, <1>6 DEF Due
<1>13. (\E u \in DiskThread : Owing(u))' <=> (\E u \in DiskThread : Owing(u))
  BY <1>8, <1>9
<1>14. Balance'
  <2> HIDE DEF Due, Owing, Count
  <2> QED BY <1>1, <1>6, <1>12, <1>13, BalanceNow, BalanceStep
<1> QED BY <1>1, <1>8, <1>9, <1>10, <1>11, <1>14 DEF DiskInv

LEMMA UnlockStep ==
    ASSUME DiskInv, NEW t \in DiskThread, DiskUnlock(t)
    PROVE  DiskInv'
<1>1. /\ dpc[t] = "unlock" /\ dpc' = [dpc EXCEPT ![t] = "idle"]
      /\ channel' = [channel EXCEPT !.lock = NoThread]
      /\ ctl' = ctl /\ request' = request /\ media' = media /\ got' = got
      /\ latest' = latest /\ slow' = slow /\ spurious' = spurious
      /\ diskPanic' = diskPanic
  BY DEF DiskUnlock, At, To
<1>2. DiskTypes /\ InStep /\ Selected /\ Stored /\ ReadsLatest /\ Balance
  BY DEF DiskInv
<1>3. dpc[t] \in InChannel /\ "idle" \notin InChannel
  BY <1>1 DEF InChannel
<1>4. \A u \in DiskThread : u # t => dpc[u] \notin InChannel /\ ~Owing(u)
  BY <1>3, OneInChannel
<1>5. \A u \in DiskThread : dpc'[u] = IF u = t THEN "idle" ELSE dpc[u]
  BY <1>1, <1>2 DEF DiskTypes
<1>6. \A u \in DiskThread : dpc'[u] \notin InChannel
  BY <1>3, <1>4, <1>5
<1>7. /\ channel'.lock = NoThread /\ channel'.completion = channel.completion
      /\ channel'.place = channel.place
  BY <1>1, <1>2 DEF DiskTypes
<1>8. DiskTypes'
  BY <1>1, <1>2 DEF DiskTypes
<1>9. ChannelHeld'
  BY <1>6, <1>7, DiskAssumption DEF ChannelHeld
<1>10. ctl.state \in {"idle", "store"}
  <2>1. ctl.state \in States(t)
    BY <1>2, <1>3 DEF InStep
  <2> QED BY <1>1, <2>1 DEF States
<1>11. InStep'
  BY <1>1, <1>6, <1>10 DEF InStep
<1>12. \A u \in DiskThread : dpc'[u] \notin {"issue", "busy", "move", "down", "unlock"}
  BY <1>6 DEF InChannel
<1>13. Selected' /\ ReadsLatest' /\ \A u \in DiskThread : ~Owing(u)'
  BY <1>12 DEF Selected, ReadsLatest, Owing
<1>14. Stored'
  BY <1>1, <1>2 DEF Stored
<1>15. ~Owing(t)
  BY <1>1 DEF Owing
<1>16. (\E u \in DiskThread : Owing(u))' <=> (\E u \in DiskThread : Owing(u))
  BY <1>4, <1>13, <1>15
<1>17. Due' <=> Due
  BY <1>1 DEF Due
<1>18. Balance'
  <2> HIDE DEF Due, Owing, Count
  <2> QED BY <1>1, <1>7, <1>16, <1>17, BalanceNow, BalanceStep
<1> QED BY <1>1, <1>8, <1>9, <1>11, <1>13, <1>14, <1>18 DEF DiskInv

-----------------------------------------------------------------------------
\* The device leaves the threads where they are.
LEMMA DeviceStep ==
    ASSUME DiskInv, dpc' = dpc, request' = request, channel'.lock = channel.lock,
           got' = got, latest' = latest
    PROVE  /\ ChannelHeld' /\ ReadsLatest'
           /\ (\E t \in DiskThread : Owing(t))' <=> (\E t \in DiskThread : Owing(t))
           /\ \A t \in DiskThread : States(t)' = States(t)
BY DEF DiskInv, ChannelHeld, ReadsLatest, Owing, States

LEMMA ReadyStep ==
    ASSUME DiskInv, ControllerReady
    PROVE  DiskInv'
<1>1. /\ Busy
      /\ ctl' = [ctl EXCEPT
                   !.state = CASE @ = "read" -> "offer" [] @ = "write" -> "take"
                               [] @ = "store" -> "idle",
                   !.data = IF ctl.state = "read" THEN media[ctl.place] ELSE @,
                   !.irq = @ \/ ctl.state # "write"]
      /\ media' = IF ctl.state = "store" THEN [media EXCEPT ![ctl.place] = ctl.data]
                  ELSE media
      /\ dpc' = dpc /\ request' = request /\ channel' = channel /\ got' = got
      /\ latest' = latest /\ slow' = slow /\ spurious' = spurious
      /\ diskPanic' = diskPanic
  BY DEF ControllerReady
<1>2. DiskTypes /\ InStep /\ Selected /\ Stored /\ Balance
  BY DEF DiskInv
<1>3. ctl.place \in Place /\ ctl.data \in DiskValue /\ media[ctl.place] \in DiskValue
      /\ ctl.irq \in BOOLEAN
  BY <1>2 DEF DiskTypes
<1>4. ctl.state \in {"read", "write", "store"}
  BY <1>1 DEF Busy
<1> DEFINE next == IF ctl.state = "read" THEN "offer"
                   ELSE IF ctl.state = "write" THEN "take" ELSE "idle"
           dat == IF ctl.state = "read" THEN media[ctl.place] ELSE ctl.data
           irq == ctl.irq \/ ctl.state # "write"
<1>5. irq \in BOOLEAN /\ dat \in DiskValue
  BY <1>3
<1>6. ctl' = [ctl EXCEPT !.state = next, !.data = dat, !.irq = irq]
  BY <1>1, <1>2, <1>4 DEF DiskTypes
<1>7. /\ ctl'.state = next /\ ctl'.data = dat /\ ctl'.irq = irq
      /\ ctl'.place = ctl.place
      /\ ctl' \in [state : {"idle", "read", "offer", "write", "take", "store"},
                   irq : BOOLEAN, place : Place, data : DiskValue]
  <2> HIDE DEF dat, irq
  <2> QED BY <1>2, <1>5, <1>6 DEF DiskTypes
<1>8. media' \in [Place -> DiskValue]
      /\ \A q \in Place : media'[q] = IF ctl.state = "store" /\ q = ctl.place
                                       THEN ctl.data ELSE media[q]
  BY <1>1, <1>2, <1>3 DEF DiskTypes
<1>9. DiskTypes'
  BY <1>1, <1>2, <1>7, <1>8 DEF DiskTypes
<1>10. /\ ChannelHeld' /\ ReadsLatest'
       /\ (\E t \in DiskThread : Owing(t))' <=> (\E t \in DiskThread : Owing(t))
       /\ \A t \in DiskThread : States(t)' = States(t)
  BY <1>1, DeviceStep
<1>11. \A t \in DiskThread : ctl.state \in States(t) => next \in States(t)
  BY <1>4 DEF States
<1>12. InStep'
  <2>1. ctl.state \in {"idle", "store"} => next \in {"idle", "store"}
    BY <1>4
  <2> HIDE DEF States, next
  <2>2. ctl'.state = next /\ channel' = channel /\ dpc' = dpc  BY <1>1, <1>7
  <2> QED BY <1>2, <1>10, <1>11, <2>1, <2>2 DEF InStep
<1>13. Selected'
  BY <1>1, <1>2, <1>7 DEF Selected
<1>14. Stored'
  <2>1. CASE ctl.state = "read"
    BY <1>1, <1>2, <1>3, <1>7, <1>8, <2>1 DEF Stored
  <2>2. CASE ctl.state = "write"
    BY <1>1, <1>2, <1>3, <1>7, <1>8, <2>2 DEF Stored
  <2>3. CASE ctl.state = "store"
    BY <1>1, <1>2, <1>3, <1>7, <1>8, <2>3 DEF Stored
  <2> QED BY <1>4, <2>1, <2>2, <2>3
<1>15. Due /\ (Due' <=> ctl.state = "write")
  BY <1>4, <1>7 DEF Due
<1>16. Balance'
  <2> DEFINE d == ctl.state = "write"
             o == \E t \in DiskThread : Owing(t)
  <2>1. d \in BOOLEAN /\ o \in BOOLEAN /\ channel.completion \in Nat /\ spurious \in Nat
    BY BalanceNow
  <2>2. Count(irq) + Count(d) <= Count(ctl.irq) + 1
    BY <1>3 DEF Count
  <2>3. Count(irq) \in 0 .. 1 /\ Count(d) \in 0 .. 1 /\ Count(ctl.irq) \in 0 .. 1
        /\ Count(o) \in 0 .. 1
    BY <1>3, <1>5, <2>1, CountType
  <2>4. Count(Due) = 1
    BY <1>15 DEF Count
  <2>5. channel.completion + Count(ctl.irq) + Count(Due) <= spurious + Count(o)
    BY BalanceNow
  <2> HIDE DEF Count, irq, d, o, Due
  <2>6. channel.completion + Count(ctl.irq) + 1 <= spurious + Count(o)
    BY <2>4, <2>5
  <2>7. channel.completion + Count(irq) + Count(d) <= spurious + Count(o)
    BY <2>1, <2>2, <2>3, <2>6
  <2>8. (Due' <=> d) /\ ((\E t \in DiskThread : Owing(t))' <=> o)
    BY <1>10, <1>15 DEF d, o
  <2> HIDE DEF Owing
  <2> QED BY <1>1, <1>5, <1>7, <2>1, <2>7, <2>8, BalanceStep
<1> QED BY <1>1, <1>9, <1>10, <1>12, <1>13, <1>14, <1>16 DEF DiskInv

LEMMA HandlerStep ==
    ASSUME DiskInv, InterruptHandler
    PROVE  DiskInv'
<1> DEFINE c == IF channel.expecting THEN channel.completion + 1 ELSE channel.completion
<1>1. /\ ctl.irq /\ ctl' = [ctl EXCEPT !.irq = FALSE]
      /\ channel' = [channel EXCEPT !.completion = IF channel.expecting THEN @ + 1 ELSE @]
      /\ dpc' = dpc /\ request' = request /\ media' = media /\ got' = got
      /\ latest' = latest /\ slow' = slow /\ spurious' = spurious
      /\ diskPanic' = diskPanic
  BY DEF InterruptHandler
<1>2. DiskTypes /\ InStep /\ Selected /\ Stored /\ Balance
  BY DEF DiskInv
<1>3. channel.completion \in Nat /\ c \in Nat /\ c <= channel.completion + 1
  BY <1>2 DEF DiskTypes
<1>4. channel' = [channel EXCEPT !.completion = c]
  BY <1>1, <1>2 DEF DiskTypes
<1> HIDE DEF c
<1>5. /\ channel'.lock = channel.lock /\ channel'.place = channel.place
      /\ channel'.completion = c
      /\ channel' \in [lock : DiskThread \cup {NoThread}, expecting : BOOLEAN,
                       completion : Nat, place : Place]
  BY <1>2, <1>3, <1>4 DEF DiskTypes
<1>6. /\ ctl'.state = ctl.state /\ ctl'.irq = FALSE /\ ctl'.place = ctl.place
      /\ ctl'.data = ctl.data
      /\ ctl' \in [state : {"idle", "read", "offer", "write", "take", "store"},
                   irq : BOOLEAN, place : Place, data : DiskValue]
  BY <1>1, <1>2 DEF DiskTypes
<1>7. DiskTypes'
  BY <1>1, <1>2, <1>5, <1>6 DEF DiskTypes
<1>8. /\ ChannelHeld' /\ ReadsLatest'
      /\ (\E t \in DiskThread : Owing(t))' <=> (\E t \in DiskThread : Owing(t))
      /\ \A t \in DiskThread : States(t)' = States(t)
  BY <1>1, <1>5, DeviceStep
<1>9. InStep'
  <2> HIDE DEF States
  <2> QED BY <1>1, <1>2, <1>5, <1>6, <1>8 DEF InStep
<1>10. Selected' /\ Stored'
  BY <1>1, <1>2, <1>5, <1>6 DEF Selected, Stored
<1>11. Due' <=> Due
  BY <1>6 DEF Due
<1>12. Balance'
  <2> DEFINE o == \E t \in DiskThread : Owing(t)
  <2>1. Due \in BOOLEAN /\ o \in BOOLEAN /\ spurious \in Nat
    BY BalanceNow
  <2>2. Count(ctl.irq) = 1 /\ Count(FALSE) = 0
    BY <1>1 DEF Count
  <2>3. Count(Due) \in 0 .. 1 /\ Count(o) \in 0 .. 1
    BY <2>1, CountType
  <2>4. channel.completion + Count(ctl.irq) + Count(Due) <= spurious + Count(o)
    BY BalanceNow
  <2> HIDE DEF Count, o, Due
  <2>5. channel.completion + 1 + Count(Due) <= spurious + Count(o)
    BY <2>2, <2>4
  <2>6. c + 0 + Count(Due) <= spurious + Count(o)
    BY <1>3, <2>1, <2>3, <2>5
  <2>7. c + Count(FALSE) + Count(Due) <= spurious + Count(o)
    BY <2>2, <2>6
  <2>8. (\E t \in DiskThread : Owing(t))' <=> o
    BY <1>8 DEF o
  <2> HIDE DEF Owing
  <2> QED BY <1>1, <1>3, <1>5, <1>6, <1>11, <2>1, <2>7, <2>8, BalanceStep
<1> QED BY <1>1, <1>7, <1>8, <1>9, <1>10, <1>12 DEF DiskInv

LEMMA SpuriousStep ==
    ASSUME DiskInv, SpuriousInterrupt
    PROVE  DiskInv'
<1>1. /\ ~slow /\ spurious < MaxSpurious /\ ~ctl.irq
      /\ ctl' = [ctl EXCEPT !.irq = TRUE] /\ spurious' = spurious + 1
      /\ channel' = channel
      /\ dpc' = dpc /\ request' = request /\ media' = media /\ got' = got
      /\ latest' = latest /\ slow' = slow /\ diskPanic' = diskPanic
  BY DEF SpuriousInterrupt
<1>2. DiskTypes /\ InStep /\ Selected /\ Stored /\ Balance
  BY DEF DiskInv
<1>3. spurious \in Nat /\ spurious + 1 \in 0 .. MaxSpurious /\ spurious + 1 \in Nat
  BY <1>1, <1>2, DiskAssumption DEF DiskTypes
<1>4. /\ ctl'.state = ctl.state /\ ctl'.irq = TRUE /\ ctl'.place = ctl.place
      /\ ctl'.data = ctl.data
      /\ ctl' \in [state : {"idle", "read", "offer", "write", "take", "store"},
                   irq : BOOLEAN, place : Place, data : DiskValue]
  BY <1>1, <1>2 DEF DiskTypes
<1>5. DiskTypes'
  BY <1>1, <1>2, <1>3, <1>4 DEF DiskTypes
<1>6. /\ ChannelHeld' /\ ReadsLatest'
      /\ (\E t \in DiskThread : Owing(t))' <=> (\E t \in DiskThread : Owing(t))
      /\ \A t \in DiskThread : States(t)' = States(t)
  BY <1>1, DeviceStep
<1>7. InStep'
  <2> HIDE DEF States
  <2> QED BY <1>1, <1>2, <1>4, <1>6 DEF InStep
<1>8. Selected' /\ Stored'
  BY <1>1, <1>2, <1>4 DEF Selected, Stored
<1>9. Due' <=> Due
  BY <1>4 DEF Due
<1>10. Balance'
  <2> DEFINE o == \E t \in DiskThread : Owing(t)
  <2>1. Due \in BOOLEAN /\ o \in BOOLEAN /\ channel.completion \in Nat
    BY BalanceNow
  <2>2. Count(ctl.irq) = 0 /\ Count(TRUE) = 1
    BY <1>1 DEF Count
  <2>3. Count(Due) \in 0 .. 1 /\ Count(o) \in 0 .. 1
    BY <2>1, CountType
  <2>4. channel.completion + Count(ctl.irq) + Count(Due) <= spurious + Count(o)
    BY BalanceNow
  <2> HIDE DEF Count, o, Due
  <2>5. channel.completion + 0 + Count(Due) <= spurious + Count(o)
    BY <2>2, <2>4
  <2>6. channel.completion + 1 + Count(Due) <= (spurious + 1) + Count(o)
    BY <1>3, <2>1, <2>3, <2>5
  <2>7. channel.completion + Count(TRUE) + Count(Due) <= (spurious + 1) + Count(o)
    BY <2>2, <2>6
  <2>8. (\E t \in DiskThread : Owing(t))' <=> o
    BY <1>6 DEF o
  <2> HIDE DEF Owing
  <2> QED BY <1>1, <1>3, <1>4, <1>9, <2>1, <2>7, <2>8, BalanceStep
<1> QED BY <1>1, <1>5, <1>6, <1>7, <1>8, <1>10 DEF DiskInv

\* The inductive invariant holds in every reachable state of the channel.
THEOREM DiskInvariant == DiskSpec => []DiskInv
<1>1. DiskInv /\ [DiskNext]_diskVars => DiskInv'
  <2> SUFFICES ASSUME DiskInv, [DiskNext]_diskVars PROVE DiskInv'
    OBVIOUS
  <2>1. CASE UNCHANGED diskVars
    <3> USE <2>1 DEF diskVars
    <3>1. DiskTypes' /\ ChannelHeld' /\ InStep'
      BY DEF DiskInv, DiskTypes, ChannelHeld, InStep, States
    <3>2. Selected' /\ Stored' /\ ReadsLatest' /\ Balance'
      BY DEF DiskInv, Selected, Stored, ReadsLatest, Balance, Due, Owing, Count
    <3> QED BY <3>1, <3>2 DEF DiskInv
  <2>2. CASE DiskDone
    BY <2>1, <2>2 DEF DiskDone
  <2>3. ASSUME NEW t \in DiskThread, DiskThreadStep(t) PROVE DiskInv'
    <3>1. DiskBlank \in DiskValue
      BY DiskAssumption DEF DiskBlank
    <3> QED
      BY <2>3, <3>1, RequestStep, LockStep, SelectStep, IssueStep, DownStep, BusyStep,
         InputStep, OutputStep, UnlockStep DEF DiskThreadStep
  <2> QED
    BY <2>1, <2>2, <2>3, ReadyStep, HandlerStep, SpuriousStep DEF DiskNext
<1> QED BY DiskInitInv, <1>1, PTL DEF DiskSpec

\* The driver of ide.c, whatever the threads ask for and whenever interrupts
\* come: a read returns the sector sent last, the semaphore of the channel is
\* up exactly for the interrupts asked for, and no PANIC is reached.
THEOREM DiskCorrect == DiskSpec => []DiskSound
<1>1. DiskInv => DiskSound
  <2> SUFFICES ASSUME DiskInv PROVE DiskSound
    OBVIOUS
  <2>1. DiskTypes /\ ChannelHeld /\ InStep /\ ReadsLatest
    BY DEF DiskInv
  <2> DEFINE o == \E t \in DiskThread : Owing(t)
  <2>2. channel.completion \in Nat /\ spurious \in 0 .. MaxSpurious /\ ctl.irq \in BOOLEAN
        /\ Due \in BOOLEAN /\ o \in BOOLEAN
    BY <2>1, BalanceNow DEF DiskTypes
  <2>3. channel.completion + Count(ctl.irq) + Count(Due) <= spurious + Count(o)
    BY BalanceNow
  <2>4. Count(ctl.irq) \in 0 .. 1 /\ Count(Due) \in 0 .. 1 /\ Count(o) \in 0 .. 1
    BY <2>2, CountType
  <2>5. (Count(ctl.irq) = 0 <=> ~ctl.irq) /\ (Count(Due) = 0 <=> ~Due)
        /\ (Count(o) = 0 <=> ~o)
    BY <2>2, CountType
  <2> HIDE DEF o, Count
  <2>6. channel.completion \in 0 .. 1 + MaxSpurious
    BY <2>2, <2>3, <2>4, DiskAssumption
  <2>7. spurious = 0 => channel.completion <= 1
    BY <2>2, <2>3, <2>4
  <2>8. spurious = 0 /\ Count(o) = 0 =>
          channel.completion = 0 /\ Count(ctl.irq) = 0 /\ Count(Due) = 0
    BY <2>2, <2>3, <2>4
  <2>9. channel.lock = NoThread => ~o
    BY <2>1, DiskAssumption DEF o, ChannelHeld, Owing, InChannel
  <2>10. CompletionBalanced
    BY <2>5, <2>7, <2>8, <2>9 DEF CompletionBalanced
  <2>11. IdleWhenSelected
    <3> SUFFICES ASSUME NEW t \in DiskThread, dpc[t] \in {"select", "issue"}, spurious = 0
                 PROVE  ctl.state = "idle"
      BY DEF IdleWhenSelected
    <3>1. dpc[t] \in InChannel /\ ~Owing(t)
      BY DEF InChannel, Owing
    <3>2. ~o
      BY <3>1, OneInChannel DEF o
    <3>3. ~Due
      BY <2>5, <2>8, <3>2
    <3>4. ctl.state \in States(t)
      BY <2>1, <3>1 DEF InStep
    <3>5. ctl.state \in {"idle", "store"}
      BY <3>4 DEF States
    <3> QED BY <3>3, <3>5 DEF Due
  <2>12. DiskTypeOK
    BY <2>1, <2>6 DEF DiskTypes, DiskTypeOK, InChannel
  <2> QED BY <2>1, <2>10, <2>11, <2>12 DEF DiskSound, DiskInv, NoDiskPanic
<1> QED BY <1>1, DiskInvariant, PTL

-----------------------------------------------------------------------------
\* The page and block allocators, for any pools and any number of threads.

Ram == DOMAIN used
Arenas == {p \in Ram : arena[p] >= 0}

MemTypes ==
    /\ Ram \subseteq Nat /\ used \in [Ram -> BOOLEAN] /\ arena \in [Ram -> Int]
    /\ \A k \in {"kernel", "user"} :
         pool[k].base \in Nat /\ pool[k].size \in Int /\ PagesOf(pool[k]) \subseteq Ram
    /\ PagesOf(pool["kernel"]) \cap PagesOf(pool["user"]) = {}
    /\ poolLock \in [{"kernel", "user"} -> MemThread \cup {Nobody}]
    /\ descLock \in MemThread \cup {Nobody}
    /\ free_list \in Seq(Ram \X (0 .. PerArena - 1))
    /\ mpc \in [MemThread -> {"idle", "desc", "pool", "scan", "flip", "arena", "clear", "leave"}]
    /\ want \in [MemThread -> {"small", "big", "user"}]
    /\ pages \in [MemThread -> [first : Nat, end : Nat]]
    /\ own \in [MemThread -> [kind : {"none", "small", "big", "user"}, first : Nat, idx : Nat]]

\* The locks are held where the code is between acquire and release.
InPool(t) == mpc[t] \in {"scan", "flip"}
InDesc(t) ==
    mpc[t] = "leave" \/ (want[t] = "small" /\ mpc[t] \in {"pool", "scan", "flip", "arena", "clear"})
MemLocks ==
    /\ \A t \in MemThread : \A k \in {"kernel", "user"} :
         poolLock[k] = t <=> (InPool(t) /\ PoolOf(want[t]) = k)
    /\ \A t \in MemThread : descLock = t <=> InDesc(t)

\* What a thread has where it is.  While it looks for a page for an arena no
\* block is free.
Standing(t) ==
    LET w == pages[t]
        n == PageCount(want[t])
        home == PagesOf(pool[PoolOf(want[t])])
    IN  /\ own[t].kind = "none" => own[t] = NoBlock
        /\ own[t].kind # "none" => own[t].kind = want[t]
        /\ mpc[t] \in {"pool", "scan", "flip", "arena", "clear"} => own[t].kind = "none"
        /\ mpc[t] \in {"desc", "leave"} => want[t] = "small"
        /\ want[t] = "small" /\ mpc[t] \in {"pool", "scan", "flip", "arena"} => free_list = <<>>
        /\ own[t].kind \in {"big", "user"} =>
             own[t].first .. own[t].first + PageCount(own[t].kind) - 1 \subseteq Ram
        /\ mpc[t] = "scan" => w.first = w.end /\ w.first >= pool[PoolOf(want[t])].base
        /\ mpc[t] = "flip" =>
             /\ w.first <= w.end /\ w.end < w.first + n
             /\ w.first .. w.first + n - 1 \subseteq home
             /\ \A p \in w.end .. w.first + n - 1 : ~used[p]
        /\ mpc[t] = "arena" =>
             w.end = w.first \/ (w.end = w.first + n /\ w.first .. w.end - 1 \subseteq home)
        /\ mpc[t] = "clear" => w.first < w.end /\ w.first .. w.end - 1 \subseteq Ram

\* A page has one user, and the bitmap says which pages have one.
OnePageUser ==
    /\ \A t \in MemThread : Held(t) \cap Arenas = {}
    /\ \A t, u \in MemThread : t # u => Held(t) \cap Held(u) = {}
    /\ \A p \in Ram : used[p] <=> (p \in Arenas \/ \E t \in MemThread : p \in Held(t))

\* The blocks of an arena on the free list, and the blocks threads have.
FreeOf(p) == {x \in ToSet(free_list) : x[1] = p}
OneBlockUser ==
    /\ IsInjective(free_list)
    /\ \A x \in ToSet(free_list) : x[1] \in Arenas
    /\ \A t \in MemThread : own[t].kind = "small" =>
         /\ own[t].first \in Arenas /\ own[t].idx \in 0 .. PerArena - 1
         /\ <<own[t].first, own[t].idx>> \notin ToSet(free_list)
    /\ \A t, u \in MemThread :
         own[t].kind = "small" /\ own[u].kind = "small" /\ t # u =>
           <<own[t].first, own[t].idx>> # <<own[u].first, own[u].idx>>
    /\ \A p \in Arenas : arena[p] = Cardinality(FreeOf(p)) /\ arena[p] < PerArena

MemInv ==
    /\ MemTypes
    /\ MemLocks
    /\ \A t \in MemThread : Standing(t)
    /\ OnePageUser
    /\ OneBlockUser

\* A list after list_remove of each element of a set.
LEMMA WithoutElements ==
    ASSUME NEW S, NEW s \in Seq(S), NEW R
    PROVE  /\ Without(s, R) \in Seq(S)
           /\ ToSet(Without(s, R)) = ToSet(s) \ R
           /\ IsInjective(s) => IsInjective(Without(s, R))
<1> DEFINE Turn(f, n) == IF n = 0 THEN <<>>
                         ELSE IF s[n] \in R THEN f[n - 1] ELSE Append(f[n - 1], s[n])
           N == Len(s)
           kept == CHOOSE kept : kept = [n \in 0 .. N |-> Turn(kept, n)]
           First(n) == {s[i] : i \in 1 .. n}
<1>1. N \in Nat /\ \A i \in 1 .. N : s[i] \in S  OBVIOUS
<1>2. \A n \in Nat : \E f : f = [m \in 0 .. n |-> Turn(f, m)]
  <2> SUFFICES ASSUME NEW n0 \in Nat, ~\E f : f = [m \in 0 .. n0 |-> Turn(f, m)] PROVE FALSE
    OBVIOUS
  <2> DEFINE T == {n \in Nat : ~\E f : f = [m \in 0 .. n |-> Turn(f, m)]}
  <2>1. T \subseteq Nat /\ T # {}  OBVIOUS
  <2>2. PICK n \in T : \A j \in T : n <= j
    <3> HIDE DEF T
    <3>1. QED  BY <2>1, LeastNatural
  <2>3. CASE n = 0
    <3> DEFINE f == [m \in 0 .. 0 |-> <<>>]
    <3>1. f = [m \in 0 .. 0 |-> Turn(f, m)]  OBVIOUS
    <3> HIDE DEF f
    <3>2. QED  BY <2>3, <3>1
  <2>4. CASE n # 0
    <3>0. n \in Nat  OBVIOUS
    <3>1. n - 1 \in Nat /\ n - 1 \notin T
      <4> HIDE DEF T
      <4>1. n - 1 \in Nat /\ ~(n <= n - 1)  BY <2>4, <3>0
      <4>2. QED  BY <2>2, <4>1
    <3>2. PICK f : f = [m \in 0 .. n - 1 |-> Turn(f, m)]  BY <3>1
    <3> DEFINE g == [m \in 0 .. n |-> IF m = n THEN Turn(f, n) ELSE f[m]]
    <3>3. \A m \in 0 .. n - 1 : g[m] = f[m]  BY <3>1
    <3>4. \A m \in 0 .. n : m # 0 => m - 1 \in 0 .. n - 1  BY <3>1
    <3>5. \A m \in 0 .. n : Turn(g, m) = Turn(f, m)  BY <3>3, <3>4
    <3>6. \A m \in 0 .. n : g[m] = Turn(f, m)
      <4> HIDE DEF Turn
      <4>1. \A m \in 0 .. n - 1 : f[m] = Turn(f, m)  BY <3>2
      <4>2. \A m \in 0 .. n : m # n => m \in 0 .. n - 1  BY <3>1
      <4>3. QED  BY <4>1, <4>2
    <3>7. g = [m \in 0 .. n |-> Turn(g, m)]
      <4>1. g = [m \in 0 .. n |-> g[m]]  OBVIOUS
      <4> HIDE DEF Turn, g
      <4>2. QED  BY <3>5, <3>6, <4>1
    <3> HIDE DEF g
    <3>8. QED  BY <3>7
  <2>5. QED  BY <2>3, <2>4
<1>3. kept = [n \in 0 .. N |-> Turn(kept, n)]
  <2>1. \E f : f = [m \in 0 .. N |-> Turn(f, m)]  BY <1>1, <1>2
  <2>2. QED  BY <2>1
<1>4. Without(s, R) = kept[N]  BY DEF Without
<1> HIDE DEF kept
<1>5. \A n \in 0 .. N : kept[n] = Turn(kept, n)
  <2> HIDE DEF Turn
  <2>1. QED  BY <1>3
<1> DEFINE Good(n) == /\ kept[n] \in Seq(S) /\ ToSet(kept[n]) = First(n) \ R
                      /\ IsInjective(s) => IsInjective(kept[n])
<1>6. \A n \in Nat : n <= N => Good(n)
  <2> SUFFICES ASSUME NEW n0 \in Nat, n0 <= N, ~Good(n0) PROVE FALSE
    OBVIOUS
  <2> DEFINE T == {n \in Nat : n <= N /\ ~Good(n)}
  <2>1. T \subseteq Nat /\ T # {}  OBVIOUS
  <2>2. PICK n \in T : \A j \in T : n <= j
    <3> HIDE DEF T
    <3>1. QED  BY <2>1, LeastNatural
  <2>3. n \in Nat /\ n <= N /\ ~Good(n)  OBVIOUS
  <2>4. CASE n = 0
    <3>1. kept[n] = <<>> /\ First(n) = {}  BY <1>1, <1>5, <2>4
    <3>2. kept[n] \in Seq(S) /\ ToSet(kept[n]) = {} /\ IsInjective(kept[n])
      BY <3>1, EmptyProperties
    <3>3. QED  BY <2>3, <3>1, <3>2
  <2>5. CASE n # 0
    <3>0. n - 1 \in Nat /\ n - 1 <= N /\ ~(n <= n - 1) /\ n \in 1 .. N /\ n \in 0 .. N
      <4> HIDE DEF Good
      <4>1. QED  BY <1>1, <2>3, <2>5
    <3>1. n - 1 \in Nat /\ n - 1 <= N /\ n - 1 \notin T /\ n \in 1 .. N /\ n \in 0 .. N
      <4> HIDE DEF T
      <4>1. QED  BY <2>2, <3>0
    <3>2. Good(n - 1)  BY <3>1
    <3>3. First(n) = First(n - 1) \cup {s[n]} /\ s[n] \in S
      <4>1. 1 .. n = (1 .. n - 1) \cup {n}  BY <3>1
      <4>2. QED  BY <1>1, <3>1, <4>1
    <3>4. CASE s[n] \in R
      <4>1. kept[n] = kept[n - 1]  BY <1>5, <2>5, <3>1, <3>4
      <4>2. First(n) \ R = First(n - 1) \ R  BY <3>3, <3>4
      <4>3. QED  BY <2>3, <3>2, <4>1, <4>2
    <3>5. CASE s[n] \notin R
      <4>1. kept[n] = Append(kept[n - 1], s[n])  BY <1>5, <2>5, <3>1, <3>5
      <4>2. First(n) \ R = (First(n - 1) \ R) \cup {s[n]}  BY <3>3, <3>5
      <4> HIDE DEF First
      <4>3. ToSet(kept[n]) = First(n) \ R /\ kept[n] \in Seq(S)
        BY <3>2, <3>3, <4>1, <4>2, AppendElements
      <4>4. ASSUME IsInjective(s) PROVE IsInjective(kept[n])
        <5>1. \A i \in 1 .. n - 1 : i \in DOMAIN s /\ n \in DOMAIN s /\ i # n  BY <1>1, <3>1
        <5>2. s[n] \notin First(n - 1)  BY <4>4, <5>1 DEF IsInjective, First
        <5>3. s[n] \notin ToSet(kept[n - 1]) /\ IsInjective(kept[n - 1])  BY <3>2, <4>4, <5>2
        <5>4. QED  BY <3>2, <3>3, <4>1, <5>3, AppendElements
      <4>5. QED  BY <2>3, <4>3, <4>4
    <3>6. QED  BY <3>4, <3>5
  <2>6. QED  BY <2>4, <2>5
<1>7. Good(N)
  <2> HIDE DEF Good
  <2>1. N <= N  BY <1>1
  <2>2. QED  BY <1>1, <1>6, <2>1
<1>8. ToSet(s) = First(N)  BY SeqElements
<1>9. QED  BY <1>4, <1>7, <1>8

\* Two sets matched one to one are of one size.
LEMMA MatchedSets ==
    ASSUME NEW A, NEW B, IsFiniteSet(A), NEW f \in [A -> B],
           \A x, y \in A : f[x] = f[y] => x = y, \A b \in B : \E x \in A : f[x] = b
    PROVE  IsFiniteSet(B) /\ Cardinality(B) = Cardinality(A)
<1>1. f \in Surjection(A, B)  BY DEF Surjection
<1>2. f \in Injection(A, B)  BY DEF Injection, IsInjective
<1>3. QED  BY <1>1, <1>2, FS_Surjection

\* The elements of a list are finitely many.
LEMMA FiniteElements ==
    ASSUME NEW S, NEW s \in Seq(S)
    PROVE  IsFiniteSet(ToSet(s))
<1>1. Len(s) \in Nat /\ DOMAIN s = 1 .. Len(s) /\ ToSet(s) = {s[i] : i \in 1 .. Len(s)}
  BY SeqElements
<1>2. IsFiniteSet(1 .. Len(s))  BY <1>1, FS_Interval
<1>3. s \in Surjection(1 .. Len(s), ToSet(s))
  <2>1. s \in [1 .. Len(s) -> ToSet(s)]  BY <1>1
  <2>2. QED  BY <1>1, <2>1 DEF Surjection
<1>4. QED  BY <1>2, <1>3, FS_Surjection

\* An arena has PerArena blocks.
LEMMA BlockCount ==
    ASSUME NEW p
    PROVE  IsFiniteSet(Blocks(p)) /\ Cardinality(Blocks(p)) = PerArena
<1> DEFINE f == [i \in 0 .. PerArena - 1 |-> <<p, i>>]
<1>1. PerArena \in Nat \ {0}  BY MemoryAssumption
<1>2. IsFiniteSet(0 .. PerArena - 1) /\ Cardinality(0 .. PerArena - 1) = PerArena
  BY <1>1, FS_Interval
<1>3. f \in [0 .. PerArena - 1 -> Blocks(p)]  BY DEF Blocks
<1>4. \A x, y \in 0 .. PerArena - 1 : f[x] = f[y] => x = y  OBVIOUS
<1>5. \A b \in Blocks(p) : \E x \in 0 .. PerArena - 1 : f[x] = b  BY DEF Blocks
<1> HIDE DEF f
<1>6. f \in Surjection(0 .. PerArena - 1, Blocks(p))  BY <1>3, <1>5 DEF Surjection
<1>7. f \in Injection(0 .. PerArena - 1, Blocks(p))  BY <1>3, <1>4 DEF Injection, IsInjective
<1>8. QED  BY <1>2, <1>6, <1>7, FS_Surjection

\* init_pool: the bitmap's pages come off the front.
LEMMA PoolPages ==
    ASSUME NEW base \in Nat, NEW cnt \in Nat
    PROVE  /\ init_pool(base, cnt).base \in Nat /\ init_pool(base, cnt).size \in Int
           /\ PagesOf(init_pool(base, cnt)) \subseteq base .. base + cnt - 1
<1> DEFINE bm == DivRoundUp(cnt + 1, BitsPerPage)
<1>1. bm \in Nat
  <2>1. BitsPerPage \in Nat \ {0} /\ cnt + 1 + BitsPerPage - 1 \in Nat  BY MemoryAssumption
  <2>2. QED  BY <2>1 DEF DivRoundUp
<1> HIDE DEF bm
<1>2. init_pool(base, cnt) = [base |-> base + bm, size |-> cnt - bm]  BY DEF init_pool, bm
<1>3. QED  BY <1>1, <1>2 DEF PagesOf

LEMMA MemInitInv == MemInit => MemInv
<1> SUFFICES ASSUME MemInit PROVE MemInv
  OBVIOUS
<1>1. PICK free \in RamPages :
         /\ pool = palloc_init(free)
         /\ used = [p \in 0 .. free - 1 |-> FALSE]
         /\ arena = [p \in 0 .. free - 1 |-> -1]
  BY DEF MemInit
<1>2. free \in Nat /\ UserLimit \in Nat /\ Nobody \notin MemThread  BY MemoryAssumption
<1> DEFINE user == IF free \div 2 > UserLimit THEN UserLimit ELSE free \div 2
<1>3. user \in 0 .. free /\ free - user \in Nat  BY <1>2
<1>4. pool["kernel"] = init_pool(0, free - user) /\ pool["user"] = init_pool(free - user, user)
  BY <1>1 DEF palloc_init
<1> HIDE DEF user
<1>5. /\ pool["kernel"].base \in Nat /\ pool["kernel"].size \in Int
      /\ PagesOf(pool["kernel"]) \subseteq 0 .. 0 + (free - user) - 1
  BY <1>3, <1>4, PoolPages
<1>6. /\ pool["user"].base \in Nat /\ pool["user"].size \in Int
      /\ PagesOf(pool["user"]) \subseteq free - user .. (free - user) + user - 1
  BY <1>3, <1>4, PoolPages
<1>7. Ram = 0 .. free - 1 /\ Ram \subseteq Nat  BY <1>1, <1>2 DEF Ram
<1>8. /\ PagesOf(pool["kernel"]) \subseteq Ram /\ PagesOf(pool["user"]) \subseteq Ram
      /\ PagesOf(pool["kernel"]) \cap PagesOf(pool["user"]) = {}
  BY <1>2, <1>3, <1>5, <1>6, <1>7
<1>9. MemTypes
  <2>1. used \in [Ram -> BOOLEAN] /\ arena \in [Ram -> Int]  BY <1>1, <1>7
  <2>2. free_list \in Seq(Ram \X (0 .. PerArena - 1))  BY DEF MemInit
  <2>3. \A k \in {"kernel", "user"} :
          pool[k].base \in Nat /\ pool[k].size \in Int /\ PagesOf(pool[k]) \subseteq Ram
    BY <1>5, <1>6, <1>8
  <2>4. QED  BY <1>7, <1>8, <2>1, <2>2, <2>3 DEF MemInit, MemTypes, NoBlock
<1>10. MemLocks  BY <1>2 DEF MemInit, MemLocks, InPool, InDesc
<1>11. \A t \in MemThread : Standing(t)  BY DEF MemInit, Standing, NoBlock
<1>12. Arenas = {} /\ \A t \in MemThread : Held(t) = {}
  <2>1. \A p \in Ram : ~(arena[p] >= 0)  BY <1>1, <1>7
  <2>2. QED  BY <2>1 DEF Arenas, Held, MemInit, NoBlock
<1>13. OnePageUser  BY <1>1, <1>7, <1>12 DEF OnePageUser
<1>14. OneBlockUser
  <2>1. ToSet(free_list) = {} /\ IsInjective(free_list)  BY EmptyProperties DEF MemInit
  <2>2. \A t \in MemThread : own[t].kind = "none"  BY DEF MemInit, NoBlock
  <2>3. QED  BY <1>12, <2>1, <2>2 DEF OneBlockUser
<1>15. QED  BY <1>9, <1>10, <1>11, <1>13, <1>14 DEF MemInv

\* Pages that go from a thread to the arenas or back, or that no one had.
LEMMA PageMove ==
    ASSUME OnePageUser, NEW t \in MemThread, Ram' = Ram,
           \A u \in MemThread \ {t} : Held(u)' = Held(u),
           Held(t)' \cap Arenas' = {},
           \A p \in Held(t)' \cup Arenas' : p \in Held(t) \cup Arenas \/ (p \in Ram /\ ~used[p]),
           \A p \in Ram : used'[p] <=> (\/ p \in Held(t)' \cup Arenas'
                                        \/ used[p] /\ p \notin Held(t) \cup Arenas)
    PROVE  OnePageUser'
<1>1. \A u \in MemThread \ {t} : Held(u) \cap (Held(t)' \cup Arenas') = {}
  <2> SUFFICES ASSUME NEW u \in MemThread \ {t}, NEW p \in Held(u), p \in Held(t)' \cup Arenas'
               PROVE  FALSE
    OBVIOUS
  <2>1. p \notin Held(t) /\ p \notin Arenas  BY DEF OnePageUser
  <2>2. p \in Ram => used[p]  BY DEF OnePageUser
  <2>3. QED  BY <2>1, <2>2
<1>2. ASSUME NEW u \in MemThread PROVE Held(u)' \cap Arenas' = {}
  BY <1>1
<1>3. ASSUME NEW u \in MemThread, NEW v \in MemThread, u # v PROVE Held(u)' \cap Held(v)' = {}
  <2>1. CASE u = t  BY <1>1, <1>3, <2>1
  <2>2. CASE v = t  BY <1>1, <1>3, <2>2
  <2>3. CASE u # t /\ v # t
    <3>1. Held(u) \cap Held(v) = {}  BY <1>3 DEF OnePageUser
    <3>2. QED  BY <2>3, <3>1
  <2>4. QED  BY <2>1, <2>2, <2>3
<1>4. ASSUME NEW p \in Ram
      PROVE  used'[p] <=> (p \in Arenas' \/ \E u \in MemThread : p \in Held(u)')
  <2>1. used[p] <=> (p \in Arenas \/ \E u \in MemThread : p \in Held(u))  BY DEF OnePageUser
  <2>2. ASSUME NEW u \in MemThread \ {t}, p \in Held(u) PROVE p \notin Held(t) \cup Arenas
    BY <2>2 DEF OnePageUser
  <2>3. (used[p] /\ p \notin Held(t) \cup Arenas) <=> \E u \in MemThread \ {t} : p \in Held(u)
    BY <2>1, <2>2
  <2>4. (\E u \in MemThread \ {t} : p \in Held(u)) <=> \E u \in MemThread \ {t} : p \in Held(u)'
    OBVIOUS
  <2>5. (p \in Arenas' \/ \E u \in MemThread : p \in Held(u)')
          <=> (p \in Held(t)' \cup Arenas' \/ \E u \in MemThread \ {t} : p \in Held(u)')
    OBVIOUS
  <2>6. QED  BY <2>3, <2>4, <2>5
<1>5. QED  BY <1>2, <1>3, <1>4 DEF OnePageUser

\* Pages that stay where they are.
LEMMA PageStay ==
    ASSUME OnePageUser, UNCHANGED <<used, arena>>, \A u \in MemThread : Held(u)' = Held(u)
    PROVE  OnePageUser'
<1>1. Ram' = Ram /\ Arenas' = Arenas  BY DEF Ram, Arenas
<1>2. QED  BY <1>1 DEF OnePageUser

\* Blocks that stay where they are.
LEMMA BlockStay ==
    ASSUME OneBlockUser, Ram' = Ram, UNCHANGED <<free_list, arena>>,
           \A u \in MemThread : own'[u] = own[u] \/ (own[u].kind # "small" /\ own'[u].kind # "small")
    PROVE  OneBlockUser'
<1>1. Arenas' = Arenas  BY DEF Arenas
<1>2. \A p : FreeOf(p)' = FreeOf(p)  BY DEF FreeOf
<1>3. \A u \in MemThread : own'[u].kind = "small" => own'[u] = own[u] /\ own[u].kind = "small"
  OBVIOUS
<1>4. QED  BY <1>1, <1>2, <1>3 DEF OneBlockUser

\* A thread that does not move stays in place: the bits it is about to set
\* are not set by another, and the free list it found empty is not filled.
LEMMA OtherStanding ==
    ASSUME MemTypes, NEW u \in MemThread, Standing(u), pool' = pool, Ram' = Ram,
           mpc'[u] = mpc[u], want'[u] = want[u], pages'[u] = pages[u], own'[u] = own[u],
           mpc[u] = "flip" =>
             \A p \in PagesOf(pool[PoolOf(want[u])]) : used'[p] => used[p],
           free_list' = free_list \/ ~InDesc(u)
    PROVE  Standing(u)'
<1>1. want[u] = "small" /\ mpc[u] \in {"pool", "scan", "flip", "arena"} => free_list' = <<>>
  BY DEF Standing, InDesc
<1>2. ASSUME mpc[u] = "flip",
             NEW p \in pages[u].end .. pages[u].first + PageCount(want[u]) - 1
      PROVE  ~used'[p]
  <2>1. /\ pages[u].first <= pages[u].end
        /\ pages[u].first .. pages[u].first + PageCount(want[u]) - 1 \subseteq PagesOf(pool[PoolOf(want[u])])
        /\ ~used[p]
    BY <1>2 DEF Standing
  <2>2. p \in PagesOf(pool[PoolOf(want[u])])
    <3>1. pages[u].first \in Nat /\ pages[u].end \in Nat /\ PageCount(want[u]) \in Nat
      BY DEF MemTypes, PageCount
    <3>2. p \in pages[u].first .. pages[u].first + PageCount(want[u]) - 1
      BY <1>2, <2>1, <3>1
    <3>3. QED  BY <2>1, <3>2
  <2>3. QED  BY <1>2, <2>1, <2>2
<1>3. QED  BY <1>1, <1>2 DEF Standing

\* Only thread t moves.
Moves(t) ==
    \A u \in MemThread \ {t} : /\ mpc'[u] = mpc[u] /\ want'[u] = want[u]
                               /\ pages'[u] = pages[u] /\ own'[u] = own[u]

Undisturbed(t) ==
    \A u \in MemThread \ {t} : /\ Standing(u)' /\ Held(u)' = Held(u)
                               /\ InPool(u)' <=> InPool(u)
                               /\ InDesc(u)' <=> InDesc(u)
                               /\ PoolOf(want'[u]) = PoolOf(want[u])

\* The others, while t sets no bit but under the lock of its pool and changes
\* the free list only under the descriptor's lock.
LEMMA OtherThreads ==
    ASSUME MemInv, NEW t \in MemThread, Moves(t), pool' = pool, Ram' = Ram,
           \A p \in Ram : used'[p] => used[p] \/ (InPool(t) /\ p \in PagesOf(pool[PoolOf(want[t])])),
           free_list' = free_list \/ descLock \in {Nobody, t}
    PROVE  Undisturbed(t)
<1> SUFFICES ASSUME NEW u \in MemThread \ {t}
             PROVE  /\ Standing(u)' /\ Held(u)' = Held(u)
                    /\ InPool(u)' <=> InPool(u)
                    /\ InDesc(u)' <=> InDesc(u)
                    /\ PoolOf(want'[u]) = PoolOf(want[u])
  BY DEF Undisturbed
<1>1. mpc'[u] = mpc[u] /\ want'[u] = want[u] /\ pages'[u] = pages[u] /\ own'[u] = own[u]
  BY DEF Moves
<1>2. free_list' = free_list \/ ~InDesc(u)
  <2>1. CASE descLock \in {Nobody, t}
    <3>1. descLock # u  BY <2>1, MemoryAssumption
    <3>2. QED  BY <3>1 DEF MemInv, MemLocks
  <2>2. QED  BY <2>1
<1>3. PoolOf(want[u]) \in {"kernel", "user"} /\ PoolOf(want[t]) \in {"kernel", "user"}  BY DEF PoolOf
<1>4. ASSUME mpc[u] = "flip", NEW p \in PagesOf(pool[PoolOf(want[u])]), used'[p] PROVE used[p]
  <2>1. p \in Ram  BY <1>3 DEF MemInv, MemTypes
  <2>2. CASE InPool(t) /\ p \in PagesOf(pool[PoolOf(want[t])])
    <3>1. PoolOf(want[t]) = PoolOf(want[u])
      <4>1. PagesOf(pool["kernel"]) \cap PagesOf(pool["user"]) = {}  BY DEF MemInv, MemTypes
      <4>2. QED  BY <1>3, <1>4, <2>2, <4>1
    <3>2. poolLock[PoolOf(want[u])] = u  BY <1>3, <1>4 DEF MemInv, MemLocks, InPool
    <3>3. poolLock[PoolOf(want[t])] = t  BY <1>3, <2>2 DEF MemInv, MemLocks
    <3>4. QED  BY <3>1, <3>2, <3>3
  <2>3. QED  BY <1>4, <2>1, <2>2
<1>5. Standing(u) /\ MemTypes  BY DEF MemInv
<1>6. Standing(u)'  BY <1>1, <1>2, <1>4, <1>5, OtherStanding
<1>7. QED  BY <1>1, <1>6 DEF Held, Busy_, InPool, InDesc

\* The locks, when t moves.
LEMMA LocksStep ==
    ASSUME MemInv, NEW t \in MemThread, Undisturbed(t),
           \A u \in MemThread \ {t} : /\ descLock' = u <=> descLock = u
                                      /\ \A k \in {"kernel", "user"} : poolLock'[k] = u <=> poolLock[k] = u,
           \A k \in {"kernel", "user"} : poolLock'[k] = t <=> (InPool(t)' /\ PoolOf(want'[t]) = k),
           descLock' = t <=> InDesc(t)'
    PROVE  MemLocks'
<1>1. ASSUME NEW u \in MemThread \ {t}, NEW k \in {"kernel", "user"}
      PROVE  /\ poolLock'[k] = u <=> (InPool(u)' /\ PoolOf(want'[u]) = k)
             /\ descLock' = u <=> InDesc(u)'
  <2>1. poolLock[k] = u <=> (InPool(u) /\ PoolOf(want[u]) = k)  BY DEF MemInv, MemLocks
  <2>2. descLock = u <=> InDesc(u)  BY DEF MemInv, MemLocks
  <2>3. QED  BY <2>1, <2>2 DEF Undisturbed
<1>2. QED  BY <1>1 DEF MemLocks

\* Types of what a thread has.
LEMMA ThreadTypes ==
    ASSUME MemTypes, NEW t \in MemThread
    PROVE  /\ pages[t] \in [first : Nat, end : Nat] /\ pages[t].first \in Nat /\ pages[t].end \in Nat
           /\ own[t] \in [kind : {"none", "small", "big", "user"}, first : Nat, idx : Nat]
           /\ own[t].first \in Nat /\ own[t].idx \in Nat
           /\ want[t] \in {"small", "big", "user"}
           /\ PageCount(want[t]) \in {1, 2} /\ (want[t] = "small" => PageCount(want[t]) = 1)
           /\ PoolOf(want[t]) \in {"kernel", "user"} /\ (want[t] = "small" => PoolOf(want[t]) = "kernel")
           /\ DOMAIN pages = MemThread /\ DOMAIN own = MemThread /\ DOMAIN mpc = MemThread
           /\ DOMAIN want = MemThread
<1>1. pages[t] \in [first : Nat, end : Nat]  BY DEF MemTypes
<1>2. own[t] \in [kind : {"none", "small", "big", "user"}, first : Nat, idx : Nat]  BY DEF MemTypes
<1>3. want[t] \in {"small", "big", "user"}  BY DEF MemTypes
<1>4. QED  BY <1>1, <1>2, <1>3 DEF MemTypes, PageCount, PoolOf

LEMMA MallocStep ==
    ASSUME MemInv, NEW t \in MemThread, NEW kind \in {"small", "big", "user"}, Malloc(t, kind)
    PROVE  MemInv'
<1>0. MemTypes /\ MemLocks /\ Standing(t) /\ OnePageUser /\ OneBlockUser  BY DEF MemInv
<1>1. /\ mpc[t] = "idle" /\ own[t] = NoBlock
      /\ want' = [want EXCEPT ![t] = kind]
      /\ mpc' = [mpc EXCEPT ![t] = IF kind = "small" THEN "desc" ELSE "pool"]
      /\ UNCHANGED <<pool, used, poolLock, descLock, free_list, arena, pages, own>>
  BY DEF Malloc, Goes
<1>2. mpc'[t] = (IF kind = "small" THEN "desc" ELSE "pool") /\ want'[t] = kind  BY <1>0, <1>1, ThreadTypes
<1>3. Moves(t) /\ Ram' = Ram  BY <1>0, <1>1, ThreadTypes DEF Moves, Ram
<1>4. MemTypes'  BY <1>0, <1>1 DEF MemTypes, Ram
<1>5. Undisturbed(t)
  BY <1>1, <1>3, OtherThreads
<1>6. Standing(t)'  BY <1>1, <1>2 DEF Standing, NoBlock
<1>7. Held(t)' = Held(t)  BY <1>1, <1>2 DEF Held, NoBlock
<1>8. OnePageUser'
  <2>1. \A u \in MemThread : Held(u)' = Held(u)  BY <1>5, <1>7 DEF Undisturbed
  <2>2. QED  BY <1>0, <1>1, <2>1, PageStay
<1>9. OneBlockUser'  BY <1>0, <1>1, <1>3, BlockStay
<1>10. MemLocks'
  <2>1. ~InPool(t) /\ ~InDesc(t) /\ ~InPool(t)' /\ ~InDesc(t)'  BY <1>1, <1>2 DEF InPool, InDesc
  <2>2. descLock # t /\ \A k \in {"kernel", "user"} : poolLock[k] # t  BY <1>0, <2>1 DEF MemLocks
  <2>3. QED  BY <1>1, <1>5, <2>1, <2>2, LocksStep
<1>11. QED  BY <1>4, <1>5, <1>6, <1>8, <1>9, <1>10 DEF MemInv, Undisturbed

LEMMA PoolLockStep ==
    ASSUME MemInv, NEW t \in MemThread, PoolLock(t)
    PROVE  MemInv'
<1>0. MemTypes /\ MemLocks /\ Standing(t) /\ OnePageUser /\ OneBlockUser  BY DEF MemInv
<1> DEFINE k == PoolOf(want[t])
<1>1. /\ mpc[t] = "pool" /\ poolLock[k] = Nobody
      /\ poolLock' = [poolLock EXCEPT ![k] = t]
      /\ pages' = [pages EXCEPT ![t] = [first |-> pool[k].base, end |-> pool[k].base]]
      /\ mpc' = [mpc EXCEPT ![t] = "scan"]
      /\ UNCHANGED <<pool, used, descLock, free_list, arena, want, own, allocs>>
  BY DEF PoolLock, Goes
<1>2. k \in {"kernel", "user"} /\ pool[k].base \in Nat  BY <1>0, ThreadTypes DEF MemTypes
<1> HIDE DEF k
<1>3. mpc'[t] = "scan" /\ pages'[t] = [first |-> pool[k].base, end |-> pool[k].base]
  BY <1>0, <1>1, ThreadTypes
<1>4. Moves(t) /\ Ram' = Ram  BY <1>0, <1>1, ThreadTypes DEF Moves, Ram
<1>5. MemTypes'
  <2>1. pages' \in [MemThread -> [first : Nat, end : Nat]]  BY <1>0, <1>1, <1>2 DEF MemTypes
  <2>2. QED  BY <1>0, <1>1, <1>2, <2>1 DEF MemTypes, Ram
<1>6. Undisturbed(t)  BY <1>1, <1>4, OtherThreads
<1>7. Standing(t)'  BY <1>0, <1>1, <1>2, <1>3 DEF Standing, NoBlock, k
<1>8. Held(t)' = Held(t)  BY <1>0, <1>1, <1>3 DEF Held
<1>9. OnePageUser'
  <2>1. \A u \in MemThread : Held(u)' = Held(u)  BY <1>6, <1>8 DEF Undisturbed
  <2>2. QED  BY <1>0, <1>1, <2>1, PageStay
<1>10. OneBlockUser'  BY <1>0, <1>1, <1>4, BlockStay
<1>11. MemLocks'
  <2>1. InPool(t)' /\ (InDesc(t)' <=> InDesc(t)) /\ ~InPool(t)  BY <1>1, <1>3 DEF InPool, InDesc
  <2>2. \A i \in {"kernel", "user"} : poolLock[i] # t  BY <1>0, <2>1 DEF MemLocks
  <2>3. \A i \in {"kernel", "user"} : poolLock'[i] = t <=> i = k
    BY <1>0, <1>1, <2>2 DEF MemTypes
  <2>4. \A i \in {"kernel", "user"}, u \in MemThread \ {t} : poolLock'[i] = u <=> poolLock[i] = u
    BY <1>0, <1>1, MemoryAssumption DEF MemTypes
  <2>5. descLock' = t <=> InDesc(t)'  BY <1>0, <1>1, <2>1 DEF MemLocks
  <2>6. PoolOf(want'[t]) = k  BY <1>1 DEF k
  <2>7. QED  BY <1>1, <1>6, <2>1, <2>3, <2>4, <2>5, <2>6, LocksStep
<1>12. QED  BY <1>5, <1>6, <1>7, <1>9, <1>10, <1>11 DEF MemInv, Undisturbed

\* lock_release (&pool->lock) by the thread that has it.
LEMMA PoolReleased ==
    ASSUME MemInv, NEW t \in MemThread, Undisturbed(t), InPool(t), ~InPool(t)', want' = want,
           poolLock' = [poolLock EXCEPT ![PoolOf(want[t])] = Nobody], descLock' = descLock,
           InDesc(t)' <=> InDesc(t)
    PROVE  MemLocks'
<1> DEFINE k == PoolOf(want[t])
<1>0. MemTypes /\ MemLocks /\ Nobody \notin MemThread  BY MemoryAssumption DEF MemInv
<1>1. k \in {"kernel", "user"}  BY <1>0, ThreadTypes
<1>2. poolLock[k] = t  BY <1>0, <1>1 DEF MemLocks
<1>3. \A i \in {"kernel", "user"} : i # k => poolLock[i] # t  BY <1>0 DEF MemLocks
<1>4. \A i \in {"kernel", "user"} : poolLock'[i] # t  BY <1>0, <1>1, <1>3 DEF MemTypes
<1>5. \A i \in {"kernel", "user"}, u \in MemThread \ {t} : poolLock'[i] = u <=> poolLock[i] = u
  BY <1>0, <1>1, <1>2 DEF MemTypes
<1>6. descLock' = t <=> InDesc(t)'  BY <1>0 DEF MemLocks
<1>7. QED  BY <1>4, <1>5, <1>6, LocksStep

LEMMA ScanStep ==
    ASSUME MemInv, NEW t \in MemThread, Scan(t)
    PROVE  MemInv'
<1>0. MemTypes /\ MemLocks /\ Standing(t) /\ OnePageUser /\ OneBlockUser  BY DEF MemInv
<1> DEFINE k == PoolOf(want[t])
           w == pages[t]
           n == PageCount(want[t])
           window == w.first .. w.first + n - 1
<1>1. /\ mpc[t] = "scan" /\ w.first = w.end /\ w.first \in Nat /\ n \in {1, 2}
      /\ w \in [first : Nat, end : Nat]
      /\ UNCHANGED <<pool, used, descLock, free_list, arena, want, own, allocs>>
      /\ own[t].kind = "none" /\ w.first >= pool[k].base
  BY <1>0, ThreadTypes DEF Scan, Standing
<1>2. ASSUME Moves(t), MemTypes', MemLocks', Standing(t)', Held(t)' = Held(t), Undisturbed(t)
      PROVE  MemInv'
  <2>1. OnePageUser'
    <3>1. \A u \in MemThread : Held(u)' = Held(u)  BY <1>2 DEF Undisturbed
    <3>2. QED  BY <1>0, <1>1, <3>1, PageStay
  <2>2. OneBlockUser'  BY <1>0, <1>1, BlockStay DEF Ram
  <2>3. QED  BY <1>2, <2>1, <2>2 DEF MemInv, Undisturbed
<1>3. Moves(t) => Undisturbed(t)  BY <1>1, OtherThreads DEF Ram
<1>4. Held(t) = {}  BY <1>1 DEF Held
<1>5. CASE ~(window \subseteq PagesOf(pool[k]))
  <2>1. /\ poolLock' = [poolLock EXCEPT ![k] = Nobody]
        /\ pages' = [pages EXCEPT ![t] = [first |-> 0, end |-> 0]]
        /\ mpc' = [mpc EXCEPT ![t] = "arena"]
    BY <1>5 DEF Scan, Goes
  <2>2. mpc'[t] = "arena" /\ pages'[t] = [first |-> 0, end |-> 0] /\ Moves(t)
    BY <1>0, <1>1, <2>1, ThreadTypes DEF Moves
  <2>3. MemTypes'
    <3>1. pages' \in [MemThread -> [first : Nat, end : Nat]]  BY <1>0, <2>1 DEF MemTypes
    <3>2. QED  BY <1>0, <1>1, <2>1, <3>1 DEF MemTypes, Ram
  <2>4. MemLocks'
    <3>1. InPool(t) /\ ~InPool(t)' /\ (InDesc(t)' <=> InDesc(t))  BY <1>1, <2>2 DEF InPool, InDesc
    <3>2. QED  BY <1>1, <1>3, <2>1, <2>2, <3>1, PoolReleased
  <2>5. Standing(t)'  BY <1>0, <1>1, <2>2 DEF Standing
  <2>6. Held(t)' = {}  BY <1>1, <2>2 DEF Held, Busy_
  <2>7. QED  BY <1>2, <1>3, <1>4, <2>2, <2>3, <2>4, <2>5, <2>6
<1>6. ASSUME window \subseteq PagesOf(pool[k]), UNCHANGED poolLock,
             mpc'[t] \in {"scan", "flip"}, mpc' = [mpc EXCEPT ![t] = mpc'[t]], Moves(t)
      PROVE  MemLocks'
  <2>1. InPool(t) /\ InPool(t)' /\ (InDesc(t)' <=> InDesc(t))  BY <1>1, <1>6 DEF InPool, InDesc
  <2>2. QED  BY <1>0, <1>1, <1>3, <1>6, <2>1, LocksStep DEF MemLocks
<1>7. CASE window \subseteq PagesOf(pool[k]) /\ \E p \in window : used[p]
  <2>1. /\ pages' = [pages EXCEPT ![t] = [first |-> @.first + 1, end |-> @.end + 1]]
        /\ UNCHANGED <<poolLock, mpc>>
    BY <1>7 DEF Scan
  <2>2. pages'[t] = [first |-> w.first + 1, end |-> w.end + 1] /\ Moves(t)
    BY <1>0, <1>1, <2>1, ThreadTypes DEF Moves
  <2>3. MemTypes'
    <3>1. pages' \in [MemThread -> [first : Nat, end : Nat]]
      <4>1. [first |-> w.first + 1, end |-> w.end + 1] \in [first : Nat, end : Nat]  BY <1>1
      <4>2. pages' = [pages EXCEPT ![t] = [first |-> w.first + 1, end |-> w.end + 1]]  BY <2>1
      <4>3. QED  BY <1>0, <4>1, <4>2 DEF MemTypes
    <3>2. QED  BY <1>0, <1>1, <2>1, <3>1 DEF MemTypes, Ram
  <2>4. MemLocks'
    <3>1. mpc'[t] \in {"scan", "flip"} /\ mpc' = [mpc EXCEPT ![t] = mpc'[t]]
      BY <1>0, <1>1, <2>1 DEF MemTypes
    <3>2. QED  BY <1>6, <1>7, <2>1, <2>2, <3>1
  <2>5. Standing(t)'
    <3>1. pages'[t].first = pages'[t].end /\ pages'[t].first >= pool[k].base
      <4>1. pool[k].base \in Nat  BY <1>0, ThreadTypes DEF MemTypes
      <4>2. QED  BY <1>1, <2>2, <4>1
    <3>2. mpc'[t] = "scan"  BY <1>1, <2>1
    <3>3. QED  BY <1>0, <1>1, <3>1, <3>2 DEF Standing
  <2>6. Held(t)' = {}  BY <1>1, <2>1 DEF Held
  <2>7. QED  BY <1>2, <1>3, <1>4, <2>2, <2>3, <2>4, <2>5, <2>6
<1>8. CASE window \subseteq PagesOf(pool[k]) /\ ~\E p \in window : used[p]
  <2>1. mpc' = [mpc EXCEPT ![t] = "flip"] /\ UNCHANGED <<poolLock, pages>>
    BY <1>8 DEF Scan, Goes
  <2>2. mpc'[t] = "flip" /\ Moves(t)  BY <1>0, <1>1, <2>1, ThreadTypes DEF Moves
  <2>3. MemTypes'  BY <1>0, <1>1, <2>1 DEF MemTypes, Ram
  <2>4. MemLocks'  BY <1>6, <1>8, <2>1, <2>2
  <2>5. Standing(t)'
    <3>1. /\ w.first <= w.end /\ w.end < w.first + n /\ window \subseteq PagesOf(pool[k])
          /\ \A p \in w.end .. w.first + n - 1 : ~used[p]
      BY <1>1, <1>8
    <3>2. QED  BY <1>0, <1>1, <2>1, <2>2, <3>1 DEF Standing
  <2>6. Held(t)' = {}  BY <1>1, <2>1, <2>2 DEF Held, Busy_
  <2>7. QED  BY <1>2, <1>3, <1>4, <2>2, <2>3, <2>4, <2>5, <2>6
<1>9. QED  BY <1>5, <1>7, <1>8

LEMMA FlipStep ==
    ASSUME MemInv, NEW t \in MemThread, Flip(t)
    PROVE  MemInv'
<1>0. MemTypes /\ MemLocks /\ Standing(t) /\ OnePageUser /\ OneBlockUser  BY DEF MemInv
<1> DEFINE k == PoolOf(want[t])
           w == pages[t]
           n == PageCount(want[t])
           q == w.end
<1>1. /\ mpc[t] = "flip" /\ w.first \in Nat /\ q \in Nat /\ n \in {1, 2} /\ own[t].kind = "none"
      /\ w \in [first : Nat, end : Nat] /\ k \in {"kernel", "user"}
      /\ w.first <= q /\ q < w.first + n
      /\ w.first .. w.first + n - 1 \subseteq PagesOf(pool[k])
      /\ \A p \in q .. w.first + n - 1 : ~used[p]
      /\ used' = [used EXCEPT ![q] = TRUE]
      /\ pages' = [pages EXCEPT ![t].end = @ + 1]
      /\ UNCHANGED <<pool, descLock, free_list, arena, want, own, allocs>>
  BY <1>0, ThreadTypes DEF Flip, Standing
<1>2. q \in Ram /\ ~used[q] /\ q \in PagesOf(pool[k]) /\ PagesOf(pool[k]) \subseteq Ram
  <2>1. q \in w.first .. w.first + n - 1 /\ q \in q .. w.first + n - 1  BY <1>1
  <2>2. QED  BY <1>0, <1>1, <2>1 DEF MemTypes
<1>3. pages'[t] = [first |-> w.first, end |-> q + 1] /\ DOMAIN pages = MemThread /\ DOMAIN mpc = MemThread
  BY <1>0, <1>1, ThreadTypes
<1>4. \/ /\ q + 1 = w.first + n /\ mpc' = [mpc EXCEPT ![t] = "arena"]
         /\ poolLock' = [poolLock EXCEPT ![k] = Nobody]
      \/ q + 1 # w.first + n /\ UNCHANGED <<mpc, poolLock>>
  BY <1>3 DEF Flip, Goes
<1>5. Moves(t) /\ Ram' = Ram
  <2>1. \A u \in MemThread \ {t} : mpc'[u] = mpc[u]  BY <1>3, <1>4
  <2>2. \A u \in MemThread \ {t} : pages'[u] = pages[u]  BY <1>1, <1>3
  <2>3. QED  BY <1>1, <2>1, <2>2 DEF Moves, Ram
<1>6. MemTypes'
  <2>1. pages' \in [MemThread -> [first : Nat, end : Nat]]
    <3>1. [first |-> w.first, end |-> q + 1] \in [first : Nat, end : Nat]  BY <1>1
    <3>2. pages' = [pages EXCEPT ![t] = [first |-> w.first, end |-> q + 1]]
      BY <1>0, <1>1, <1>3 DEF MemTypes
    <3>3. QED  BY <1>0, <3>1, <3>2 DEF MemTypes
  <2>2. used' \in [Ram -> BOOLEAN]  BY <1>0, <1>1, <1>2 DEF MemTypes
  <2>3. mpc' \in [MemThread -> {"idle", "desc", "pool", "scan", "flip", "arena", "clear", "leave"}]
        /\ poolLock' \in [{"kernel", "user"} -> MemThread \cup {Nobody}]
    <3>1. /\ mpc \in [MemThread -> {"idle", "desc", "pool", "scan", "flip", "arena", "clear", "leave"}]
          /\ poolLock \in [{"kernel", "user"} -> MemThread \cup {Nobody}]
      BY <1>0 DEF MemTypes
    <3>2. QED  BY <1>4, <3>1
  <2>4. QED  BY <1>0, <1>1, <1>5, <2>1, <2>2, <2>3 DEF MemTypes
<1>7. Undisturbed(t)
  <2>1. InPool(t)  BY <1>1 DEF InPool
  <2>2. \A p \in Ram : used'[p] => used[p] \/ p = q  BY <1>0, <1>1 DEF MemTypes
  <2>3. QED  BY <1>1, <1>2, <1>5, <2>1, <2>2, OtherThreads
<1>8. Held(t)' = Held(t) \cup {q} /\ Held(t) = w.first .. q - 1
  <2>1. Held(t) = w.first .. q - 1  BY <1>1 DEF Held, Busy_
  <2>2. mpc'[t] \in {"flip", "arena"}  BY <1>1, <1>3, <1>4
  <2>3. Held(t)' = w.first .. (q + 1) - 1  BY <1>1, <1>3, <2>2 DEF Held, Busy_
  <2>4. w.first .. (q + 1) - 1 = (w.first .. q - 1) \cup {q}  BY <1>1
  <2>5. QED  BY <2>1, <2>3, <2>4
<1>9. OnePageUser'
  <2>1. Arenas' = Arenas /\ q \notin Arenas /\ Held(t) \cap Arenas = {}
    BY <1>0, <1>1, <1>2, <1>5 DEF OnePageUser, Arenas
  <2>2. \A p \in Held(t)' \cup Arenas' : p \in Held(t) \cup Arenas \/ (p \in Ram /\ ~used[p])
    BY <1>2, <1>8, <2>1
  <2>3. \A p \in Ram : p \in Held(t) \cup Arenas => used[p]  BY <1>0 DEF OnePageUser
  <2>4. \A p \in Ram : used'[p] <=> (used[p] \/ p = q)  BY <1>0, <1>1 DEF MemTypes
  <2>5. \A p \in Ram : used'[p] <=> (\/ p \in Held(t)' \cup Arenas'
                                     \/ used[p] /\ p \notin Held(t) \cup Arenas)
    BY <1>8, <2>1, <2>3, <2>4
  <2>6. \A u \in MemThread \ {t} : Held(u)' = Held(u)  BY <1>7 DEF Undisturbed
  <2>7. Held(t)' \cap Arenas' = {}  BY <1>8, <2>1
  <2> HIDE DEF q
  <2>8. QED  BY <1>0, <1>5, <2>2, <2>5, <2>6, <2>7, PageMove
<1>10. OneBlockUser'  BY <1>0, <1>1, <1>5, BlockStay
<1>11. CASE q + 1 = w.first + n
  <2>1. mpc'[t] = "arena" /\ poolLock' = [poolLock EXCEPT ![k] = Nobody]  BY <1>3, <1>4, <1>11
  <2>2. MemLocks'
    <3>1. InPool(t) /\ ~InPool(t)' /\ (InDesc(t)' <=> InDesc(t))  BY <1>1, <2>1 DEF InPool, InDesc
    <3>2. QED  BY <1>1, <1>7, <2>1, <3>1, PoolReleased
  <2>3. Standing(t)'
    <3>1. pages'[t].end = pages'[t].first + n /\ pages'[t].first .. pages'[t].end - 1 \subseteq PagesOf(pool[k])
      BY <1>1, <1>3, <1>11
    <3>2. QED  BY <1>0, <1>1, <2>1, <3>1 DEF Standing
  <2>4. QED  BY <1>6, <1>7, <1>9, <1>10, <2>2, <2>3 DEF MemInv, Undisturbed
<1>12. CASE q + 1 # w.first + n
  <2>1. mpc'[t] = "flip" /\ UNCHANGED <<mpc, poolLock>>  BY <1>1, <1>4, <1>12
  <2>2. MemLocks'
    <3>1. InPool(t) /\ InPool(t)' /\ (InDesc(t)' <=> InDesc(t))  BY <1>1, <2>1 DEF InPool, InDesc
    <3>2. QED  BY <1>0, <1>1, <1>7, <2>1, <3>1, LocksStep DEF MemLocks
  <2>3. Standing(t)'
    <3>1. /\ pages'[t].first = w.first /\ pages'[t].end = q + 1
          /\ w.first <= q + 1 /\ q + 1 < w.first + n
      BY <1>1, <1>3, <1>12
    <3>2. \A p \in q + 1 .. w.first + n - 1 : ~used'[p]
      <4>1. \A p \in q + 1 .. w.first + n - 1 : p # q /\ ~used[p] /\ p \in Ram
        <5>1. \A p \in q + 1 .. w.first + n - 1 :
                 p # q /\ p \in q .. w.first + n - 1 /\ p \in w.first .. w.first + n - 1
          BY <1>1
        <5>2. QED  BY <1>1, <1>2, <5>1
      <4>2. QED  BY <1>0, <1>1, <4>1 DEF MemTypes
    <3>3. QED  BY <1>0, <1>1, <2>1, <3>1, <3>2 DEF Standing
  <2>4. QED  BY <1>6, <1>7, <1>9, <1>10, <2>2, <2>3 DEF MemInv, Undisturbed
<1>13. QED  BY <1>11, <1>12

LEMMA LeaveStep ==
    ASSUME MemInv, NEW t \in MemThread, Leave(t)
    PROVE  MemInv'
<1>0. MemTypes /\ MemLocks /\ Standing(t) /\ OnePageUser /\ OneBlockUser  BY DEF MemInv
<1>1. /\ mpc[t] = "leave" /\ descLock' = Nobody /\ mpc' = [mpc EXCEPT ![t] = "idle"]
      /\ UNCHANGED <<pool, used, poolLock, free_list, arena, want, pages, own, allocs>>
  BY DEF Leave, Goes
<1>2. mpc'[t] = "idle" /\ Moves(t) /\ Ram' = Ram  BY <1>0, <1>1, ThreadTypes DEF Moves, Ram
<1>3. MemTypes'  BY <1>0, <1>1 DEF MemTypes, Ram
<1>4. Undisturbed(t)  BY <1>1, <1>2, OtherThreads
<1>5. Standing(t)'  BY <1>0, <1>1, <1>2 DEF Standing, NoBlock
<1>6. Held(t)' = Held(t)  BY <1>1, <1>2 DEF Held
<1>7. OnePageUser'
  <2>1. \A u \in MemThread : Held(u)' = Held(u)  BY <1>4, <1>6 DEF Undisturbed
  <2>2. QED  BY <1>0, <1>1, <2>1, PageStay
<1>8. OneBlockUser'  BY <1>0, <1>1, <1>2, BlockStay
<1>9. MemLocks'
  <2>1. ~InPool(t) /\ InDesc(t) /\ ~InPool(t)' /\ ~InDesc(t)'  BY <1>1, <1>2 DEF InPool, InDesc
  <2>2. descLock = t /\ \A k \in {"kernel", "user"} : poolLock[k] # t  BY <1>0, <2>1 DEF MemLocks
  <2>3. Nobody \notin MemThread  BY MemoryAssumption
  <2>4. QED  BY <1>1, <1>4, <2>1, <2>2, <2>3, LocksStep
<1>10. QED  BY <1>3, <1>4, <1>5, <1>7, <1>8, <1>9 DEF MemInv, Undisturbed

LEMMA FreeStep ==
    ASSUME MemInv, NEW t \in MemThread, Free(t)
    PROVE  MemInv'
<1>0. MemTypes /\ MemLocks /\ Standing(t) /\ OnePageUser /\ OneBlockUser  BY DEF MemInv
<1> DEFINE b == own[t]
<1>1. /\ mpc[t] = "idle" /\ b # NoBlock /\ b.kind # "none" /\ b.kind = want[t]
      /\ b \in [kind : {"none", "small", "big", "user"}, first : Nat, idx : Nat] /\ b.first \in Nat
      /\ UNCHANGED <<pool, used, poolLock, descLock, free_list, arena, want, allocs>>
  BY <1>0, ThreadTypes DEF Free, Standing
<1>2. ASSUME mpc'[t] \in {"desc", "clear"}, Moves(t), MemTypes', Standing(t)', Held(t)' = Held(t),
             mpc'[t] = "clear" => want[t] # "small",
             own'[t] = own[t] \/ (own[t].kind # "small" /\ own'[t].kind # "small")
      PROVE  MemInv'
  <2>1. Undisturbed(t)  BY <1>1, <1>2, OtherThreads DEF Ram
  <2>2. OnePageUser'
    <3>1. \A u \in MemThread : Held(u)' = Held(u)  BY <1>2, <2>1 DEF Undisturbed
    <3>2. QED  BY <1>0, <1>1, <3>1, PageStay
  <2>3. OneBlockUser'
    <3>1. \A u \in MemThread : own'[u] = own[u] \/ (own[u].kind # "small" /\ own'[u].kind # "small")
      BY <1>2 DEF Moves
    <3>2. QED  BY <1>0, <1>1, <3>1, BlockStay DEF Ram
  <2>4. MemLocks'
    <3>1. ~InPool(t) /\ ~InDesc(t) /\ ~InPool(t)' /\ ~InDesc(t)'  BY <1>1, <1>2 DEF InPool, InDesc
    <3>2. descLock # t /\ \A k \in {"kernel", "user"} : poolLock[k] # t  BY <1>0, <3>1 DEF MemLocks
    <3>3. QED  BY <1>1, <2>1, <3>1, <3>2, LocksStep
  <2>5. QED  BY <1>2, <2>1, <2>2, <2>3, <2>4 DEF MemInv, Undisturbed
<1>3. CASE b.kind = "small"
  <2>1. mpc' = [mpc EXCEPT ![t] = "desc"] /\ UNCHANGED <<pages, own>>  BY <1>3 DEF Free, Goes
  <2>2. mpc'[t] = "desc" /\ Moves(t)  BY <1>0, <1>1, <2>1, ThreadTypes DEF Moves
  <2>3. MemTypes'  BY <1>0, <1>1, <2>1 DEF MemTypes, Ram
  <2>4. Standing(t)'  BY <1>0, <1>1, <1>3, <2>1, <2>2 DEF Standing
  <2>5. Held(t)' = Held(t)  BY <1>1, <2>1, <2>2 DEF Held
  <2>6. QED  BY <1>2, <2>1, <2>2, <2>3, <2>4, <2>5
<1>4. CASE b.kind # "small"
  <2> DEFINE c == [first |-> b.first, end |-> b.first + PageCount(b.kind)]
  <2>1. /\ mpc' = [mpc EXCEPT ![t] = "clear"] /\ pages' = [pages EXCEPT ![t] = c]
        /\ own' = [own EXCEPT ![t] = NoBlock]
    BY <1>4 DEF Free, Goes
  <2>2. mpc'[t] = "clear" /\ pages'[t] = c /\ own'[t] = NoBlock /\ Moves(t)
    BY <1>0, <1>1, <2>1, ThreadTypes DEF Moves
  <2>3. b.kind \in {"big", "user"} /\ PageCount(b.kind) \in {1, 2}  BY <1>1, <1>4 DEF PageCount
  <2>4. c \in [first : Nat, end : Nat] /\ c.first < c.end /\ c.first \in Nat  BY <1>1, <2>3
  <2>5. MemTypes'
    <3>1. NoBlock \in [kind : {"none", "small", "big", "user"}, first : Nat, idx : Nat]  BY DEF NoBlock
    <3>2. pages' \in [MemThread -> [first : Nat, end : Nat]]  BY <1>0, <2>1, <2>4 DEF MemTypes
    <3>3. own' \in [MemThread -> [kind : {"none", "small", "big", "user"}, first : Nat, idx : Nat]]
      BY <1>0, <2>1, <3>1 DEF MemTypes
    <3>4. QED  BY <1>0, <1>1, <2>1, <3>2, <3>3 DEF MemTypes, Ram
  <2>6. c.first .. c.end - 1 \subseteq Ram /\ Ram' = Ram  BY <1>0, <1>1, <2>3 DEF Standing, Ram
  <2>7. Standing(t)'  BY <1>1, <1>4, <2>2, <2>4, <2>6 DEF Standing, NoBlock
  <2>8. Held(t)' = Held(t)
    <3>1. Held(t) = b.first .. b.first + PageCount(b.kind) - 1  BY <1>1, <2>3 DEF Held
    <3>2. pages'[t].first = b.first /\ pages'[t].end = b.first + PageCount(b.kind)  BY <2>2
    <3>3. Held(t)' = b.first .. b.first + PageCount(b.kind) - 1
      BY <1>1, <2>2, <2>3, <3>2 DEF Held, Busy_, NoBlock
    <3>4. QED  BY <3>1, <3>3
  <2>9. own'[t].kind # "small"  BY <2>2 DEF NoBlock
  <2> HIDE DEF c
  <2>10. QED  BY <1>1, <1>2, <1>4, <2>2, <2>5, <2>7, <2>8, <2>9
<1>5. QED  BY <1>3, <1>4

LEMMA ClearStep ==
    ASSUME MemInv, NEW t \in MemThread, Clear(t)
    PROVE  MemInv'
<1>0. MemTypes /\ MemLocks /\ Standing(t) /\ OnePageUser /\ OneBlockUser  BY DEF MemInv
<1> DEFINE w == pages[t]
           q == w.first
<1>1. /\ mpc[t] = "clear" /\ q \in Nat /\ w.end \in Nat /\ own[t].kind = "none"
      /\ w \in [first : Nat, end : Nat]
      /\ q < w.end /\ q .. w.end - 1 \subseteq Ram
      /\ used' = [used EXCEPT ![q] = FALSE]
      /\ pages' = [pages EXCEPT ![t].first = @ + 1]
      /\ UNCHANGED <<pool, poolLock, descLock, free_list, arena, want, own, allocs>>
  BY <1>0, ThreadTypes DEF Clear, Standing
<1>2. q \in Ram /\ Held(t) = q .. w.end - 1 /\ q \in Held(t)
  <2>1. q \in q .. w.end - 1  BY <1>1
  <2>2. QED  BY <1>1, <2>1 DEF Held, Busy_
<1>3. pages'[t] = [first |-> q + 1, end |-> w.end] /\ DOMAIN pages = MemThread /\ DOMAIN mpc = MemThread
  BY <1>0, <1>1, ThreadTypes
<1>4. \/ q + 1 < w.end /\ UNCHANGED mpc
      \/ /\ ~(q + 1 < w.end)
         /\ mpc' = [mpc EXCEPT ![t] = IF descLock = t THEN "leave" ELSE "idle"]
  BY <1>3 DEF Clear, Goes
<1>5. Moves(t) /\ Ram' = Ram
  <2>1. \A u \in MemThread \ {t} : mpc'[u] = mpc[u]  BY <1>3, <1>4
  <2>2. \A u \in MemThread \ {t} : pages'[u] = pages[u]  BY <1>1, <1>3
  <2>3. QED  BY <1>1, <2>1, <2>2 DEF Moves, Ram
<1>6. MemTypes'
  <2>1. pages' \in [MemThread -> [first : Nat, end : Nat]]
    <3>1. [first |-> q + 1, end |-> w.end] \in [first : Nat, end : Nat]  BY <1>1
    <3>2. pages' = [pages EXCEPT ![t] = [first |-> q + 1, end |-> w.end]]
      BY <1>0, <1>1, <1>3 DEF MemTypes
    <3>3. QED  BY <1>0, <3>1, <3>2 DEF MemTypes
  <2>2. used' \in [Ram -> BOOLEAN]  BY <1>0, <1>1, <1>2 DEF MemTypes
  <2>3. mpc' \in [MemThread -> {"idle", "desc", "pool", "scan", "flip", "arena", "clear", "leave"}]
    BY <1>0, <1>4 DEF MemTypes
  <2>4. QED  BY <1>0, <1>1, <1>5, <2>1, <2>2, <2>3 DEF MemTypes
<1>7. \A p \in Ram : used'[p] <=> (used[p] /\ p # q)  BY <1>0, <1>1 DEF MemTypes
<1>8. Undisturbed(t)  BY <1>1, <1>5, <1>7, OtherThreads
<1>9. Held(t)' = Held(t) \ {q}
  <2>1. CASE q + 1 < w.end
    <3>1. mpc'[t] = "clear"  BY <1>1, <1>4, <2>1
    <3>2. Held(t)' = q + 1 .. w.end - 1  BY <1>1, <1>3, <3>1 DEF Held, Busy_
    <3>3. QED  BY <1>1, <1>2, <3>2
  <2>2. CASE ~(q + 1 < w.end)
    <3>1. mpc'[t] \in {"leave", "idle"}  BY <1>3, <1>4, <2>2
    <3>2. Held(t)' = {}  BY <1>1, <3>1 DEF Held
    <3>3. q .. w.end - 1 = {q}  BY <1>1, <2>2
    <3>4. QED  BY <1>2, <3>2, <3>3
  <2>3. QED  BY <2>1, <2>2
<1>10. OnePageUser'
  <2>1. Arenas' = Arenas /\ Held(t) \cap Arenas = {}  BY <1>0, <1>1, <1>5 DEF OnePageUser, Arenas
  <2>2. \A p \in Held(t)' \cup Arenas' : p \in Held(t) \cup Arenas \/ (p \in Ram /\ ~used[p])
    BY <1>9, <2>1
  <2>3. \A p \in Ram : p \in Held(t) \cup Arenas => used[p]  BY <1>0 DEF OnePageUser
  <2>4. \A p \in Ram : used'[p] <=> (\/ p \in Held(t)' \cup Arenas'
                                     \/ used[p] /\ p \notin Held(t) \cup Arenas)
    BY <1>2, <1>7, <1>9, <2>1, <2>3
  <2>5. \A u \in MemThread \ {t} : Held(u)' = Held(u)  BY <1>8 DEF Undisturbed
  <2>6. Held(t)' \cap Arenas' = {}  BY <1>9, <2>1
  <2> HIDE DEF q
  <2>7. QED  BY <1>0, <1>5, <2>2, <2>4, <2>5, <2>6, PageMove
<1>11. OneBlockUser'  BY <1>0, <1>1, <1>5, BlockStay
<1>12. descLock = t <=> want[t] = "small"  BY <1>0, <1>1 DEF MemLocks, InDesc
<1>13. mpc'[t] \in {"clear", "leave", "idle"}
       /\ (mpc'[t] = "clear" => q + 1 < w.end)
       /\ (mpc'[t] = "leave" => descLock = t) /\ (mpc'[t] = "idle" => descLock # t)
  BY <1>1, <1>3, <1>4
<1>14. MemLocks'
  <2>1. ~InPool(t) /\ ~InPool(t)'  BY <1>1, <1>13 DEF InPool
  <2>2. InDesc(t)' <=> descLock = t  BY <1>1, <1>12, <1>13 DEF InDesc
  <2>3. \A k \in {"kernel", "user"} : poolLock[k] # t  BY <1>0, <2>1 DEF MemLocks
  <2>4. QED  BY <1>1, <1>8, <2>1, <2>2, <2>3, LocksStep
<1>15. Standing(t)'
  <2>1. mpc'[t] = "clear" => pages'[t].first < pages'[t].end /\ pages'[t].first .. pages'[t].end - 1 \subseteq Ram'
    <3>1. q + 1 .. w.end - 1 \subseteq q .. w.end - 1  BY <1>1
    <3>2. QED  BY <1>1, <1>3, <1>5, <1>13, <3>1
  <2>2. mpc'[t] = "leave" => want[t] = "small"  BY <1>12, <1>13
  <2>3. QED  BY <1>0, <1>1, <1>13, <2>1, <2>2 DEF Standing
<1>16. QED  BY <1>6, <1>8, <1>10, <1>11, <1>14, <1>15 DEF MemInv, Undisturbed

\* The free blocks of an arena, of which there are as many as it says.
LEMMA FreeBlocks ==
    ASSUME MemTypes, OneBlockUser, NEW p
    PROVE  /\ IsFiniteSet(FreeOf(p)) /\ Cardinality(FreeOf(p)) \in Nat
           /\ FreeOf(p) \subseteq Blocks(p)
<1>1. IsFiniteSet(ToSet(free_list))  BY FiniteElements DEF MemTypes
<1>2. FreeOf(p) \in SUBSET ToSet(free_list)  BY DEF FreeOf
<1>3. IsFiniteSet(FreeOf(p))  BY <1>1, <1>2, FS_Subset
<1>4. ASSUME NEW x \in FreeOf(p) PROVE x \in Blocks(p)
  <2>1. x \in Ram \X (0 .. PerArena - 1) /\ x[1] = p  BY SeqElements DEF FreeOf, MemTypes
  <2>2. x = <<p, x[2]>> /\ x[2] \in 0 .. PerArena - 1  BY <2>1
  <2>3. QED  BY <2>2 DEF Blocks
<1>5. QED  BY <1>3, <1>4, FS_CardinalityType

\* A block off the front of the free list.
LEMMA TakeStep ==
    ASSUME MemInv, NEW t \in MemThread, DescAlloc(t), free_list # <<>>
    PROVE  MemInv'
<1>0. MemTypes /\ MemLocks /\ Standing(t) /\ OnePageUser /\ OneBlockUser  BY DEF MemInv
<1>1. PICK b : b = Head(free_list)  OBVIOUS
<1> DEFINE o == [kind |-> "small", first |-> b[1], idx |-> b[2]]
           F == ToSet(free_list)
<1>2. /\ mpc[t] = "desc" /\ own[t] = NoBlock /\ descLock = Nobody /\ descLock' = t
      /\ free_list' = Tail(free_list) /\ arena' = [arena EXCEPT ![b[1]] = @ - 1]
      /\ own' = [own EXCEPT ![t] = o] /\ mpc' = [mpc EXCEPT ![t] = "leave"]
      /\ UNCHANGED <<pool, used, poolLock, want, pages, allocs>>
      /\ want[t] = "small"
  BY <1>0, <1>1 DEF DescAlloc, TakeBlock, Goes, Standing
<1>3. /\ b \in Ram \X (0 .. PerArena - 1) /\ b \in F
      /\ free_list' \in Seq(Ram \X (0 .. PerArena - 1))
      /\ IsInjective(free_list') /\ ToSet(free_list') = F \ {b}
  BY <1>0, <1>1, <1>2, TailElements DEF MemTypes, OneBlockUser
<1> HIDE DEF F
<1>4. /\ b[1] \in Ram /\ b[2] \in 0 .. PerArena - 1 /\ b = <<b[1], b[2]>> /\ b[1] \in Nat /\ b[2] \in Nat
      /\ b[1] \in Arenas /\ arena[b[1]] \in Int
  <2>1. b[1] \in Ram /\ b[2] \in 0 .. PerArena - 1 /\ b = <<b[1], b[2]>>  BY <1>3
  <2>2. b[1] \in Arenas  BY <1>0, <1>3 DEF OneBlockUser, F
  <2>3. b[1] \in Nat /\ arena[b[1]] \in Int  BY <1>0, <2>1 DEF MemTypes
  <2>4. QED  BY <2>1, <2>2, <2>3
<1>5. own'[t] = o /\ mpc'[t] = "leave" /\ Moves(t) /\ Ram' = Ram
  BY <1>0, <1>2, ThreadTypes DEF Moves, Ram
<1>6. MemTypes'
  <2>1. o \in [kind : {"none", "small", "big", "user"}, first : Nat, idx : Nat]  BY <1>4
  <2>2. own' \in [MemThread -> [kind : {"none", "small", "big", "user"}, first : Nat, idx : Nat]]
    BY <1>0, <1>2, <2>1 DEF MemTypes
  <2>3. arena' \in [Ram -> Int]
    <3>1. arena \in [Ram -> Int]  BY <1>0 DEF MemTypes
    <3>2. arena[b[1]] \in Int => arena[b[1]] - 1 \in Int  OBVIOUS
    <3>3. QED  BY <1>2, <1>4, <3>1, <3>2
  <2>4. QED  BY <1>0, <1>2, <1>3, <1>5, <2>2, <2>3 DEF MemTypes
<1>7. Undisturbed(t)  BY <1>2, <1>5, OtherThreads
<1>8. Standing(t)'  BY <1>2, <1>5 DEF Standing
<1>9. \A p : FreeOf(p)' = IF p = b[1] THEN FreeOf(p) \ {b} ELSE FreeOf(p)
  BY <1>3 DEF FreeOf, F
<1>10. b \in FreeOf(b[1])  BY <1>3 DEF FreeOf, F
<1>11. /\ arena[b[1]] = Cardinality(FreeOf(b[1])) /\ arena[b[1]] < PerArena
       /\ Cardinality(FreeOf(b[1])') = arena[b[1]] - 1 /\ arena[b[1]] - 1 \in Nat
  <2>1. arena[b[1]] = Cardinality(FreeOf(b[1])) /\ arena[b[1]] < PerArena
    BY <1>0, <1>4 DEF OneBlockUser
  <2>2. IsFiniteSet(FreeOf(b[1]))  BY <1>0, FreeBlocks
  <2>3. /\ IsFiniteSet(FreeOf(b[1]) \ {b})
        /\ Cardinality(FreeOf(b[1]) \ {b}) = Cardinality(FreeOf(b[1])) - 1
    BY <1>10, <2>2, FS_RemoveElement
  <2>4. Cardinality(FreeOf(b[1]) \ {b}) \in Nat  BY <2>3, FS_CardinalityType
  <2>5. FreeOf(b[1])' = FreeOf(b[1]) \ {b}  BY <1>9
  <2>6. QED  BY <2>1, <2>3, <2>4, <2>5
<1>12. arena'[b[1]] = arena[b[1]] - 1 /\ \A p \in Ram : p # b[1] => arena'[p] = arena[p]
  BY <1>0, <1>2, <1>4 DEF MemTypes
<1>13. Arenas' = Arenas
  <2>1. \A p \in Ram : arena'[p] >= 0 <=> arena[p] >= 0
    <3>1. arena'[b[1]] >= 0 /\ arena[b[1]] >= 0  BY <1>4, <1>11, <1>12
    <3>2. QED  BY <1>12, <3>1
  <2>2. QED  BY <1>5, <2>1 DEF Arenas
<1>14. OneBlockUser'
  <2>1. \A x \in ToSet(free_list') : x[1] \in Arenas'  BY <1>0, <1>3, <1>13 DEF OneBlockUser, F
  <2>2. \A u \in MemThread \ {t} : own'[u] = own[u]  BY <1>5 DEF Moves
  <2>3. own'[t].kind = "small" /\ own'[t].first = b[1] /\ own'[t].idx = b[2]  BY <1>5
  <2>4. \A u \in MemThread : own'[u].kind = "small" =>
          /\ own'[u].first \in Arenas' /\ own'[u].idx \in 0 .. PerArena - 1
          /\ <<own'[u].first, own'[u].idx>> \notin ToSet(free_list')
    <3>1. <<own'[t].first, own'[t].idx>> = b  BY <1>4, <2>3
    <3>2. ASSUME NEW u \in MemThread, u # t, own'[u].kind = "small"
          PROVE  /\ own'[u].first \in Arenas' /\ own'[u].idx \in 0 .. PerArena - 1
                 /\ <<own'[u].first, own'[u].idx>> \notin ToSet(free_list')
      BY <1>0, <1>3, <1>13, <2>2, <3>2 DEF OneBlockUser, F
    <3>3. /\ own'[t].first \in Arenas' /\ own'[t].idx \in 0 .. PerArena - 1
          /\ <<own'[t].first, own'[t].idx>> \notin ToSet(free_list')
      BY <1>3, <1>4, <1>13, <2>3, <3>1
    <3>4. QED  BY <3>2, <3>3
  <2>5. ASSUME NEW u \in MemThread, NEW v \in MemThread, u # v,
               own'[u].kind = "small", own'[v].kind = "small"
        PROVE  <<own'[u].first, own'[u].idx>> # <<own'[v].first, own'[v].idx>>
    <3>1. <<own'[t].first, own'[t].idx>> = b  BY <1>4, <2>3
    <3>2. ASSUME NEW x \in MemThread, x # t, own'[x].kind = "small"
          PROVE  <<own'[x].first, own'[x].idx>> # b
      <4>1. own'[x] = own[x]  BY <2>2, <3>2
      <4>2. <<own[x].first, own[x].idx>> \notin F  BY <1>0, <3>2, <4>1 DEF OneBlockUser, F
      <4>3. QED  BY <1>3, <4>1, <4>2
    <3>3. CASE u = t \/ v = t  BY <2>5, <3>1, <3>2, <3>3
    <3>4. CASE u # t /\ v # t  BY <1>0, <2>2, <2>5, <3>4 DEF OneBlockUser
    <3>5. QED  BY <3>3, <3>4
  <2>6. \A p \in Arenas' : arena'[p] = Cardinality(FreeOf(p)') /\ arena'[p] < PerArena
    <3>1. PerArena \in Nat  BY MemoryAssumption
    <3>2. arena'[b[1]] = Cardinality(FreeOf(b[1])') /\ arena'[b[1]] < PerArena
      BY <1>4, <1>11, <1>12, <3>1
    <3>3. ASSUME NEW p \in Arenas, p # b[1]
          PROVE  arena'[p] = Cardinality(FreeOf(p)') /\ arena'[p] < PerArena
      <4>1. p \in Ram /\ arena'[p] = arena[p] /\ FreeOf(p)' = FreeOf(p)
        BY <1>9, <1>12, <3>3 DEF Arenas
      <4>2. arena[p] = Cardinality(FreeOf(p)) /\ arena[p] < PerArena  BY <1>0 DEF OneBlockUser
      <4>3. QED  BY <4>1, <4>2
    <3>4. QED  BY <1>13, <3>2, <3>3
  <2>7. QED  BY <1>3, <2>1, <2>4, <2>5, <2>6 DEF OneBlockUser
<1>15. Held(t) = {} /\ Held(t)' = {}  BY <1>2, <1>5 DEF Held, NoBlock
<1>16. OnePageUser'
  <2>1. \A u \in MemThread : Held(u)' = Held(u)  BY <1>7, <1>15 DEF Undisturbed
  <2>2. QED  BY <1>0, <1>2, <1>5, <1>13, <2>1 DEF OnePageUser
<1>17. MemLocks'
  <2>1. ~InPool(t) /\ ~InPool(t)' /\ InDesc(t)'  BY <1>2, <1>5 DEF InPool, InDesc
  <2>2. \A k \in {"kernel", "user"} : poolLock[k] # t  BY <1>0, <2>1 DEF MemLocks
  <2>3. Nobody \notin MemThread  BY MemoryAssumption
  <2>4. QED  BY <1>2, <1>7, <2>1, <2>2, <2>3, LocksStep
<1>18. QED  BY <1>6, <1>7, <1>8, <1>14, <1>16, <1>17 DEF MemInv, Undisturbed

LEMMA DescAllocStep ==
    ASSUME MemInv, NEW t \in MemThread, DescAlloc(t)
    PROVE  MemInv'
<1>1. CASE free_list # <<>>  BY <1>1, TakeStep
<1>2. CASE free_list = <<>>
  <2>0. MemTypes /\ MemLocks /\ Standing(t) /\ OnePageUser /\ OneBlockUser  BY DEF MemInv
  <2>1. /\ mpc[t] = "desc" /\ own[t] = NoBlock /\ descLock = Nobody /\ descLock' = t
        /\ mpc' = [mpc EXCEPT ![t] = "pool"] /\ UNCHANGED <<free_list, arena, own>>
        /\ UNCHANGED <<pool, used, poolLock, want, pages, allocs>>
        /\ want[t] = "small"
    BY <1>2, <2>0 DEF DescAlloc, Goes, Standing
  <2>2. mpc'[t] = "pool" /\ Moves(t) /\ Ram' = Ram  BY <2>0, <2>1, ThreadTypes DEF Moves, Ram
  <2>3. MemTypes'  BY <2>0, <2>1 DEF MemTypes, Ram
  <2>4. Undisturbed(t)  BY <2>1, <2>2, OtherThreads
  <2>5. Standing(t)'  BY <1>2, <2>0, <2>1, <2>2 DEF Standing, NoBlock
  <2>6. Held(t)' = Held(t)  BY <2>1, <2>2 DEF Held
  <2>7. OnePageUser'
    <3>1. \A u \in MemThread : Held(u)' = Held(u)  BY <2>4, <2>6 DEF Undisturbed
    <3>2. QED  BY <2>0, <2>1, <3>1, PageStay
  <2>8. OneBlockUser'  BY <2>0, <2>1, <2>2, BlockStay
  <2>9. MemLocks'
    <3>1. ~InPool(t) /\ ~InPool(t)' /\ InDesc(t)'  BY <2>1, <2>2 DEF InPool, InDesc
    <3>2. \A k \in {"kernel", "user"} : poolLock[k] # t  BY <2>0, <3>1 DEF MemLocks
    <3>3. Nobody \notin MemThread  BY MemoryAssumption
    <3>4. QED  BY <2>1, <2>4, <3>1, <3>2, <3>3, LocksStep
  <2>10. QED  BY <2>3, <2>4, <2>5, <2>7, <2>8, <2>9 DEF MemInv, Undisturbed
<1>3. QED  BY <1>1, <1>2

\* The blocks of a new arena but the first.
LEMMA NewArena ==
    ASSUME NEW p, NEW S, Blocks(p) \subseteq S
    PROVE  LET list == <<>> \o [i \in 1 .. PerArena |-> <<p, i - 1>>]
           IN  /\ Head(list) = <<p, 0>> /\ Tail(list) \in Seq(S) /\ IsInjective(Tail(list))
               /\ ToSet(Tail(list)) = Blocks(p) \ {<<p, 0>>}
<1> DEFINE new == [i \in 1 .. PerArena |-> <<p, i - 1>>]
<1>0. PerArena \in Nat \ {0}  BY MemoryAssumption
<1>1. \A i \in 1 .. PerArena : i - 1 \in 0 .. PerArena - 1  BY <1>0
<1>2. \A i \in 1 .. PerArena : <<p, i - 1>> \in Blocks(p)  BY <1>1 DEF Blocks
<1>3. new \in Seq(S) /\ Len(new) = PerArena /\ DOMAIN new = 1 .. PerArena  BY <1>0, <1>2
<1>4. <<>> \o new = new  BY <1>3, ConcatEmptySeq
<1>5. new # <<>> /\ Head(new) = <<p, 0>>
  <2>1. 1 \in 1 .. PerArena  BY <1>0
  <2>2. new[1] = <<p, 0>>  BY <2>1
  <2> HIDE DEF new
  <2>3. QED  BY <1>0, <1>3, <2>2
<1>6. IsInjective(new)
  <2>1. \A i, j \in 1 .. PerArena : <<p, i - 1>> = <<p, j - 1>> => i = j  BY <1>0
  <2>2. QED  BY <1>3, <2>1 DEF IsInjective
<1>7. ToSet(new) = Blocks(p)
  <2>1. ASSUME NEW i \in 0 .. PerArena - 1 PROVE \E j \in 1 .. PerArena : <<p, i>> = new[j]
    <3>1. i + 1 \in 1 .. PerArena /\ (i + 1) - 1 = i  BY <1>0
    <3>2. new[i + 1] = <<p, i>>  BY <3>1
    <3>3. QED  BY <3>1, <3>2
  <2>2. \A j \in 1 .. PerArena : new[j] \in Blocks(p)  BY <1>2
  <2>3. Blocks(p) = {<<p, i>> : i \in 0 .. PerArena - 1}  BY DEF Blocks
  <2>4. ToSet(new) = {new[j] : j \in 1 .. PerArena}  BY <1>3 DEF ToSet
  <2> HIDE DEF new
  <2>5. QED  BY <2>1, <2>2, <2>3, <2>4
<1> HIDE DEF new
<1>8. /\ Tail(new) \in Seq(S) /\ IsInjective(Tail(new)) /\ ToSet(Tail(new)) = ToSet(new) \ {Head(new)}
  BY <1>3, <1>5, <1>6, TailElements
<1>9. QED  BY <1>4, <1>5, <1>7, <1>8 DEF new

\* The page becomes an arena, and its first block the thread's.
LEMMA ArenaMade ==
    ASSUME MemInv, NEW t \in MemThread, Arena(t), want[t] = "small", pages[t].end > pages[t].first
    PROVE  MemInv'
<1>0. MemTypes /\ MemLocks /\ Standing(t) /\ OnePageUser /\ OneBlockUser  BY DEF MemInv
<1>1. PICK p : p = pages[t].first  OBVIOUS
<1> DEFINE list == <<>> \o [i \in 1 .. PerArena |-> <<p, i - 1>>]
           o == [kind |-> "small", first |-> p, idx |-> 0]
<1>2. /\ mpc[t] = "arena" /\ free_list = <<>> /\ own[t].kind = "none"
      /\ p \in Nat /\ pages[t].end \in Nat /\ PageCount(want[t]) = 1
  BY <1>0, <1>1, ThreadTypes DEF Arena, Standing
<1>3. pages[t].end = p + 1 /\ p \in Ram /\ Held(t) = {p}
  <2>1. pages[t].end = p + 1 /\ p .. pages[t].end - 1 \subseteq PagesOf(pool[PoolOf(want[t])])
    BY <1>0, <1>1, <1>2 DEF Standing
  <2>2. p .. pages[t].end - 1 = {p}  BY <1>2, <2>1
  <2>3. PagesOf(pool[PoolOf(want[t])]) \subseteq Ram  BY <1>0, ThreadTypes DEF MemTypes
  <2>4. Held(t) = p .. pages[t].end - 1  BY <1>1, <1>2 DEF Held, Busy_
  <2>5. QED  BY <2>1, <2>2, <2>3, <2>4
<1>4. Blocks(p) \subseteq Ram \X (0 .. PerArena - 1)  BY <1>3 DEF Blocks
<1>5. /\ Head(list) = <<p, 0>> /\ Tail(list) \in Seq(Ram \X (0 .. PerArena - 1))
      /\ IsInjective(Tail(list)) /\ ToSet(Tail(list)) = Blocks(p) \ {<<p, 0>>}
  BY <1>4, NewArena
<1>6. /\ free_list' = Tail(list)
      /\ arena' = [[arena EXCEPT ![p] = PerArena] EXCEPT ![Head(list)[1]] = @ - 1]
      /\ own' = [own EXCEPT ![t] = [kind |-> "small", first |-> Head(list)[1], idx |-> Head(list)[2]]]
      /\ mpc' = [mpc EXCEPT ![t] = "leave"]
      /\ pages' = [pages EXCEPT ![t] = [first |-> 0, end |-> 0]]
      /\ UNCHANGED <<pool, used, poolLock, descLock, want, allocs>>
  BY <1>1, <1>2 DEF Arena, TakeBlock, Goes
<1> HIDE DEF list
<1>7. Head(list)[1] = p /\ Head(list)[2] = 0  BY <1>5
<1>8. own' = [own EXCEPT ![t] = o] /\ arena' = [arena EXCEPT ![p] = PerArena - 1]
  <2>1. arena \in [Ram -> Int] /\ PerArena \in Int  BY <1>0, MemoryAssumption DEF MemTypes
  <2>2. QED  BY <1>3, <1>6, <1>7, <2>1
<1>9. own'[t] = o /\ mpc'[t] = "leave" /\ Moves(t) /\ Ram' = Ram
  BY <1>0, <1>6, <1>8, ThreadTypes DEF Moves, Ram
<1>10. PerArena \in Nat /\ PerArena - 1 \in Nat  BY MemoryAssumption
<1>11. MemTypes'
  <2>1. o \in [kind : {"none", "small", "big", "user"}, first : Nat, idx : Nat]  BY <1>2
  <2>2. own' \in [MemThread -> [kind : {"none", "small", "big", "user"}, first : Nat, idx : Nat]]
    BY <1>0, <1>8, <2>1 DEF MemTypes
  <2>3. arena' \in [Ram -> Int]
    <3>1. arena \in [Ram -> Int]  BY <1>0 DEF MemTypes
    <3>2. PerArena - 1 \in Int  BY <1>10
    <3>3. QED  BY <1>3, <1>8, <3>1, <3>2
  <2>4. pages' \in [MemThread -> [first : Nat, end : Nat]]  BY <1>0, <1>6 DEF MemTypes
  <2>5. QED  BY <1>0, <1>5, <1>6, <1>9, <2>2, <2>3, <2>4 DEF MemTypes
<1>12. descLock = t  BY <1>0, <1>2 DEF MemLocks, InDesc
<1>13. Undisturbed(t)  BY <1>6, <1>9, <1>12, OtherThreads
<1>14. Standing(t)'  BY <1>6, <1>9 DEF Standing
<1>15. arena'[p] = PerArena - 1 /\ \A q \in Ram : q # p => arena'[q] = arena[q]
  BY <1>0, <1>3, <1>8 DEF MemTypes
<1>16. Arenas' = Arenas \cup {p} /\ p \notin Arenas
  <2>1. arena'[p] >= 0  BY <1>10, <1>15
  <2>2. p \notin Arenas  BY <1>0, <1>3 DEF OnePageUser
  <2>3. \A q \in Ram : arena'[q] >= 0 <=> (q = p \/ arena[q] >= 0)  BY <1>15, <2>1
  <2>4. QED  BY <1>3, <1>9, <2>2, <2>3 DEF Arenas
<1>17. Held(t)' = {}  BY <1>9 DEF Held
<1>18. OnePageUser'
  <2>1. \A q \in Held(t)' \cup Arenas' : q \in Held(t) \cup Arenas \/ (q \in Ram /\ ~used[q])
    BY <1>3, <1>16, <1>17
  <2>2. \A q \in Ram : q \in Held(t) \cup Arenas => used[q]  BY <1>0 DEF OnePageUser
  <2>3. \A q \in Ram : used'[q] <=> (\/ q \in Held(t)' \cup Arenas'
                                     \/ used[q] /\ q \notin Held(t) \cup Arenas)
    BY <1>3, <1>6, <1>16, <1>17, <2>2
  <2>4. \A u \in MemThread \ {t} : Held(u)' = Held(u)  BY <1>13 DEF Undisturbed
  <2>5. Held(t)' \cap Arenas' = {}  BY <1>17
  <2>6. QED  BY <1>0, <1>9, <2>1, <2>3, <2>4, <2>5, PageMove
<1>19. OneBlockUser'
  <2>0. ToSet(free_list) = {}  BY <1>2, EmptyProperties
  <2>1. ToSet(free_list') = Blocks(p) \ {<<p, 0>>} /\ IsInjective(free_list')  BY <1>5, <1>6
  <2>2. \A x \in Blocks(p) : x[1] = p  BY DEF Blocks
  <2>3. \A x \in ToSet(free_list') : x[1] \in Arenas'  BY <1>16, <2>1, <2>2
  <2>4. \A u \in MemThread \ {t} : own'[u] = own[u] /\ (own[u].kind = "small" => own[u].first # p)
    BY <1>0, <1>9, <1>16 DEF Moves, OneBlockUser
  <2>5. own'[t].kind = "small" /\ own'[t].first = p /\ own'[t].idx = 0  BY <1>9
  <2>6. ASSUME NEW u \in MemThread, own'[u].kind = "small"
        PROVE  /\ own'[u].first \in Arenas' /\ own'[u].idx \in 0 .. PerArena - 1
               /\ <<own'[u].first, own'[u].idx>> \notin ToSet(free_list')
    <3>1. CASE u = t
      <4>1. 0 \in 0 .. PerArena - 1  BY <1>10
      <4>2. QED  BY <1>16, <2>1, <2>5, <3>1, <4>1
    <3>2. CASE u # t
      <4>1. own[u].kind = "small" /\ own'[u] = own[u] /\ own[u].first # p  BY <2>4, <2>6, <3>2
      <4>2. own[u].first \in Arenas /\ own[u].idx \in 0 .. PerArena - 1  BY <1>0, <4>1 DEF OneBlockUser
      <4>3. <<own[u].first, own[u].idx>>[1] # p  BY <4>1
      <4>4. <<own[u].first, own[u].idx>> \notin Blocks(p)  BY <2>2, <4>3
      <4>5. QED  BY <1>16, <2>1, <4>1, <4>2, <4>4
    <3>3. QED  BY <3>1, <3>2
  <2>7. ASSUME NEW u \in MemThread, NEW v \in MemThread, u # v,
               own'[u].kind = "small", own'[v].kind = "small"
        PROVE  <<own'[u].first, own'[u].idx>> # <<own'[v].first, own'[v].idx>>
    <3>1. CASE u = t  BY <2>4, <2>5, <2>7, <3>1
    <3>2. CASE v = t  BY <2>4, <2>5, <2>7, <3>2
    <3>3. CASE u # t /\ v # t  BY <1>0, <2>4, <2>7, <3>3 DEF OneBlockUser
    <3>4. QED  BY <3>1, <3>2, <3>3
  <2>8. \A q \in Arenas' : arena'[q] = Cardinality(FreeOf(q)') /\ arena'[q] < PerArena
    <3>1. FreeOf(p)' = Blocks(p) \ {<<p, 0>>}  BY <2>1, <2>2 DEF FreeOf
    <3>2. Cardinality(Blocks(p) \ {<<p, 0>>}) = PerArena - 1
      <4>1. IsFiniteSet(Blocks(p)) /\ Cardinality(Blocks(p)) = PerArena  BY BlockCount
      <4>2. <<p, 0>> \in Blocks(p)
        <5>1. 0 \in 0 .. PerArena - 1  BY <1>10
        <5>2. QED  BY <5>1 DEF Blocks
      <4>3. QED  BY <4>1, <4>2, FS_RemoveElement
    <3>3. PerArena - 1 < PerArena  BY <1>10
    <3>4. ASSUME NEW q \in Arenas, q # p
          PROVE  arena'[q] = Cardinality(FreeOf(q)') /\ arena'[q] < PerArena
      <4>1. FreeOf(q)' = {} /\ FreeOf(q) = {}  BY <2>0, <2>1, <2>2, <3>4 DEF FreeOf
      <4>2. arena[q] = Cardinality(FreeOf(q)) /\ arena[q] < PerArena  BY <1>0 DEF OneBlockUser
      <4>3. q \in Ram /\ arena'[q] = arena[q]  BY <1>15, <3>4 DEF Arenas
      <4>4. QED  BY <4>1, <4>2, <4>3
    <3>5. QED  BY <1>15, <1>16, <3>1, <3>2, <3>3, <3>4
  <2>9. QED  BY <2>1, <2>3, <2>6, <2>7, <2>8 DEF OneBlockUser
<1>20. MemLocks'
  <2>1. ~InPool(t) /\ ~InPool(t)' /\ InDesc(t)'  BY <1>2, <1>9 DEF InPool, InDesc
  <2>2. \A k \in {"kernel", "user"} : poolLock[k] # t  BY <1>0, <2>1 DEF MemLocks
  <2>3. QED  BY <1>6, <1>12, <1>13, <2>1, <2>2, LocksStep
<1>21. QED  BY <1>11, <1>13, <1>14, <1>18, <1>19, <1>20 DEF MemInv, Undisturbed

LEMMA ArenaStep ==
    ASSUME MemInv, NEW t \in MemThread, Arena(t)
    PROVE  MemInv'
<1>0. MemTypes /\ MemLocks /\ Standing(t) /\ OnePageUser /\ OneBlockUser  BY DEF MemInv
<1> DEFINE has == pages[t].end > pages[t].first
<1>1. CASE want[t] = "small" /\ has  BY <1>1, ArenaMade
<1>2. CASE ~(want[t] = "small" /\ has)
  <2>1. /\ mpc[t] = "arena" /\ own[t].kind = "none" /\ own[t] = NoBlock
        /\ pages[t].first \in Nat /\ pages[t].end \in Nat /\ want[t] \in {"small", "big", "user"}
        /\ PageCount(want[t]) \in {1, 2}
        /\ pages' = [pages EXCEPT ![t] = [first |-> 0, end |-> 0]]
        /\ UNCHANGED <<pool, used, poolLock, descLock, want, allocs>>
    BY <1>0, ThreadTypes DEF Arena, Standing
  <2>2. /\ own' = IF has THEN [own EXCEPT ![t] = [kind |-> want[t], first |-> pages[t].first, idx |-> 0]]
                  ELSE own
        /\ mpc' = [mpc EXCEPT ![t] = IF want[t] = "small" THEN "leave" ELSE "idle"]
        /\ UNCHANGED <<free_list, arena>>
    <3>1. CASE want[t] = "small"  BY <1>2, <3>1 DEF Arena, Goes
    <3>2. CASE want[t] # "small"  BY <3>2 DEF Arena, Goes
    <3>3. QED  BY <3>1, <3>2
  <2>3. /\ own'[t] = IF has THEN [kind |-> want[t], first |-> pages[t].first, idx |-> 0] ELSE NoBlock
        /\ mpc'[t] = (IF want[t] = "small" THEN "leave" ELSE "idle")
        /\ Moves(t) /\ Ram' = Ram
    BY <1>0, <2>1, <2>2, ThreadTypes DEF Moves, Ram
  <2>4. MemTypes'
    <3>1. pages' \in [MemThread -> [first : Nat, end : Nat]]  BY <1>0, <2>1 DEF MemTypes
    <3>2. [kind |-> want[t], first |-> pages[t].first, idx |-> 0]
             \in [kind : {"none", "small", "big", "user"}, first : Nat, idx : Nat]
      BY <2>1
    <3>3. own' \in [MemThread -> [kind : {"none", "small", "big", "user"}, first : Nat, idx : Nat]]
      BY <1>0, <2>2, <3>2 DEF MemTypes
    <3>4. QED  BY <1>0, <2>1, <2>2, <2>3, <3>1, <3>3 DEF MemTypes
  <2>5. Undisturbed(t)  BY <2>1, <2>2, <2>3, OtherThreads
  <2>6. has => /\ pages[t].end = pages[t].first + PageCount(want[t])
               /\ pages[t].first .. pages[t].end - 1 \subseteq Ram
    <3>1. PagesOf(pool[PoolOf(want[t])]) \subseteq Ram  BY <1>0, ThreadTypes DEF MemTypes
    <3>2. QED  BY <1>0, <2>1, <3>1 DEF Standing
  <2>7. Held(t)' = Held(t)
    <3>1. Held(t) = pages[t].first .. pages[t].end - 1  BY <2>1 DEF Held, Busy_
    <3>2. CASE has
      <4>1. own'[t].kind = want[t] /\ own'[t].kind \in {"big", "user"} /\ own'[t].first = pages[t].first
        BY <1>2, <2>1, <2>3, <3>2
      <4>2. Held(t)' = pages[t].first .. pages[t].first + PageCount(want[t]) - 1
        BY <2>3, <4>1 DEF Held
      <4>3. pages[t].end = pages[t].first + PageCount(want[t])  BY <2>6, <3>2
      <4>4. pages[t].first + PageCount(want[t]) - 1 = pages[t].end - 1  BY <2>1, <4>3
      <4>5. QED  BY <3>1, <4>2, <4>4
    <3>3. CASE ~has
      <4>1. Held(t)' = {}  BY <2>3, <3>3 DEF Held, NoBlock
      <4>2. Held(t) = {}  BY <2>1, <3>1, <3>3
      <4>3. QED  BY <4>1, <4>2
    <3>4. QED  BY <3>2, <3>3
  <2>8. Standing(t)'
    <3>1. CASE has
      <4>1. /\ own'[t].kind = want[t] /\ own'[t].kind \in {"big", "user"} /\ own'[t].first = pages[t].first
            /\ mpc'[t] = "idle" /\ want'[t] = want[t]
        BY <1>2, <2>1, <2>3, <3>1
      <4>2. own'[t].first .. own'[t].first + PageCount(own'[t].kind) - 1 \subseteq Ram'
        <5>1. pages[t].end = pages[t].first + PageCount(want[t])  BY <2>6, <3>1
        <5>2. pages[t].first + PageCount(want[t]) - 1 = pages[t].end - 1  BY <2>1, <5>1
        <5>3. pages[t].first .. pages[t].end - 1 \subseteq Ram  BY <2>6, <3>1
        <5>4. QED  BY <2>3, <4>1, <5>2, <5>3
      <4>3. QED  BY <4>1, <4>2 DEF Standing
    <3>2. CASE ~has
      <4>1. own'[t] = NoBlock /\ mpc'[t] \in {"idle", "leave"} /\ want'[t] = want[t]
            /\ (mpc'[t] = "leave" => want[t] = "small")
        BY <2>1, <2>3, <3>2
      <4>2. QED  BY <4>1 DEF Standing, NoBlock
    <3>3. QED  BY <3>1, <3>2
  <2>9. OnePageUser'
    <3>1. \A u \in MemThread : Held(u)' = Held(u)  BY <2>5, <2>7 DEF Undisturbed
    <3>2. QED  BY <1>0, <2>1, <2>2, <3>1, PageStay
  <2>10. OneBlockUser'
    <3>1. own[t].kind # "small" /\ own'[t].kind # "small"  BY <1>2, <2>1, <2>3 DEF NoBlock
    <3>2. \A u \in MemThread : own'[u] = own[u] \/ (own[u].kind # "small" /\ own'[u].kind # "small")
      BY <2>3, <3>1 DEF Moves
    <3>3. QED  BY <1>0, <2>2, <2>3, <3>2, BlockStay
  <2>11. MemLocks'
    <3>1. ~InPool(t) /\ ~InPool(t)' /\ (InDesc(t)' <=> InDesc(t))
      BY <2>1, <2>3 DEF InPool, InDesc
    <3>2. \A k \in {"kernel", "user"} : poolLock[k] # t  BY <1>0, <3>1 DEF MemLocks
    <3>3. descLock' = t <=> InDesc(t)'  BY <1>0, <2>1, <3>1 DEF MemLocks
    <3>4. QED  BY <2>1, <2>5, <3>1, <3>2, <3>3, LocksStep
  <2>12. QED  BY <2>4, <2>5, <2>8, <2>9, <2>10, <2>11 DEF MemInv, Undisturbed
<1>3. QED  BY <1>1, <1>2

\* A block of an arena that is put back leaves an arena with a block in use,
\* or it was the last one in use: then no other thread has a block there.
LEMMA LastBlock ==
    ASSUME MemTypes, OneBlockUser, NEW t \in MemThread, own[t].kind = "small",
           arena[own[t].first] + 1 >= PerArena,
           NEW u \in MemThread, u # t, own[u].kind = "small"
    PROVE  own[u].first # own[t].first
<1> SUFFICES ASSUME own[u].first = own[t].first PROVE FALSE
  OBVIOUS
<1>1. PICK p : p = own[t].first  OBVIOUS
<1> DEFINE b == <<p, own[t].idx>>
           c == <<p, own[u].idx>>
           F == FreeOf(p)
<1>2. /\ p \in Arenas /\ own[t].idx \in 0 .. PerArena - 1 /\ own[u].idx \in 0 .. PerArena - 1
      /\ b \notin ToSet(free_list) /\ c \notin ToSet(free_list) /\ b # c
  BY <1>1 DEF OneBlockUser
<1>3. b \in Blocks(p) /\ c \in Blocks(p)  BY <1>2 DEF Blocks
<1>4. b \notin F /\ c \notin F  BY <1>2 DEF FreeOf
<1>5. IsFiniteSet(F) /\ Cardinality(F) \in Nat /\ F \subseteq Blocks(p)  BY FreeBlocks
<1>6. Cardinality(F) = arena[p] /\ Cardinality(F) + 1 >= PerArena  BY <1>1, <1>2 DEF OneBlockUser
<1>7. IsFiniteSet(Blocks(p)) /\ Cardinality(Blocks(p)) = PerArena  BY BlockCount
<1>8. PerArena \in Nat  BY MemoryAssumption
<1> HIDE DEF b, c, F
<1>9. IsFiniteSet(F \cup {b}) /\ Cardinality(F \cup {b}) = Cardinality(F) + 1
  BY <1>4, <1>5, FS_AddElement
<1>10. c \notin F \cup {b}  BY <1>2, <1>4
<1>11. /\ IsFiniteSet((F \cup {b}) \cup {c})
       /\ Cardinality((F \cup {b}) \cup {c}) = Cardinality(F \cup {b}) + 1
  BY <1>9, <1>10, FS_AddElement
<1>12. (F \cup {b}) \cup {c} \in SUBSET Blocks(p)  BY <1>3, <1>5
<1>13. Cardinality((F \cup {b}) \cup {c}) <= Cardinality(Blocks(p))  BY <1>7, <1>12, FS_Subset
<1>14. QED  BY <1>5, <1>6, <1>7, <1>8, <1>9, <1>11, <1>13

LEMMA DescFreeStep ==
    ASSUME MemInv, NEW t \in MemThread, DescFree(t)
    PROVE  MemInv'
<1>0. MemTypes /\ MemLocks /\ Standing(t) /\ OnePageUser /\ OneBlockUser  BY DEF MemInv
<1>1. PICK p, i : p = own[t].first /\ i = own[t].idx  OBVIOUS
<1>2. PICK b : b = <<p, i>>  OBVIOUS
<1>3. b[1] = p /\ b[2] = i  BY <1>2
<1> DEFINE list == <<b>> \o free_list
           full == arena[p] + 1 >= PerArena
<1>4. /\ mpc[t] = "desc" /\ own[t] # NoBlock /\ descLock = Nobody
      /\ descLock' = t /\ own' = [own EXCEPT ![t] = NoBlock]
      /\ UNCHANGED <<pool, used, poolLock, want, allocs>>
  BY DEF DescFree
<1>5. /\ full => /\ free_list' = Without(list, Blocks(p)) /\ arena' = [arena EXCEPT ![p] = -1]
                 /\ pages' = [pages EXCEPT ![t] = [first |-> p, end |-> p + 1]]
                 /\ mpc' = [mpc EXCEPT ![t] = "clear"]
      /\ ~full => /\ free_list' = list /\ arena' = [arena EXCEPT ![p] = @ + 1]
                  /\ mpc' = [mpc EXCEPT ![t] = "leave"] /\ pages' = pages
  BY <1>1, <1>2, <1>3 DEF DescFree, Goes
<1>6. /\ own[t].kind = "small" /\ want[t] = "small" /\ p \in Nat /\ i \in Nat
      /\ Nobody \notin MemThread
  <2>1. own[t].kind # "none" /\ own[t].kind = want[t] /\ want[t] = "small"
    BY <1>0, <1>4 DEF Standing
  <2>2. QED  BY <1>0, <1>1, <2>1, ThreadTypes, MemoryAssumption
<1>7. p \in Arenas /\ i \in 0 .. PerArena - 1 /\ b \notin ToSet(free_list)
  BY <1>0, <1>1, <1>2, <1>6 DEF OneBlockUser
<1>8. p \in Ram /\ arena[p] \in Int /\ arena[p] >= 0 /\ arena[p] = Cardinality(FreeOf(p))
  <2>1. p \in Ram /\ arena[p] >= 0  BY <1>7 DEF Arenas
  <2>2. arena[p] \in Int  BY <1>0, <2>1 DEF MemTypes
  <2>3. QED  BY <1>0, <1>7, <2>1, <2>2 DEF OneBlockUser
<1>9. b \in Ram \X (0 .. PerArena - 1)  BY <1>2, <1>7, <1>8
<1>10. /\ list \in Seq(Ram \X (0 .. PerArena - 1)) /\ ToSet(list) = ToSet(free_list) \cup {b}
       /\ IsInjective(list)
  <2>1. free_list \in Seq(Ram \X (0 .. PerArena - 1)) /\ IsInjective(free_list)
    BY <1>0 DEF MemTypes, OneBlockUser
  <2>2. QED  BY <1>7, <1>9, <2>1, PrependElements
<1> HIDE DEF list
<1>11. PerArena \in Nat /\ PerArena # 0  BY MemoryAssumption
<1>12. own'[t] = NoBlock /\ Moves(t) /\ Ram' = Ram
  <2>1. own'[t] = NoBlock /\ Ram' = Ram  BY <1>0, <1>4, ThreadTypes DEF Ram
  <2>2. Moves(t)
    <3>1. CASE full  BY <1>0, <1>4, <1>5, <3>1, ThreadTypes DEF Moves
    <3>2. CASE ~full  BY <1>0, <1>4, <1>5, <3>2, ThreadTypes DEF Moves
    <3>3. QED  BY <3>1, <3>2
  <2>3. QED  BY <2>1, <2>2
<1>13. own' \in [MemThread -> [kind : {"none", "small", "big", "user"}, first : Nat, idx : Nat]]
  <2>1. NoBlock \in [kind : {"none", "small", "big", "user"}, first : Nat, idx : Nat]  BY DEF NoBlock
  <2>2. QED  BY <1>0, <1>4, <2>1 DEF MemTypes
<1>14. Undisturbed(t)  BY <1>4, <1>12, OtherThreads
<1>15. MemLocks'
  <2>1. mpc'[t] \in {"clear", "leave"} /\ want'[t] = "small"
    BY <1>0, <1>4, <1>5, <1>6, ThreadTypes
  <2>2. ~InPool(t) /\ ~InPool(t)' /\ InDesc(t)'  BY <1>4, <2>1 DEF InPool, InDesc
  <2>3. \A k \in {"kernel", "user"} : poolLock[k] # t  BY <1>0, <2>2 DEF MemLocks
  <2>4. QED  BY <1>4, <1>6, <1>14, <2>2, <2>3, LocksStep
<1>16. Held(t) = {}  BY <1>4, <1>6 DEF Held
<1>17. \A u \in MemThread \ {t} : own'[u] = own[u]  BY <1>12 DEF Moves
<1>18. own'[t].kind = "none"  BY <1>12 DEF NoBlock
<1>19. \A u, v \in MemThread :
         own'[u].kind = "small" /\ own'[v].kind = "small" /\ u # v =>
           <<own'[u].first, own'[u].idx>> # <<own'[v].first, own'[v].idx>>
  BY <1>0, <1>17, <1>18 DEF OneBlockUser
<1>20. CASE ~full
  <2>1. /\ free_list' = list /\ arena' = [arena EXCEPT ![p] = arena[p] + 1] /\ mpc'[t] = "leave"
        /\ pages' = pages
    BY <1>0, <1>5, <1>20, ThreadTypes
  <2>2. arena[p] + 1 \in Int /\ arena[p] + 1 >= 0 /\ arena[p] + 1 < PerArena
    BY <1>8, <1>11, <1>20
  <2>3. arena \in [Ram -> Int]  BY <1>0 DEF MemTypes
  <2>4. arena' \in [Ram -> Int] /\ arena'[p] = arena[p] + 1 /\ \A q \in Ram : q # p => arena'[q] = arena[q]
    BY <1>8, <2>1, <2>2, <2>3
  <2>5. mpc' \in [MemThread -> {"idle", "desc", "pool", "scan", "flip", "arena", "clear", "leave"}]
    BY <1>0, <1>5, <1>20 DEF MemTypes
  <2>6. MemTypes'  BY <1>0, <1>4, <1>10, <1>12, <1>13, <2>1, <2>4, <2>5 DEF MemTypes
  <2>7. Standing(t)'  BY <1>4, <1>6, <1>12, <2>1 DEF Standing, NoBlock
  <2>8. Arenas' = Arenas
    <3>1. arena'[p] >= 0  BY <2>2, <2>4
    <3>2. \A q \in Ram : arena'[q] >= 0 <=> arena[q] >= 0  BY <1>8, <2>4, <3>1
    <3>3. QED  BY <1>12, <3>2 DEF Arenas
  <2>9. OnePageUser'
    <3>1. Held(t)' = {}  BY <1>12, <2>1 DEF Held, NoBlock
    <3>2. \A u \in MemThread : Held(u)' = Held(u)  BY <1>14, <1>16, <3>1 DEF Undisturbed
    <3>3. QED  BY <1>0, <1>4, <1>12, <2>8, <3>2 DEF OnePageUser
  <2>10. OneBlockUser'
    <3>1. ToSet(free_list') = ToSet(free_list) \cup {b} /\ IsInjective(free_list')  BY <1>10, <2>1
    <3>2. \A x \in ToSet(free_list') : x[1] \in Arenas'
      BY <1>0, <1>3, <1>7, <2>8, <3>1 DEF OneBlockUser
    <3>3. \A u \in MemThread : own'[u].kind = "small" =>
            /\ own'[u].first \in Arenas' /\ own'[u].idx \in 0 .. PerArena - 1
            /\ <<own'[u].first, own'[u].idx>> \notin ToSet(free_list')
      <4>1. ASSUME NEW u \in MemThread \ {t}, own[u].kind = "small"
            PROVE  /\ own[u].first \in Arenas /\ own[u].idx \in 0 .. PerArena - 1
                   /\ <<own[u].first, own[u].idx>> \notin ToSet(free_list)
                   /\ <<own[u].first, own[u].idx>> # b
        BY <1>0, <1>1, <1>2, <1>6, <4>1 DEF OneBlockUser
      <4>2. QED  BY <1>17, <1>18, <2>8, <3>1, <4>1
    <3>4. \A q : FreeOf(q)' = IF q = p THEN FreeOf(q) \cup {b} ELSE FreeOf(q)
      BY <1>3, <3>1 DEF FreeOf
    <3>5. Cardinality(FreeOf(p)') = arena[p] + 1
      <4>1. IsFiniteSet(FreeOf(p))  BY <1>0, FreeBlocks
      <4>2. b \notin FreeOf(p)  BY <1>7 DEF FreeOf
      <4>3. Cardinality(FreeOf(p) \cup {b}) = Cardinality(FreeOf(p)) + 1  BY <4>1, <4>2, FS_AddElement
      <4>4. QED  BY <1>8, <3>4, <4>3
    <3>6. ASSUME NEW q \in Arenas, q # p
          PROVE  arena'[q] = Cardinality(FreeOf(q)') /\ arena'[q] < PerArena
      <4>1. q \in Ram /\ arena'[q] = arena[q] /\ FreeOf(q)' = FreeOf(q)
        BY <2>4, <3>4, <3>6 DEF Arenas
      <4>2. arena[q] = Cardinality(FreeOf(q)) /\ arena[q] < PerArena  BY <1>0 DEF OneBlockUser
      <4>3. QED  BY <4>1, <4>2
    <3>7. arena'[p] = Cardinality(FreeOf(p)') /\ arena'[p] < PerArena  BY <2>2, <2>4, <3>5
    <3>8. \A q \in Arenas' : arena'[q] = Cardinality(FreeOf(q)') /\ arena'[q] < PerArena
      BY <2>8, <3>6, <3>7
    <3>9. QED  BY <1>19, <3>1, <3>2, <3>3, <3>8 DEF OneBlockUser
  <2>11. QED  BY <1>14, <1>15, <2>6, <2>7, <2>9, <2>10 DEF MemInv, Undisturbed
<1>21. CASE full
  <2>1. /\ free_list' = Without(list, Blocks(p)) /\ arena' = [arena EXCEPT ![p] = -1]
        /\ mpc'[t] = "clear" /\ pages'[t] = [first |-> p, end |-> p + 1]
    BY <1>0, <1>5, <1>21, ThreadTypes
  <2>2. /\ free_list' \in Seq(Ram \X (0 .. PerArena - 1)) /\ IsInjective(free_list')
        /\ ToSet(free_list') = (ToSet(free_list) \cup {b}) \ Blocks(p)
    BY <1>10, <2>1, WithoutElements
  <2>3. arena \in [Ram -> Int] /\ -1 \in Int /\ ~(-1 >= 0)  BY <1>0 DEF MemTypes
  <2>4. arena' \in [Ram -> Int] /\ arena'[p] = -1 /\ \A q \in Ram : q # p => arena'[q] = arena[q]
    BY <1>8, <2>1, <2>3
  <2>5. /\ mpc' \in [MemThread -> {"idle", "desc", "pool", "scan", "flip", "arena", "clear", "leave"}]
        /\ pages' \in [MemThread -> [first : Nat, end : Nat]]
    <3>1. [first |-> p, end |-> p + 1] \in [first : Nat, end : Nat]
      <4>1. p + 1 \in Nat  BY <1>6
      <4>2. QED  BY <1>6, <4>1
    <3>2. pages \in [MemThread -> [first : Nat, end : Nat]]  BY <1>0 DEF MemTypes
    <3>3. pages' \in [MemThread -> [first : Nat, end : Nat]]  BY <1>5, <1>21, <3>1, <3>2
    <3>4. QED  BY <1>0, <1>5, <1>21, <3>3 DEF MemTypes
  <2>6. MemTypes'  BY <1>0, <1>4, <1>12, <1>13, <2>2, <2>4, <2>5 DEF MemTypes
  <2>7. p .. (p + 1) - 1 = {p} /\ p < p + 1  BY <1>6
  <2>8. Standing(t)'
    <3>1. pages'[t].first = p /\ pages'[t].end = p + 1  BY <2>1
    <3>2. /\ pages'[t].first < pages'[t].end
          /\ pages'[t].first .. pages'[t].end - 1 \subseteq Ram'
      BY <1>8, <1>12, <2>7, <3>1
    <3>3. own'[t] = NoBlock /\ own'[t].kind = "none" /\ mpc'[t] = "clear" /\ want'[t] = "small"
      BY <1>4, <1>6, <1>12, <1>18, <2>1
    <3>4. QED  BY <3>2, <3>3 DEF Standing
  <2>9. Arenas' = Arenas \ {p}
    <3>1. ~(arena'[p] >= 0)  BY <2>3, <2>4
    <3>2. \A q \in Ram : arena'[q] >= 0 <=> (q # p /\ arena[q] >= 0)  BY <2>4, <3>1
    <3>3. QED  BY <1>12, <3>2 DEF Arenas
  <2>10. Held(t)' = {p}
    <3>1. pages'[t].first = p /\ pages'[t].end = p + 1  BY <2>1
    <3>2. Busy_(t)' = {p}  BY <2>7, <3>1 DEF Busy_
    <3>3. QED  BY <1>18, <2>1, <3>2 DEF Held
  <2>11. OnePageUser'
    <3>1. \A q \in Held(t)' \cup Arenas' : q \in Held(t) \cup Arenas  BY <1>7, <2>9, <2>10
    <3>2. \A q \in Ram : q \in Held(t) \cup Arenas => used[q]  BY <1>0 DEF OnePageUser
    <3>3. Held(t)' \cup Arenas' = Held(t) \cup Arenas  BY <1>7, <1>16, <2>9, <2>10
    <3>4. \A q \in Ram : used'[q] <=> (\/ q \in Held(t)' \cup Arenas'
                                       \/ used[q] /\ q \notin Held(t) \cup Arenas)
      BY <1>4, <3>2, <3>3
    <3>5. \A u \in MemThread \ {t} : Held(u)' = Held(u)  BY <1>14 DEF Undisturbed
    <3>6. Held(t)' \cap Arenas' = {}  BY <2>9, <2>10
    <3>7. QED  BY <1>0, <1>12, <3>1, <3>4, <3>5, <3>6, PageMove
  <2>12. OneBlockUser'
    <3>1. b \in Blocks(p)  BY <1>2, <1>7 DEF Blocks
    <3>2. ToSet(free_list') = ToSet(free_list) \ Blocks(p)  BY <2>2, <3>1
    <3>3. \A x \in ToSet(free_list) : x[1] = p => x \in Blocks(p)
      <4>1. FreeOf(p) \subseteq Blocks(p)  BY <1>0, FreeBlocks
      <4>2. QED  BY <4>1 DEF FreeOf
    <3>4. \A x \in Blocks(p) : x[1] = p  BY DEF Blocks
    <3>5. \A x \in ToSet(free_list') : x[1] \in Arenas'
      BY <1>0, <2>9, <3>2, <3>3 DEF OneBlockUser
    <3>6. \A u \in MemThread : own'[u].kind = "small" =>
            /\ own'[u].first \in Arenas' /\ own'[u].idx \in 0 .. PerArena - 1
            /\ <<own'[u].first, own'[u].idx>> \notin ToSet(free_list')
      <4>1. ASSUME NEW u \in MemThread \ {t}, own[u].kind = "small"
            PROVE  /\ own[u].first \in Arenas \ {p} /\ own[u].idx \in 0 .. PerArena - 1
                   /\ <<own[u].first, own[u].idx>> \notin ToSet(free_list)
        <5>1. own[u].first # p  BY <1>0, <1>1, <1>6, <1>21, <4>1, LastBlock
        <5>2. QED  BY <1>0, <4>1, <5>1 DEF OneBlockUser
      <4>2. QED  BY <1>17, <1>18, <2>9, <3>2, <4>1
    <3>7. ASSUME NEW q \in Arenas' PROVE arena'[q] = Cardinality(FreeOf(q)') /\ arena'[q] < PerArena
      <4>1. q \in Arenas /\ q # p /\ q \in Ram  BY <2>9 DEF Arenas
      <4>2. FreeOf(q)' = FreeOf(q)  BY <3>2, <3>4, <4>1 DEF FreeOf
      <4>3. arena[q] = Cardinality(FreeOf(q)) /\ arena[q] < PerArena  BY <1>0, <4>1 DEF OneBlockUser
      <4>4. QED  BY <2>4, <4>1, <4>2, <4>3
    <3>8. QED  BY <1>19, <2>2, <3>5, <3>6, <3>7 DEF OneBlockUser
  <2>13. QED  BY <1>14, <1>15, <2>6, <2>8, <2>11, <2>12 DEF MemInv, Undisturbed
<1>22. QED  BY <1>20, <1>21

LEMMA MemStepInv == MemInv /\ [MemNext]_memVars => MemInv'
<1> SUFFICES ASSUME MemInv, [MemNext]_memVars PROVE MemInv'
  OBVIOUS
<1>1. CASE UNCHANGED memVars
  <2>0. MemTypes /\ MemLocks /\ OnePageUser /\ OneBlockUser /\ \A t \in MemThread : Standing(t)
    BY DEF MemInv
  <2>1. UNCHANGED <<pool, used, poolLock, descLock, free_list, arena, mpc, want, pages, own>> /\ Ram' = Ram
    BY <1>1 DEF memVars, Ram
  <2>2. MemTypes'  BY <2>0, <2>1 DEF MemTypes
  <2>3. MemLocks'  BY <2>0, <2>1 DEF MemLocks, InPool, InDesc
  <2>4. \A t \in MemThread : Standing(t)'  BY <2>0, <2>1 DEF Standing
  <2>5. \A t \in MemThread : Held(t)' = Held(t)  BY <2>1 DEF Held, Busy_
  <2>6. OnePageUser'  BY <2>0, <2>1, <2>5, PageStay
  <2>7. OneBlockUser'  BY <2>0, <2>1, BlockStay
  <2>8. QED  BY <2>2, <2>3, <2>4, <2>6, <2>7 DEF MemInv
<1>2. CASE MemNext
  <2>1. PICK t \in MemThread : MemStep(t) \/ MemCall(t)  BY <1>2 DEF MemNext
  <2>2. CASE DescAlloc(t)  BY <2>2, DescAllocStep
  <2>3. CASE PoolLock(t)  BY <2>3, PoolLockStep
  <2>4. CASE Scan(t)  BY <2>4, ScanStep
  <2>5. CASE Flip(t)  BY <2>5, FlipStep
  <2>6. CASE Arena(t)  BY <2>6, ArenaStep
  <2>7. CASE Leave(t)  BY <2>7, LeaveStep
  <2>8. CASE DescFree(t)  BY <2>8, DescFreeStep
  <2>9. CASE Clear(t)  BY <2>9, ClearStep
  <2>10. CASE Free(t)  BY <2>10, FreeStep
  <2>11. CASE \E kind \in {"small", "big", "user"} : Malloc(t, kind)  BY <2>11, MallocStep
  <2>12. QED  BY <2>1, <2>2, <2>3, <2>4, <2>5, <2>6, <2>7, <2>8, <2>9, <2>10, <2>11
              DEF MemStep, MemCall
<1>3. QED  BY <1>1, <1>2

\* The allocators' inductive invariant: the locks are held where the code is
\* between acquire and release, the bits a thread is about to set are clear,
\* no block is free while a page for an arena is looked for, a page and a
\* block have one user.
THEOREM MemInvariant == MemSpec => []MemInv
<1>1. QED  BY MemInitInv, MemStepInv, PTL DEF MemSpec

LEMMA FreeCounted ==
    ASSUME MemTypes, OneBlockUser, NEW p
    PROVE  Cardinality({i \in DOMAIN free_list : free_list[i][1] = p}) = Cardinality(FreeOf(p))
<1> DEFINE I == {i \in DOMAIN free_list : free_list[i][1] = p}
           f == [i \in I |-> free_list[i]]
<1>1. /\ Len(free_list) \in Nat /\ DOMAIN free_list = 1 .. Len(free_list)
      /\ ToSet(free_list) = {free_list[i] : i \in 1 .. Len(free_list)}
  <2>1. free_list \in Seq(Ram \X (0 .. PerArena - 1))  BY DEF MemTypes
  <2>2. QED  BY <2>1, SeqElements
<1>2. IsFiniteSet(I)
  <2>1. IsFiniteSet(1 .. Len(free_list))  BY <1>1, FS_Interval
  <2>2. I \in SUBSET (1 .. Len(free_list))  BY <1>1
  <2>3. QED  BY <2>1, <2>2, FS_Subset
<1>3. f \in [I -> FreeOf(p)]  BY <1>1 DEF FreeOf
<1>4. \A i, j \in I : f[i] = f[j] => i = j  BY DEF OneBlockUser, IsInjective
<1>5. \A x \in FreeOf(p) : \E i \in I : f[i] = x  BY <1>1 DEF FreeOf
<1> HIDE DEF f, I
<1>6. Cardinality(FreeOf(p)) = Cardinality(I)  BY <1>2, <1>3, <1>4, <1>5, MatchedSets
<1>7. QED  BY <1>6 DEF I

LEMMA MemSafe == MemInv => MemorySound
<1> SUFFICES ASSUME MemInv PROVE MemorySound
  OBVIOUS
<1>0. MemTypes /\ OnePageUser /\ OneBlockUser  BY DEF MemInv
<1>1. DOMAIN arena = Ram /\ DOMAIN used = Ram /\ used \in [Ram -> BOOLEAN]  BY <1>0 DEF MemTypes, Ram
<1>2. Arenas = {p \in DOMAIN arena : arena[p] >= 0}  BY <1>1 DEF Arenas
<1>3. FreeCountTrue
  <2>1. ASSUME NEW p \in DOMAIN arena, arena[p] >= 0
        PROVE  /\ arena[p] = Cardinality({i \in DOMAIN free_list : free_list[i][1] = p})
               /\ arena[p] < PerArena
    <3>1. p \in Arenas  BY <1>2, <2>1
    <3>2. arena[p] = Cardinality(FreeOf(p)) /\ arena[p] < PerArena  BY <1>0, <3>1 DEF OneBlockUser
    <3>3. QED  BY <1>0, <3>2, FreeCounted
  <2>2. QED  BY <2>1 DEF FreeCountTrue
<1>4. OneUser
  <2> DEFINE blocks == {t \in MemThread : own[t].kind = "small"}
  <2>1. \A t \in MemThread :
          Held(t) \cap Arenas = {} /\ \A u \in MemThread \ {t} : Held(t) \cap Held(u) = {}
    BY <1>0 DEF OnePageUser
  <2>2. ASSUME NEW p \in DOMAIN used
        PROVE  used[p] = (p \in Arenas \/ \E t \in MemThread : p \in Held(t))
    <3>1. used[p] \in BOOLEAN  BY <1>1
    <3>2. used[p] <=> (p \in Arenas \/ \E t \in MemThread : p \in Held(t))
      BY <1>0, <1>1 DEF OnePageUser
    <3>3. QED  BY <3>1, <3>2
  <2>3. \A t, u \in blocks : t # u => own[t] # own[u]  BY <1>0 DEF OneBlockUser
  <2>4. \A t \in blocks : own[t].first \in Arenas  BY <1>0 DEF OneBlockUser
  <2>5. ASSUME NEW i \in DOMAIN free_list
        PROVE  /\ free_list[i][1] \in Arenas
               /\ \A t \in blocks : <<own[t].first, own[t].idx>> # free_list[i]
               /\ \A j \in DOMAIN free_list : free_list[i] = free_list[j] => i = j
    <3>1. free_list[i] \in ToSet(free_list)
      <4>1. /\ DOMAIN free_list = 1 .. Len(free_list)
            /\ ToSet(free_list) = {free_list[j] : j \in 1 .. Len(free_list)}
        <5>1. free_list \in Seq(Ram \X (0 .. PerArena - 1))  BY <1>0 DEF MemTypes
        <5>2. QED  BY <5>1, SeqElements
      <4>2. QED  BY <4>1
    <3>2. \A j \in DOMAIN free_list : free_list[i] = free_list[j] => i = j
      BY <1>0 DEF OneBlockUser, IsInjective
    <3>3. QED  BY <1>0, <3>1, <3>2 DEF OneBlockUser
  <2>6. QED  BY <1>2, <2>1, <2>2, <2>3, <2>4, <2>5 DEF OneUser
<1>5. QED  BY <1>3, <1>4 DEF MemorySound

\* MemorySound of the runs, for any number of threads, any pools and any
\* number of requests: palloc.c and malloc.c give a page and a block to one
\* user at a time, although palloc_free_multiple clears bits of the map
\* without the pool's lock, and free_cnt is the number of free blocks.
THEOREM MemoryCorrect == MemSpec => []MemorySound
<1>1. QED  BY MemInvariant, MemSafe, PTL
=============================================================================
