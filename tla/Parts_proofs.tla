---------------------------- MODULE Parts_proofs ----------------------------
(***************************************************************************)
(* Parts of the system, each for any size: intr_handler under any nesting  *)
(* and any switches inside handlers; the checks of the system calls'       *)
(* arguments; the replies of the HTTP server; the statistics of the        *)
(* -mlfqs scheduler with the fixed-point arithmetic they rest on; and who  *)
(* has a descriptor of the HTTP server, with no thread of its pool asleep  *)
(* on a queue with work; and the blocks of hw3's memory allocator.         *)
(***************************************************************************)
EXTENDS Interrupts, HttpReply, HttpServer, SyscallArgs, Mlfqs, MmAlloc,
        SeqLemmas, FiniteSetTheorems

Frame == [vec : Vectors, back : BOOLEAN, ring : {0, 3},
          at : {"handler", "complete", "exit"}]

IntrTypes ==
    /\ DOMAIN gates = Vectors
    /\ stack \in [IntrThread -> Seq(Frame)]
    /\ IF_ \in [IntrThread -> BOOLEAN] /\ ring \in [IntrThread -> {0, 3}]
    /\ onCpu \in IntrThread
    /\ irr \subseteq Irq /\ isr \subseteq 0 .. 15
    /\ in_external_intr \in BOOLEAN

\* The gate of an external interrupt turns interrupts off.
ExternalGates == \A v \in Vectors : External(v) => gates[v].type = "interrupt"

\* A frame of an external interrupt that is not acknowledged yet.
Active(f) == External(f.vec) /\ f.at \in {"handler", "complete"}

\* Such a frame is on top of the stack of the running thread, and interrupts
\* stay off until it is left.
ActiveOnTop ==
    /\ \A t \in IntrThread : \A i \in 1 .. Len(stack[t]) :
         Active(stack[t][i]) => in_external_intr /\ t = onCpu /\ i = Len(stack[t])
    /\ in_external_intr => stack[onCpu] # <<>> /\ Active(Top) /\ ~IF_[onCpu]
    /\ \A i \in isr : in_external_intr /\ Top.vec = 32 + i

\* A thread with a frame is in the kernel; only its first frame can go back to
\* user mode, and with interrupts on.
RingsOK ==
    /\ \A t \in IntrThread : stack[t] # <<>> => ring[t] = 0
    /\ \A t \in IntrThread : \A i \in 1 .. Len(stack[t]) :
         /\ stack[t][i].ring = 3 => stack[t][i].back
         /\ i # 1 => stack[t][i].ring = 0
    /\ UserInterruptible

\* Before interrupts are turned on there are none.
Booting == ~booted => ~in_external_intr /\ \A t \in IntrThread : stack[t] = <<>>

IntrInv ==
    /\ IntrTypes /\ ExternalGates /\ ActiveOnTop /\ RingsOK /\ Booting
    /\ ~assertFailed

-----------------------------------------------------------------------------
\* The frame on top of the running thread's stack.
LEMMA TopFrame ==
    ASSUME IntrTypes, stack[onCpu] # <<>>
    PROVE  /\ stack[onCpu] \in Seq(Frame)
           /\ Len(stack[onCpu]) \in Nat /\ Len(stack[onCpu]) \in 1 .. Len(stack[onCpu])
           /\ Top \in Frame /\ Top = stack[onCpu][Len(stack[onCpu])]
<1>1. stack[onCpu] \in Seq(Frame)
  BY DEF IntrTypes
<1>2. Len(stack[onCpu]) \in Nat /\ Len(stack[onCpu]) \in 1 .. Len(stack[onCpu])
  BY <1>1
<1>3. stack[onCpu][Len(stack[onCpu])] \in Frame
  <2> HIDE DEF Frame
  <2> QED BY <1>1, <1>2
<1> HIDE DEF Frame
<1> QED BY <1>1, <1>2, <1>3 DEF Top

\* intr_handler goes on in the frame on top.
LEMMA MoveTopFrames ==
    ASSUME IntrTypes, stack[onCpu] # <<>>,
           NEW place \in {"handler", "complete", "exit"}, stack' = MoveTop(place)
    PROVE  /\ stack' \in [IntrThread -> Seq(Frame)]
           /\ \A t \in IntrThread : Len(stack'[t]) = Len(stack[t])
                                     /\ (stack'[t] = <<>> <=> stack[t] = <<>>)
           /\ \A t \in IntrThread : \A i \in 1 .. Len(stack[t]) :
                IF t = onCpu /\ i = Len(stack[t])
                THEN /\ stack'[t][i].vec = stack[t][i].vec
                     /\ stack'[t][i].back = stack[t][i].back
                     /\ stack'[t][i].ring = stack[t][i].ring
                     /\ stack'[t][i].at = place
                ELSE stack'[t][i] = stack[t][i]
<1> DEFINE s == stack[onCpu]
           n == Len(s)
           f == [Top EXCEPT !.at = place]
           s2 == [s EXCEPT ![n] = f]
<1>1. s \in Seq(Frame) /\ n \in Nat /\ n \in 1 .. n /\ Top \in Frame /\ Top = s[n]
  BY TopFrame
<1>2. f \in Frame /\ f.vec = Top.vec /\ f.back = Top.back /\ f.ring = Top.ring
      /\ f.at = place
  BY <1>1 DEF Frame
<1>3. MoveTop(place) = [stack EXCEPT ![onCpu] = s2]
  BY <1>1 DEF MoveTop, Top
<1> HIDE DEF f, Frame
<1>4. s2 \in Seq(Frame) /\ Len(s2) = n /\ \A i \in 1 .. n : s2[i] = IF i = n THEN f ELSE s[i]
  BY <1>1, <1>2, ExceptSeq
<1>5. s2 # <<>>
  BY <1>1, <1>4
<1> HIDE DEF s2
<1>6. onCpu \in IntrThread /\ stack \in [IntrThread -> Seq(Frame)]
  BY DEF IntrTypes
<1>7. stack' \in [IntrThread -> Seq(Frame)]
      /\ \A t \in IntrThread : stack'[t] = IF t = onCpu THEN s2 ELSE stack[t]
  BY <1>3, <1>4, <1>6
<1>8. ASSUME NEW t \in IntrThread, NEW i \in 1 .. Len(stack[t])
      PROVE  IF t = onCpu /\ i = Len(stack[t])
             THEN /\ stack'[t][i].vec = stack[t][i].vec
                  /\ stack'[t][i].back = stack[t][i].back
                  /\ stack'[t][i].ring = stack[t][i].ring
                  /\ stack'[t][i].at = place
             ELSE stack'[t][i] = stack[t][i]
  <2>1. CASE t # onCpu
    BY <1>7, <2>1
  <2>2. CASE t = onCpu /\ i = Len(stack[t])
    <3>1. stack'[t][i] = f /\ stack[t][i] = Top
      BY <1>1, <1>4, <1>7, <2>2
    <3> QED BY <1>2, <2>2, <3>1
  <2>3. CASE t = onCpu /\ i # Len(stack[t])
    BY <1>4, <1>7, <2>3
  <2> QED BY <2>1, <2>2, <2>3
<1>9. \A t \in IntrThread : Len(stack'[t]) = Len(stack[t])
                            /\ (stack'[t] = <<>> <=> stack[t] = <<>>)
  BY <1>4, <1>5, <1>7
<1> QED BY <1>7, <1>8, <1>9

\* The processor pushes a frame.
LEMMA PushFrames ==
    ASSUME IntrTypes, NEW f \in Frame,
           stack' = [stack EXCEPT ![onCpu] = Append(@, f)]
    PROVE  /\ stack' \in [IntrThread -> Seq(Frame)]
           /\ \A t \in IntrThread : t # onCpu => stack'[t] = stack[t]
           /\ stack'[onCpu] # <<>> /\ Len(stack'[onCpu]) = Len(stack[onCpu]) + 1
           /\ Len(stack[onCpu]) \in Nat
           /\ \A i \in 1 .. Len(stack'[onCpu]) :
                stack'[onCpu][i] = IF i = Len(stack'[onCpu]) THEN f ELSE stack[onCpu][i]
<1> HIDE DEF Frame
<1>1. stack[onCpu] \in Seq(Frame) /\ onCpu \in IntrThread
      /\ stack \in [IntrThread -> Seq(Frame)]
  BY DEF IntrTypes
<1> DEFINE s2 == Append(stack[onCpu], f)
<1>2. s2 \in Seq(Frame) /\ s2 # <<>> /\ Len(s2) = Len(stack[onCpu]) + 1
      /\ Len(stack[onCpu]) \in Nat
      /\ \A j \in 1 .. Len(stack[onCpu]) + 1 :
           s2[j] = IF j <= Len(stack[onCpu]) THEN stack[onCpu][j] ELSE f
  BY <1>1, AppendElements
<1> HIDE DEF s2
<1>3. stack' = [stack EXCEPT ![onCpu] = s2]
  BY DEF s2
<1>4. stack' \in [IntrThread -> Seq(Frame)] /\ stack'[onCpu] = s2
      /\ \A t \in IntrThread : t # onCpu => stack'[t] = stack[t]
  BY <1>1, <1>2, <1>3
<1>5. \A i \in 1 .. Len(s2) : s2[i] = IF i = Len(s2) THEN f ELSE stack[onCpu][i]
  BY <1>2
<1> QED BY <1>2, <1>4, <1>5

\* iret pops the frame on top.
LEMMA PopFrames ==
    ASSUME IntrTypes, stack[onCpu] # <<>>,
           stack' = [stack EXCEPT ![onCpu] = SubSeq(@, 1, Len(@) - 1)]
    PROVE  /\ stack' \in [IntrThread -> Seq(Frame)]
           /\ \A t \in IntrThread : t # onCpu => stack'[t] = stack[t]
           /\ Len(stack'[onCpu]) = Len(stack[onCpu]) - 1
           /\ stack'[onCpu] = <<>> <=> Len(stack[onCpu]) = 1
           /\ \A i \in 1 .. Len(stack'[onCpu]) : stack'[onCpu][i] = stack[onCpu][i]
<1> HIDE DEF Frame
<1>1. stack[onCpu] \in Seq(Frame) /\ onCpu \in IntrThread
      /\ stack \in [IntrThread -> Seq(Frame)]
  BY DEF IntrTypes
<1> DEFINE n == Len(stack[onCpu])
           s2 == SubSeq(stack[onCpu], 1, n - 1)
<1>2. n \in Nat /\ n # 0
  BY <1>1
<1>3. s2 \in Seq(Frame) /\ Len(s2) = n - 1 /\ \A i \in 1 .. n - 1 : s2[i] = stack[onCpu][i]
  <2>1. \A i \in 1 .. n - 1 : stack[onCpu][i] \in Frame /\ 1 + i - 1 = i
    BY <1>1, <1>2
  <2>2. 1 \in Int /\ n - 1 \in Int /\ (n - 1) - 1 + 1 = n - 1
    <3> HIDE DEF n
    <3> QED BY <1>2
  <2>3. s2 \in Seq(Frame) /\ Len(s2) = (IF 1 <= n - 1 THEN (n - 1) - 1 + 1 ELSE 0)
        /\ \A i \in 1 .. (n - 1) - 1 + 1 : s2[i] = stack[onCpu][1 + i - 1]
    BY <2>1, <2>2, SubSeqProperties
  <2> HIDE DEF s2, n
  <2>4. n = 1 \/ 1 <= n - 1
    BY <1>2
  <2> QED BY <1>2, <2>1, <2>2, <2>3, <2>4
<1> HIDE DEF s2
<1>4. s2 = <<>> <=> n = 1
  <2>1. s2 = <<>> <=> Len(s2) = 0
    BY <1>3, EmptySeq
  <2> QED BY <1>2, <1>3, <2>1
<1>5. stack' = [stack EXCEPT ![onCpu] = s2]
  BY DEF s2
<1>6. stack' \in [IntrThread -> Seq(Frame)] /\ stack'[onCpu] = s2
      /\ \A t \in IntrThread : t # onCpu => stack'[t] = stack[t]
  BY <1>1, <1>3, <1>5
<1> QED BY <1>3, <1>4, <1>6

\* Outside external interrupts nothing is in service.
LEMMA NoneActive ==
    ASSUME IntrInv, ~in_external_intr
    PROVE  /\ isr = {}
           /\ \A t \in IntrThread : \A i \in 1 .. Len(stack[t]) : ~Active(stack[t][i])
BY DEF IntrInv, ActiveOnTop

LEMMA IntrInitInv == IntrInit => IntrInv
<1> SUFFICES ASSUME IntrInit PROVE IntrInv
  OBVIOUS
<1> USE IntrAssumption DEF IntrInit
<1>1. \A t \in IntrThread : stack[t] = <<>> /\ Len(stack[t]) = 0
  OBVIOUS
<1>2. stack \in [IntrThread -> Seq(Frame)]
  <2> HIDE DEF Frame
  <2> QED OBVIOUS
<1>3. IntrTypes
  BY <1>2 DEF IntrTypes
<1>4. ExternalGates
  BY DEF ExternalGates
<1>5. ActiveOnTop /\ RingsOK /\ Booting
  BY <1>1 DEF ActiveOnTop, RingsOK, UserInterruptible, Booting
<1> QED BY <1>3, <1>4, <1>5 DEF IntrInv

-----------------------------------------------------------------------------
\* Steps of intr_register_ext, intr_register_int, thread_start and devices.
LEMMA BootStep ==
    ASSUME IntrInv, register_handler \/ StartUser \/ Raise
    PROVE  IntrInv'
<1>1. IntrTypes /\ ExternalGates /\ ActiveOnTop /\ RingsOK /\ Booting /\ ~assertFailed
  BY DEF IntrInv
<1>2. CASE register_handler
  <2>1. PICK r \in Registrations :
          /\ gates' = [gates EXCEPT ![r.vec] = make_gate(r)]
          /\ assertFailed' = (r.ext # External(r.vec))
    BY <1>2 DEF register_handler
  <2>2. UNCHANGED <<booted, cpuVars, picVars, in_external_intr, yield_on_return>>
    BY <1>2 DEF register_handler
  <2>3. ~assertFailed'
    BY <2>1, RegistrationAssumption
  <2>4. DOMAIN gates' = Vectors
        /\ \A v \in Vectors : gates'[v] = IF v = r.vec THEN make_gate(r) ELSE gates[v]
    BY <1>1, <2>1 DEF IntrTypes
  <2>5. External(r.vec) => make_gate(r).type = "interrupt"
    BY RegistrationAssumption DEF make_gate
  <2>6. ExternalGates'
    BY <1>1, <2>4, <2>5 DEF ExternalGates
  <2>7. IntrTypes'
    BY <1>1, <2>2, <2>4 DEF IntrTypes, cpuVars, picVars
  <2>8. ActiveOnTop' /\ RingsOK' /\ Booting'
    BY <1>1, <2>2 DEF ActiveOnTop, RingsOK, UserInterruptible, Booting, Top, cpuVars, picVars
  <2> QED BY <2>3, <2>6, <2>7, <2>8 DEF IntrInv
<1>3. CASE StartUser
  <2>1. /\ ~booted /\ booted' = TRUE /\ IF_' = [t \in IntrThread |-> TRUE]
        /\ ring' = [t \in IntrThread |-> 3]
        /\ gates' = gates /\ stack' = stack /\ onCpu' = onCpu /\ irr' = irr /\ isr' = isr
        /\ in_external_intr' = in_external_intr /\ assertFailed' = assertFailed
    BY <1>3 DEF StartUser, picVars, flagVars
  <2>2. ~in_external_intr /\ \A t \in IntrThread : stack[t] = <<>>
    BY <1>1, <2>1 DEF Booting
  <2>3. IntrTypes' /\ ExternalGates'
    BY <1>1, <2>1 DEF IntrTypes, ExternalGates
  <2>4. \A t \in IntrThread : stack'[t] = <<>> /\ Len(stack'[t]) = 0
    BY <2>1, <2>2
  <2>5. ActiveOnTop' /\ RingsOK' /\ Booting'
    BY <1>1, <2>1, <2>2, <2>4
       DEF ActiveOnTop, RingsOK, UserInterruptible, Booting
  <2> QED BY <1>1, <2>1, <2>3, <2>5 DEF IntrInv
<1>4. CASE Raise
  <2>1. /\ \E i \in Irq \ irr : irr' = irr \cup {i}
        /\ UNCHANGED <<gates, booted, stack, IF_, ring, onCpu, isr, in_external_intr,
                       assertFailed>>
    BY <1>4 DEF Raise, cpuVars, flagVars
  <2>2. IntrTypes' /\ ExternalGates'
    BY <1>1, <2>1 DEF IntrTypes, ExternalGates
  <2>3. ActiveOnTop' /\ RingsOK' /\ Booting'
    BY <1>1, <2>1 DEF ActiveOnTop, RingsOK, UserInterruptible, Booting, Top
  <2> QED BY <1>1, <2>1, <2>2, <2>3 DEF IntrInv
<1> QED BY <1>2, <1>3, <1>4

\* An interrupt is entered outside of external ones, and an external one only
\* with interrupts on; its gate turns them off.
LEMMA EnterStep ==
    ASSUME IntrInv, booted, ~in_external_intr, NEW v \in Vectors, Enter(v),
           External(v) => \A i \in isr' : v = 32 + i,
           ~External(v) => isr' = isr,
           irr' \subseteq irr, isr' \subseteq 0 .. 15
    PROVE  IntrInv'
<1>1. IntrTypes /\ ExternalGates /\ ActiveOnTop /\ RingsOK /\ ~assertFailed
  BY DEF IntrInv
<1> DEFINE f == [vec |-> v, back |-> IF_[onCpu], ring |-> ring[onCpu], at |-> "handler"]
           off == gates[v].type = "interrupt"
<1>2. /\ stack' = [stack EXCEPT ![onCpu] = Append(@, f)]
      /\ IF_' = [IF_ EXCEPT ![onCpu] = @ /\ ~off]
      /\ ring' = [ring EXCEPT ![onCpu] = 0]
      /\ assertFailed' = (External(v) /\ (in_external_intr \/ IF_'[onCpu]))
      /\ in_external_intr' = (External(v) \/ in_external_intr)
      /\ gates' = gates /\ booted' = booted /\ onCpu' = onCpu
  BY DEF Enter
<1>3. onCpu \in IntrThread /\ IF_[onCpu] \in BOOLEAN /\ ring[onCpu] \in {0, 3}
  BY <1>1 DEF IntrTypes
<1>4. f \in Frame /\ f.vec = v /\ f.back = IF_[onCpu] /\ f.ring = ring[onCpu]
      /\ f.at = "handler"
  BY <1>3 DEF Frame
<1> HIDE DEF f
<1>5. /\ stack' \in [IntrThread -> Seq(Frame)]
      /\ \A t \in IntrThread : t # onCpu => stack'[t] = stack[t]
      /\ stack'[onCpu] # <<>> /\ Len(stack'[onCpu]) = Len(stack[onCpu]) + 1
      /\ Len(stack[onCpu]) \in Nat
      /\ \A i \in 1 .. Len(stack'[onCpu]) :
           stack'[onCpu][i] = IF i = Len(stack'[onCpu]) THEN f ELSE stack[onCpu][i]
  BY <1>1, <1>2, <1>4, PushFrames
<1>6. External(v) => off
  BY <1>1 DEF ExternalGates
<1>7. IF_'[onCpu] = (IF_[onCpu] /\ ~off)
      /\ \A t \in IntrThread : t # onCpu => IF_'[t] = IF_[t]
  BY <1>1, <1>2, <1>3 DEF IntrTypes
<1>8. External(v) => ~IF_'[onCpu]
  BY <1>6, <1>7
<1>9. ~assertFailed'
  BY <1>2, <1>8
<1>10. \A t \in IntrThread : ring'[t] = IF t = onCpu THEN 0 ELSE ring[t]
  BY <1>1, <1>2 DEF IntrTypes
<1>11. IF_' \in [IntrThread -> BOOLEAN]
  <2>1. (IF_[onCpu] /\ ~off) \in BOOLEAN
    OBVIOUS
  <2> HIDE DEF off
  <2> QED BY <1>1, <1>2, <2>1 DEF IntrTypes
<1>12. in_external_intr' \in BOOLEAN /\ (in_external_intr' <=> External(v))
  BY <1>2
<1>13. ring' \in [IntrThread -> {0, 3}]
  BY <1>1, <1>2 DEF IntrTypes
<1>14. IntrTypes'
  BY <1>1, <1>2, <1>5, <1>11, <1>12, <1>13 DEF IntrTypes
<1>15. ExternalGates' /\ Booting'
  BY <1>1, <1>2 DEF ExternalGates, Booting
<1>16. isr = {} /\ \A t \in IntrThread : \A i \in 1 .. Len(stack[t]) : ~Active(stack[t][i])
  BY NoneActive
<1>17. Active(f) <=> External(v)
  BY <1>4 DEF Active
<1>18. \A i \in 1 .. Len(stack'[onCpu]) : i # Len(stack'[onCpu]) => i \in 1 .. Len(stack[onCpu])
  BY <1>5
<1>19. Len(stack'[onCpu]) \in 1 .. Len(stack'[onCpu])
  BY <1>5
<1>20. Top' = f
  BY <1>2, <1>5, <1>19 DEF Top
<1>21. ActiveOnTop'
  <2> HIDE DEF Active
  <2>1. ASSUME NEW t \in IntrThread, NEW i \in 1 .. Len(stack'[t]), Active(stack'[t][i])
        PROVE  in_external_intr' /\ t = onCpu' /\ i = Len(stack'[t])
    <3>1. CASE t # onCpu
      BY <1>5, <1>16, <2>1, <3>1
    <3>2. CASE t = onCpu /\ i # Len(stack'[t])
      BY <1>5, <1>16, <1>18, <2>1, <3>2
    <3>3. CASE t = onCpu /\ i = Len(stack'[t])
      <4>1. Active(f)
        BY <1>5, <2>1, <3>3
      <4> QED BY <1>2, <1>12, <1>17, <3>3, <4>1
    <3> QED BY <3>1, <3>2, <3>3
  <2>2. in_external_intr' => stack'[onCpu'] # <<>> /\ Active(Top') /\ ~IF_'[onCpu']
    BY <1>2, <1>5, <1>8, <1>12, <1>17, <1>20
  <2>3. \A i \in isr' : in_external_intr' /\ Top'.vec = 32 + i
    <3>1. CASE External(v)
      BY <1>4, <1>12, <1>20, <3>1
    <3>2. CASE ~External(v)
      BY <1>16, <3>2
    <3> QED BY <3>1, <3>2
  <2> QED BY <2>1, <2>2, <2>3 DEF ActiveOnTop, Active
<1>22. RingsOK'
  <2>1. \A t \in IntrThread : stack'[t] # <<>> => ring'[t] = 0
    BY <1>1, <1>5, <1>10 DEF RingsOK
  <2>2. ring[onCpu] = 3 => IF_[onCpu]
    BY <1>1, <1>3 DEF RingsOK, UserInterruptible
  <2>3. stack[onCpu] # <<>> => ring[onCpu] = 0
    BY <1>1, <1>3 DEF RingsOK
  <2>4. Len(stack'[onCpu]) # 1 => stack[onCpu] # <<>>
    BY <1>5
  <2>5. ASSUME NEW t \in IntrThread, NEW i \in 1 .. Len(stack'[t])
        PROVE  /\ stack'[t][i].ring = 3 => stack'[t][i].back
               /\ i # 1 => stack'[t][i].ring = 0
    <3>1. CASE t # onCpu
      BY <1>1, <1>5, <3>1 DEF RingsOK
    <3>2. CASE t = onCpu /\ i # Len(stack'[t])
      <4>1. stack'[t][i] = stack[t][i] /\ i \in 1 .. Len(stack[t])
        BY <1>5, <1>18, <3>2
      <4> QED BY <1>1, <4>1 DEF RingsOK
    <3>3. CASE t = onCpu /\ i = Len(stack'[t])
      <4>1. stack'[t][i] = f
        BY <1>5, <3>3
      <4> QED BY <1>4, <2>2, <2>3, <2>4, <3>3, <4>1
    <3> QED BY <3>1, <3>2, <3>3
  <2>6. UserInterruptible'
    BY <1>1, <1>7, <1>10 DEF RingsOK, UserInterruptible
  <2> QED BY <2>1, <2>5, <2>6 DEF RingsOK
<1> QED BY <1>9, <1>14, <1>15, <1>21, <1>22 DEF IntrInv

LEMMA InterruptStep ==
    ASSUME IntrInv, ExternalInterrupt \/ SpuriousInterrupt \/ InternalInterrupt
    PROVE  IntrInv'
<1>1. IntrTypes /\ ActiveOnTop
  BY DEF IntrInv
<1>2. IF_[onCpu] => ~in_external_intr
  BY <1>1 DEF ActiveOnTop
<1>3. Irq \subseteq 0 .. 15 /\ Spurious \subseteq {7, 15} /\ Internal \cap (32 .. 47) = {}
  BY IntrAssumption
<1>4. CASE ExternalInterrupt
  <2>1. booted /\ ~in_external_intr
    BY <1>2, <1>4 DEF ExternalInterrupt, CanEnter
  <2>2. PICK i \in irr : irr' = irr \ {i} /\ isr' = isr \cup {i} /\ Enter(32 + i)
    BY <1>4 DEF ExternalInterrupt
  <2>3. i \in Irq /\ i \in 0 .. 15
    BY <1>1, <1>3 DEF IntrTypes
  <2>4. 32 + i \in Vectors /\ External(32 + i)
    BY <2>3 DEF Vectors, External
  <2>5. isr' = {i} /\ isr' \subseteq 0 .. 15 /\ irr' \subseteq irr
    BY <2>1, <2>2, <2>3, NoneActive
  <2>6. \A j \in isr' : 32 + i = 32 + j
    BY <2>5
  <2> QED BY <2>1, <2>2, <2>4, <2>5, <2>6, EnterStep
<1>5. CASE SpuriousInterrupt
  <2>1. booted /\ ~in_external_intr /\ irr' = irr /\ isr' = isr
    BY <1>2, <1>5 DEF SpuriousInterrupt, CanEnter
  <2>2. PICK i \in Spurious : Enter(32 + i)
    BY <1>5 DEF SpuriousInterrupt
  <2>3. 32 + i \in Vectors /\ External(32 + i)
    BY <1>3 DEF Vectors, External
  <2>4. isr' = {} /\ irr' \subseteq irr
    BY <2>1, NoneActive
  <2> QED BY <2>1, <2>2, <2>3, <2>4, EnterStep
<1>6. CASE InternalInterrupt
  <2>1. booted /\ ~in_external_intr /\ irr' = irr /\ isr' = isr
    BY <1>6 DEF InternalInterrupt, CanEnter, picVars
  <2>2. PICK v \in Internal : Enter(v)
    BY <1>6 DEF InternalInterrupt
  <2>3. v \in Vectors /\ ~External(v)
    BY <1>3 DEF Vectors, External
  <2>4. irr' \subseteq irr /\ isr' \subseteq 0 .. 15
    BY <1>1, <2>1 DEF IntrTypes
  <2> QED BY <2>1, <2>2, <2>3, <2>4, EnterStep
<1> QED BY <1>4, <1>5, <1>6

-----------------------------------------------------------------------------
\* The end of interrupt for the line that is in service leaves none.
LEMMA EndOfInterrupt ==
    ASSUME NEW v \in 32 .. 47, isr \subseteq 0 .. 15, \A i \in isr : v = 32 + i
    PROVE  pic_end_of_interrupt(v) = {}
<1>1. CASE isr = {}
  BY <1>1 DEF pic_end_of_interrupt
<1>2. CASE isr # {}
  <2>1. PICK i \in isr : TRUE
    BY <1>2
  <2>2. i \in 0 .. 15 /\ v = 32 + i
    BY <2>1
  <2>3. isr = {i}
    <3>1. ASSUME NEW j \in isr PROVE j = i
      <4>1. j \in 0 .. 15 /\ 32 + j = 32 + i
        BY <2>2
      <4> QED BY <2>2, <4>1
    <3> QED BY <3>1
  <2>4. Min({i}) = i
    BY <2>2 DEF Min
  <2>5. CASE v >= 40
    <3>1. {j \in isr : j >= 8} = {i}
      BY <2>2, <2>3, <2>5
    <3> QED BY <2>3, <2>4, <2>5, <3>1 DEF pic_end_of_interrupt
  <2>6. CASE ~ (v >= 40)
    <3>1. {j \in isr : j < 8} = {i}
      BY <2>2, <2>3, <2>6
    <3> QED BY <2>3, <2>4, <2>6, <3>1 DEF pic_end_of_interrupt
  <2> QED BY <2>5, <2>6
<1> QED BY <1>1, <1>2

\* What the frames say, where only the place of the top one changes.
LEMMA MovedRings ==
    ASSUME IntrInv, stack[onCpu] # <<>>,
           NEW place \in {"handler", "complete", "exit"}, stack' = MoveTop(place),
           IF_' = IF_, ring' = ring
    PROVE  RingsOK'
<1>1. IntrTypes /\ RingsOK
  BY DEF IntrInv
<1>2. \A t \in IntrThread : Len(stack'[t]) = Len(stack[t])
                            /\ (stack'[t] = <<>> <=> stack[t] = <<>>)
  BY <1>1, MoveTopFrames
<1>3. \A t \in IntrThread : \A i \in 1 .. Len(stack[t]) :
        stack'[t][i].ring = stack[t][i].ring /\ stack'[t][i].back = stack[t][i].back
  BY <1>1, MoveTopFrames
<1> QED BY <1>1, <1>2, <1>3 DEF RingsOK, UserInterruptible

LEMMA ReturnStep ==
    ASSUME IntrInv, HandlerReturns
    PROVE  IntrInv'
<1>1. /\ stack[onCpu] # <<>> /\ Top.at = "handler" /\ stack' = MoveTop("complete")
      /\ UNCHANGED <<gates, booted, IF_, ring, onCpu, irr, isr, in_external_intr, assertFailed>>
  BY DEF HandlerReturns, At, picVars
<1>2. IntrTypes /\ ExternalGates /\ ActiveOnTop /\ RingsOK /\ Booting /\ ~assertFailed
  BY DEF IntrInv
<1>3. /\ stack' \in [IntrThread -> Seq(Frame)]
      /\ \A t \in IntrThread : Len(stack'[t]) = Len(stack[t])
                                /\ (stack'[t] = <<>> <=> stack[t] = <<>>)
      /\ \A t \in IntrThread : \A i \in 1 .. Len(stack[t]) :
           IF t = onCpu /\ i = Len(stack[t])
           THEN /\ stack'[t][i].vec = stack[t][i].vec
                /\ stack'[t][i].back = stack[t][i].back
                /\ stack'[t][i].ring = stack[t][i].ring
                /\ stack'[t][i].at = "complete"
           ELSE stack'[t][i] = stack[t][i]
  BY <1>1, <1>2, MoveTopFrames
<1>4. IntrTypes' /\ ExternalGates' /\ Booting'
  BY <1>1, <1>2, <1>3 DEF IntrTypes, ExternalGates, Booting
<1>5. Len(stack[onCpu]) \in 1 .. Len(stack[onCpu]) /\ onCpu \in IntrThread
      /\ Top = stack[onCpu][Len(stack[onCpu])]
  BY <1>1, <1>2, TopFrame DEF IntrTypes
<1>6. Top' = stack'[onCpu][Len(stack[onCpu])]
  BY <1>1, <1>3, <1>5 DEF Top
<1>7. Top'.vec = Top.vec /\ Top'.at = "complete"
  BY <1>3, <1>5, <1>6
<1>8. \A t \in IntrThread : \A i \in 1 .. Len(stack[t]) :
        Active(stack'[t][i]) <=> Active(stack[t][i])
  <2> SUFFICES ASSUME NEW t \in IntrThread, NEW i \in 1 .. Len(stack[t])
               PROVE  Active(stack'[t][i]) <=> Active(stack[t][i])
    OBVIOUS
  <2>1. CASE t = onCpu /\ i = Len(stack[t])
    <3>1. stack'[t][i] = Top' /\ stack[t][i] = Top
      BY <1>5, <1>6, <2>1
    <3> QED BY <1>1, <1>7, <3>1 DEF Active
  <2>2. CASE ~ (t = onCpu /\ i = Len(stack[t]))
    <3>1. stack'[t][i] = stack[t][i]
      BY <1>3, <2>2
    <3> QED BY <3>1
  <2> QED BY <2>1, <2>2
<1>9. Active(Top') <=> Active(Top)
  BY <1>1, <1>7 DEF Active
<1>10. ActiveOnTop'
  <2> HIDE DEF Active
  <2> QED BY <1>1, <1>2, <1>3, <1>5, <1>7, <1>8, <1>9 DEF ActiveOnTop
<1>11. RingsOK'
  BY <1>1, MovedRings
<1> QED BY <1>1, <1>2, <1>4, <1>10, <1>11 DEF IntrInv

\* A handler of an internal interrupt is outside of external ones.
LEMMA InternalTop ==
    ASSUME IntrInv, stack[onCpu] # <<>>, ~Active(Top)
    PROVE  ~in_external_intr
BY DEF IntrInv, ActiveOnTop

LEMMA InsideStep ==
    ASSUME IntrInv, SetLevel \/ SwitchInside
    PROVE  IntrInv'
<1>1. stack[onCpu] # <<>> /\ ~External(Top.vec) /\ assertFailed' = in_external_intr
      /\ UNCHANGED <<gates, booted, stack, ring, irr, isr, in_external_intr>>
  BY DEF SetLevel, SwitchInside, At, picVars
<1>2. IntrTypes /\ ExternalGates /\ ActiveOnTop /\ RingsOK /\ Booting
  BY DEF IntrInv
<1>3. ~in_external_intr
  BY <1>1, InternalTop DEF Active
<1>4. isr = {} /\ \A t \in IntrThread : \A i \in 1 .. Len(stack[t]) : ~Active(stack[t][i])
  BY <1>3, NoneActive
<1>5. ActiveOnTop'
  <2> HIDE DEF Active
  <2> QED BY <1>1, <1>3, <1>4 DEF ActiveOnTop
<1>6. ExternalGates' /\ Booting' /\ ~assertFailed'
  BY <1>1, <1>2, <1>3 DEF ExternalGates, Booting
<1>7. CASE SetLevel
  <2>1. PICK b \in BOOLEAN : IF_' = [IF_ EXCEPT ![onCpu] = b]
    BY <1>7 DEF SetLevel
  <2>2. onCpu' = onCpu
    BY <1>7 DEF SetLevel
  <2>3. IF_' \in [IntrThread -> BOOLEAN]
        /\ \A t \in IntrThread : t # onCpu => IF_'[t] = IF_[t]
    BY <1>2, <2>1 DEF IntrTypes
  <2>4. IntrTypes'
    BY <1>1, <1>2, <2>2, <2>3 DEF IntrTypes
  <2>5. ring[onCpu] = 0
    BY <1>1, <1>2 DEF RingsOK, IntrTypes
  <2>6. RingsOK'
    BY <1>1, <1>2, <2>3, <2>5 DEF RingsOK, UserInterruptible
  <2> QED BY <1>5, <1>6, <2>4, <2>6 DEF IntrInv
<1>8. CASE SwitchInside
  <2>1. onCpu' \in IntrThread /\ IF_' = IF_
    BY <1>8 DEF SwitchInside
  <2>2. IntrTypes'
    BY <1>1, <1>2, <2>1 DEF IntrTypes
  <2>3. RingsOK'
    BY <1>1, <1>2, <2>1 DEF RingsOK, UserInterruptible
  <2> QED BY <1>5, <1>6, <2>2, <2>3 DEF IntrInv
<1> QED BY <1>7, <1>8

LEMMA CompleteStep ==
    ASSUME IntrInv, Complete
    PROVE  IntrInv'
<1>1. /\ stack[onCpu] # <<>> /\ Top.at = "complete" /\ stack' = MoveTop("exit")
      /\ UNCHANGED <<gates, booted, IF_, ring, irr>>
  BY DEF Complete, At
<1>2. IntrTypes /\ ExternalGates /\ ActiveOnTop /\ RingsOK /\ Booting /\ ~assertFailed
  BY DEF IntrInv
<1>3. /\ stack' \in [IntrThread -> Seq(Frame)]
      /\ \A t \in IntrThread : Len(stack'[t]) = Len(stack[t])
                                /\ (stack'[t] = <<>> <=> stack[t] = <<>>)
      /\ \A t \in IntrThread : \A i \in 1 .. Len(stack[t]) :
           IF t = onCpu /\ i = Len(stack[t])
           THEN /\ stack'[t][i].vec = stack[t][i].vec
                /\ stack'[t][i].back = stack[t][i].back
                /\ stack'[t][i].ring = stack[t][i].ring
                /\ stack'[t][i].at = "exit"
           ELSE stack'[t][i] = stack[t][i]
  BY <1>1, <1>2, MoveTopFrames
<1>4. Len(stack[onCpu]) \in 1 .. Len(stack[onCpu]) /\ onCpu \in IntrThread
      /\ Top = stack[onCpu][Len(stack[onCpu])] /\ Top \in Frame
  BY <1>1, <1>2, TopFrame DEF IntrTypes
<1>5. RingsOK'
  BY <1>1, MovedRings
<1>6. Active(Top) <=> External(Top.vec)
  BY <1>1 DEF Active
<1>7. Active(Top) => in_external_intr
  BY <1>2, <1>4 DEF ActiveOnTop
<1>8. ASSUME NEW t \in IntrThread, NEW i \in 1 .. Len(stack'[t])
      PROVE  ~Active(stack'[t][i])
  <2>1. i \in 1 .. Len(stack[t])
    BY <1>3
  <2>2. CASE t = onCpu /\ i = Len(stack[t])
    <3>1. stack'[t][i].at = "exit"
      BY <1>3, <2>1, <2>2
    <3> QED BY <3>1 DEF Active
  <2>3. CASE ~ (t = onCpu /\ i = Len(stack[t]))
    <3>1. stack'[t][i] = stack[t][i]
      BY <1>3, <2>1, <2>3
    <3>2. ~Active(stack[t][i])
      BY <1>2, <2>1, <2>3 DEF ActiveOnTop
    <3> QED BY <3>1, <3>2
  <2> QED BY <2>2, <2>3
<1>9. CASE External(Top.vec)
  <2>1. /\ assertFailed' = (~in_external_intr \/ IF_[onCpu])
        /\ in_external_intr' = FALSE /\ isr' = pic_end_of_interrupt(Top.vec)
        /\ onCpu' \in IF yield_on_return THEN IntrThread ELSE {onCpu}
    BY <1>9 DEF Complete
  <2>2. in_external_intr /\ ~IF_[onCpu]
    BY <1>2, <1>6, <1>7, <1>9 DEF ActiveOnTop
  <2>3. \A i \in isr : Top.vec = 32 + i
    BY <1>2 DEF ActiveOnTop
  <2>4. isr' = {}
    <3>1. Top.vec \in 32 .. 47 /\ isr \subseteq 0 .. 15
      BY <1>2, <1>9 DEF External, IntrTypes
    <3> QED BY <2>1, <2>3, <3>1, EndOfInterrupt
  <2>5. onCpu' \in IntrThread
    BY <1>4, <2>1
  <2>6. IntrTypes' /\ ExternalGates' /\ ~assertFailed'
    BY <1>1, <1>2, <1>3, <2>1, <2>2, <2>4, <2>5 DEF IntrTypes, ExternalGates
  <2>7. Booting'
    BY <1>1, <1>2, <1>3, <2>1 DEF Booting
  <2>8. ActiveOnTop'
    <3> HIDE DEF Active
    <3> QED BY <1>8, <2>1, <2>4 DEF ActiveOnTop
  <2> QED BY <1>5, <2>6, <2>7, <2>8 DEF IntrInv
<1>10. CASE ~External(Top.vec)
  <2>1. UNCHANGED <<assertFailed, in_external_intr, isr, onCpu>>
    BY <1>10 DEF Complete
  <2>2. ~in_external_intr /\ isr = {}
    BY <1>1, <1>6, <1>10, InternalTop, NoneActive
  <2>3. IntrTypes' /\ ExternalGates' /\ Booting'
    BY <1>1, <1>2, <1>3, <2>1 DEF IntrTypes, ExternalGates, Booting
  <2>4. ActiveOnTop'
    <3> HIDE DEF Active
    <3> QED BY <1>8, <2>1, <2>2 DEF ActiveOnTop
  <2> QED BY <1>2, <1>5, <2>1, <2>3, <2>4 DEF IntrInv
<1> QED BY <1>9, <1>10

LEMMA ExitStep ==
    ASSUME IntrInv, intr_exit
    PROVE  IntrInv'
<1>1. /\ stack[onCpu] # <<>> /\ Top.at = "exit"
      /\ stack' = [stack EXCEPT ![onCpu] = SubSeq(@, 1, Len(@) - 1)]
      /\ IF_' = [IF_ EXCEPT ![onCpu] = Top.back]
      /\ ring' = [ring EXCEPT ![onCpu] = Top.ring]
      /\ UNCHANGED <<gates, booted, onCpu, irr, isr, in_external_intr, assertFailed>>
  BY DEF intr_exit, At, picVars, flagVars
<1>2. IntrTypes /\ ExternalGates /\ RingsOK /\ Booting /\ ~assertFailed
  BY DEF IntrInv
<1>3. /\ stack' \in [IntrThread -> Seq(Frame)]
      /\ \A t \in IntrThread : t # onCpu => stack'[t] = stack[t]
      /\ Len(stack'[onCpu]) = Len(stack[onCpu]) - 1
      /\ stack'[onCpu] = <<>> <=> Len(stack[onCpu]) = 1
      /\ \A i \in 1 .. Len(stack'[onCpu]) : stack'[onCpu][i] = stack[onCpu][i]
  BY <1>1, <1>2, PopFrames
<1>4. /\ Len(stack[onCpu]) \in Nat /\ Len(stack[onCpu]) \in 1 .. Len(stack[onCpu])
      /\ onCpu \in IntrThread
      /\ Top = stack[onCpu][Len(stack[onCpu])] /\ Top \in Frame
  BY <1>1, <1>2, TopFrame DEF IntrTypes
<1>5. Top.back \in BOOLEAN /\ Top.ring \in {0, 3}
  BY <1>4 DEF Frame
<1>6. /\ IF_' \in [IntrThread -> BOOLEAN] /\ ring' \in [IntrThread -> {0, 3}]
      /\ IF_'[onCpu] = Top.back /\ ring'[onCpu] = Top.ring
      /\ \A t \in IntrThread : t # onCpu => IF_'[t] = IF_[t] /\ ring'[t] = ring[t]
  BY <1>1, <1>2, <1>4, <1>5 DEF IntrTypes
<1>7. IntrTypes' /\ ExternalGates'
  BY <1>1, <1>2, <1>3, <1>6 DEF IntrTypes, ExternalGates
<1>8. ~in_external_intr /\ isr = {}
      /\ \A t \in IntrThread : \A i \in 1 .. Len(stack[t]) : ~Active(stack[t][i])
  <2>1. ~Active(Top)
    BY <1>1 DEF Active
  <2>2. ~in_external_intr
    BY <1>1, <2>1, InternalTop
  <2> QED BY <2>2, NoneActive
<1>9. \A i \in 1 .. Len(stack'[onCpu]) : i \in 1 .. Len(stack[onCpu])
  BY <1>3, <1>4
<1>10. ASSUME NEW t \in IntrThread, NEW i \in 1 .. Len(stack'[t])
       PROVE  i \in 1 .. Len(stack[t]) /\ stack'[t][i] = stack[t][i]
  BY <1>3, <1>9
<1>11. ActiveOnTop'
  <2> HIDE DEF Active
  <2> QED BY <1>1, <1>8, <1>10 DEF ActiveOnTop
<1>12. Top.ring = 3 => Top.back
  BY <1>2, <1>4 DEF RingsOK
<1>13. Len(stack[onCpu]) # 1 => Top.ring = 0
  BY <1>2, <1>4 DEF RingsOK
<1>14. RingsOK'
  <2>1. \A t \in IntrThread : stack'[t] # <<>> => ring'[t] = 0
    <3>1. stack'[onCpu] # <<>> => ring'[onCpu] = 0  BY <1>3, <1>6, <1>13
    <3>2. \A t \in IntrThread : stack[t] # <<>> => ring[t] = 0  BY <1>2 DEF RingsOK
    <3>3. \A t \in IntrThread : t # onCpu => stack'[t] = stack[t] /\ ring'[t] = ring[t]  BY <1>3, <1>6
    <3>4. QED  BY <3>1, <3>2, <3>3
  <2>2. UserInterruptible'
    BY <1>2, <1>6, <1>12 DEF RingsOK, UserInterruptible
  <2> QED BY <1>2, <1>10, <2>1, <2>2 DEF RingsOK
<1>15. Booting'
  BY <1>1, <1>2, <1>4 DEF Booting
<1> QED BY <1>1, <1>2, <1>7, <1>11, <1>14, <1>15 DEF IntrInv

\* The inductive invariant holds in every reachable state of the processor
\* and its interrupt controllers.
THEOREM IntrInvariant == IntrSpec => []IntrInv
<1>1. IntrInv /\ [IntrNext]_intrVars => IntrInv'
  <2> SUFFICES ASSUME IntrInv, [IntrNext]_intrVars PROVE IntrInv'
    OBVIOUS
  <2>1. CASE UNCHANGED intrVars
    BY <2>1 DEF intrVars, cpuVars, picVars, flagVars, IntrInv, IntrTypes, ExternalGates,
                ActiveOnTop, RingsOK, UserInterruptible, Booting, Top
  <2> QED
    BY <2>1, BootStep, InterruptStep, ReturnStep, InsideStep, CompleteStep, ExitStep
       DEF IntrNext
<1> QED BY IntrInitInv, <1>1, PTL DEF IntrSpec

\* intr_handler is right under any nesting of interrupts and any switching of
\* threads inside handlers: external interrupts neither nest nor lose the
\* processor, none of its assertions fails, no line stays in service, and
\* user programs run with interrupts on.
THEOREM InterruptsCorrect == IntrSpec => []InterruptsSound
<1>1. IntrInv => InterruptsSound
  <2> SUFFICES ASSUME IntrInv PROVE InterruptsSound
    OBVIOUS
  <2>1. IntrTypes /\ ActiveOnTop /\ RingsOK /\ ~assertFailed
    BY DEF IntrInv
  <2>2. \A t \in IntrThread : DOMAIN stack[t] = 1 .. Len(stack[t])
    <3> HIDE DEF Frame
    <3> QED BY <2>1 DEF IntrTypes
  <2>3. Handling = {t \in IntrThread : \E i \in 1 .. Len(stack[t]) : Active(stack[t][i])}
    BY <2>2 DEF Handling, Active
  <2>4. Handling \subseteq {onCpu} /\ (Handling # {} => in_external_intr)
    BY <2>1, <2>3 DEF ActiveOnTop
  <2>5. ASSUME in_external_intr
        PROVE  /\ onCpu \in Handling
               /\ Len(stack[onCpu]) \in DOMAIN stack[onCpu]
               /\ Top = stack[onCpu][Len(stack[onCpu])] /\ Active(Top)
    <3>1. stack[onCpu] # <<>> /\ Active(Top) /\ onCpu \in IntrThread
      BY <2>1, <2>5 DEF ActiveOnTop, IntrTypes
    <3>2. Len(stack[onCpu]) \in 1 .. Len(stack[onCpu])
          /\ Top = stack[onCpu][Len(stack[onCpu])]
      BY <2>1, <3>1, TopFrame
    <3> QED BY <2>2, <2>3, <3>1, <3>2
  <2>6. in_external_intr = (Handling # {})
    <3>1. in_external_intr \in BOOLEAN
      BY <2>1 DEF IntrTypes
    <3> QED BY <2>4, <2>5, <3>1
  <2>7. OneExternal
    BY <2>1, <2>4, <2>6 DEF OneExternal
  <2>8. Acknowledged
    <3> SUFFICES ASSUME NEW i \in isr
                 PROVE  \E t \in Handling : \E k \in DOMAIN stack[t] :
                          /\ stack[t][k].vec = 32 + i
                          /\ stack[t][k].at \in {"handler", "complete"}
      BY DEF Acknowledged
    <3>1. in_external_intr /\ Top.vec = 32 + i
      BY <2>1 DEF ActiveOnTop
    <3> QED BY <2>5, <3>1 DEF Active
  <2> QED BY <2>1, <2>7, <2>8 DEF InterruptsSound, RingsOK
<1> QED BY <1>1, IntrInvariant, PTL

-----------------------------------------------------------------------------
\* syscall_handler on any address space and any arguments.

\* An address further on, in one step or in two.
LEMMA AddTwice ==
    ASSUME NEW a \in Nat, NEW m \in Nat, NEW n \in Nat
    PROVE  Add(a, m) \in 0 .. AddrWrap - 1 /\ Add(Add(a, m), n) = Add(a, m + n)
<1>1. AddrWrap \in Nat \ {0}  BY AddrAssumption
<1> DEFINE x == a + m
           q == x \div AddrWrap
           r == x % AddrWrap
           y == r + n
           p == y \div AddrWrap
           o == y % AddrWrap
<1>2. x \in Nat /\ q \in Nat /\ r \in 0 .. AddrWrap - 1 /\ x = AddrWrap * q + r  BY <1>1
<1>3. y \in Nat  BY <1>2
<1>4. p \in Nat /\ o \in 0 .. AddrWrap - 1 /\ y = AddrWrap * p + o  BY <1>1, <1>3
<1>5. x + n = AddrWrap * (q + p) + o
  <2>1. AddrWrap * (q + p) = AddrWrap * q + AddrWrap * p  BY <1>1, <1>2, <1>4
  <2>2. QED  BY <1>1, <1>2, <1>3, <1>4, <2>1
<1>6. ASSUME NEW z \in Nat, NEW k \in Nat, NEW l \in 0 .. AddrWrap - 1, z = AddrWrap * k + l
      PROVE  z % AddrWrap = l
  BY <1>1, <1>6
<1>7. (x + n) % AddrWrap = o
  <2>1. q + p \in Nat /\ x + n \in Nat  BY <1>2, <1>4
  <2>2. QED  BY <1>4, <1>5, <1>6, <2>1
<1>8. Add(a, m) = r /\ Add(r, n) = o /\ Add(a, m + n) = (x + n) % AddrWrap  BY DEF Add
<1>9. QED  BY <1>2, <1>7, <1>8

\* A page at the least lies between the last user page and the end of the
\* address space.
LEMMA KernelPages == KernelBase + PageBytes <= AddrWrap
<1>1. /\ AddrWrap \in Nat /\ KernelBase \in Nat /\ PageBytes \in Nat \ {0}
      /\ KernelBase < AddrWrap /\ AddrWrap % PageBytes = 0 /\ KernelBase % PageBytes = 0
  BY AddrAssumption
<1> DEFINE k == KernelBase \div PageBytes
           w == AddrWrap \div PageBytes
<1>2. k \in Nat /\ KernelBase = PageBytes * k  BY <1>1
<1>3. w \in Nat /\ AddrWrap = PageBytes * w  BY <1>1
<1>4. k < w  BY <1>1, <1>2, <1>3
<1>5. PageBytes * k + PageBytes <= PageBytes * w  BY <1>1, <1>2, <1>3, <1>4
<1>6. QED  BY <1>2, <1>3, <1>5

\* Of bytes no more than a page apart, the ones between lie in the pages of
\* the two ends.
LEMMA PagesBetween ==
    ASSUME NEW a \in Nat, NEW b \in Nat, NEW c \in Nat, a <= b, b <= c, c <= a + PageBytes
    PROVE  PageOf(b) \in {PageOf(a), PageOf(c)}
<1>1. PageBytes \in Nat \ {0}  BY AddrAssumption
<1>2. a \div PageBytes \in Nat /\ b \div PageBytes \in Nat /\ c \div PageBytes \in Nat  BY <1>1
<1>3. a \div PageBytes <= b \div PageBytes /\ b \div PageBytes <= c \div PageBytes  BY <1>1
<1>4. c \div PageBytes <= (a \div PageBytes) + 1  BY <1>1
<1>5. QED  BY <1>2, <1>3, <1>4 DEF PageOf

\* Two valid bytes no more than a page apart: everything between is readable,
\* and none of it is past the end of the address space.
LEMMA ReadableBetween ==
    ASSUME NEW a \in 0 .. AddrWrap - 1, NEW n \in Nat, n <= PageBytes,
           is_valid_ptr(a), is_valid_ptr(Add(a, n)), NEW i \in 0 .. n
    PROVE  Readable(Add(a, i))
<1>1. AddrWrap \in Nat /\ KernelBase \in Nat /\ PageBytes \in Nat  BY AddrAssumption
<1>2. a < KernelBase /\ PageOf(a) \in space.mapped  BY DEF is_valid_ptr
<1>3. a + n < AddrWrap  BY <1>1, <1>2, KernelPages
<1>4. Add(a, n) = a + n /\ Add(a, i) = a + i  BY <1>1, <1>3 DEF Add
<1>5. a + n < KernelBase /\ PageOf(a + n) \in space.mapped  BY <1>4 DEF is_valid_ptr
<1>6. PageOf(a + i) \in {PageOf(a), PageOf(a + n)}  BY <1>1, PagesBetween
<1>7. a + i < KernelBase  BY <1>1, <1>5
<1>8. QED  BY <1>2, <1>4, <1>5, <1>6, <1>7 DEF Readable

\* validate_arg is enough for the word: the kernel can read it.
LEMMA WordChecked ==
    ASSUME esp_ \in Nat, NEW k \in Nat, validate_arg(Add(esp_, 4 * k))
    PROVE  WordReadable(k)
<1> DEFINE a == Add(esp_, 4 * k)
<1>1. 4 * k \in Nat  OBVIOUS
<1>2. a \in 0 .. AddrWrap - 1  BY <1>1, AddTwice
<1>3. is_valid_ptr(a) /\ is_valid_ptr(Add(a, 3))  BY DEF validate_arg
<1>4. 3 <= PageBytes  BY AddrAssumption
<1>5. \A b \in 0 .. 3 : Readable(Add(a, b))
  <2> HIDE DEF a
  <2>1. QED  BY <1>2, <1>3, <1>4, ReadableBetween
<1>6. \A b \in 0 .. 3 : Add(a, b) = Add(esp_, 4 * k + b)  BY <1>1, AddTwice
<1>7. QED  BY <1>5, <1>6 DEF WordReadable

\* And it asks no more than that the word can be read and is not at address 0.
LEMMA WordRefused ==
    ASSUME esp_ \in Nat, NEW k \in Nat, ~validate_arg(Add(esp_, 4 * k))
    PROVE  ~WordReadable(k) \/ Add(esp_, 4 * k) = 0
<1> SUFFICES ASSUME WordReadable(k), Add(esp_, 4 * k) # 0
             PROVE  FALSE
  OBVIOUS
<1> DEFINE a == Add(esp_, 4 * k)
<1>1. 4 * k \in Nat  OBVIOUS
<1>2. a \in 0 .. AddrWrap - 1  BY <1>1, AddTwice
<1>3. Add(a, 3) = Add(esp_, 4 * k + 3) /\ a = Add(esp_, 4 * k + 0)  BY <1>1, AddTwice
<1>4. Readable(a) /\ Readable(Add(a, 3))  BY <1>3 DEF WordReadable
<1>5. AddrWrap \in Nat /\ KernelBase \in Nat /\ PageBytes \in Nat /\ PageBytes >= 4  BY AddrAssumption
<1>6. a + 3 < AddrWrap  BY <1>2, <1>4, <1>5, KernelPages DEF Readable
<1>7. Add(a, 3) = a + 3  BY <1>2, <1>5, <1>6 DEF Add
<1>8. Add(a, 3) # 0  BY <1>2, <1>5, <1>7
<1>9. QED  BY <1>4, <1>8 DEF validate_arg, is_valid_ptr, Readable

SysTypes ==
    /\ step \in 0 .. 3 /\ num \in Calls /\ esp_ \in Nat /\ nul \in Nat
    /\ arg = <<arg[1], arg[2], arg[3]>> /\ arg[1] \in Nat
    /\ arg[2] \in 0 .. AddrWrap - 1 /\ arg[3] \in Nat
    /\ outcome = "user" => step = 0
    /\ outcome \in {"user", "running"} => step <= ArgCount(num)
    /\ outcome \in {"user", "running", "returned", "exit", "halt", "panic"}

SysInv == SysTypes /\ ArgumentsChecked

LEMMA SysInitInv == SysInit => SysInv
<1>1. AddrWrap \in Nat /\ KernelBase \in Nat /\ KernelBase < AddrWrap  BY AddrAssumption
<1>2. SysInit => SysTypes
  BY <1>1 DEF SysInit, SysTypes, Calls, NoArgs, ArgCount
<1>3. QED  BY <1>2 DEF SysInit, SysInv, ArgumentsChecked, FaultCause, KilledForCause

LEMMA ArgCounts ==
    ASSUME NEW c \in Calls
    PROVE  /\ ArgCount(c) \in 0 .. 3
           /\ c \in OnStrings => ArgCount(c) = 1
  BY DEF ArgCount, Calls, NoArgs, OneArg, OnFiles, TwoArgs, ThreeArgs, Unserved, OnStrings

LEMMA TrapStep ==
    ASSUME SysInv, outcome = "user", NEW call \in Calls, NEW l \in Layouts, NEW sp \in Stacks,
           NEW n \in 0 .. MaxStr, NEW f \in {0, 1} \cup OpenFds, NEW p \in Pointers,
           NEW len \in Lengths,
           Trap(call, l, sp, <<IF call \in OnStrings \cup {"SYS_CREATE"} THEN p ELSE f, p, len>>, n)
    PROVE  SysInv'
<1> DEFINE a == IF call \in OnStrings \cup {"SYS_CREATE"} THEN p ELSE f
<1>1. a \in Nat /\ p \in 0 .. AddrWrap - 1 /\ len \in Nat /\ sp \in Nat /\ n \in Nat
  <2>1. p \in 0 .. AddrWrap - 1 /\ len \in 0 .. AddrWrap - 1 /\ sp \in 0 .. AddrWrap - 1  BY AddrAssumption
  <2>2. f \in Nat /\ n \in Nat /\ AddrWrap \in Nat  BY AddrAssumption
  <2>3. p \in Nat /\ len \in Nat /\ sp \in Nat  BY <2>1, <2>2
  <2>4. a \in Nat  BY <2>2, <2>3
  <2>5. QED  BY <2>1, <2>2, <2>3, <2>4
<1>2. ArgCount(call) \in 0 .. 3  BY ArgCounts
<1>3. /\ arg' = <<a, p, len>> /\ esp_' = sp /\ nul' = n /\ num' = call
      /\ step' = 0 /\ outcome' = "running"
  BY DEF SysInv, SysTypes, Trap
<1> HIDE DEF a
<1>4. SysTypes'
  <2>1. (arg[1])' = a /\ (arg[2])' = p /\ (arg[3])' = len  BY <1>3
  <2>2. (ArgCount(num))' = ArgCount(call)  BY <1>3 DEF ArgCount
  <2>3. QED  BY <1>1, <1>2, <1>3, <2>1, <2>2 DEF SysTypes
<1>5. QED  BY <1>3, <1>4 DEF SysInv, ArgumentsChecked, FaultCause, KilledForCause

\* The buffer of read and write.
LEMMA BufferStep ==
    ASSUME SysTypes, num \in ThreeArgs, Buffer, UNCHANGED <<space, num, esp_, arg, nul>>
    PROVE  ArgumentsChecked'
<1>0. /\ AddrWrap \in Nat /\ PageBytes \in Nat /\ arg[2] \in 0 .. AddrWrap - 1 /\ arg[3] \in Nat
      /\ arg[3] - 1 \in Int
  BY AddrAssumption DEF SysTypes
<1>1. CASE ~validate_str_with_len(arg[2], arg[3])
  <2>1. outcome' = "exit"  BY <1>1 DEF Buffer, exit
  <2>2. Add(arg[2], 0) = arg[2]  BY <1>0 DEF Add
  <2>3. \E i \in {0, arg[3] - 1} : ~is_valid_ptr(Add(arg[2], i))
    BY <1>1, <2>2 DEF validate_str_with_len
  <2>4. (\E i \in {0, arg[3] - 1} : ~is_valid_ptr(Add(arg[2], i)))'
    BY <2>3 DEF is_valid_ptr, Add
  <2>5. QED  BY <2>1, <2>4 DEF ArgumentsChecked, FaultCause, KilledForCause
<1>2. CASE validate_str_with_len(arg[2], arg[3])
  <2>1. PICK n \in Used :
           IF \E i \in 0 .. n - 1 : LET a == Add(arg[2], i) IN
                ~Readable(a) \/ (num = "SYS_READ" /\ PageOf(a) \notin space.writable)
           THEN page_fault /\ Stop ELSE Returns
    BY <1>2 DEF Buffer
  <2>2. CASE outcome' # "panic"
    <3>1. outcome' = "returned"  BY <2>1, <2>2 DEF page_fault, Returns
    <3>2. QED  BY <3>1 DEF ArgumentsChecked, FaultCause, KilledForCause
  <2>3. CASE outcome' = "panic" /\ arg[3] >= PageBytes + 2
    BY <2>3 DEF ArgumentsChecked, FaultCause, KilledForCause
  <2>4. CASE outcome' = "panic" /\ ~(arg[3] >= PageBytes + 2)
    <3>1. PICK i \in 0 .. n - 1 :
             ~Readable(Add(arg[2], i)) \/ (num = "SYS_READ" /\ PageOf(Add(arg[2], i)) \notin space.writable)
      BY <2>1, <2>4 DEF Returns
    <3>2. n \in {0, arg[3]}  BY DEF Used
    <3>3. n = arg[3] /\ i \in 0 .. arg[3] - 1 /\ arg[3] - 1 \in Nat  BY <1>0, <3>2
    <3>4. is_valid_ptr(arg[2]) /\ is_valid_ptr(Add(arg[2], arg[3] - 1))
      BY <1>2 DEF validate_str_with_len
    <3>5. arg[3] - 1 <= PageBytes  BY <1>0, <2>4
    <3>6. Readable(Add(arg[2], i))  BY <1>0, <3>3, <3>4, <3>5, ReadableBetween
    <3>7. num = "SYS_READ" /\ \E j \in 0 .. arg[3] - 1 : PageOf(Add(arg[2], j)) \notin space.writable
      BY <3>1, <3>3, <3>6
    <3>8. (num = "SYS_READ" /\ \E j \in 0 .. arg[3] - 1 : PageOf(Add(arg[2], j)) \notin space.writable)'
      BY <3>7 DEF PageOf, Add
    <3>9. QED  BY <2>4, <3>8 DEF ArgumentsChecked, FaultCause, KilledForCause
  <2>5. QED  BY <2>2, <2>3, <2>4
<1>3. QED  BY <1>1, <1>2

\* A string.
LEMMA StringStep ==
    ASSUME SysTypes, num \in OnStrings \cup {"SYS_CREATE"}, UseString,
           UNCHANGED <<space, num, esp_, arg, nul>>
    PROVE  ArgumentsChecked'
<1>1. CASE ~validate_str(arg[1], nul)
  <2>1. outcome' = "exit"  BY <1>1 DEF UseString, exit
  <2>2. nul >= MaxStr \/ \E i \in 0 .. nul : ~is_valid_ptr(Add(arg[1], i))
    <3>1. MaxStr \in Nat /\ nul \in Nat  BY AddrAssumption DEF SysTypes
    <3>2. QED  BY <1>1, <3>1 DEF validate_str
  <2>3. (nul >= MaxStr \/ \E i \in 0 .. nul : ~is_valid_ptr(Add(arg[1], i)))'
    BY <2>2 DEF is_valid_ptr, Add
  <2>4. QED  BY <2>1, <2>3 DEF ArgumentsChecked, FaultCause, KilledForCause
<1>2. CASE validate_str(arg[1], nul)
  <2>1. \A i \in 0 .. nul : Readable(Add(arg[1], i))
    BY <1>2 DEF validate_str, is_valid_ptr, Readable
  <2>2. outcome' = "returned"  BY <1>2, <2>1 DEF UseString, Returns
  <2>3. QED  BY <2>2 DEF ArgumentsChecked, FaultCause, KilledForCause
<1>3. QED  BY <1>1, <1>2

\* What a call does once it has its arguments.
LEMMA ServedStep ==
    ASSUME SysTypes, Served(step), UNCHANGED <<space, num, esp_, arg, nul>>
    PROVE  ArgumentsChecked' /\ step' = step
           /\ outcome' \in {"returned", "exit", "halt", "panic"}
<1>0. step \in 0 .. 3  BY DEF SysTypes
<1> DEFINE Fine == outcome' \in {"returned", "halt"} \/ (outcome' = "exit" /\ num = "SYS_EXIT")
           OnFile == {"SYS_ISDIR", "SYS_INUMBER", "SYS_FILESIZE", "SYS_TELL", "SYS_SEEK"}
<1>1. ASSUME Fine PROVE ArgumentsChecked'
  BY <1>1 DEF ArgumentsChecked, FaultCause, KilledForCause
<1>2. ASSUME num \in OnFile, NeedsFile PROVE ArgumentsChecked'
  <2>1. outcome' = "returned" \/ (outcome' = "panic" /\ arg[1] \notin OpenFds)
    BY <1>2 DEF NeedsFile, Returns, page_fault
  <2>2. QED  BY <1>1, <1>2, <2>1 DEF ArgumentsChecked, FaultCause, KilledForCause
<1>3. ASSUME num = "SYS_READDIR", Readdir PROVE ArgumentsChecked'
  <2>1. outcome' \in {"returned", "panic"}  BY <1>3 DEF Readdir, Returns, page_fault
  <2>2. QED  BY <1>1, <1>3, <2>1 DEF ArgumentsChecked, FaultCause, KilledForCause
<1> HIDE DEF Fine
<1>4. CASE step = 0
  <2>1. num \in NoArgs /\ (IF num = "SYS_HALT" THEN outcome' = "halt" /\ Stop ELSE Returns)
    BY <1>4 DEF Served
  <2>2. QED  BY <1>1, <2>1 DEF Fine, Returns, Stop
<1>5. CASE step = 1
  <2>1. \/ num = "SYS_EXIT" /\ exit /\ Stop
        \/ num \in OnStrings /\ UseString
        \/ num \in {"SYS_PRACTICE", "SYS_WAIT", "SYS_CLOSE"} /\ Returns
        \/ num \in {"SYS_ISDIR", "SYS_INUMBER", "SYS_FILESIZE", "SYS_TELL"} /\ NeedsFile
    BY <1>5 DEF Served
  <2>2. CASE num = "SYS_EXIT" /\ exit /\ Stop  BY <1>1, <2>2 DEF Fine, exit, Stop
  <2>3. CASE num \in OnStrings /\ UseString
    BY <2>3, StringStep DEF UseString, exit, page_fault, Returns, Stop
  <2>4. CASE num \in {"SYS_PRACTICE", "SYS_WAIT", "SYS_CLOSE"} /\ Returns
    BY <1>1, <2>4 DEF Fine, Returns
  <2>5. CASE num \in {"SYS_ISDIR", "SYS_INUMBER", "SYS_FILESIZE", "SYS_TELL"} /\ NeedsFile
    BY <1>2, <2>5 DEF NeedsFile, page_fault, Returns, Stop
  <2>6. QED  BY <2>1, <2>2, <2>3, <2>4, <2>5
<1>6. CASE step = 2
  <2>1. \/ num = "SYS_SEEK" /\ NeedsFile
        \/ num = "SYS_CREATE" /\ UseString
        \/ num = "SYS_READDIR" /\ Readdir
    BY <1>6 DEF Served
  <2>2. CASE num = "SYS_SEEK" /\ NeedsFile
    BY <1>2, <2>2 DEF NeedsFile, page_fault, Returns, Stop
  <2>3. CASE num = "SYS_CREATE" /\ UseString
    BY <2>3, StringStep DEF UseString, exit, page_fault, Returns, Stop
  <2>4. CASE num = "SYS_READDIR" /\ Readdir
    BY <1>3, <2>4 DEF Readdir, page_fault, Returns, Stop
  <2>5. QED  BY <2>1, <2>2, <2>3, <2>4
<1>7. CASE step = 3
  <2>1. (num \in ThreeArgs /\ Buffer) \/ (num \in Unserved /\ Returns)
    BY <1>7 DEF Served
  <2>2. CASE num \in ThreeArgs /\ Buffer
    BY <2>2, BufferStep DEF Buffer, exit, page_fault, Returns, Stop
  <2>3. CASE num \in Unserved /\ Returns  BY <1>1, <2>3 DEF Fine, Returns
  <2>4. QED  BY <2>1, <2>2, <2>3
<1>8. QED  BY <1>0, <1>4, <1>5, <1>6, <1>7

LEMMA SysStep == SysInv /\ [SysNext]_sysVars => SysInv'
<1> SUFFICES ASSUME SysInv, [SysNext]_sysVars PROVE SysInv'
  OBVIOUS
<1> USE DEF SysInv
<1>1. CASE Handler
  <2>0. /\ outcome = "running" /\ UNCHANGED <<space, num, esp_, arg, nul>>
        /\ step \in 0 .. 3 /\ step \in Nat /\ esp_ \in Nat /\ ArgCount(num) \in 0 .. 3
        /\ step <= ArgCount(num)
    BY <1>1, ArgCounts DEF Handler, SysTypes
  <2>1. ASSUME step' = step, outcome' \in {"returned", "exit", "halt", "panic"}
        PROVE  SysTypes'
    BY <2>0, <2>1 DEF SysTypes
  <2>2. CASE ~validate_arg(Add(esp_, 4 * step))
    <3>1. outcome' = "exit" /\ step' = step  BY <1>1, <2>2 DEF Handler, exit, Stop
    <3>2. ~WordReadable(step) \/ Add(esp_, 4 * step) = 0  BY <2>0, <2>2, WordRefused
    <3>3. \E k \in 0 .. ArgCount(num) : ~WordReadable(k) \/ Add(esp_, 4 * k) = 0
      BY <2>0, <3>2
    <3>4. (\E k \in 0 .. ArgCount(num) : ~WordReadable(k) \/ Add(esp_, 4 * k) = 0)'
      BY <2>0, <3>3 DEF WordReadable, Readable, PageOf, Add, ArgCount
    <3>5. ArgumentsChecked'  BY <3>1, <3>4 DEF ArgumentsChecked, FaultCause, KilledForCause
    <3>6. QED  BY <2>1, <3>1, <3>5
  <2>3. CASE validate_arg(Add(esp_, 4 * step))
    <3>1. WordReadable(step)  BY <2>0, <2>3, WordChecked
    <3>2. Served(step) \/ (ArgCount(num) > step /\ step' = step + 1 /\ UNCHANGED outcome)
      BY <1>1, <2>3, <3>1 DEF Handler
    <3>3. CASE Served(step)
      BY <2>0, <2>1, <3>3, ServedStep
    <3>4. CASE ArgCount(num) > step /\ step' = step + 1 /\ UNCHANGED outcome
      <4>1. step' \in 0 .. 3 /\ step' <= ArgCount(num)  BY <2>0, <3>4
      <4>2. ArgCount(num)' = ArgCount(num)  BY <2>0 DEF ArgCount
      <4>3. SysTypes'  BY <2>0, <3>4, <4>1, <4>2 DEF SysTypes
      <4>4. QED  BY <2>0, <3>4, <4>3 DEF ArgumentsChecked, FaultCause, KilledForCause
    <3>5. QED  BY <3>2, <3>3, <3>4
  <2>4. QED  BY <2>2, <2>3
<1>2. CASE outcome = "user" /\ ~Handler /\ SysNext
  <2>1. PICK call \in Calls, l \in Layouts, sp \in Stacks, n \in 0 .. MaxStr,
             f \in {0, 1} \cup OpenFds, p \in Pointers, len \in Lengths :
           /\ n > 0 => call \in OnStrings \cup {"SYS_CREATE"}
           /\ len = 0 \/ call \in ThreeArgs
           /\ call \in OnStrings \cup {"SYS_CREATE"} => f = 0
           /\ Trap(call, l, sp,
                   <<IF call \in OnStrings \cup {"SYS_CREATE"} THEN p ELSE f, p, len>>, n)
    BY <1>2, Zenon DEF SysNext
  <2>2. QED  BY <1>2, <2>1, TrapStep
<1>3. CASE UNCHANGED sysVars
  BY <1>3 DEF sysVars, SysTypes, ArgumentsChecked, FaultCause, KilledForCause, WordReadable,
              Readable, PageOf, Add, is_valid_ptr, ArgCount
<1>4. QED  BY <1>1, <1>2, <1>3 DEF SysNext

\* The type invariant of a system call and what the checks establish.
THEOREM SyscallInvariant == SysSpec => []SysInv
<1>1. QED  BY SysInitInv, SysStep, PTL DEF SysSpec

\* Whatever a program passes to syscall_handler, at whatever place in the
\* address space, the kernel faults only behind the checks that are left out,
\* and the process is ended only for a bad argument.
THEOREM SyscallsChecked == SysSpec => []ArgumentsChecked
<1>1. SysInv => ArgumentsChecked  BY DEF SysInv
<1>2. QED  BY <1>1, SyscallInvariant, PTL

-----------------------------------------------------------------------------
\* A reply of the file server: the parser on any request, and any file sent
\* with writes of any sizes.

\* Where a loop over characters ends: at the first that is not of the set.
StopsAt(r, i, set, w) ==
    /\ w \in Nat /\ i <= w /\ Char(r, w) \notin set
    /\ \A j \in i .. w - 1 : Char(r, j) \in set

LEMMA StopExists ==
    ASSUME NEW r \in Seq({"U", "l", "sp", "nl"}), NEW i \in Nat, NEW set, "nul" \notin set
    PROVE  \E w \in Nat : StopsAt(r, i, set, w)
<1>1. Len(r) \in Nat  OBVIOUS
<1> DEFINE S == {w \in Nat : i <= w /\ Char(r, w) \notin set}
<1>2. i + Len(r) + 1 \in S
  <2>1. Char(r, i + Len(r) + 1) = "nul"  BY <1>1 DEF Char
  <2>2. QED  BY <1>1, <2>1
<1>3. PICK w \in S : \A j \in S : w <= j
  <2>1. S \in SUBSET Nat /\ S # {}  BY <1>2
  <2> HIDE DEF S
  <2>2. QED  BY <2>1, LeastNatural
<1>4. \A j \in i .. w - 1 : Char(r, j) \in set  BY <1>3
<1>5. QED  BY <1>3, <1>4 DEF StopsAt

LEMMA StopUnique ==
    ASSUME NEW r, NEW i \in Nat, NEW set, NEW v, NEW w, StopsAt(r, i, set, v), StopsAt(r, i, set, w)
    PROVE  v = w
<1>1. v \in Nat /\ w \in Nat /\ i <= v /\ i <= w  BY DEF StopsAt
<1>2. ~(v < w)  BY <1>1 DEF StopsAt
<1>3. ~(w < v)  BY <1>1 DEF StopsAt
<1>4. QED  BY <1>1, <1>2, <1>3

\* The recursive function of While has that value.
LEMMA WhileStops ==
    ASSUME NEW r \in Seq({"U", "l", "sp", "nl"}), NEW i \in Nat, NEW set, "nul" \notin set
    PROVE  StopsAt(r, i, set, While(r, i, set))
<1> DEFINE L(k) == CHOOSE w \in Nat : StopsAt(r, k, set, w)
           g == [k \in Nat |-> L(k)]
           F == CHOOSE end : end = [k \in Nat |-> IF Char(r, k) \in set THEN end[k + 1] ELSE k]
<1>1. \A k \in Nat : L(k) \in Nat /\ StopsAt(r, k, set, L(k))  BY StopExists
<1>2. g = [k \in Nat |-> IF Char(r, k) \in set THEN g[k + 1] ELSE k]
  <2>1. ASSUME NEW k \in Nat PROVE g[k] = IF Char(r, k) \in set THEN g[k + 1] ELSE k
    <3>1. CASE Char(r, k) \in set
      <4>1. k + 1 \in Nat  OBVIOUS
      <4>2. StopsAt(r, k + 1, set, L(k + 1)) /\ L(k + 1) \in Nat  BY <1>1, <4>1
      <4>3. StopsAt(r, k, set, L(k + 1))  BY <3>1, <4>2 DEF StopsAt
      <4>4. L(k) = L(k + 1)  BY <1>1, <4>3, StopUnique
      <4>5. QED  BY <3>1, <4>1, <4>4
    <3>2. CASE Char(r, k) \notin set
      <4>1. StopsAt(r, k, set, k)  BY <3>2 DEF StopsAt
      <4>2. L(k) = k  BY <1>1, <4>1, StopUnique
      <4>3. QED  BY <3>2, <4>2
    <3>3. QED  BY <3>1, <3>2
  <2>2. QED  BY <2>1
<1>3. F = [k \in Nat |-> IF Char(r, k) \in set THEN F[k + 1] ELSE k]
  <2> HIDE DEF g
  <2>1. \E end : end = [k \in Nat |-> IF Char(r, k) \in set THEN end[k + 1] ELSE k]
    BY <1>2
  <2>2. QED  BY <2>1
<1>4. While(r, i, set) = F[i]  BY DEF While
<1>5. PICK w \in Nat : StopsAt(r, i, set, w)  BY StopExists
<1>6. \A d \in Nat : d <= w - i => F[w - d] = w
  <2> HIDE DEF F
  <2> SUFFICES ASSUME NEW e \in Nat, ~(e <= w - i => F[w - e] = w) PROVE FALSE
    OBVIOUS
  <2> DEFINE S == {d \in Nat : d <= w - i /\ F[w - d] # w}
  <2>1. S \in SUBSET Nat /\ S # {}  OBVIOUS
  <2>2. PICK d \in S : \A j \in S : d <= j
    <3> HIDE DEF S
    <3>1. QED  BY <2>1, LeastNatural
  <2>3. d \in Nat /\ d <= w - i /\ F[w - d] # w /\ i <= w  BY <1>5 DEF StopsAt
  <2>4. CASE d = 0
    <3>1. Char(r, w) \notin set  BY <1>5 DEF StopsAt
    <3>2. F[w] = w  BY <1>3, <3>1
    <3>3. QED  BY <2>3, <2>4, <3>2
  <2>5. CASE d # 0
    <3>1. w - d \in Nat /\ w - d \in i .. w - 1 /\ d - 1 \in Nat /\ d - 1 <= w - i  BY <2>3, <2>5
    <3>2. Char(r, w - d) \in set  BY <1>5, <3>1 DEF StopsAt
    <3>3. F[w - d] = F[w - d + 1]  BY <1>3, <3>1, <3>2
    <3>4. d - 1 \notin S  BY <2>2, <2>3
    <3>5. F[w - (d - 1)] = w  BY <3>1, <3>4
    <3>6. w - (d - 1) = w - d + 1  BY <2>3
    <3>7. QED  BY <2>3, <3>3, <3>5, <3>6
  <2>6. QED  BY <2>4, <2>5
<1>7. F[i] = w
  <2> HIDE DEF F
  <2>1. w - i \in Nat /\ w - (w - i) = i  BY <1>5 DEF StopsAt
  <2>2. w - i <= w - i => F[w - (w - i)] = w  BY <1>6, <2>1
  <2>3. w - i <= w - i  BY <2>1
  <2>4. QED  BY <2>1, <2>2, <2>3
<1>8. QED  BY <1>4, <1>5, <1>7

\* A loop that ends on a character ends within the request.
LEMMA StopInside ==
    ASSUME NEW r \in Seq({"U", "l", "sp", "nl"}), NEW i \in Nat \ {0}, NEW set, NEW w,
           StopsAt(r, i, set, w), Char(r, w) # "nul"
    PROVE  w \in i .. Len(r) /\ r[w] = Char(r, w) /\ \A j \in i .. w - 1 : r[j] \in set
  BY DEF StopsAt, Char

\* http_request_parse accepts the request lines and cuts them where the
\* grammar does.
LEMMA ParseCuts ==
    ASSUME NEW r \in Seq({"U", "l", "sp", "nl"}), NEW m \in Nat, NEW p \in Nat
    PROVE  /\ IsRequest(r, m, p) <=> http_request_parse(r) = <<m, p>>
           /\ http_request_parse(r) = <<>> \/ \E a, b \in Nat : http_request_parse(r) = <<a, b>>
<1> DEFINE w == While(r, 1, {"U"})
           x == While(r, w + 1, {"U", "l"})
           y == While(r, x, {"U", "l", "sp"})
           ok == w # 1 /\ Char(r, w) = "sp" /\ x # w + 1 /\ Char(r, y) = "nl"
<1>1. StopsAt(r, 1, {"U"}, w) /\ w \in Nat  BY WhileStops DEF StopsAt
<1>2. w + 1 \in Nat  BY <1>1
<1>3. StopsAt(r, w + 1, {"U", "l"}, x) /\ x \in Nat  BY <1>2, WhileStops DEF StopsAt
<1>4. StopsAt(r, x, {"U", "l", "sp"}, y) /\ y \in Nat  BY <1>3, WhileStops DEF StopsAt
<1>5. http_request_parse(r) = IF ok THEN <<w - 1, x - 1>> ELSE <<>>
  BY DEF http_request_parse
<1> HIDE DEF w, x, y
<1>6. ASSUME ok PROVE IsRequest(r, w - 1, x - 1)
  <2>1. w \in 1 .. Len(r) /\ r[w] = "sp" /\ \A j \in 1 .. w - 1 : r[j] = "U"
    BY <1>1, <1>6, StopInside
  <2>2. y \in x .. Len(r) /\ r[y] = "nl" /\ \A j \in x .. y - 1 : r[j] \in {"U", "l", "sp"}
    <3>1. x \in Nat \ {0}  BY <1>1, <1>3 DEF StopsAt
    <3>2. Char(r, y) # "nul"  BY <1>6
    <3>3. QED  BY <1>4, <1>6, <3>1, <3>2, StopInside
  <2>3. x \in w + 2 .. Len(r)  BY <1>1, <1>3, <1>6, <2>2 DEF StopsAt
  <2>4. r[x] \notin {"U", "l"} /\ Char(r, x) # "nul"  BY <1>3, <2>2, <2>3 DEF StopsAt, Char
  <2>5. \A j \in w + 1 .. x - 1 : r[j] \in {"U", "l"}  BY <1>3, <2>1, <2>3, <2>4, StopInside
  <2>6. r[x] \in {"sp", "nl"}  BY <2>2, <2>3, <2>4
  <2>7. QED  BY <1>1, <1>3, <1>6, <2>1, <2>2, <2>3, <2>5, <2>6 DEF IsRequest
<1>7. ASSUME IsRequest(r, m, p) PROVE ok /\ w = m + 1 /\ x = p + 1
  <2>1. /\ 1 <= m /\ m + 2 <= p /\ p < Len(r) /\ Len(r) \in Nat
        /\ \A i \in 1 .. m : r[i] = "U"
        /\ r[m + 1] = "sp"
        /\ \A i \in (m + 2) .. p : r[i] \in {"U", "l"}
        /\ r[p + 1] \in {"sp", "nl"}
    BY <1>7 DEF IsRequest
  <2>2. \A i \in 1 .. Len(r) : Char(r, i) = r[i]  BY DEF Char
  <2>3. StopsAt(r, 1, {"U"}, m + 1)  BY <2>1, <2>2 DEF StopsAt
  <2>4. w = m + 1  BY <1>1, <2>3, StopUnique
  <2>5. StopsAt(r, w + 1, {"U", "l"}, p + 1)  BY <2>1, <2>2, <2>4 DEF StopsAt
  <2>6. x = p + 1  BY <1>2, <1>3, <2>5, StopUnique
  <2>7. PICK e \in (p + 1) .. Len(r) : r[e] = "nl"  BY <1>7 DEF IsRequest
  <2>8. Char(r, e) \notin {"U", "l", "sp"}  BY <2>1, <2>2, <2>7
  <2>9. y <= e  BY <1>4, <2>1, <2>6, <2>7, <2>8 DEF StopsAt
  <2>10. y \in 1 .. Len(r) /\ r[y] \notin {"U", "l", "sp"}  BY <1>4, <2>1, <2>2, <2>6, <2>7, <2>9 DEF StopsAt
  <2>11. Char(r, y) = "nl"  BY <2>2, <2>10
  <2>12. QED  BY <2>1, <2>2, <2>4, <2>6, <2>11
<1>8. QED  
  <2>1. CASE ok
    <3>1. IsRequest(r, w - 1, x - 1)  BY <1>6, <2>1
    <3>2. w - 1 \in Nat /\ x - 1 \in Nat  BY <1>1, <1>3 DEF StopsAt
    <3>3. http_request_parse(r) = <<w - 1, x - 1>>  BY <1>5, <2>1
    <3>4. (m = w - 1 /\ p = x - 1) <=> http_request_parse(r) = <<m, p>>  BY <3>3
    <3>5. IsRequest(r, m, p) <=> (m = w - 1 /\ p = x - 1)  BY <1>1, <1>3, <1>7, <3>1
    <3>6. QED  BY <3>2, <3>3, <3>4, <3>5
  <2>2. CASE ~ok
    <3>1. http_request_parse(r) = <<>>  BY <1>5, <2>2
    <3>2. QED  BY <1>7, <2>2, <3>1
  <2>3. QED  BY <2>1, <2>2

LEMMA RequestCut ==
    ASSUME request \in Requests, MaxRequest \in Nat
    PROVE  ParsesRequests
<1> DEFINE got == http_request_parse(request)
           P == (1 .. MaxRequest) \X (1 .. MaxRequest)
           cuts == {c \in P : IsRequest(request, c[1], c[2])}
<1>1. request \in Seq({"U", "l", "sp", "nl"}) /\ Len(request) \in 0 .. MaxRequest  BY DEF Requests
<1>2. \A c \in P : c[1] \in Nat /\ c[2] \in Nat /\ c = <<c[1], c[2]>>  OBVIOUS
<1>3. \A m, p \in Nat : IsRequest(request, m, p) <=> got = <<m, p>>  BY <1>1, ParseCuts
<1>4. got = <<>> \/ \E a, b \in Nat : got = <<a, b>>  BY <1>1, ParseCuts
<1> HIDE DEF got
<1>5. \A c \in P : IsRequest(request, c[1], c[2]) <=> got = c  BY <1>2, <1>3
<1>6. CASE got = <<>>
  <2>1. \A c \in P : c # <<>>  BY <1>2
  <2>2. cuts = {}  BY <1>5, <1>6, <2>1
  <2>3. QED  BY <1>6, <2>2 DEF ParsesRequests, got
<1>7. CASE got # <<>>
  <2>1. PICK a, b \in Nat : got = <<a, b>>  BY <1>4, <1>7
  <2>2. IsRequest(request, a, b)  BY <1>3, <2>1
  <2>3. a \in 1 .. MaxRequest /\ b \in 1 .. MaxRequest  BY <1>1, <2>2 DEF IsRequest
  <2>4. got \in P  BY <2>1, <2>3
  <2>5. cuts = {got}  BY <1>5, <2>4
  <2>6. QED  BY <1>7, <2>5 DEF ParsesRequests, got
<1>8. QED  BY <1>6, <1>7

ReplyTypes ==
    /\ request \in Requests
    /\ path \in [kind : Kinds, size : FileSizes]
    /\ reply \in [status : Nat, length : Int, body : Seq(Nat), failed : BOOLEAN]
    /\ offset \in 0 .. path.size /\ buff \in [1 .. BuffLen -> Nat] /\ todo \in Seq(Nat)
    /\ progress \in {"parse", "choose", "file", "closed", "null"}

\* What is sent or about to be: the part of the file read so far, and more
\* only after its end.
Sent(body, rest) ==
    /\ Len(body) + Len(rest) >= offset
    /\ offset < path.size => Len(body) + Len(rest) = offset
    /\ \A i \in 1 .. Len(body) : i <= offset => body[i] = i
    /\ \A i \in 1 .. Len(rest) : Len(body) + i <= offset => rest[i] = Len(body) + i

BodySound ==
    /\ progress \in {"parse", "choose"} => offset = 0 /\ todo = <<>>
    /\ progress = "file" => reply.length = path.size /\ (~reply.failed => Sent(reply.body, todo))
    /\ (progress = "closed" /\ reply.length >= 0 /\ ~reply.failed /\ path.kind # "missing") =>
         /\ reply.length = path.size /\ offset = path.size /\ todo = <<>>
         /\ Sent(reply.body, <<>>)

ReplyInv == ReplyTypes /\ BodySound

LEMMA ReplyInitInv == ReplyInit => ReplyInv
<1> SUFFICES ASSUME ReplyInit PROVE ReplyInv
  OBVIOUS
<1>1. reply \in [status : Nat, length : Int, body : Seq(Nat), failed : BOOLEAN]  BY DEF ReplyInit
<1>2. path.size \in Nat  BY ReplyAssumption DEF ReplyInit
<1>3. ReplyTypes  BY <1>1, <1>2 DEF ReplyInit, ReplyTypes, Unset
<1>4. QED  BY <1>3 DEF ReplyInit, ReplyInv, BodySound

LEMMA ChooseStep ==
    ASSUME ReplyInv, Choose
    PROVE  ReplyInv'
<1> USE DEF ReplyInv
<1>1. PICK kind \in Seen :
         /\ reply' = [status |-> IF kind = "missing" THEN 404 ELSE 200,
                      length |-> IF kind \in {"file", "index"} THEN path.size ELSE -1,
                      body |-> <<>>, failed |-> FALSE]
         /\ progress' = IF kind \in {"file", "index"} /\ path.kind # "missing"
                     THEN "file" ELSE "closed"
  BY DEF Choose
<1>2. path.size \in Nat /\ path.kind \in Kinds  BY ReplyAssumption DEF ReplyTypes
<1>3. /\ UNCHANGED <<request, path, offset, buff, todo>> /\ progress = "choose"
      /\ offset = 0 /\ todo = <<>>
  BY DEF Choose, BodySound
<1>4. reply' \in [status : Nat, length : Int, body : Seq(Nat), failed : BOOLEAN]
  BY <1>1, <1>2
<1>5. ReplyTypes'  BY <1>1, <1>3, <1>4 DEF ReplyTypes
<1>6. path.kind # "missing" => kind = path.kind  BY DEF Seen
<1>7. kind \notin {"file", "index"} => reply.length' = -1  BY <1>1
<1>8. reply'.body = <<>> /\ (kind \in {"file", "index"} => reply'.length = path.size)  BY <1>1
<1>9. BodySound'
  <2>1. CASE progress' = "file"
    <3>1. Sent(reply.body, todo)'  BY <1>2, <1>3, <1>8 DEF Sent
    <3>2. QED  BY <1>1, <1>3, <1>8, <2>1, <3>1 DEF BodySound
  <2>2. CASE progress' = "closed"
    <3>1. path.kind = "missing" \/ reply.length' = -1  BY <1>1, <1>7, <2>2
    <3>2. QED  BY <1>3, <2>2, <3>1 DEF BodySound
  <2>3. QED  BY <1>1, <2>1, <2>2
<1>10. QED  BY <1>5, <1>9

LEMMA ReadStep ==
    ASSUME ReplyInv, ReadFile
    PROVE  ReplyInv'
<1> USE DEF ReplyInv
<1> DEFINE n == IF path.size - offset < BuffLen THEN path.size - offset ELSE BuffLen
<1>1. /\ progress = "file" /\ todo = <<>> /\ offset < path.size
      /\ buff' = [i \in 1 .. BuffLen |-> IF i <= n THEN offset + i ELSE buff[i]]
      /\ offset' = offset + n /\ todo' = buff'
      /\ UNCHANGED <<request, path, reply, progress>>
  BY DEF ReadFile
<1>2. path.size \in Nat /\ offset \in Nat /\ BuffLen \in Nat \ {0}
  <2>1. path.size \in FileSizes /\ offset \in 0 .. path.size  BY DEF ReplyTypes
  <2>2. FileSizes \subseteq Nat /\ BuffLen \in Nat \ {0}  BY ReplyAssumption
  <2>3. path.size \in Nat  BY <2>1, <2>2
  <2>4. QED  BY <2>1, <2>2, <2>3
<1>3. n \in 1 .. BuffLen /\ offset + n <= path.size /\ (offset + n < path.size => n = BuffLen)
  BY <1>1, <1>2
<1> HIDE DEF n
<1>4. buff' \in [1 .. BuffLen -> Nat]
  <2>1. \A i \in 1 .. BuffLen : offset + i \in Nat /\ buff[i] \in Nat  BY <1>2 DEF ReplyTypes
  <2>2. QED  BY <1>1, <2>1
<1>5. todo' \in Seq(Nat) /\ Len(todo') = BuffLen  BY <1>1, <1>2, <1>4
<1>6. ReplyTypes'  BY <1>1, <1>2, <1>3, <1>4, <1>5 DEF ReplyTypes
<1>7. ASSUME ~reply.failed PROVE Sent(reply.body, todo)'
  <2>1. Len(reply.body) = offset /\ \A i \in 1 .. Len(reply.body) : reply.body[i] = i
    <3>1. Sent(reply.body, todo)  BY <1>1, <1>7 DEF BodySound
    <3>2. reply.body \in Seq(Nat) /\ Len(reply.body) \in Nat /\ Len(todo) = 0  BY <1>1 DEF ReplyTypes
    <3>3. Len(reply.body) = offset  BY <1>1, <1>2, <3>1, <3>2 DEF Sent
    <3>4. QED  BY <1>2, <3>1, <3>3 DEF Sent
  <2>2. \A i \in 1 .. BuffLen : offset + i <= offset + n => todo'[i] = offset + i
    BY <1>1, <1>2, <1>3
  <2>3. QED  BY <1>1, <1>2, <1>3, <1>5, <2>1, <2>2 DEF Sent
<1>8. QED  BY <1>1, <1>6, <1>7 DEF BodySound

LEMMA WriteStep ==
    ASSUME ReplyInv, WriteSome
    PROVE  ReplyInv'
<1> USE DEF ReplyInv
<1>1. /\ progress = "file" /\ todo # <<>> /\ UNCHANGED <<request, path, offset, buff, progress>>
      /\ path.size \in Nat /\ offset \in Nat /\ todo \in Seq(Nat) /\ reply.body \in Seq(Nat)
      /\ reply.length = path.size
  BY ReplyAssumption DEF WriteSome, ReplyTypes, BodySound
<1>2. ASSUME NEW n \in 1 .. Len(todo),
             reply' = [reply EXCEPT !.body = @ \o SubSeq(todo, 1, n)],
             todo' = SubSeq(todo, n + 1, Len(todo))
      PROVE  ReplyInv'
  <2> DEFINE b == reply.body
             c == SubSeq(todo, 1, n)
             d == SubSeq(todo, n + 1, Len(todo))
  <2>1. c \in Seq(Nat) /\ Len(c) = n /\ \A i \in 1 .. n : c[i] = todo[i]  BY <1>1
  <2>2. d \in Seq(Nat) /\ Len(d) = Len(todo) - n /\ \A i \in 1 .. Len(todo) - n : d[i] = todo[n + i]
    BY <1>1
  <2>3. /\ b \o c \in Seq(Nat) /\ Len(b \o c) = Len(b) + n
        /\ \A i \in 1 .. Len(b) : (b \o c)[i] = b[i]
        /\ \A i \in Len(b) + 1 .. Len(b) + n : (b \o c)[i] = c[i - Len(b)]
    BY <1>1, <2>1
  <2>4. reply'.body = b \o c /\ reply'.length = reply.length /\ reply'.failed = reply.failed
        /\ reply' \in [status : Nat, length : Int, body : Seq(Nat), failed : BOOLEAN]
    BY <1>2, <2>3 DEF ReplyTypes
  <2>5. ReplyTypes'  BY <1>1, <1>2, <2>2, <2>4 DEF ReplyTypes
  <2> HIDE DEF b, c, d
  <2>6. ASSUME ~reply.failed PROVE Sent(b \o c, d)
    <3>1. Sent(b, todo)  BY <1>1, <2>6 DEF BodySound, b
    <3>2. Len(b) \in Nat /\ Len(todo) \in Nat  BY <1>1 DEF b
    <3>3. Len(b \o c) + Len(d) = Len(b) + Len(todo)  BY <2>2, <2>3, <3>2
    <3>4. ASSUME NEW i \in 1 .. Len(b \o c), i <= offset PROVE (b \o c)[i] = i
      <4>1. CASE i <= Len(b)  BY <2>3, <3>1, <3>2, <3>4, <4>1 DEF Sent
      <4>2. CASE i > Len(b)
        <5>1. i - Len(b) \in 1 .. n /\ i \in Len(b) + 1 .. Len(b) + n /\ Len(b) + (i - Len(b)) = i
          BY <2>3, <3>2, <4>2
        <5>2. (b \o c)[i] = todo[i - Len(b)]  BY <2>1, <2>3, <5>1
        <5>3. i - Len(b) \in 1 .. Len(todo)  BY <3>2, <5>1
        <5>4. todo[i - Len(b)] = Len(b) + (i - Len(b))  BY <3>1, <3>4, <5>1, <5>3 DEF Sent
        <5>5. QED  BY <5>1, <5>2, <5>4
      <4>3. QED  BY <3>2, <2>3, <4>1, <4>2
    <3>5. ASSUME NEW i \in 1 .. Len(d), Len(b \o c) + i <= offset PROVE d[i] = Len(b \o c) + i
      <4>1. n + i \in 1 .. Len(todo) /\ Len(b) + (n + i) = Len(b \o c) + i  BY <2>2, <2>3, <3>2
      <4>2. d[i] = todo[n + i]  BY <2>2
      <4>3. todo[n + i] = Len(b) + (n + i)  BY <3>1, <3>5, <4>1 DEF Sent
      <4>4. QED  BY <4>1, <4>2, <4>3
    <3>6. QED  BY <3>1, <3>3, <3>4, <3>5 DEF Sent
  <2>7. Sent(b \o c, d) => Sent(reply.body, todo)'  BY <1>1, <1>2, <2>4 DEF Sent, b, c, d
  <2>8. BodySound'  BY <1>1, <2>4, <2>6, <2>7 DEF BodySound
  <2>9. QED  BY <2>5, <2>8
<1>3. ASSUME reply' = [reply EXCEPT !.failed = TRUE], todo' = <<>> PROVE ReplyInv'
  <2>1. /\ reply'.failed /\ reply'.length = reply.length
        /\ reply' \in [status : Nat, length : Int, body : Seq(Nat), failed : BOOLEAN]
    BY <1>3 DEF ReplyTypes
  <2>2. ReplyTypes'  BY <1>1, <1>3, <2>1 DEF ReplyTypes
  <2>3. BodySound'  BY <1>1, <2>1 DEF BodySound
  <2>4. QED  BY <2>2, <2>3
<1>4. QED  BY <1>2, <1>3 DEF WriteSome

LEMMA ReplyStep == ReplyInv /\ [ReplyNext]_replyVars => ReplyInv'
<1> SUFFICES ASSUME ReplyInv, [ReplyNext]_replyVars PROVE ReplyInv'
  OBVIOUS
<1>1. CASE Parse
  <2>1. /\ UNCHANGED <<request, path, reply, offset, buff, todo>> /\ progress = "parse"
        /\ progress' \in {"null", "choose"}
    BY <1>1 DEF Parse
  <2>2. ReplyTypes'  BY <2>1 DEF ReplyInv, ReplyTypes
  <2>3. BodySound'  BY <2>1 DEF ReplyInv, BodySound
  <2>4. QED  BY <2>2, <2>3 DEF ReplyInv
<1>2. CASE Choose  BY <1>2, ChooseStep
<1>3. CASE ReadFile  BY <1>3, ReadStep
<1>4. CASE WriteSome  BY <1>4, WriteStep
<1>5. CASE EndFile
  <2>1. /\ UNCHANGED <<request, path, reply, offset, buff, todo>> /\ progress = "file"
        /\ todo = <<>> /\ offset = path.size /\ progress' = "closed"
    BY <1>5 DEF EndFile
  <2>2. ReplyTypes'  BY <2>1 DEF ReplyInv, ReplyTypes
  <2>3. BodySound'  BY <2>1 DEF ReplyInv, BodySound, Sent
  <2>4. QED  BY <2>2, <2>3 DEF ReplyInv
<1>6. CASE UNCHANGED replyVars
  BY <1>6 DEF replyVars, ReplyInv, ReplyTypes, BodySound, Sent
<1>7. QED  BY <1>1, <1>2, <1>3, <1>4, <1>5, <1>6 DEF ReplyNext

LEMMA ReplySafe == ReplyInv => RepliesRight
<1> SUFFICES ASSUME ReplyInv PROVE RepliesRight
  OBVIOUS
<1>1. ParsesRequests  BY ReplyAssumption, RequestCut DEF ReplyInv, ReplyTypes
<1>2. LengthIsFile
  <2> SUFFICES ASSUME progress = "closed", reply.length >= 0, ~reply.failed, path.kind # "missing"
               PROVE  /\ Len(reply.body) >= reply.length
                      /\ SubSeq(reply.body, 1, reply.length) = [i \in 1 .. path.size |-> i]
    BY DEF LengthIsFile
  <2>1. reply.length = path.size /\ offset = path.size /\ Sent(reply.body, <<>>)
    BY DEF ReplyInv, BodySound
  <2>2. path.size \in Nat /\ reply.body \in Seq(Nat) /\ Len(reply.body) \in Nat
    <3>1. path.size \in FileSizes /\ reply.body \in Seq(Nat)  BY DEF ReplyInv, ReplyTypes
    <3>2. FileSizes \subseteq Nat  BY ReplyAssumption
    <3>3. path.size \in Nat  BY <3>1, <3>2
    <3>4. QED  BY <3>1, <3>3
  <2>3. Len(reply.body) >= path.size  BY <2>1, <2>2 DEF Sent
  <2>4. SubSeq(reply.body, 1, path.size) = [i \in 1 .. path.size |-> reply.body[i]]
    BY <2>2, <2>3
  <2>5. \A i \in 1 .. path.size : reply.body[i] = i  BY <2>1, <2>2, <2>3 DEF Sent
  <2>6. QED  BY <2>1, <2>3, <2>4, <2>5
<1>3. QED  BY <1>1, <1>2 DEF RepliesRight

\* Exactly the request lines parse, whatever follows them, and a client that
\* reads as many bytes as Content-Length says has the file, whatever the sizes
\* of file, buffer and writes.
THEOREM RepliesCorrect == ReplySpec => []RepliesRight
<1>1. QED  BY ReplyInitInv, ReplyStep, ReplySafe, PTL DEF ReplySpec

-----------------------------------------------------------------------------
\* Fixed-point arithmetic of threads/fixed-point.h.

\* A product grows with each of its factors.
LEMMA ProductGrows ==
    ASSUME NEW a \in Int, NEW b \in Int, NEW c \in Int, a <= b, c >= 0
    PROVE  a * c <= b * c /\ c * a <= c * b
  OBVIOUS

\* A common positive factor cancels.
LEMMA FactorCancels ==
    ASSUME NEW a \in Int, NEW b \in Int, NEW c \in Int, c > 0, c * a <= c * b
    PROVE  a <= b
<1>1. SUFFICES ASSUME a >= b + 1 PROVE FALSE  OBVIOUS
<1>2. c * (b + 1) <= c * a  BY <1>1, ProductGrows
<1>3. c * (b + 1) = c * b + c  OBVIOUS
<1>4. c * a \in Int /\ c * b \in Int  OBVIOUS
<1>5. QED  BY <1>2, <1>3, <1>4

\* Quot drops the fraction, so it rounds towards 0.
LEMMA QuotBounds ==
    ASSUME NEW a \in Int, NEW b \in Nat, b > 0
    PROVE  /\ Quot(a, b) \in Int
           /\ a >= 0 => Quot(a, b) >= 0 /\ b * Quot(a, b) <= a /\ a < b * Quot(a, b) + b
           /\ a < 0 => Quot(a, b) <= 0 /\ a <= b * Quot(a, b) /\ b * Quot(a, b) < a + b
<1>1. ASSUME NEW n \in Nat
      PROVE  n \div b \in Nat /\ b * (n \div b) <= n /\ n < b * (n \div b) + b
  OBVIOUS
<1>2. CASE a >= 0
  <2>1. Quot(a, b) = a \div b  BY <1>2 DEF Quot
  <2>2. QED  BY <1>1, <1>2, <2>1
<1>3. CASE a < 0
  <2>1. Quot(a, b) = -((-a) \div b)  BY <1>3 DEF Quot
  <2>2. PICK q \in Nat : q = (-a) \div b /\ b * q <= -a /\ -a < b * q + b  BY <1>1, <1>3
  <2>3. b * (-q) = -(b * q) /\ b * q \in Int  OBVIOUS
  <2>4. QED  BY <1>3, <2>1, <2>2, <2>3
<1>4. QED  BY <1>2, <1>3

\* It is at most c when the fraction is, for c >= 0, and at least c for c <= 0.
LEMMA QuotWithin ==
    ASSUME NEW a \in Int, NEW b \in Nat, b > 0, NEW c \in Int
    PROVE  /\ c >= 0 /\ a <= b * c => Quot(a, b) <= c
           /\ c <= 0 /\ a >= b * c => Quot(a, b) >= c
<1>1. PICK q \in Int : /\ q = Quot(a, b)
                       /\ a >= 0 => q >= 0 /\ b * q <= a
                       /\ a < 0 => q <= 0 /\ a <= b * q
  BY QuotBounds
<1>2. b * q \in Int /\ b * c \in Int  OBVIOUS
<1>3. ASSUME c >= 0, a <= b * c PROVE q <= c
  <2>1. CASE a < 0  BY <1>1, <1>3, <2>1
  <2>2. CASE a >= 0
    <3>1. b * q <= b * c  BY <1>1, <1>2, <1>3, <2>2
    <3>2. QED  BY <3>1, FactorCancels
  <2>3. QED  BY <2>1, <2>2
<1>4. ASSUME c <= 0, a >= b * c PROVE q >= c
  <2>1. CASE a >= 0  BY <1>1, <1>4, <2>1
  <2>2. CASE a < 0
    <3>1. b * c <= b * q  BY <1>1, <1>2, <1>4, <2>2
    <3>2. QED  BY <3>1, FactorCancels
  <2>3. QED  BY <2>1, <2>2
<1>5. QED  BY <1>1, <1>3, <1>4

\* fix_round is as near as RoundsNearest says.
LEMMA RoundNear ==
    ASSUME NEW x \in Int
    PROVE  LET off == fix_int(fix_round(x)) - x
           IN  IF x >= 0 THEN 2 * off <= FIX_F /\ 2 * off >= -FIX_F
               ELSE off < FIX_F + (FIX_F \div 2) /\ off >= -(FIX_F \div 2)
<1>1. PICK h \in Nat : h = FIX_F \div 2 /\ FIX_F = 2 * h /\ FIX_F \in Nat /\ FIX_F > 0
  BY FixAssumption
<1>2. PICK y \in Int : y = x + h  BY <1>1
<1>3. PICK q \in Int : /\ q = Quot(y, FIX_F)
                       /\ y >= 0 => q >= 0 /\ FIX_F * q <= y /\ y < FIX_F * q + FIX_F
                       /\ y < 0 => y <= FIX_F * q /\ FIX_F * q < y + FIX_F
  BY <1>1, QuotBounds
<1>4. PICK r \in Int : r = FIX_F * q  BY <1>1
<1>5. fix_int(fix_round(x)) = r  BY <1>1, <1>2, <1>3, <1>4 DEF fix_int, fix_round
<1>6. CASE y < 0
  <2>1. y <= r /\ r < y + FIX_F  BY <1>3, <1>4, <1>6
  <2>2. QED  BY <1>1, <1>2, <1>5, <1>6, <2>1
<1>7. CASE y >= 0
  <2>1. r <= y /\ y < r + FIX_F /\ q >= 0  BY <1>3, <1>4, <1>7
  <2>2. x < 0 => r = 0
    <3>1. SUFFICES ASSUME x < 0 PROVE q = 0  BY <1>1, <1>4
    <3>2. ~(1 <= q)
      <4>1. SUFFICES ASSUME 1 <= q PROVE FALSE  OBVIOUS
      <4>2. FIX_F * 1 <= FIX_F * q  BY <1>1, <4>1, ProductGrows
      <4>3. FIX_F <= r  BY <1>1, <1>4, <4>2
      <4>4. QED  BY <1>1, <1>2, <2>1, <3>1, <4>3
    <3>3. QED  BY <2>1, <3>2
  <2>3. QED  BY <1>1, <1>2, <1>5, <1>7, <2>1, <2>2
<1>8. QED  BY <1>6, <1>7

-----------------------------------------------------------------------------
\* update_load_avg: a weighted mean of the load and a count of at most Count.
LEMMA LoadStep ==
    ASSUME NEW load \in Int, load >= 0, NEW r \in Nat, NEW C \in Nat, r <= C, load <= fix_int(C)
    PROVE  LET new == fix_add(fix_mul(fix_frac(LoadWindow - 1, LoadWindow), load),
                              fix_mul(fix_frac(1, LoadWindow), fix_int(r)))
           IN  new \in Int /\ new >= 0 /\ new <= fix_int(C)
<1>1. /\ FIX_F \in Nat /\ FIX_F > 0 /\ LoadWindow \in Nat /\ LoadWindow > 0
  BY FixAssumption, MlAssumption
<1>2. PICK W \in Nat, F \in Nat : W = LoadWindow /\ F = FIX_F /\ W > 0 /\ F > 0  BY <1>1
<1>3. PICK a \in Int : a = fix_frac(W - 1, W) /\ a >= 0 /\ W * a <= (W - 1) * F
  <2>1. PICK n \in Int : n = (W - 1) * F /\ n >= 0  BY <1>2
  <2>2. Quot(n, W) \in Int /\ Quot(n, W) >= 0 /\ W * Quot(n, W) <= n  BY <1>2, <2>1, QuotBounds
  <2>3. QED  BY <1>2, <2>1, <2>2 DEF fix_frac
<1>4. PICK b \in Int : b = fix_frac(1, W) /\ b >= 0 /\ W * b <= F
  <2>1. Quot(F, W) \in Int /\ Quot(F, W) >= 0 /\ W * Quot(F, W) <= F  BY <1>2, QuotBounds
  <2>2. 1 * F = F  OBVIOUS
  <2>3. QED  BY <1>2, <2>1, <2>2 DEF fix_frac
<1>5. a + b <= F
  <2>1. W * (a + b) = W * a + W * b /\ (W - 1) * F + F = W * F  BY <1>2, <1>3, <1>4
  <2>2. W * a \in Int /\ W * b \in Int /\ (W - 1) * F \in Int  BY <1>2, <1>3, <1>4
  <2>3. W * (a + b) <= W * F  BY <1>3, <1>4, <2>1, <2>2
  <2>4. QED  BY <1>2, <2>3, FactorCancels
<1>6. PICK u \in Int : u = fix_mul(a, load) /\ u >= 0 /\ u <= a * C
  <2>1. PICK n \in Int : n = a * load /\ n >= 0  BY <1>3
  <2>2. a * load <= a * (C * F)
    <3>1. load <= C * F  BY <1>2 DEF fix_int
    <3>2. QED  BY <1>3, <3>1, ProductGrows
  <2>3. a * (C * F) = F * (a * C) /\ a * C \in Int /\ a * C >= 0  BY <1>2, <1>3
  <2>4. Quot(n, F) \in Int /\ Quot(n, F) >= 0  BY <1>2, <2>1, QuotBounds
  <2>5. Quot(n, F) <= a * C  BY <1>2, <2>1, <2>2, <2>3, QuotWithin
  <2>6. QED  BY <1>2, <2>1, <2>4, <2>5 DEF fix_mul
<1>7. PICK v \in Int : v = fix_mul(b, fix_int(r)) /\ v >= 0 /\ v <= b * C
  <2>1. PICK n \in Int : n = b * (r * F) /\ n >= 0  BY <1>2, <1>4
  <2>2. b * (r * F) = F * (b * r) /\ b * r \in Int /\ b * r >= 0  BY <1>2, <1>4
  <2>3. Quot(n, F) \in Int /\ Quot(n, F) >= 0  BY <1>2, <2>1, QuotBounds
  <2>4. Quot(n, F) <= b * r  BY <1>2, <2>1, <2>2, QuotWithin
  <2>5. b * r <= b * C /\ b * C \in Int  BY <1>4, ProductGrows
  <2>6. QED  BY <1>2, <2>1, <2>2, <2>3, <2>4, <2>5 DEF fix_mul, fix_int
<1>8. a * C + b * C <= C * F
  <2>1. (a + b) * C <= F * C  BY <1>2, <1>3, <1>4, <1>5, ProductGrows
  <2>2. QED  BY <1>2, <1>3, <1>4, <2>1
<1>9. a * C \in Int /\ b * C \in Int /\ C * F \in Int  BY <1>2, <1>3, <1>4
<1>10. u + v >= 0 /\ u + v <= C * F  BY <1>6, <1>7, <1>8, <1>9
<1>11. fix_int(C) = C * F  BY <1>2 DEF fix_int
<1>12. QED  BY <1>2, <1>3, <1>4, <1>6, <1>7, <1>10, <1>11 DEF fix_add

\* The decay 2 load / (2 load + 1) of thread_update_recent_cpu is at most
\* 2 C / (2 C + 1) when the load is at most C.
LEMMA Decay ==
    ASSUME NEW load \in Int, load >= 0, NEW C \in Nat, load <= fix_int(C)
    PROVE  LET top == fix_scale(load, 2)
               coeff == fix_div(top, fix_add(top, fix_int(1)))
           IN  coeff \in Int /\ coeff >= 0 /\ coeff * ((2 * C) + 1) <= (2 * C) * FIX_F
<1>1. PICK F \in Nat : F = FIX_F /\ F > 0  BY FixAssumption
<1>2. PICK t \in Nat : t = load * 2  OBVIOUS
<1>3. PICK D \in Nat : D = t + F /\ D > 0  BY <1>1
<1>4. PICK n \in Int : n = t * F /\ n >= 0  BY <1>1
<1>5. PICK c \in Int : c = Quot(n, D) /\ c >= 0 /\ D * c <= n  BY <1>3, <1>4, QuotBounds
<1>6. PICK k \in Nat : k = 2 * C  OBVIOUS
<1>7. t <= k * F
  <2>1. load <= C * F  BY <1>1 DEF fix_int
  <2>2. (2 * C) * F = 2 * (C * F) /\ C * F \in Int  BY <1>1
  <2>3. QED  BY <1>2, <1>6, <2>1, <2>2
<1>8. (k + 1) * t <= k * D
  <2>1. (k + 1) * t = k * t + t /\ k * D = k * t + k * F  BY <1>3
  <2>2. k * t \in Int /\ k * F \in Int  BY <1>1
  <2>3. QED  BY <1>7, <2>1, <2>2
<1>9. (D * c) * (k + 1) <= (t * F) * (k + 1)
  <2>1. D * c \in Int /\ t * F \in Int /\ k + 1 \in Int /\ k + 1 >= 0  BY <1>1, <1>3, <1>5
  <2>2. D * c <= t * F  BY <1>4, <1>5
  <2>3. QED  BY <2>1, <2>2, ProductGrows
<1>10. ((k + 1) * t) * F <= (k * D) * F
  <2>1. (k + 1) * t \in Int /\ k * D \in Int  BY <1>3
  <2>2. QED  BY <1>1, <1>8, <2>1, ProductGrows
<1>11. D * (c * (k + 1)) <= D * (k * F)
  <2>1. (D * c) * (k + 1) = D * (c * (k + 1))  BY <1>3, <1>5
  <2>2. (t * F) * (k + 1) = ((k + 1) * t) * F  BY <1>1
  <2>3. (k * D) * F = D * (k * F)  BY <1>1, <1>3
  <2>4. (D * c) * (k + 1) \in Int /\ (t * F) * (k + 1) \in Int /\ (k * D) * F \in Int  BY <1>1, <1>3, <1>5
  <2>5. QED  BY <1>9, <1>10, <2>1, <2>2, <2>3, <2>4
<1>12. c * (k + 1) <= k * F
  <2>1. c * (k + 1) \in Int /\ k * F \in Int  BY <1>1, <1>5
  <2>2. QED  BY <1>3, <1>11, <2>1, FactorCancels
<1>13. fix_div(fix_scale(load, 2), fix_add(fix_scale(load, 2), fix_int(1))) = c
  <2>1. fix_scale(load, 2) = t  BY <1>2 DEF fix_scale
  <2>2. fix_int(1) = F  BY <1>1 DEF fix_int
  <2>3. QED  BY <1>1, <1>3, <1>4, <1>5, <2>1, <2>2 DEF fix_div, fix_add
<1>14. QED  BY <1>1, <1>5, <1>6, <1>12, <1>13

\* thread_update_recent_cpu takes what lies under (2 C + 1) G to under
\* 2 C G + H, and nothing below (2 C + 1) L, for nice values in L .. H.
LEMMA RecentStep ==
    ASSUME NEW load \in Int, load >= 0, NEW C \in Nat, load <= fix_int(C),
           NEW G \in Nat, NEW H \in Nat, NEW L \in Int, L <= 0,
           NEW n \in Int, L <= n, n <= H, NEW x \in Int,
           x <= fix_int(((2 * C) + 1) * G), x >= fix_int(((2 * C) + 1) * L)
    PROVE  /\ thread_update_recent_cpu(x, n, load) \in Int
           /\ thread_update_recent_cpu(x, n, load) <= fix_int(((2 * C) * G) + H)
           /\ thread_update_recent_cpu(x, n, load) >= fix_int(((2 * C) + 1) * L)
<1>1. PICK F \in Nat : F = FIX_F /\ F > 0  BY FixAssumption
<1>2. PICK k \in Nat : k = 2 * C  OBVIOUS
<1>3. PICK c \in Int : /\ c = fix_div(fix_scale(load, 2), fix_add(fix_scale(load, 2), fix_int(1)))
                       /\ c >= 0 /\ c * (k + 1) <= k * F
  BY <1>1, <1>2, Decay
<1>4. PICK p \in Int : p = c * x  BY <1>3
<1>5. PICK q \in Int : q = Quot(p, F) /\ (p >= 0 => q >= 0) /\ (p < 0 => q <= 0)
  BY <1>1, QuotBounds
<1>6. thread_update_recent_cpu(x, n, load) = q + n * F
  BY <1>1, <1>3, <1>4, <1>5 DEF thread_update_recent_cpu, fix_add, fix_mul, fix_int
<1>7. c * (k + 1) \in Int /\ k * F \in Int  BY <1>1, <1>3
<1>8. q <= (k * G) * F
  <2>1. (k * G) * F \in Int /\ (k * G) * F >= 0  BY <1>1
  <2>2. c * x <= c * (((k + 1) * G) * F)
    <3>1. x <= ((k + 1) * G) * F  BY <1>1, <1>2 DEF fix_int
    <3>2. ((k + 1) * G) * F \in Int  BY <1>1
    <3>3. QED  BY <1>3, <3>1, <3>2, ProductGrows
  <2>3. (c * (k + 1)) * (G * F) <= (k * F) * (G * F)
    <3>1. G * F \in Int /\ G * F >= 0  BY <1>1
    <3>2. QED  BY <1>3, <1>7, <3>1, ProductGrows
  <2>4. c * (((k + 1) * G) * F) = (c * (k + 1)) * (G * F)  BY <1>1, <1>3
  <2>5. (k * F) * (G * F) = F * ((k * G) * F)  BY <1>1
  <2>6. p <= F * ((k * G) * F)
    <3>1. c * x \in Int /\ (c * (k + 1)) * (G * F) \in Int /\ (k * F) * (G * F) \in Int  BY <1>1, <1>3
    <3>2. QED  BY <1>4, <2>2, <2>3, <2>4, <2>5, <3>1
  <2>7. QED  BY <1>1, <1>5, <2>1, <2>6, QuotWithin
<1>9. q >= (k * L) * F
  <2>0. PICK M \in Nat : M = -L  OBVIOUS
  <2>1. (k * L) * F \in Int /\ (k * L) * F <= 0
    <3>1. (k * L) * F = -((k * M) * F)  BY <1>1, <2>0
    <3>2. (k * M) * F \in Int /\ (k * M) * F >= 0  BY <1>1
    <3>3. QED  BY <3>1, <3>2
  <2>2. c * (((k + 1) * L) * F) <= c * x
    <3>1. x >= ((k + 1) * L) * F  BY <1>1, <1>2 DEF fix_int
    <3>2. ((k + 1) * L) * F \in Int  BY <1>1
    <3>3. QED  BY <1>3, <3>1, <3>2, ProductGrows
  <2>3. (c * (k + 1)) * (M * F) <= (k * F) * (M * F)
    <3>1. M * F \in Int /\ M * F >= 0  BY <1>1
    <3>2. QED  BY <1>3, <1>7, <3>1, ProductGrows
  <2>4. c * (((k + 1) * L) * F) = -((c * (k + 1)) * (M * F))  BY <1>1, <1>3, <2>0
  <2>5. -((k * F) * (M * F)) = F * ((k * L) * F)  BY <1>1, <2>0
  <2>6. p >= F * ((k * L) * F)
    <3>1. c * x \in Int /\ (c * (k + 1)) * (M * F) \in Int /\ (k * F) * (M * F) \in Int  BY <1>1, <1>3
    <3>2. QED  BY <1>4, <2>2, <2>3, <2>4, <2>5, <3>1
  <2>7. QED  BY <1>1, <1>5, <2>1, <2>6, QuotWithin
<1>10. n * F <= H * F /\ L * F <= n * F  BY <1>1, ProductGrows
<1>11. ((k * G) + H) * F = (k * G) * F + H * F /\ ((k + 1) * L) * F = (k * L) * F + L * F  BY <1>1
<1>12. (k * G) * F \in Int /\ (k * L) * F \in Int /\ n * F \in Int /\ H * F \in Int /\ L * F \in Int  BY <1>1
<1>13. q + n * F <= ((k * G) + H) * F /\ q + n * F >= ((k + 1) * L) * F  BY <1>8, <1>9, <1>10, <1>11, <1>12
<1>14. QED  BY <1>1, <1>2, <1>6, <1>12, <1>13 DEF fix_int

-----------------------------------------------------------------------------
\* A finite set of integers with a member has a greatest one.
LEMMA GreatestInt ==
    ASSUME NEW T, T \subseteq Int, T # {}, IsFiniteSet(T)
    PROVE  \E x \in T : \A y \in T : y <= x
<1>1. PICK b \in Int : \A x \in T : x <= b  BY FiniteBounded
<1> DEFINE D == {b - x : x \in T}
<1>2. D \subseteq Nat /\ D # {}
  <2>1. \A x \in T : b - x \in Nat  BY <1>1
  <2>2. QED  BY <2>1
<1>3. PICK d \in D : \A e \in D : d <= e
  <2> HIDE DEF D
  <2>1. QED  BY <1>2, LeastNatural
<1>4. PICK x \in T : d = b - x  BY <1>3
<1>5. ASSUME NEW y \in T PROVE y <= x
  <2>1. b - y \in D  OBVIOUS
  <2>2. b - x <= b - y  BY <1>3, <1>4, <2>1
  <2>3. QED  BY <2>2
<1>6. QED  BY <1>5

\* An image of a finite set is finite.
LEMMA FiniteImage ==
    ASSUME NEW S, IsFiniteSet(S), NEW f, f = [x \in S |-> f[x]]
    PROVE  IsFiniteSet({f[x] : x \in S})
<1> DEFINE T == {f[x] : x \in S}
<1>1. f \in Surjection(S, T)  BY DEF Surjection
<1> HIDE DEF T
<1>2. IsFiniteSet(T)  BY <1>1, FS_Surjection
<1>3. QED  BY <1>2 DEF T

\* The nice values thread_set_nice can leave, and their bounds.
Nices == NiceValues \cup {0}

LEMMA NiceBounds ==
    /\ HighestNice \in Nat /\ LowestNice \in Int /\ LowestNice <= 0
    /\ \A n \in Nices : n \in Int /\ LowestNice <= n /\ n <= HighestNice
<1>1. Nices \subseteq Int /\ IsFiniteSet(Nices) /\ 0 \in Nices
  BY MlAssumption, FS_AddElement DEF Nices
<1>2. \E n \in Nices : \A m \in Nices : m <= n
  <2> HIDE DEF Nices
  <2>1. QED  BY <1>1, GreatestInt
<1>3. \E n \in Nices : \A m \in Nices : m >= n
  <2> DEFINE f == [n \in Nices |-> -n]
             T == {f[n] : n \in Nices}
  <2>1. f = [n \in Nices |-> f[n]]  OBVIOUS
  <2>2. IsFiniteSet(T)
    <3> HIDE DEF f, Nices
    <3>1. QED  BY <1>1, <2>1, FiniteImage
  <2>3. T \subseteq Int /\ T # {}  BY <1>1
  <2>4. PICK x \in T : \A y \in T : y <= x
    <3> HIDE DEF T
    <3>1. QED  BY <2>2, <2>3, GreatestInt
  <2>5. PICK n \in Nices : x = -n  BY <2>4
  <2>6. ASSUME NEW m \in Nices PROVE m >= n
    <3>1. -m \in T  OBVIOUS
    <3>2. -m <= -n  BY <2>4, <2>5, <3>1
    <3>3. QED  BY <1>1, <3>2
  <2>7. QED  BY <2>6
<1>4. HighestNice \in Nices /\ \A m \in Nices : m <= HighestNice  BY <1>2 DEF HighestNice, Nices
<1>5. LowestNice \in Nices /\ \A m \in Nices : m >= LowestNice  BY <1>3 DEF LowestNice, Nices
<1>6. QED  BY <1>1, <1>4, <1>5

\* list_max has an answer: of the highest, the first.
LEMMA FirstHighest ==
    ASSUME NEW n \in Nat, n > 0, NEW p \in [1 .. n -> Int]
    PROVE  \E i \in 1 .. n : \A j \in 1 .. n : p[j] <= p[i] /\ (j < i => p[j] < p[i])
<1> DEFINE T == {p[i] : i \in 1 .. n}
<1>1. IsFiniteSet(T)
  <2>1. IsFiniteSet(1 .. n)  BY FS_Interval
  <2>2. QED  BY <2>1, FiniteImage
<1>2. T \subseteq Int /\ T # {}
  <2>1. 1 \in 1 .. n  OBVIOUS
  <2>2. QED  BY <2>1
<1>3. PICK x \in T : \A y \in T : y <= x
  <2> HIDE DEF T
  <2>1. QED  BY <1>1, <1>2, GreatestInt
<1> DEFINE I == {i \in 1 .. n : p[i] = x}
<1>4. I \subseteq Nat /\ I # {}  BY <1>3
<1>5. PICK i \in I : \A j \in I : i <= j
  <2> HIDE DEF I
  <2>1. QED  BY <1>4, LeastNatural
<1>6. ASSUME NEW j \in 1 .. n PROVE p[j] <= p[i] /\ (j < i => p[j] < p[i])
  <2>1. p[i] = x /\ p[j] \in Int /\ x \in Int /\ i \in 1 .. n  BY <1>2, <1>3, <1>5
  <2>2. p[j] <= x  BY <1>3
  <2>3. j < i => p[j] # x  BY <1>5
  <2>4. QED  BY <2>1, <2>2, <2>3
<1>7. QED  BY <1>5, <1>6

\* A list without repetitions is no longer than there are threads.
LEMMA QueueFits ==
    ASSUME NEW s \in Seq(MlThread), IsInjective(s)
    PROVE  Len(s) <= Count /\ Count \in Nat
<1>1. s \in Injection(1 .. Len(s), MlThread)  BY DEF Injection
<1>2. IsFiniteSet(MlThread)  BY MlAssumption
<1>3. Cardinality(1 .. Len(s)) <= Cardinality(MlThread)  BY <1>1, <1>2, FS_Injection
<1>4. Len(s) \in Nat  OBVIOUS
<1>5. Cardinality(1 .. Len(s)) = Len(s)
  <2>1. Cardinality(1 .. Len(s)) = IF 1 > Len(s) THEN 0 ELSE Len(s) - 1 + 1  BY <1>4, FS_Interval
  <2>2. QED  BY <1>4, <2>1
<1>6. QED  BY <1>2, <1>3, <1>5, FS_CardinalityType DEF Count

-----------------------------------------------------------------------------
\* What recent_cpu is at most just after it was recomputed.
Refreshed == fix_int(((2 * Count) * (TIMER_FREQ + HighestNice)) + HighestNice)
Floor == fix_int(((2 * Count) + 1) * LowestNice)

MlTypes ==
    /\ cur \in All /\ readyList \in Seq(MlThread) /\ load_avg \in Int
    /\ recent_cpu \in [All -> Int] /\ nice \in [All -> Nices] /\ priority \in [All -> Int]
    /\ phase \in 0 .. TIMER_FREQ - 1
    /\ inNice \in [MlThread -> {"no", "read", "write", "rank"}] /\ newRecent \in [MlThread -> Int]

\* The ready list: nobody twice, and not the running thread.
Queued == IsInjective(readyList) /\ cur \notin ToSet(readyList)

\* recent_cpu: since the last second's decay no more was charged than the
\* ticks gone by, and what thread_set_nice is about to store is decayed too.
Charged ==
    /\ \A t \in All : recent_cpu[t] <= Refreshed + fix_int(phase) /\ recent_cpu[t] >= Floor
    /\ \A t \in MlThread : newRecent[t] <= Refreshed /\ newRecent[t] >= Floor

MlInv == MlTypes /\ Queued /\ LoadBounded /\ Charged

LEMMA ScheduleStep ==
    ASSUME NEW list \in Seq(MlThread), IsInjective(list), priority' \in [All -> Int], Schedule(list)
    PROVE  /\ cur' \in All /\ readyList' \in Seq(MlThread)
           /\ IsInjective(readyList') /\ cur' \notin ToSet(readyList')
<1>1. CASE list = <<>>
  <2>1. cur' = Idle /\ readyList' = <<>>  BY <1>1 DEF Schedule
  <2>2. QED  BY <2>1, EmptyProperties DEF All
<1>2. CASE list # <<>>
  <2>1. Len(list) \in Nat /\ Len(list) > 0 /\ DOMAIN list = 1 .. Len(list)  BY <1>2
  <2>2. PICK p : p = [i \in 1 .. Len(list) |-> priority'[list[i]]]  OBVIOUS
  <2>3. p \in [1 .. Len(list) -> Int]
    <3>1. \A i \in 1 .. Len(list) : list[i] \in All  BY DEF All
    <3>2. QED  BY <2>2, <3>1
  <2>4. PICK i \in 1 .. Len(list) : \A j \in 1 .. Len(list) : p[j] <= p[i] /\ (j < i => p[j] < p[i])
    BY <2>1, <2>3, FirstHighest
  <2>5. \A j \in DOMAIN list : /\ priority'[list[j]] <= priority'[list[i]]
                               /\ j < i => priority'[list[j]] < priority'[list[i]]
    BY <2>1, <2>2, <2>4
  <2>6. Best(list) \in 1 .. Len(list)  BY <2>1, <2>5 DEF Best
  <2>7. PICK k \in 1 .. Len(list) : k = Best(list)  BY <2>6
  <2>8. cur' = list[k] /\ readyList' = RemoveAt(list, k)  BY <1>2, <2>7 DEF Schedule
  <2>9. /\ RemoveAt(list, k) \in Seq(MlThread) /\ IsInjective(RemoveAt(list, k))
        /\ ToSet(RemoveAt(list, k)) = ToSet(list) \ {list[k]}
    BY RemoveAtElements
  <2>10. list[k] \in All  BY DEF All
  <2>11. QED  BY <2>8, <2>9, <2>10
<1>3. QED  BY <1>1, <1>2

LEMMA YieldStep ==
    ASSUME MlTypes, Queued, priority' \in [All -> Int], Yield
    PROVE  /\ cur' \in All /\ readyList' \in Seq(MlThread)
           /\ IsInjective(readyList') /\ cur' \notin ToSet(readyList')
<1>1. readyList \in Seq(MlThread) /\ IsInjective(readyList) /\ cur \notin ToSet(readyList) /\ cur \in All
  BY DEF MlTypes, Queued
<1>2. CASE cur = Idle
  <2>1. Schedule(readyList)  BY <1>2 DEF Yield
  <2>2. QED  BY <1>1, <2>1, ScheduleStep
<1>3. CASE cur # Idle
  <2>1. Schedule(Append(readyList, cur))  BY <1>3 DEF Yield
  <2>2. cur \in MlThread  BY <1>1, <1>3 DEF All
  <2>3. Append(readyList, cur) \in Seq(MlThread) /\ IsInjective(Append(readyList, cur))
    BY <1>1, <2>2, AppendElements
  <2>4. QED  BY <2>1, <2>3, ScheduleStep
<1>4. QED  BY <1>2, <1>3

\* update_load_avg counts at most all threads.
LEMMA LoadUpdate ==
    ASSUME MlTypes, Queued, LoadBounded
    PROVE  /\ update_load_avg(load_avg) \in Int /\ update_load_avg(load_avg) >= 0
           /\ update_load_avg(load_avg) <= fix_int(Count)
<1>1. readyList \in Seq(MlThread) /\ IsInjective(readyList) /\ cur \notin ToSet(readyList) /\ cur \in All
      /\ load_avg \in Int /\ load_avg >= 0 /\ load_avg <= fix_int(Count)
  BY DEF MlTypes, Queued, LoadBounded
<1>2. PICK r : r = Len(readyList) + (IF cur = Idle THEN 0 ELSE 1)  OBVIOUS
<1>3. r \in Nat /\ r <= Count /\ Count \in Nat
  <2>1. CASE cur = Idle
    <3>1. Len(readyList) <= Count /\ Count \in Nat  BY <1>1, QueueFits
    <3>2. Len(readyList) \in Nat  BY <1>1
    <3>3. QED  BY <1>2, <2>1, <3>1, <3>2
  <2>2. CASE cur # Idle
    <3>1. cur \in MlThread  BY <1>1, <2>2 DEF All
    <3>2. /\ Append(readyList, cur) \in Seq(MlThread) /\ IsInjective(Append(readyList, cur))
          /\ Len(Append(readyList, cur)) = Len(readyList) + 1
      BY <1>1, <3>1, AppendElements
    <3>3. Len(Append(readyList, cur)) <= Count /\ Count \in Nat  BY <3>2, QueueFits
    <3>4. Len(readyList) \in Nat  BY <1>1
    <3>5. QED  BY <1>2, <2>2, <3>2, <3>3, <3>4
  <2>3. QED  BY <2>1, <2>2
<1>4. update_load_avg(load_avg) = fix_add(fix_mul(fix_frac(LoadWindow - 1, LoadWindow), load_avg),
                                          fix_mul(fix_frac(1, LoadWindow), fix_int(r)))
  BY <1>2 DEF update_load_avg
<1>5. PICK C \in Nat : C = Count  BY <1>3
<1>6. QED  BY <1>1, <1>3, <1>4, <1>5, LoadStep

\* thread_update_recent_cpu of a value within a second's charges.
LEMMA Refresh ==
    ASSUME NEW load \in Int, load >= 0, load <= fix_int(Count), NEW n \in Nices, NEW x \in Int,
           x <= Refreshed + fix_int(TIMER_FREQ), x >= Floor
    PROVE  /\ thread_update_recent_cpu(x, n, load) \in Int
           /\ thread_update_recent_cpu(x, n, load) <= Refreshed
           /\ thread_update_recent_cpu(x, n, load) >= Floor
<1>1. PICK C \in Nat : C = Count
  <2>1. <<>> \in Seq(MlThread)  OBVIOUS
  <2>2. QED  BY <2>1, EmptyProperties, QueueFits
<1>2. PICK H \in Nat, L \in Int : H = HighestNice /\ L = LowestNice /\ L <= 0  BY NiceBounds
<1>3. n \in Int /\ L <= n /\ n <= H  BY <1>2, NiceBounds
<1>4. PICK T \in Nat : T = TIMER_FREQ  BY MlAssumption
<1>5. PICK G \in Nat : G = T + H  OBVIOUS
<1>6. Refreshed = fix_int(((2 * C) * G) + H) /\ Floor = fix_int(((2 * C) + 1) * L)
  BY <1>1, <1>2, <1>4, <1>5 DEF Refreshed, Floor
<1>7. fix_int(((2 * C) * G) + H) + fix_int(T) = fix_int(((2 * C) + 1) * G)
  <2>1. PICK F \in Nat : F = FIX_F  BY FixAssumption
  <2>2. (((2 * C) * G) + H) * F + T * F = (((2 * C) + 1) * G) * F  BY <1>5
  <2>3. QED  BY <2>1, <2>2 DEF fix_int
<1>8. x <= fix_int(((2 * C) + 1) * G) /\ x >= fix_int(((2 * C) + 1) * L)  BY <1>4, <1>6, <1>7
<1>9. load <= fix_int(C)  BY <1>1
<1>10. QED  BY <1>2, <1>3, <1>6, <1>8, <1>9, RecentStep

LEMMA Bounds ==
    /\ Refreshed \in Int /\ Floor \in Int /\ Refreshed >= 0 /\ Floor <= 0 /\ Count \in Nat
    /\ \A k \in Int : fix_int(k) \in Int /\ fix_int(k + 1) = fix_int(k) + fix_int(1)
    /\ \A k \in Nat : fix_int(k) >= 0
    /\ FIX_F \in Nat /\ FIX_F > 0 /\ TIMER_FREQ \in Nat /\ TIMER_FREQ > 0
<1>1. PICK C \in Nat : C = Count
  <2>1. <<>> \in Seq(MlThread)  OBVIOUS
  <2>2. QED  BY <2>1, EmptyProperties, QueueFits
<1>2. PICK H \in Nat, L \in Int : H = HighestNice /\ L = LowestNice /\ L <= 0  BY NiceBounds
<1>3. PICK T \in Nat : T = TIMER_FREQ /\ T > 0  BY MlAssumption
<1>4. PICK F \in Nat : F = FIX_F /\ F > 0  BY FixAssumption
<1>5. Refreshed = (((2 * C) * (T + H)) + H) * F  BY <1>1, <1>2, <1>3, <1>4 DEF Refreshed, fix_int
<1>6. Floor = (((2 * C) + 1) * L) * F  BY <1>1, <1>2, <1>4 DEF Floor, fix_int
<1>7. PICK M \in Nat : M = -L  BY <1>2
<1>8. (((2 * C) + 1) * M) * F \in Nat  BY <1>4
<1>9. (((2 * C) + 1) * L) * F = -((((2 * C) + 1) * M) * F)  BY <1>4, <1>7
<1>10. Floor \in Int /\ Floor <= 0  BY <1>6, <1>8, <1>9
<1>11. Refreshed \in Int /\ Refreshed >= 0  BY <1>4, <1>5
<1>12. \A k \in Int : fix_int(k) \in Int /\ fix_int(k + 1) = fix_int(k) + fix_int(1)
  <2>1. \A k \in Int : k * F \in Int /\ (k + 1) * F = k * F + 1 * F  BY <1>4
  <2>2. QED  BY <1>4, <2>1 DEF fix_int
<1>13. \A k \in Nat : fix_int(k) >= 0
  <2>1. \A k \in Nat : k * F >= 0  BY <1>4
  <2>2. QED  BY <1>4, <2>1 DEF fix_int
<1>14. QED  BY <1>1, <1>3, <1>4, <1>10, <1>11, <1>12, <1>13

-----------------------------------------------------------------------------
LEMMA MlInitInv == MlInit => MlInv
<1> SUFFICES ASSUME MlInit PROVE MlInv  OBVIOUS
<1>1. PICK S : S = MlThread \ {MlMain}  OBVIOUS
<1>2. IsFiniteSet(S)  BY <1>1, MlAssumption, FS_RemoveElement
<1>3. PICK f : f = SetToSeq(S)  OBVIOUS
<1>4. f \in [1 .. Cardinality(S) -> S] /\ IsInjective(f) /\ Cardinality(S) \in Nat
  <2>1. ExistsBijection(1 .. Cardinality(S), S) /\ Cardinality(S) \in Nat  BY <1>2, FS_CardinalityType
  <2>2. \E g \in [1 .. Cardinality(S) -> S] : IsInjective(g)
    BY <2>1 DEF ExistsBijection, Bijection, Injection
  <2>3. QED  BY <1>3, <2>1, <2>2 DEF SetToSeq
<1>5. f \in Seq(S)
  <2>1. PICK n \in Nat : n = Cardinality(S)  BY <1>4
  <2>2. f \in [1 .. n -> S]  BY <1>4, <2>1
  <2>3. QED  BY <2>2
<1>6. ToSet(f) \subseteq S  BY <1>5, SeqElements
<1>7. readyList = f  BY <1>1, <1>3 DEF MlInit
<1>8. readyList \in Seq(MlThread) /\ Queued
  <2>1. f \in Seq(MlThread)  BY <1>1, <1>5
  <2>2. cur = MlMain  BY DEF MlInit
  <2>3. QED  BY <1>1, <1>4, <1>6, <1>7, <2>1, <2>2 DEF Queued
<1>9. fix_int(0) = 0  BY FixAssumption DEF fix_int
<1>10. MlTypes
  <2>1. 0 \in Nices /\ PRI_DEFAULT \in Int /\ MlMain \in All  BY MlAssumption DEF Nices, All
  <2>2. 0 \in 0 .. TIMER_FREQ - 1  BY Bounds
  <2>3. QED  BY <1>8, <1>9, <2>1, <2>2 DEF MlTypes, MlInit
<1>11. LoadBounded
  <2>1. fix_int(Count) >= 0 /\ load_avg = 0  BY <1>9, Bounds DEF MlInit
  <2>2. QED  BY <2>1 DEF LoadBounded
<1>12. Charged
  <2>1. Refreshed >= 0 /\ Floor <= 0 /\ Refreshed \in Int /\ Floor \in Int  BY Bounds
  <2>2. phase = 0 /\ (\A t \in All : recent_cpu[t] = 0) /\ \A t \in MlThread : newRecent[t] = 0
    BY <1>9 DEF MlInit
  <2>3. QED  BY <1>9, <2>1, <2>2 DEF Charged
<1>13. QED  BY <1>8, <1>10, <1>11, <1>12 DEF MlInv

\* The rank of a thread is a number.
LEMMA RankType ==
    ASSUME NEW x \in Int, NEW n \in Int
    PROVE  thread_update_priority(x, n) \in Int
<1>1. FIX_F \in Nat /\ FIX_F > 0 /\ FIX_F \div 2 \in Int /\ PRI_MAX \in Int  BY FixAssumption, MlAssumption
<1>2. Quot(x, 4) \in Int  BY QuotBounds
<1>3. Quot(x, 4) + (FIX_F \div 2) \in Int  BY <1>1, <1>2
<1>4. Quot(Quot(x, 4) + (FIX_F \div 2), FIX_F) \in Int  BY <1>1, <1>3, QuotBounds
<1>5. fix_round(fix_unscale(x, 4)) \in Int  BY <1>4 DEF fix_round, fix_unscale
<1>6. QED  BY <1>1, <1>5 DEF thread_update_priority

LEMMA TickStep ==
    ASSUME MlInv, Tick
    PROVE  MlInv'
<1>0. MlTypes /\ Queued /\ LoadBounded /\ Charged  BY DEF MlInv
<1>1. PICK now : now = (phase + 1) % TIMER_FREQ  OBVIOUS
<1>2. PICK charged : charged = [recent_cpu EXCEPT ![cur] = fix_add(@, fix_int(1))]  OBVIOUS
<1>3. /\ phase' = now
      /\ priority' = IF now % RankEvery # 0 THEN priority
                     ELSE [t \in All |-> thread_update_priority(charged[t], nice[t])]
      /\ load_avg' = IF now = 0 THEN update_load_avg(load_avg) ELSE load_avg
      /\ recent_cpu' = IF now # 0 THEN charged
                       ELSE [t \in All |-> thread_update_recent_cpu(charged[t], nice[t], load_avg')]
      /\ UNCHANGED <<nice, niceVars, blocks>>
  BY <1>1, <1>2 DEF Tick
<1>4. Yield \/ UNCHANGED <<cur, readyList>>  BY DEF Tick
<1>5. /\ cur \in All /\ readyList \in Seq(MlThread) /\ load_avg \in Int
      /\ recent_cpu \in [All -> Int] /\ nice \in [All -> Nices] /\ priority \in [All -> Int]
      /\ phase \in 0 .. TIMER_FREQ - 1
      /\ inNice \in [MlThread -> {"no", "read", "write", "rank"}] /\ newRecent \in [MlThread -> Int]
  BY <1>0 DEF MlTypes
<1>6. /\ now \in 0 .. TIMER_FREQ - 1 /\ phase \in Int
      /\ (now # 0 => now = phase + 1) /\ (now = 0 => phase + 1 = TIMER_FREQ)
  <2>1. PICK T \in Nat : T = TIMER_FREQ /\ T > 0  BY Bounds
  <2>2. PICK k \in Nat : k = phase + 1 /\ k <= T /\ k > 0 /\ phase \in Int  BY <1>5, <2>1
  <2>3. now = k % T  BY <1>1, <2>1, <2>2
  <2>4. CASE k = T
    <3>1. k % T = 0  BY <2>1, <2>2, <2>4
    <3>2. QED  BY <2>1, <2>2, <2>3, <2>4, <3>1
  <2>5. CASE k < T
    <3>1. k % T = k  BY <2>1, <2>2, <2>5
    <3>2. QED  BY <2>1, <2>2, <2>3, <2>5, <3>1
  <2>6. QED  BY <2>2, <2>4, <2>5
<1>7. /\ charged \in [All -> Int]
      /\ \A t \in All : charged[t] <= Refreshed + fix_int(phase + 1) /\ charged[t] >= Floor
  <2>1. /\ fix_int(1) \in Int /\ fix_int(1) >= 0 /\ fix_int(phase) \in Int
        /\ fix_int(phase + 1) = fix_int(phase) + fix_int(1) /\ Refreshed \in Int /\ Floor \in Int
    BY <1>6, Bounds
  <2>2. \A t \in All : charged[t] = IF t = cur THEN recent_cpu[t] + fix_int(1) ELSE recent_cpu[t]
    BY <1>2, <1>5 DEF fix_add
  <2>3. charged \in [All -> Int]
    <3>1. charged = [t \in All |-> charged[t]]  BY <1>2, <1>5
    <3>2. \A t \in All : charged[t] \in Int  BY <1>5, <2>1, <2>2
    <3>3. QED  BY <3>1, <3>2
  <2>4. ASSUME NEW t \in All PROVE charged[t] <= Refreshed + fix_int(phase + 1) /\ charged[t] >= Floor
    <3>1. recent_cpu[t] <= Refreshed + fix_int(phase) /\ recent_cpu[t] >= Floor /\ recent_cpu[t] \in Int
      BY <1>0, <1>5 DEF Charged
    <3>2. QED  BY <2>1, <2>2, <3>1
  <2>5. QED  BY <2>3, <2>4
<1>8. priority' \in [All -> Int]
  <2>1. \A t \in All : thread_update_priority(charged[t], nice[t]) \in Int
    BY <1>5, <1>7, NiceBounds, RankType
  <2>2. QED  BY <1>3, <1>5, <2>1
<1>9. /\ cur' \in All /\ readyList' \in Seq(MlThread)
      /\ IsInjective(readyList') /\ cur' \notin ToSet(readyList')
  <2>1. CASE Yield  BY <1>0, <1>8, <2>1, YieldStep
  <2>2. CASE UNCHANGED <<cur, readyList>>  BY <1>0, <1>5, <2>2 DEF Queued
  <2>3. QED  BY <1>4, <2>1, <2>2
<1>10. load_avg' \in Int /\ load_avg' >= 0 /\ load_avg' <= fix_int(Count)
  BY <1>0, <1>3, <1>5, LoadUpdate DEF LoadBounded
<1>11. /\ recent_cpu' \in [All -> Int]
       /\ \A t \in All : recent_cpu'[t] <= Refreshed + fix_int(now) /\ recent_cpu'[t] >= Floor
  <2>1. CASE now # 0  BY <1>3, <1>6, <1>7, <2>1
  <2>2. CASE now = 0
    <3>1. PICK load \in Int : load = load_avg' /\ load >= 0 /\ load <= fix_int(Count)  BY <1>10
    <3>2. recent_cpu' = [t \in All |-> thread_update_recent_cpu(charged[t], nice[t], load)]
      BY <1>3, <2>2, <3>1
    <3>3. ASSUME NEW t \in All
          PROVE  /\ thread_update_recent_cpu(charged[t], nice[t], load) \in Int
                 /\ thread_update_recent_cpu(charged[t], nice[t], load) <= Refreshed
                 /\ thread_update_recent_cpu(charged[t], nice[t], load) >= Floor
      <4>1. charged[t] \in Int /\ nice[t] \in Nices  BY <1>5, <1>7
      <4>2. charged[t] <= Refreshed + fix_int(TIMER_FREQ) /\ charged[t] >= Floor  BY <1>6, <1>7, <2>2
      <4>3. QED  BY <3>1, <4>1, <4>2, Refresh
    <3>4. fix_int(now) = 0  BY <2>2, Bounds DEF fix_int
    <3>5. Refreshed + fix_int(now) = Refreshed  BY <3>4, Bounds
    <3>6. QED  BY <3>2, <3>3, <3>5
  <2>3. QED  BY <2>1, <2>2
<1>12. nice' = nice /\ inNice' = inNice /\ newRecent' = newRecent  BY <1>3 DEF niceVars
<1>13. MlTypes'  BY <1>3, <1>5, <1>6, <1>8, <1>9, <1>10, <1>11, <1>12 DEF MlTypes
<1>14. Charged'
  <2>1. \A t \in MlThread : newRecent[t] <= Refreshed /\ newRecent[t] >= Floor  BY <1>0 DEF Charged
  <2>2. Refreshed' = Refreshed /\ Floor' = Floor /\ fix_int(phase)' = fix_int(now)
    BY <1>3 DEF Refreshed, Floor, fix_int, Count, HighestNice, LowestNice
  <2>3. QED  BY <1>3, <1>11, <1>12, <2>1, <2>2 DEF Charged
<1>15. LoadBounded'  BY <1>10 DEF LoadBounded, Count, fix_int
<1>16. QED  BY <1>9, <1>13, <1>14, <1>15 DEF MlInv, Queued

\* A step that leaves the statistics alone.
LEMMA StatsStay ==
    ASSUME MlInv, UNCHANGED <<recent_cpu, nice, load_avg, phase, newRecent>>,
           inNice' \in [MlThread -> {"no", "read", "write", "rank"}],
           priority' \in [All -> Int], cur' \in All, readyList' \in Seq(MlThread),
           IsInjective(readyList'), cur' \notin ToSet(readyList')
    PROVE  MlInv'
<1>0. MlTypes /\ Queued /\ LoadBounded /\ Charged  BY DEF MlInv
<1>1. MlTypes'  BY <1>0 DEF MlTypes
<1>2. Queued'  BY DEF Queued
<1>3. LoadBounded'  BY <1>0 DEF LoadBounded, Count, fix_int
<1>4. Charged'
  <2>1. Refreshed' = Refreshed /\ Floor' = Floor /\ fix_int(phase)' = fix_int(phase)
    BY DEF Refreshed, Floor, fix_int, Count, HighestNice, LowestNice
  <2>2. QED  BY <1>0, <2>1 DEF Charged
<1>5. QED  BY <1>1, <1>2, <1>3, <1>4 DEF MlInv

LEMMA BlockStep ==
    ASSUME MlInv, ThreadBlock
    PROVE  MlInv'
<1>0. MlTypes /\ Queued  BY DEF MlInv
<1>1. UNCHANGED <<recent_cpu, nice, priority, load_avg, phase, inNice, newRecent>> /\ Schedule(readyList)
  BY DEF ThreadBlock, threadVars, niceVars
<1>2. /\ priority' \in [All -> Int] /\ inNice' \in [MlThread -> {"no", "read", "write", "rank"}]
      /\ readyList \in Seq(MlThread) /\ IsInjective(readyList)
  BY <1>0, <1>1 DEF MlTypes, Queued
<1>3. /\ cur' \in All /\ readyList' \in Seq(MlThread)
      /\ IsInjective(readyList') /\ cur' \notin ToSet(readyList')
  BY <1>1, <1>2, ScheduleStep
<1>4. QED  BY <1>1, <1>2, <1>3, StatsStay

LEMMA UnblockStep ==
    ASSUME MlInv, ThreadUnblock
    PROVE  MlInv'
<1>0. MlTypes /\ Queued  BY DEF MlInv
<1>1. UNCHANGED <<recent_cpu, nice, priority, load_avg, phase, inNice, newRecent>>
  BY DEF ThreadUnblock, threadVars, niceVars
<1>2. PICK t \in MlThread : /\ t # cur /\ t \notin ToSet(readyList)
                            /\ \/ readyList' = Append(readyList, t) /\ cur' = cur
                               \/ Schedule(Append(readyList, t))
  BY DEF ThreadUnblock
<1>3. /\ priority' \in [All -> Int] /\ inNice' \in [MlThread -> {"no", "read", "write", "rank"}]
      /\ readyList \in Seq(MlThread) /\ IsInjective(readyList) /\ cur \notin ToSet(readyList) /\ cur \in All
  BY <1>0, <1>1 DEF MlTypes, Queued
<1>4. /\ Append(readyList, t) \in Seq(MlThread) /\ IsInjective(Append(readyList, t))
      /\ ToSet(Append(readyList, t)) = ToSet(readyList) \cup {t}
  BY <1>2, <1>3, AppendElements
<1>5. /\ cur' \in All /\ readyList' \in Seq(MlThread)
      /\ IsInjective(readyList') /\ cur' \notin ToSet(readyList')
  <2>1. CASE readyList' = Append(readyList, t) /\ cur' = cur  BY <1>2, <1>3, <1>4, <2>1
  <2>2. CASE Schedule(Append(readyList, t))  BY <1>3, <1>4, <2>2, ScheduleStep
  <2>3. QED  BY <1>2, <2>1, <2>2
<1>6. QED  BY <1>1, <1>3, <1>5, StatsStay

LEMMA SetNiceStep ==
    ASSUME MlInv, SetNice
    PROVE  MlInv'
<1>0. MlTypes /\ Queued /\ LoadBounded /\ Charged  BY DEF MlInv
<1>1. /\ UNCHANGED <<cur, readyList, recent_cpu, priority, load_avg, phase, newRecent>>
      /\ inNice' = [inNice EXCEPT ![cur] = "read"]
  BY DEF SetNice
<1>2. PICK n \in NiceValues : nice' = [nice EXCEPT ![cur] = n]  BY DEF SetNice
<1>3. nice' \in [All -> Nices]
  <2>1. n \in Nices /\ nice \in [All -> Nices]  BY <1>0 DEF Nices, MlTypes
  <2>2. QED  BY <1>2, <2>1
<1>4. inNice' \in [MlThread -> {"no", "read", "write", "rank"}]  BY <1>0, <1>1 DEF MlTypes
<1>5. MlTypes'  BY <1>0, <1>1, <1>3, <1>4 DEF MlTypes
<1>6. Queued' /\ LoadBounded'  BY <1>0, <1>1 DEF Queued, LoadBounded, Count, fix_int
<1>7. Charged'
  <2>1. Refreshed' = Refreshed /\ Floor' = Floor /\ fix_int(phase)' = fix_int(phase)
    BY <1>1 DEF Refreshed, Floor, fix_int, Count, HighestNice, LowestNice
  <2>2. QED  BY <1>0, <1>1, <2>1 DEF Charged
<1>8. QED  BY <1>5, <1>6, <1>7 DEF MlInv

LEMMA ReadRecentStep ==
    ASSUME MlInv, ReadRecent
    PROVE  MlInv'
<1>0. MlTypes /\ Queued /\ LoadBounded /\ Charged  BY DEF MlInv
<1>1. PICK y : y = thread_update_recent_cpu(recent_cpu[cur], nice[cur], load_avg)  OBVIOUS
<1>2. /\ cur # Idle /\ UNCHANGED <<cur, readyList, recent_cpu, nice, priority, load_avg, phase>>
      /\ inNice' = [inNice EXCEPT ![cur] = "write"] /\ newRecent' = [newRecent EXCEPT ![cur] = y]
  BY <1>1 DEF ReadRecent, threadVars
<1>3. cur \in MlThread /\ cur \in All  BY <1>0, <1>2 DEF MlTypes, All
<1>4. y \in Int /\ y <= Refreshed /\ y >= Floor
  <2>1. /\ recent_cpu[cur] \in Int /\ nice[cur] \in Nices /\ phase \in 0 .. TIMER_FREQ - 1
        /\ load_avg \in Int /\ load_avg >= 0 /\ load_avg <= fix_int(Count)
    BY <1>0, <1>3 DEF MlTypes, LoadBounded
  <2>2. recent_cpu[cur] <= Refreshed + fix_int(phase) /\ recent_cpu[cur] >= Floor
    BY <1>0, <1>3 DEF Charged
  <2>3. fix_int(phase) <= fix_int(TIMER_FREQ) /\ fix_int(phase) \in Int /\ fix_int(TIMER_FREQ) \in Int
    <3>1. phase <= TIMER_FREQ /\ phase \in Int /\ TIMER_FREQ \in Int /\ FIX_F \in Int /\ FIX_F >= 0
      BY <2>1, Bounds
    <3>2. phase * FIX_F <= TIMER_FREQ * FIX_F  BY <3>1, ProductGrows
    <3>3. QED  BY <3>1, <3>2 DEF fix_int
  <2>4. recent_cpu[cur] <= Refreshed + fix_int(TIMER_FREQ)
    <3>1. Refreshed \in Int  BY Bounds
    <3>2. QED  BY <2>1, <2>2, <2>3, <3>1
  <2>5. QED  BY <1>1, <2>1, <2>2, <2>4, Refresh
<1>5. newRecent' \in [MlThread -> Int] /\ inNice' \in [MlThread -> {"no", "read", "write", "rank"}]
  BY <1>0, <1>2, <1>4 DEF MlTypes
<1>6. MlTypes'  BY <1>0, <1>2, <1>5 DEF MlTypes
<1>7. Queued' /\ LoadBounded'  BY <1>0, <1>2 DEF Queued, LoadBounded, Count, fix_int
<1>8. Charged'
  <2>1. Refreshed' = Refreshed /\ Floor' = Floor /\ fix_int(phase)' = fix_int(phase)
    BY <1>2 DEF Refreshed, Floor, fix_int, Count, HighestNice, LowestNice
  <2>2. newRecent \in [MlThread -> Int]  BY <1>0 DEF MlTypes
  <2>3. \A t \in MlThread : newRecent'[t] = IF t = cur THEN y ELSE newRecent[t]  BY <1>2, <2>2
  <2>4. QED  BY <1>0, <1>2, <1>4, <2>1, <2>3 DEF Charged
<1>9. QED  BY <1>6, <1>7, <1>8 DEF MlInv

LEMMA StoreRecentStep ==
    ASSUME MlInv, StoreRecent
    PROVE  MlInv'
<1>0. MlTypes /\ Queued /\ LoadBounded /\ Charged  BY DEF MlInv
<1>1. /\ cur # Idle /\ UNCHANGED <<cur, readyList, nice, priority, load_avg, phase>>
      /\ inNice' = [inNice EXCEPT ![cur] = "rank"] /\ newRecent' = [newRecent EXCEPT ![cur] = 0]
      /\ recent_cpu' = [recent_cpu EXCEPT ![cur] = newRecent[cur]]
  BY DEF StoreRecent
<1>2. cur \in MlThread /\ cur \in All /\ newRecent \in [MlThread -> Int] /\ recent_cpu \in [All -> Int]
      /\ newRecent[cur] \in Int
  BY <1>0, <1>1 DEF MlTypes, All
<1>3. /\ newRecent' \in [MlThread -> Int] /\ recent_cpu' \in [All -> Int]
      /\ inNice' \in [MlThread -> {"no", "read", "write", "rank"}]
  BY <1>0, <1>1, <1>2 DEF MlTypes
<1>4. MlTypes'  BY <1>0, <1>1, <1>3 DEF MlTypes
<1>5. Queued' /\ LoadBounded'  BY <1>0, <1>1 DEF Queued, LoadBounded, Count, fix_int
<1>6. Charged'
  <2>1. Refreshed' = Refreshed /\ Floor' = Floor /\ fix_int(phase)' = fix_int(phase)
    BY <1>1 DEF Refreshed, Floor, fix_int, Count, HighestNice, LowestNice
  <2>2. /\ \A t \in MlThread : newRecent'[t] = IF t = cur THEN 0 ELSE newRecent[t]
        /\ \A t \in All : recent_cpu'[t] = IF t = cur THEN newRecent[cur] ELSE recent_cpu[t]
    BY <1>1, <1>2
  <2>3. /\ fix_int(phase) \in Int /\ fix_int(phase) >= 0 /\ Refreshed \in Int /\ Floor \in Int
        /\ Refreshed >= 0 /\ Floor <= 0
    <3>1. phase \in Nat  BY <1>0, Bounds DEF MlTypes
    <3>2. QED  BY <3>1, Bounds
  <2>4. newRecent[cur] <= Refreshed /\ newRecent[cur] >= Floor  BY <1>0, <1>2 DEF Charged
  <2>5. newRecent[cur] <= Refreshed + fix_int(phase)  BY <1>2, <2>3, <2>4
  <2>6. QED  BY <1>0, <1>1, <2>1, <2>2, <2>3, <2>4, <2>5 DEF Charged
<1>7. QED  BY <1>4, <1>5, <1>6 DEF MlInv

LEMMA RankStep ==
    ASSUME MlInv, Rank
    PROVE  MlInv'
<1>0. MlTypes /\ Queued  BY DEF MlInv
<1>1. PICK r : r = thread_update_priority(recent_cpu[cur], nice[cur])  OBVIOUS
<1>2. /\ UNCHANGED <<recent_cpu, nice, load_avg, phase, newRecent>>
      /\ priority' = [priority EXCEPT ![cur] = r] /\ inNice' = [inNice EXCEPT ![cur] = "no"]
  BY <1>1 DEF Rank
<1>3. Yield \/ UNCHANGED <<cur, readyList>>  BY DEF Rank
<1>4. priority' \in [All -> Int]
  <2>1. recent_cpu[cur] \in Int /\ nice[cur] \in Int  BY <1>0, NiceBounds DEF MlTypes
  <2>2. r \in Int  BY <1>1, <2>1, RankType
  <2>3. QED  BY <1>0, <1>2, <2>2 DEF MlTypes
<1>5. inNice' \in [MlThread -> {"no", "read", "write", "rank"}]  BY <1>0, <1>2 DEF MlTypes
<1>6. /\ cur' \in All /\ readyList' \in Seq(MlThread)
      /\ IsInjective(readyList') /\ cur' \notin ToSet(readyList')
  <2>1. CASE Yield  BY <1>0, <1>4, <2>1, YieldStep
  <2>2. CASE UNCHANGED <<cur, readyList>>  BY <1>0, <2>2 DEF MlTypes, Queued
  <2>3. QED  BY <1>3, <2>1, <2>2
<1>7. QED  BY <1>2, <1>4, <1>5, <1>6, StatsStay

\* The inductive invariant of the feedback-queue scheduler: between two
\* decays recent_cpu grows by the ticks only, whatever thread_set_nice stores.
THEOREM MlInvariant == MlSpec => []MlInv
<1>1. MlInv /\ [MlNext]_mlVars => MlInv'
  <2> SUFFICES ASSUME MlInv, [MlNext]_mlVars PROVE MlInv'  OBVIOUS
  <2>1. CASE UNCHANGED mlVars
    <3>1. UNCHANGED <<recent_cpu, nice, load_avg, phase, newRecent, inNice, priority, cur, readyList>>
      BY <2>1 DEF mlVars, threadVars, niceVars
    <3>2. QED  BY <3>1, StatsStay DEF MlInv, MlTypes, Queued
  <2>2. QED
    BY <2>1, TickStep, BlockStep, UnblockStep, SetNiceStep, ReadRecentStep, StoreRecentStep, RankStep DEF MlNext
<1>2. QED  BY MlInitInv, <1>1, PTL DEF MlSpec

\* The statistics of the -mlfqs scheduler (thread_tick, thread_set_nice) stay
\* in range for any number of threads, any timer frequency and any nice
\* values: the load between 0 and the number of threads, recent_cpu within
\* what 2 load / (2 load + 1) lets pile up; fix_round is off by a half at most.
THEOREM FeedbackInRange == MlSpec => []FeedbackBounded
<1>1. MlInv => FeedbackBounded
  <2> SUFFICES ASSUME MlInv PROVE FeedbackBounded  OBVIOUS
  <2>0. MlTypes /\ LoadBounded /\ Charged  BY DEF MlInv
  <2>1. RecentBounded
    <3>1. PICK C \in Nat : C = Count  BY Bounds
    <3>2. PICK H \in Nat, L \in Int : H = HighestNice /\ L = LowestNice  BY NiceBounds
    <3>3. PICK T \in Nat, F \in Nat : T = TIMER_FREQ /\ F = FIX_F  BY Bounds
    <3>4. (((2 * C) * (T + H)) + H) * F + T * F = (((2 * C) + 1) * (T + H)) * F  OBVIOUS
    <3>5. Refreshed + fix_int(TIMER_FREQ) = fix_int(((2 * Count) + 1) * (TIMER_FREQ + HighestNice))
      BY <3>1, <3>2, <3>3, <3>4 DEF Refreshed, fix_int
    <3>6. fix_int(phase) <= fix_int(TIMER_FREQ) /\ fix_int(phase) \in Int /\ fix_int(TIMER_FREQ) \in Int
      <4>1. phase <= TIMER_FREQ /\ phase \in Int /\ TIMER_FREQ \in Int /\ FIX_F \in Int /\ FIX_F >= 0
        BY <2>0, Bounds DEF MlTypes
      <4>2. phase * FIX_F <= TIMER_FREQ * FIX_F  BY <4>1, ProductGrows
      <4>3. QED  BY <4>1, <4>2 DEF fix_int
    <3>7. ASSUME NEW t \in All
          PROVE  /\ recent_cpu[t] <= fix_int(((2 * Count) + 1) * (TIMER_FREQ + HighestNice))
                 /\ recent_cpu[t] >= Floor
      <4>1. recent_cpu[t] <= Refreshed + fix_int(phase) /\ recent_cpu[t] >= Floor  BY <2>0 DEF Charged
      <4>2. recent_cpu[t] \in Int /\ Refreshed \in Int  BY <2>0, Bounds DEF MlTypes
      <4>3. recent_cpu[t] <= Refreshed + fix_int(TIMER_FREQ)  BY <3>6, <4>1, <4>2
      <4>4. QED  BY <3>5, <4>1, <4>3
    <3>8. QED  BY <3>7 DEF RecentBounded, Floor
  <2>2. RoundsNearest
    <3>1. \A t \in All : recent_cpu[t] \in Int  BY <2>0 DEF MlTypes
    <3>2. QED  BY <3>1, RoundNear DEF RoundsNearest
  <2>3. QED  BY <2>0, <2>1, <2>2 DEF FeedbackBounded
<1>2. QED  BY MlInvariant, <1>1, PTL

-----------------------------------------------------------------------------
\* The descriptors and the work queue of the HTTP server.

\* A thread has a descriptor from accept or wq_pop until it is closed;
\* handle_files_request closes it before it returns.
Holds(t, d) == fd[t] = d /\ (pc[t] = "close" => proxy)

\* Where a thread can be follows from the command line, and so does whether
\* it has a number in its variable.
Modes ==
    /\ \A w \in Worker : pc[w] \notin {"accept", "push"}
                         /\ (pc[w] # "none" => pool # {})
    /\ pc[Main] \notin {"none", "pop", "waiting"}
    /\ pc[Main] = "push" => pool # {}
    /\ pc[Main] \in {"handle", "finish", "close"} => pool = {}
    /\ \A t \in Thread : fd[t] # 0 <=> pc[t] \in {"push", "handle", "finish", "close"}
    /\ ~proxy => \A d \in FD : open[d] # Target
    /\ pool = {} /\ ~proxy /\ pc[Main] = "close" => open[fd[Main]] = None

\* One hand for each open connection: a thread's or the queue's, not both.
OneHand ==
    /\ \A d \in FD : \A t, u \in Thread : Holds(t, d) /\ Holds(u, d) => t = u
    /\ IsInjective(wq)
    /\ \A t \in Thread, d \in FD : Holds(t, d) => d \notin ToSet(wq)
    /\ \A d \in FD :
         open[d] \in Conn <=> d \in ToSet(wq) \/ \E t \in Thread : Holds(t, d)

\* A thread that is done with a request has handled the connection it has.
HandledHeld ==
    \A t \in Thread, d \in FD :
        pc[t] \in {"finish", "close"} /\ Holds(t, d) => open[d] \in handled

IndInv ==
    /\ TypeOK /\ Modes
    /\ ~FilesPool => OneHand /\ HandledHeld /\ closed \subseteq handled

-----------------------------------------------------------------------------
LEMMA Numbers ==
    /\ 0 \notin FD /\ FD \subseteq Nat
    /\ \A w \in Worker : w # Main /\ w \in Thread
    /\ Main \in Thread
    /\ \A t \in Thread : t \in Worker \/ t = Main
BY MaxFdAssumption, WorkerAssumption DEF FD, Thread

\* Nothing is behind a free descriptor, and nobody has it.
LEMMA FreeUnused ==
    ASSUME IndInv, ~FilesPool, NEW d \in FD, open[d] \notin Conn
    PROVE  d \notin ToSet(wq) /\ \A t \in Thread : ~Holds(t, d)
BY DEF IndInv, OneHand

\* A thread at a handler has a number, and unless it is past the close of
\* handle_files_request a client is behind it.
LEMMA HeldOpen ==
    ASSUME IndInv, ~FilesPool, NEW t \in Thread,
           pc[t] \in {"push", "handle", "finish"} \/ (pc[t] = "close" /\ proxy)
    PROVE  fd[t] \in FD /\ Holds(t, fd[t]) /\ open[fd[t]] \in Conn
<1>1. fd[t] \in FD
  BY Numbers DEF IndInv, TypeOK, Modes
<1> QED BY <1>1 DEF IndInv, OneHand, Holds

\* A thread of the pool of a file server is the only one that closes twice;
\* without a pool there is only main.
LEMMA FilesMain ==
    ASSUME IndInv, ~FilesPool, ~proxy, NEW t \in Thread,
           pc[t] \in {"handle", "finish", "close"}
    PROVE  t = Main /\ pool = {} /\ \A w \in Worker : pc[w] = "none" /\ fd[w] = 0
BY Numbers DEF IndInv, Modes, FilesPool

LEMMA InitInv == Init => IndInv
<1> SUFFICES ASSUME Init PROVE IndInv
  OBVIOUS
<1>1. pool \subseteq Worker /\ proxy \in BOOLEAN
  BY CommandAssumption DEF Init
<1>2. fd = [t \in Thread |-> 0] /\ wq = <<>> /\ open = [d \in FD |-> None]
      /\ arrived = {} /\ handled = {} /\ closed = {} /\ down = FALSE
      /\ pc = [t \in Thread |-> IF t = Main THEN "accept"
                                ELSE IF t \in pool THEN "pop" ELSE "none"]
  BY DEF Init
<1>3. TypeOK
  <2>1. wq \in Seq(FD) /\ fd \in [Thread -> FD \cup {0}]
        /\ open \in [FD -> Conn \cup {Target, None}]
    BY <1>2
  <2>2. pc \in [Thread -> {"none", "accept", "push", "pop", "waiting", "handle",
                           "finish", "close"}]
    BY <1>2
  <2> QED BY <1>1, <1>2, <2>1, <2>2 DEF TypeOK
<1>4. Modes
  BY <1>1, <1>2, Numbers, NoneAssumption DEF Modes
<1>5. OneHand /\ HandledHeld
  BY <1>2, Numbers, NoneAssumption, EmptyProperties DEF OneHand, HandledHeld, Holds
<1> QED BY <1>2, <1>3, <1>4, <1>5 DEF IndInv

-----------------------------------------------------------------------------
\* What a step has to show where no file server has a pool.
LEMMA Conclude ==
    ASSUME IndInv, UNCHANGED mode, TypeOK', Modes',
           ~FilesPool => OneHand' /\ HandledHeld' /\ closed' \subseteq handled'
    PROVE  IndInv'
<1>1. FilesPool' <=> FilesPool
  BY DEF FilesPool, mode
<1> QED BY <1>1 DEF IndInv

LEMMA AcceptStep ==
    ASSUME IndInv, Accept
    PROVE  IndInv'
<1>1. PICK c \in Conn \ arrived, d \in FD :
         /\ Free(d) /\ open' = [open EXCEPT ![d] = c] /\ arrived' = arrived \cup {c}
         /\ fd' = [fd EXCEPT ![Main] = d]
  BY DEF Accept
<1>2. /\ pool' = pool /\ proxy' = proxy /\ wq' = wq /\ handled' = handled
      /\ closed' = closed /\ down' = down /\ pc[Main] = "accept"
      /\ pc' = [pc EXCEPT ![Main] = IF pool = {} THEN "handle" ELSE "push"]
      /\ UNCHANGED mode
  BY DEF Accept, Goto, mode
<1>3. TypeOK /\ Modes /\ open[d] = None /\ fd[Main] = 0
  BY <1>1, <1>2, Numbers DEF IndInv, Modes, Free
<1>4. TypeOK'
  BY <1>1, <1>2, <1>3, Numbers DEF TypeOK
<1>5. Modes'
  BY <1>1, <1>2, <1>3, Numbers, NoneAssumption DEF TypeOK, Modes
<1>6. ASSUME ~FilesPool PROVE OneHand' /\ HandledHeld' /\ closed' \subseteq handled'
  <2>1. OneHand /\ HandledHeld /\ closed \subseteq handled
    BY <1>6 DEF IndInv
  <2>2. d \notin ToSet(wq) /\ \A t \in Thread : ~Holds(t, d)
    BY <1>3, <1>6, FreeUnused, NoneAssumption
  <2>3. ASSUME NEW t \in Thread, NEW e \in FD
        PROVE  Holds(t, e)' <=> Holds(t, e) \/ (t = Main /\ e = d)
    <3>1. CASE t = Main
      <4>1. fd'[t] = d /\ pc'[t] # "close"
        BY <1>1, <1>2, <1>3, <3>1, Numbers DEF TypeOK
      <4>2. fd[t] # e
        BY <1>3, <3>1, Numbers
      <4> QED BY <3>1, <4>1, <4>2 DEF Holds
    <3>2. CASE t # Main
      <4>1. fd'[t] = fd[t] /\ pc'[t] = pc[t]
        BY <1>1, <1>2, <1>3, <3>2 DEF TypeOK
      <4> QED BY <1>2, <3>2, <4>1 DEF Holds
    <3> QED BY <3>1, <3>2
  <2>4. \A e \in FD : open'[e] = IF e = d THEN c ELSE open[e]
    BY <1>1, <1>3 DEF TypeOK
  <2>5. \A e \in FD : ~Holds(Main, e)
    BY <1>3, Numbers DEF Holds
  <2>6. OneHand'
    <3>1. \A e \in FD : \A t, u \in Thread : Holds(t, e)' /\ Holds(u, e)' => t = u
      BY <2>1, <2>2, <2>3, <2>5 DEF OneHand
    <3>2. \A t \in Thread, e \in FD : Holds(t, e)' => e \notin ToSet(wq)
      BY <2>1, <2>2, <2>3 DEF OneHand
    <3>3. ASSUME NEW e \in FD
          PROVE  open'[e] \in Conn <=> e \in ToSet(wq) \/ \E t \in Thread : Holds(t, e)'
      <4>1. CASE e = d
        BY <1>1, <2>3, <2>4, <4>1, Numbers
      <4>2. CASE e # d
        <5>1. \A t \in Thread : Holds(t, e)' <=> Holds(t, e)
          BY <2>3, <4>2
        <5> QED BY <2>1, <2>4, <4>2, <5>1 DEF OneHand
      <4> QED BY <4>1, <4>2
    <3> QED BY <1>2, <2>1, <3>1, <3>2, <3>3 DEF OneHand
  <2>7. \A t \in Thread : pc'[t] \in {"finish", "close"} => pc'[t] = pc[t] /\ t # Main
    BY <1>2, <1>3, Numbers DEF TypeOK
  <2>8. HandledHeld'
    BY <1>2, <2>1, <2>2, <2>3, <2>4, <2>7 DEF HandledHeld
  <2> QED BY <1>2, <2>1, <2>6, <2>8
<1> QED BY <1>2, <1>4, <1>5, <1>6, Conclude

LEMMA PushStep ==
    ASSUME IndInv, wq_push
    PROVE  IndInv'
<1>1. /\ pool' = pool /\ proxy' = proxy /\ wq' = Append(wq, fd[Main])
      /\ fd' = [fd EXCEPT ![Main] = 0] /\ open' = open /\ handled' = handled
      /\ arrived' = arrived /\ closed' = closed /\ down' = down /\ pc[Main] = "push"
      /\ UNCHANGED mode
  BY DEF wq_push, mode
<1>2. TypeOK /\ Modes
  BY DEF IndInv
<1>3. /\ pc' \in [Thread -> {"none", "accept", "push", "pop", "waiting", "handle",
                             "finish", "close"}]
      /\ pc'[Main] = "accept"
      /\ \A w \in Worker : pc'[w] = pc[w] \/ (pc[w] = "waiting" /\ pc'[w] = "pop")
  <2>1. CASE pc' = [pc EXCEPT ![Main] = "accept"]
    <3>1. \A w \in Worker : pc'[w] = pc[w]
      BY <1>2, <2>1, Numbers DEF TypeOK
    <3>2. pc'[Main] = "accept"
      BY <1>2, <2>1, Numbers DEF TypeOK
    <3>3. pc' \in [Thread -> {"none", "accept", "push", "pop", "waiting", "handle",
                              "finish", "close"}]
      BY <1>2, <2>1 DEF TypeOK
    <3> QED BY <3>1, <3>2, <3>3
  <2>2. CASE \E w \in Worker : pc[w] = "waiting"
                  /\ pc' = [pc EXCEPT ![Main] = "accept", ![w] = "pop"]
    <3>1. PICK w \in Worker : pc[w] = "waiting"
                 /\ pc' = [pc EXCEPT ![Main] = "accept", ![w] = "pop"]
      BY <2>2
    <3>2. w \in Thread /\ w # Main /\ Main \in Thread
      BY Numbers
    <3>3. pc'[Main] = "accept" /\ pc'[w] = "pop"
      BY <1>2, <3>1, <3>2 DEF TypeOK
    <3>4. \A v \in Worker : v # w => pc'[v] = pc[v]
      BY <1>2, <3>1, <3>2, Numbers DEF TypeOK
    <3>5. pc' \in [Thread -> {"none", "accept", "push", "pop", "waiting", "handle",
                              "finish", "close"}]
      BY <1>2, <3>1 DEF TypeOK
    <3> QED BY <3>1, <3>3, <3>4, <3>5
  <2> QED BY <2>1, <2>2 DEF wq_push
<1>4. fd[Main] \in FD
  BY <1>1, <1>2, Numbers DEF TypeOK, Modes
<1>5. wq \in Seq(FD) /\ Append(wq, fd[Main]) \in Seq(FD)
  BY <1>2, <1>4, AppendElements DEF TypeOK
<1>6. TypeOK'
  BY <1>1, <1>2, <1>3, <1>5, Numbers DEF TypeOK
<1>7. \A t \in Thread : fd'[t] = IF t = Main THEN 0 ELSE fd[t]
  BY <1>1, <1>2 DEF TypeOK
<1>8. Modes'
  BY <1>1, <1>2, <1>3, <1>7, Numbers DEF Modes
<1>9. ASSUME ~FilesPool PROVE OneHand' /\ HandledHeld' /\ closed' \subseteq handled'
  <2>1. OneHand /\ HandledHeld /\ closed \subseteq handled
    BY <1>9 DEF IndInv
  <2>2. Holds(Main, fd[Main]) /\ open[fd[Main]] \in Conn
    <3>1. pc[Main] \in {"push", "handle", "finish"} /\ Main \in Thread
      BY <1>1, Numbers
    <3> QED BY <1>9, <3>1, HeldOpen
  <2>3. fd[Main] \notin ToSet(wq)
    BY <1>4, <2>1, <2>2, Numbers DEF OneHand
  <2>4. \A t \in Thread, e \in FD : Holds(t, e)' <=> Holds(t, e) /\ t # Main
    BY <1>1, <1>3, <1>7, Numbers DEF Holds
  <2>5. ToSet(wq') = ToSet(wq) \cup {fd[Main]}
        /\ (IsInjective(wq) /\ fd[Main] \notin ToSet(wq) => IsInjective(wq'))
    BY <1>1, <1>4, <1>5, AppendElements
  <2>6. \A t \in Thread, e \in FD : Holds(t, e) /\ e = fd[Main] => t = Main
    BY <2>1, <2>2, Numbers DEF OneHand
  <2>7. \A e \in FD : Holds(Main, e) => e = fd[Main]
    BY DEF Holds
  <2>8. OneHand'
    BY <1>1, <2>1, <2>2, <2>3, <2>4, <2>5, <2>6, <2>7, Numbers DEF OneHand
  <2>9. \A t \in Thread : pc'[t] \in {"finish", "close"} => pc'[t] = pc[t]
    BY <1>3, Numbers
  <2>10. HandledHeld'
    BY <1>1, <2>1, <2>4, <2>9 DEF HandledHeld
  <2> QED BY <1>1, <2>1, <2>8, <2>10
<1> QED BY <1>1, <1>6, <1>8, <1>9, Conclude

LEMMA PopStep ==
    ASSUME IndInv, NEW w \in Worker, wq_pop(w)
    PROVE  IndInv'
<1>1. /\ pool' = pool /\ proxy' = proxy /\ wq' = Tail(wq) /\ wq # <<>>
      /\ fd' = [fd EXCEPT ![w] = Head(wq)] /\ open' = open /\ handled' = handled
      /\ arrived' = arrived /\ closed' = closed /\ down' = down
      /\ pc[w] = "pop" /\ pc' = [pc EXCEPT ![w] = "handle"]
      /\ UNCHANGED mode
  BY DEF wq_pop, Goto, mode
<1>2. TypeOK /\ Modes /\ w \in Thread /\ w # Main
  BY Numbers DEF IndInv
<1>3. wq \in Seq(FD) /\ Tail(wq) \in Seq(FD) /\ Head(wq) \in FD /\ Head(wq) \in ToSet(wq)
  BY <1>1, <1>2, TailElements DEF TypeOK
<1>4. TypeOK'
  BY <1>1, <1>2, <1>3 DEF TypeOK
<1>5. fd[w] = 0
  BY <1>1, <1>2 DEF Modes
<1>6. /\ \A t \in Thread : fd'[t] = IF t = w THEN Head(wq) ELSE fd[t]
      /\ \A t \in Thread : pc'[t] = IF t = w THEN "handle" ELSE pc[t]
  BY <1>1, <1>2 DEF TypeOK
<1>7. Modes'
  BY <1>1, <1>2, <1>3, <1>6, Numbers DEF Modes
<1>8. ASSUME ~FilesPool PROVE OneHand' /\ HandledHeld' /\ closed' \subseteq handled'
  <2>1. OneHand /\ HandledHeld /\ closed \subseteq handled
    BY <1>8 DEF IndInv
  <2>2. ToSet(wq') = ToSet(wq) \ {Head(wq)} /\ IsInjective(wq')
    BY <1>1, <1>3, <2>1, TailElements DEF OneHand
  <2>3. ASSUME NEW t \in Thread, NEW e \in FD
        PROVE  Holds(t, e)' <=> Holds(t, e) \/ (t = w /\ e = Head(wq))
    <3>1. CASE t = w
      <4>1. fd'[t] = Head(wq) /\ pc'[t] = "handle" /\ fd[t] # e
        BY <1>5, <1>6, <3>1, Numbers
      <4> QED BY <3>1, <4>1 DEF Holds
    <3>2. CASE t # w
      <4>1. fd'[t] = fd[t] /\ pc'[t] = pc[t]
        BY <1>6, <3>2
      <4> QED BY <1>1, <3>2, <4>1 DEF Holds
    <3> QED BY <3>1, <3>2
  <2>4. \A e \in FD : ~Holds(w, e)
    BY <1>5, Numbers DEF Holds
  <2>5. \A t \in Thread : ~Holds(t, Head(wq))
    BY <1>3, <2>1 DEF OneHand
  <2>6. OneHand'
    <3>1. \A e \in FD : \A t, u \in Thread : Holds(t, e)' /\ Holds(u, e)' => t = u
      BY <2>1, <2>3, <2>4, <2>5 DEF OneHand
    <3>2. \A t \in Thread, e \in FD : Holds(t, e)' => e \notin ToSet(wq')
      BY <2>1, <2>2, <2>3 DEF OneHand
    <3>3. ASSUME NEW e \in FD
          PROVE  open'[e] \in Conn <=> e \in ToSet(wq') \/ \E t \in Thread : Holds(t, e)'
      <4>1. CASE e = Head(wq)
        BY <1>1, <1>2, <1>3, <2>1, <2>3, <4>1 DEF OneHand
      <4>2. CASE e # Head(wq)
        <5>1. \A t \in Thread : Holds(t, e)' <=> Holds(t, e)
          BY <2>3, <4>2
        <5> QED BY <1>1, <2>1, <2>2, <4>2, <5>1 DEF OneHand
      <4> QED BY <4>1, <4>2
    <3> QED BY <2>2, <3>1, <3>2, <3>3 DEF OneHand
  <2>7. HandledHeld'
    BY <1>1, <1>6, <2>1, <2>3 DEF HandledHeld
  <2> QED BY <1>1, <2>1, <2>6, <2>7
<1> QED BY <1>1, <1>4, <1>7, <1>8, Conclude

\* Going to sleep and waking up move no descriptor.
LEMMA WaitStep ==
    ASSUME IndInv, NEW w \in Worker, wq_pop_wait(w) \/ SpuriousWakeup(w)
    PROVE  IndInv'
<1>1. /\ pool' = pool /\ proxy' = proxy /\ wq' = wq /\ fd' = fd /\ open' = open
      /\ handled' = handled /\ arrived' = arrived /\ closed' = closed /\ down' = down
      /\ \E to \in {"waiting", "pop"} : pc' = [pc EXCEPT ![w] = to]
      /\ pc[w] \in {"waiting", "pop"} /\ UNCHANGED mode
  BY DEF wq_pop_wait, SpuriousWakeup, Goto, mode
<1>2. TypeOK /\ Modes /\ w \in Thread /\ w # Main
  BY Numbers DEF IndInv
<1>3. TypeOK'
  BY <1>1, <1>2 DEF TypeOK
<1>4. \A t \in Thread : pc'[t] = pc[t] \/ (t = w /\ pc'[t] \in {"waiting", "pop"})
  <2>1. PICK to \in {"waiting", "pop"} : pc' = [pc EXCEPT ![w] = to]
    BY <1>1
  <2>2. \A t \in Thread : pc'[t] = IF t = w THEN to ELSE pc[t]
    BY <1>2, <2>1 DEF TypeOK
  <2> QED BY <2>2
<1>5. Modes'
  BY <1>1, <1>2, <1>4, Numbers DEF Modes
<1>6. \A t \in Thread, e \in FD : Holds(t, e)' <=> Holds(t, e)
  BY <1>1, <1>4 DEF Holds
<1>7. (OneHand => OneHand') /\ (HandledHeld => HandledHeld')
  BY <1>1, <1>4, <1>6 DEF OneHand, HandledHeld
<1> QED BY <1>1, <1>3, <1>5, <1>7, Conclude DEF IndInv

LEMMA HandleFilesStep ==
    ASSUME IndInv, NEW t \in Thread, HandleFiles(t)
    PROVE  IndInv'
<1>1. /\ pool' = pool /\ proxy' = proxy /\ wq' = wq /\ fd' = fd /\ open' = open
      /\ handled' = handled \cup ({open[fd[t]]} \ {None})
      /\ arrived' = arrived /\ closed' = closed /\ down' = (open[fd[t]] = None)
      /\ pc' = [pc EXCEPT ![t] = "finish"]
      /\ pc[t] = "handle" /\ UNCHANGED mode /\ ~proxy
  BY DEF HandleFiles, Goto, mode
<1>2. TypeOK /\ Modes
  BY DEF IndInv
<1>3. fd[t] \in FD /\ open[fd[t]] \in Conn \cup {None}
  BY <1>1, <1>2, Numbers DEF TypeOK, Modes
<1>4. down' \in BOOLEAN
  BY <1>1
<1>5. TypeOK'
  BY <1>1, <1>2, <1>3, <1>4 DEF TypeOK
<1>6. \A u \in Thread : pc'[u] = IF u = t THEN "finish" ELSE pc[u]
  BY <1>1, <1>2 DEF TypeOK
<1>7. Modes'
  BY <1>1, <1>2, <1>6, Numbers DEF Modes
<1>8. \A u \in Thread, e \in FD : Holds(u, e)' <=> Holds(u, e)
  BY <1>1, <1>6 DEF Holds
<1>9. OneHand => OneHand'
  BY <1>1, <1>8 DEF OneHand
<1>10. ASSUME ~FilesPool PROVE OneHand' /\ HandledHeld' /\ closed' \subseteq handled'
  <2>1. OneHand /\ HandledHeld /\ closed \subseteq handled
    BY <1>10 DEF IndInv
  <2>2. open[fd[t]] \in Conn
    <3>1. pc[t] \in {"push", "handle", "finish"}
      BY <1>1
    <3> QED BY <1>10, <3>1, HeldOpen
  <2>3. open[fd[t]] \in handled' /\ handled \subseteq handled'
    BY <1>1, <2>2, NoneAssumption
  <2>4. \A e \in FD : Holds(t, e) => e = fd[t]
    BY DEF Holds
  <2>5. HandledHeld'
    BY <1>1, <1>6, <1>8, <2>1, <2>3, <2>4 DEF HandledHeld
  <2> QED BY <1>1, <1>9, <2>1, <2>3, <2>5
<1> QED BY <1>1, <1>5, <1>7, <1>10, Conclude

LEMMA HandleProxyStep ==
    ASSUME IndInv, NEW t \in Thread, HandleProxy(t)
    PROVE  IndInv'
<1>1. /\ pool' = pool /\ proxy' = proxy /\ wq' = wq /\ fd' = fd
      /\ open' = [d \in FD |-> IF Free(d) THEN Target ELSE open[d]]
      /\ handled' = handled \cup {open[fd[t]]}
      /\ arrived' = arrived /\ closed' = closed
      /\ down' \in {TRUE, \A d \in FD : open[d] # None}
      /\ pc' = [pc EXCEPT ![t] = "finish"]
      /\ pc[t] = "handle" /\ UNCHANGED mode /\ proxy
  BY DEF HandleProxy, Goto, mode
<1>2. TypeOK /\ Modes /\ ~FilesPool
  BY <1>1 DEF IndInv, FilesPool
<1>3. fd[t] \in FD /\ open[fd[t]] \in Conn
  BY <1>1, <1>2, HeldOpen
<1>4. down' \in BOOLEAN
  BY <1>1
<1>5. \A e \in FD : open'[e] = open[e] \/ (open[e] = None /\ open'[e] = Target)
  <2>1. \A e \in FD : open'[e] = IF Free(e) THEN Target ELSE open[e]
    BY <1>1
  <2>2. \A e \in FD : Free(e) => open[e] = None
    BY DEF Free
  <2> QED BY <2>1, <2>2
<1>6. \A e \in FD : (open'[e] \in Conn <=> open[e] \in Conn)
                    /\ (open[e] \in Conn => open'[e] = open[e])
  BY <1>5, NoneAssumption
<1>7. open' \in [FD -> Conn \cup {Target, None}]
  BY <1>1, <1>2 DEF TypeOK
<1>8. TypeOK'
  BY <1>1, <1>2, <1>3, <1>4, <1>7 DEF TypeOK
<1>9. \A u \in Thread : pc'[u] = IF u = t THEN "finish" ELSE pc[u]
  BY <1>1, <1>2 DEF TypeOK
<1>10. Modes'
  BY <1>1, <1>2, <1>9, Numbers DEF Modes
<1>11. \A u \in Thread, e \in FD : Holds(u, e)' <=> Holds(u, e)
  BY <1>1, <1>9 DEF Holds
<1>12. OneHand /\ HandledHeld /\ closed \subseteq handled
  BY <1>2 DEF IndInv
<1>13. OneHand'
  BY <1>1, <1>6, <1>11, <1>12 DEF OneHand
<1>14. \A e \in FD : Holds(t, e) => e = fd[t]
  BY DEF Holds
<1>15. \A u \in Thread, e \in FD : Holds(u, e) => open'[e] = open[e]
  BY <1>6, <1>12 DEF OneHand
<1>16. HandledHeld'
  BY <1>1, <1>9, <1>11, <1>12, <1>14, <1>15 DEF HandledHeld
<1> QED BY <1>1, <1>8, <1>10, <1>12, <1>13, <1>16, Conclude

LEMMA FinishFilesStep ==
    ASSUME IndInv, NEW t \in Thread, FinishFiles(t)
    PROVE  IndInv'
<1>1. /\ pool' = pool /\ proxy' = proxy /\ wq' = wq /\ fd' = fd
      /\ open' = [open EXCEPT ![fd[t]] = None]
      /\ closed' = closed \cup ({open[fd[t]]} \ {None})
      /\ arrived' = arrived /\ handled' = handled /\ down' = down
      /\ pc' = [pc EXCEPT ![t] = "close"]
      /\ pc[t] = "finish" /\ UNCHANGED mode /\ ~proxy
  BY DEF FinishFiles, Close, Goto, mode
<1>2. TypeOK /\ Modes
  BY DEF IndInv
<1>3. fd[t] \in FD /\ open[fd[t]] \in Conn \cup {None}
  BY <1>1, <1>2, Numbers DEF TypeOK, Modes
<1>4. TypeOK'
  BY <1>1, <1>2, <1>3 DEF TypeOK
<1>5. \A u \in Thread : pc'[u] = IF u = t THEN "close" ELSE pc[u]
  BY <1>1, <1>2 DEF TypeOK
<1>6. \A e \in FD : open'[e] = IF e = fd[t] THEN None ELSE open[e]
  BY <1>1, <1>2 DEF TypeOK
<1>7. Modes'
  <2>1. \A d \in FD : open'[d] # Target
    BY <1>1, <1>2, <1>6, NoneAssumption DEF Modes
  <2>2. pc'[Main] = "close" => open'[fd[Main]] = None \/ pool # {}
    <3>1. CASE t = Main
      BY <1>3, <1>6, <3>1
    <3>2. CASE t # Main
      BY <1>1, <1>2, <3>2, Numbers DEF Modes
    <3> QED BY <3>1, <3>2
  <2> QED BY <1>1, <1>2, <1>5, <2>1, <2>2, Numbers DEF Modes
<1>8. ASSUME ~FilesPool PROVE OneHand' /\ HandledHeld' /\ closed' \subseteq handled'
  <2>1. OneHand /\ HandledHeld /\ closed \subseteq handled
    BY <1>8 DEF IndInv
  <2>2. Holds(t, fd[t]) /\ open[fd[t]] \in Conn /\ open[fd[t]] \in handled
    <3>1. pc[t] \in {"push", "handle", "finish"} /\ pc[t] \in {"finish", "close"}
      BY <1>1
    <3>2. Holds(t, fd[t]) /\ open[fd[t]] \in Conn
      BY <1>8, <3>1, HeldOpen
    <3> QED BY <1>3, <2>1, <3>1, <3>2 DEF HandledHeld
  <2>3. \A u \in Thread, e \in FD : Holds(u, e)' <=> Holds(u, e) /\ u # t
    BY <1>1, <1>5 DEF Holds
  <2>4. \A u \in Thread, e \in FD : Holds(u, e) /\ e = fd[t] => u = t
    BY <1>3, <2>1, <2>2 DEF OneHand
  <2>5. \A e \in FD : Holds(t, e) => e = fd[t]
    BY DEF Holds
  <2>6. fd[t] \notin ToSet(wq)
    BY <1>3, <2>1, <2>2 DEF OneHand
  <2>7. OneHand'
    BY <1>1, <1>6, <2>1, <2>2, <2>3, <2>4, <2>5, <2>6, NoneAssumption DEF OneHand
  <2>8. HandledHeld'
    BY <1>1, <1>5, <1>6, <2>1, <2>3, <2>4 DEF HandledHeld
  <2> QED BY <1>1, <2>1, <2>2, <2>7, <2>8
<1> QED BY <1>1, <1>4, <1>7, <1>8, Conclude

LEMMA FinishProxyStep ==
    ASSUME IndInv, NEW t \in Thread, FinishProxy(t)
    PROVE  IndInv'
<1>1. /\ pool' = pool /\ proxy' = proxy /\ wq' = wq /\ fd' = fd /\ open' = open
      /\ handled' = handled /\ arrived' = arrived /\ closed' = closed /\ down' = down
      /\ pc' = [pc EXCEPT ![t] = "close"]
      /\ pc[t] = "finish" /\ UNCHANGED mode /\ proxy
  BY DEF FinishProxy, Goto, mode
<1>2. TypeOK /\ Modes
  BY DEF IndInv
<1>3. TypeOK'
  BY <1>1, <1>2 DEF TypeOK
<1>4. \A u \in Thread : pc'[u] = IF u = t THEN "close" ELSE pc[u]
  BY <1>1, <1>2 DEF TypeOK
<1>5. Modes'
  BY <1>1, <1>2, <1>4, Numbers DEF Modes
<1>6. \A u \in Thread, e \in FD : Holds(u, e)' <=> Holds(u, e)
  BY <1>1, <1>4 DEF Holds
<1>7. (OneHand => OneHand') /\ (HandledHeld => HandledHeld')
  BY <1>1, <1>4, <1>6 DEF OneHand, HandledHeld
<1> QED BY <1>1, <1>3, <1>5, <1>7, Conclude DEF IndInv

LEMMA CloseAfterStep ==
    ASSUME IndInv, NEW t \in Thread, CloseAfter(t)
    PROVE  IndInv'
<1>1. /\ pool' = pool /\ proxy' = proxy /\ wq' = wq /\ fd' = [fd EXCEPT ![t] = 0]
      /\ open' = [open EXCEPT ![fd[t]] = None]
      /\ closed' = closed \cup ({open[fd[t]]} \ {None})
      /\ arrived' = arrived /\ handled' = handled /\ down' = down
      /\ pc' = [pc EXCEPT ![t] = IF t = Main THEN "accept" ELSE "pop"]
      /\ pc[t] = "close" /\ UNCHANGED mode
  BY DEF CloseAfter, Close, Goto, mode
<1>2. TypeOK /\ Modes
  BY DEF IndInv
<1>3. fd[t] \in FD
  BY <1>1, <1>2, Numbers DEF TypeOK, Modes
<1>4. open[fd[t]] \in Conn \cup {None}
  <2>1. CASE proxy
    BY <1>1, <2>1, HeldOpen DEF FilesPool
  <2>2. CASE ~proxy
    BY <1>2, <1>3, <2>2 DEF TypeOK, Modes
  <2> QED BY <2>1, <2>2
<1>5. TypeOK'
  BY <1>1, <1>2, <1>3, <1>4 DEF TypeOK
<1>6. /\ \A u \in Thread : pc'[u] = IF u = t THEN (IF t = Main THEN "accept" ELSE "pop") ELSE pc[u]
      /\ \A u \in Thread : fd'[u] = IF u = t THEN 0 ELSE fd[u]
      /\ \A e \in FD : open'[e] = IF e = fd[t] THEN None ELSE open[e]
  BY <1>1, <1>2 DEF TypeOK
<1>7. Modes'
  <2>1. ~proxy => \A d \in FD : open'[d] # Target
    BY <1>1, <1>2, <1>6, NoneAssumption DEF Modes
  <2>2. ~ (pc'[Main] = "close" /\ pool = {})
    BY <1>1, <1>2, <1>6, Numbers DEF Modes
  <2> QED BY <1>1, <1>2, <1>6, <2>1, <2>2, Numbers DEF Modes
<1>8. ASSUME ~FilesPool PROVE OneHand' /\ HandledHeld' /\ closed' \subseteq handled'
  <2>1. OneHand /\ HandledHeld /\ closed \subseteq handled
    BY <1>8 DEF IndInv
  <2>2. \A u \in Thread, e \in FD : Holds(u, e)' <=> Holds(u, e) /\ u # t
    <3>1. CASE proxy
      BY <1>1, <1>6, <3>1, Numbers DEF Holds
    <3>2. CASE ~proxy
      BY <1>1, <1>6, <3>2, Numbers DEF Holds
    <3> QED BY <3>1, <3>2
  <2>3. \A u \in Thread, e \in FD : Holds(u, e) /\ e = fd[t] => u = t
    <3>1. CASE proxy
      <4>1. Holds(t, fd[t])
        BY <1>1, <1>8, <3>1, HeldOpen
      <4> QED BY <1>3, <2>1, <4>1 DEF OneHand
    <3>2. CASE ~proxy
      <4>1. open[fd[t]] = None
        BY <1>1, <1>2, <1>8, <3>2, FilesMain DEF Modes
      <4> QED BY <1>3, <1>8, <4>1, FreeUnused, NoneAssumption
    <3> QED BY <3>1, <3>2
  <2>4. fd[t] \notin ToSet(wq) /\ open[fd[t]] \in handled \cup {None}
    <3>1. CASE proxy
      <4>1. Holds(t, fd[t])
        BY <1>1, <1>8, <3>1, HeldOpen
      <4> QED BY <1>1, <1>3, <2>1, <4>1 DEF OneHand, HandledHeld
    <3>2. CASE ~proxy
      <4>1. open[fd[t]] = None
        BY <1>1, <1>2, <1>8, <3>2, FilesMain DEF Modes
      <4> QED BY <1>3, <1>8, <4>1, FreeUnused, NoneAssumption
    <3> QED BY <3>1, <3>2
  <2>5. \A e \in FD : Holds(t, e) => e = fd[t]
    BY DEF Holds
  <2>6. OneHand'
    BY <1>1, <1>6, <2>1, <2>2, <2>3, <2>4, <2>5, NoneAssumption DEF OneHand
  <2>7. HandledHeld'
    BY <1>1, <1>6, <2>1, <2>2, <2>3 DEF HandledHeld
  <2> QED BY <1>1, <2>1, <2>4, <2>6, <2>7
<1> QED BY <1>1, <1>5, <1>7, <1>8, Conclude

\* The inductive invariant holds in every reachable state of the server.
THEOREM ServerInvariant == Spec => []IndInv
<1>1. IndInv /\ [Next]_vars => IndInv'
  <2> SUFFICES ASSUME IndInv, [Next]_vars PROVE IndInv'
    OBVIOUS
  <2>1. CASE UNCHANGED vars
    BY <2>1 DEF vars, mode, IndInv, TypeOK, Modes, OneHand, HandledHeld, Holds,
                FilesPool
  <2> QED
    BY <2>1, AcceptStep, PushStep, PopStep, WaitStep, HandleFilesStep,
       HandleProxyStep, FinishFilesStep, FinishProxyStep, CloseAfterStep DEF Next
<1> QED BY InitInv, <1>1, PTL DEF Spec

-----------------------------------------------------------------------------
\* A descriptor is in one hand, however the queue, the threads and the close
\* calls interleave, and a connection is closed only after its request was
\* handled.
THEOREM DescriptorsCorrect == Spec => []DescriptorsOwned
<1>1. IndInv => DescriptorsOwned
  <2> SUFFICES ASSUME IndInv PROVE DescriptorsOwned
    OBVIOUS
  <2>1. TypeOK /\ ServedBeforeClosed
    BY DEF IndInv, ServedBeforeClosed
  <2>2. ASSUME ~FilesPool, NEW d \in FD
        PROVE  Cardinality({t \in Thread : fd[t] = d /\ (pc[t] = "close" => proxy)})
                 + Cardinality({i \in DOMAIN wq : wq[i] = d})
               = IF open[d] \in Conn THEN 1 ELSE 0
    <3> DEFINE U == {t \in Thread : Holds(t, d)}
               I == {i \in DOMAIN wq : wq[i] = d}
    <3>1. OneHand
      BY <2>2 DEF IndInv
    <3>2. U = {} \/ \E t : U = {t}
      <4>1. \A t, u \in U : t = u
        BY <3>1 DEF OneHand
      <4> QED BY <4>1
    <3>3. I = {} \/ \E i : I = {i}
      <4>1. \A i, j \in I : i = j
        BY <3>1 DEF OneHand, IsInjective
      <4> QED BY <4>1
    <3>4. I # {} <=> d \in ToSet(wq)
      BY DEF ToSet
    <3>5. U # {} => I = {}
      BY <3>1, <3>4 DEF OneHand
    <3>6. open[d] \in Conn <=> U # {} \/ I # {}
      BY <3>1, <3>4 DEF OneHand
    <3>7. U = {t \in Thread : fd[t] = d /\ (pc[t] = "close" => proxy)}
      BY DEF Holds
    <3> HIDE DEF U, I
    <3>8. (U = {} => Cardinality(U) = 0) /\ (U # {} => Cardinality(U) = 1)
      BY <3>2, FS_EmptySet, FS_Singleton
    <3>9. (I = {} => Cardinality(I) = 0) /\ (I # {} => Cardinality(I) = 1)
      BY <3>3, FS_EmptySet, FS_Singleton
    <3>10. Cardinality(U) + Cardinality(I) = IF open[d] \in Conn THEN 1 ELSE 0
      BY <3>5, <3>6, <3>8, <3>9
    <3> QED BY <3>7, <3>10 DEF I
  <2>3. FdOwned
    BY <2>2 DEF FdOwned
  <2> QED BY <2>1, <2>3 DEF DescriptorsOwned
<1> QED BY <1>1, ServerInvariant, PTL

-----------------------------------------------------------------------------
\* The threads about to take the mutex in wq_pop.
Popping == {w \in Worker : pc[w] = "pop"}

LEMMA PoppingFinite == IsFiniteSet(Popping) /\ Cardinality(Popping) \in Nat
BY WorkerAssumption, FS_Subset, FS_CardinalityType DEF Popping

\* A thread that comes to wq_pop, and one that leaves it.
LEMMA PoppingChange ==
    ASSUME NEW w \in Worker
    PROVE  /\ pc[w] # "pop" /\ Popping' = Popping \cup {w} =>
                Cardinality(Popping') = Cardinality(Popping) + 1
           /\ pc[w] = "pop" /\ Popping' = Popping \ {w} =>
                Cardinality(Popping') = Cardinality(Popping) - 1
<1>1. w \in Popping <=> pc[w] = "pop"
  BY DEF Popping
<1> HIDE DEF Popping
<1> QED BY <1>1, PoppingFinite, FS_AddElement, FS_RemoveElement

\* wq_push wakes a thread for each item, if one sleeps, and a thread goes to
\* sleep only on an empty queue: there is never a sleeper with more items
\* than threads on their way to them.
THEOREM NoLostSignal == Spec => []NoSleeperWithWork
<1>1. Init => NoSleeperWithWork
  BY Numbers DEF Init, NoSleeperWithWork
<1>2. IndInv /\ NoSleeperWithWork /\ [Next]_vars => NoSleeperWithWork'
  <2> SUFFICES ASSUME IndInv, NoSleeperWithWork, [Next]_vars
               PROVE  NoSleeperWithWork'
    OBVIOUS
  <2> USE PoppingFinite
  <2>1. TypeOK /\ Modes /\ wq \in Seq(FD) /\ Len(wq) \in Nat
    BY DEF IndInv, TypeOK
  <2>2. (\E w \in Worker : pc[w] = "waiting") => Len(wq) <= Cardinality(Popping)
    BY DEF NoSleeperWithWork, Popping
  <2> SUFFICES ASSUME \E w \in Worker : pc'[w] = "waiting"
               PROVE  Len(wq') <= Cardinality(Popping')
    BY DEF NoSleeperWithWork, Popping
  <2>3. CASE wq_push
    <3>1. \E w \in Worker : pc[w] = "waiting"
      BY <2>1, <2>3, Numbers DEF wq_push, TypeOK
    <3>2. PICK w \in Worker : pc[w] = "waiting"
                /\ pc' = [pc EXCEPT ![Main] = "accept", ![w] = "pop"]
      BY <2>3, <3>1 DEF wq_push
    <3>3. \A v \in Worker : pc'[v] = IF v = w THEN "pop" ELSE pc[v]
      BY <2>1, <3>2, Numbers DEF TypeOK
    <3>4. Popping' = Popping \cup {w}
      BY <3>3 DEF Popping
    <3>5. Cardinality(Popping') = Cardinality(Popping) + 1
      BY <3>2, <3>4, PoppingChange
    <3>6. fd[Main] \in FD
      BY <2>1, <2>3, Numbers DEF wq_push, TypeOK, Modes
    <3>7. Len(wq') = Len(wq) + 1
      BY <2>1, <2>3, <3>6 DEF wq_push
    <3> QED BY <2>1, <2>2, <3>1, <3>5, <3>7
  <2>4. ASSUME NEW w \in Worker, wq_pop(w) PROVE Len(wq') <= Cardinality(Popping')
    <3>1. pc[w] = "pop" /\ pc' = [pc EXCEPT ![w] = "handle"] /\ wq' = Tail(wq) /\ wq # <<>>
      BY <2>4 DEF wq_pop, Goto
    <3>2. \A v \in Worker : pc'[v] = IF v = w THEN "handle" ELSE pc[v]
      BY <2>1, <3>1, Numbers DEF TypeOK
    <3>3. \E v \in Worker : pc[v] = "waiting"
      BY <3>2
    <3>4. Popping' = Popping \ {w}
      BY <3>2 DEF Popping
    <3>5. Cardinality(Popping') = Cardinality(Popping) - 1
      BY <3>1, <3>4, PoppingChange
    <3>6. Len(wq') = Len(wq) - 1
      BY <2>1, <3>1, TailElements
    <3> QED BY <2>1, <2>2, <3>3, <3>5, <3>6
  <2>5. ASSUME NEW w \in Worker, wq_pop_wait(w) PROVE Len(wq') <= Cardinality(Popping')
    <3>1. Len(wq') = 0
      BY <2>5 DEF wq_pop_wait
    <3>2. Cardinality(Popping') \in Nat
      BY PoppingFinite, WorkerAssumption, FS_Subset, FS_CardinalityType DEF Popping
    <3> QED BY <3>1, <3>2
  <2>6. ASSUME NEW w \in Worker, SpuriousWakeup(w) PROVE Len(wq') <= Cardinality(Popping')
    <3>1. pc[w] = "waiting" /\ pc' = [pc EXCEPT ![w] = "pop"] /\ wq' = wq
      BY <2>6 DEF SpuriousWakeup, Goto
    <3>2. \A v \in Worker : pc'[v] = IF v = w THEN "pop" ELSE pc[v]
      BY <2>1, <3>1, Numbers DEF TypeOK
    <3>3. Popping' = Popping \cup {w}
      BY <3>2 DEF Popping
    <3>4. Cardinality(Popping') = Cardinality(Popping) + 1
      BY <3>1, <3>3, PoppingChange
    <3> QED BY <2>1, <2>2, <3>1, <3>4
  <2>7. ASSUME NEW t \in Thread, CloseAfter(t) PROVE Len(wq') <= Cardinality(Popping')
    <3>1. pc[t] = "close" /\ wq' = wq
          /\ pc' = [pc EXCEPT ![t] = IF t = Main THEN "accept" ELSE "pop"]
      BY <2>7 DEF CloseAfter, Goto
    <3>2. CASE t = Main
      <4>1. \A v \in Worker : pc'[v] = pc[v]
        BY <2>1, <3>1, <3>2, Numbers DEF TypeOK
      <4>2. Popping' = Popping
        BY <4>1 DEF Popping
      <4> QED BY <2>2, <3>1, <4>1, <4>2
    <3>3. CASE t \in Worker
      <4>1. \A v \in Worker : pc'[v] = IF v = t THEN "pop" ELSE pc[v]
        BY <2>1, <3>1, <3>3, Numbers DEF TypeOK
      <4>2. Popping' = Popping \cup {t}
        BY <3>3, <4>1 DEF Popping
      <4>3. Cardinality(Popping') = Cardinality(Popping) + 1
        BY <3>1, <3>3, <4>2, PoppingChange
      <4>4. \E v \in Worker : pc[v] = "waiting"
        BY <4>1
      <4> QED BY <2>1, <2>2, <3>1, <4>3, <4>4
    <3> QED BY <3>2, <3>3, Numbers
  <2>8. ASSUME wq' = wq,
               \A v \in Worker : pc'[v] = pc[v]
                                 \/ (pc[v] # "pop" /\ pc'[v] \notin {"pop", "waiting"})
        PROVE  Len(wq') <= Cardinality(Popping')
    <3>1. Popping' = Popping
      BY <2>8 DEF Popping
    <3> QED BY <2>2, <2>8, <3>1
  <2>9. CASE Accept
    <3>1. wq' = wq /\ \A v \in Worker : pc'[v] = pc[v]
      BY <2>1, <2>9, Numbers DEF Accept, Goto, TypeOK
    <3> QED BY <2>8, <3>1
  <2>10. ASSUME NEW t \in Thread,
                HandleFiles(t) \/ FinishFiles(t) \/ HandleProxy(t) \/ FinishProxy(t)
         PROVE  Len(wq') <= Cardinality(Popping')
    <3>1. wq' = wq /\ pc[t] \in {"handle", "finish"}
          /\ \E to \in {"finish", "close"} : pc' = [pc EXCEPT ![t] = to]
      BY <2>10 DEF HandleFiles, FinishFiles, HandleProxy, FinishProxy, Goto
    <3>2. PICK to \in {"finish", "close"} : pc' = [pc EXCEPT ![t] = to]
      BY <3>1
    <3>3. \A v \in Worker : pc'[v] = IF v = t THEN to ELSE pc[v]
      BY <2>1, <3>2, Numbers DEF TypeOK
    <3> QED BY <2>8, <3>1, <3>3
  <2>11. CASE UNCHANGED vars
    BY <2>8, <2>11 DEF vars
  <2> QED
    BY <2>3, <2>4, <2>5, <2>6, <2>7, <2>9, <2>10, <2>11 DEF Next
<1> QED BY <1>1, <1>2, ServerInvariant, PTL DEF Spec

-----------------------------------------------------------------------------
\* The memory allocator of hw3.  A heap whose pointers lead to headers below the
\* break.
Header == [size : Nat, next : Nat, prev : Nat, free : BOOLEAN]
Blocks(h) == DOMAIN h.block
Linked(h) ==
    /\ h = [block |-> h.block, head |-> h.head, end |-> h.end, brk |-> h.brk, byte |-> h.byte]
    /\ h.block \in [Blocks(h) -> Header] /\ IsFiniteSet(Blocks(h)) /\ Blocks(h) \subseteq Nat \ {0}
    /\ h.head \in Blocks(h) \cup {0} /\ h.end \in Blocks(h) \cup {0}
    /\ \A a \in Blocks(h) : /\ a + META_SIZE <= h.brk
                            /\ h.block[a].next \in Blocks(h) \cup {0}
                            /\ h.block[a].prev \in Blocks(h) \cup {0}
    /\ h.brk \in 1 .. HeapMax + 1 /\ h.byte \in [1 .. HeapMax -> Nat]

\* The list has an order, which next follows and prev goes against.
Ranks(h, r) ==
    \A a \in Blocks(h) : /\ r[a] \in Int
                         /\ h.block[a].next # 0 => r[a] < r[h.block[a].next]
                         /\ h.block[a].prev # 0 => r[h.block[a].prev] < r[a]
Ranked(h) == \E r : Ranks(h, r)

\* The blocks do not reach into each other.
Laid(h) ==
    \A a \in Blocks(h) :
        /\ a + META_SIZE + h.block[a].size <= h.brk
        /\ \A b \in Blocks(h) : a < b => a + META_SIZE + h.block[a].size <= b

\* Sets of natural numbers with 0 and every successor have them all.
LEMMA Inductive ==
    ASSUME NEW S, 0 \in S, \A n \in Nat : n \in S => n + 1 \in S
    PROVE  Nat \subseteq S
<1>1. SUFFICES ASSUME Nat \ S # {} PROVE FALSE  OBVIOUS
<1>2. PICK n \in Nat \ S : \A m \in Nat \ S : n <= m  BY <1>1, LeastNatural
<1>3. n # 0 /\ n - 1 \in Nat  BY <1>2
<1>4. n - 1 \in S  BY <1>2, <1>3
<1>5. n - 1 + 1 = n  BY <1>3
<1>6. QED  BY <1>2, <1>3, <1>4, <1>5

\* The walk exists for any number of steps.
LEMMA WalkExists ==
    ASSUME NEW h, NEW N \in Nat
    PROVE  \E at : at = [k \in 0 .. N |-> IF k = 0 THEN h.head
                                          ELSE IF at[k - 1] = 0 THEN 0
                                          ELSE h.block[at[k - 1]].next]
<1> DEFINE Follow(x) == IF x = 0 THEN 0 ELSE h.block[x].next
           Walk(at, n) == at = [k \in 0 .. n |-> IF k = 0 THEN h.head ELSE Follow(at[k - 1])]
           S == {n \in Nat : \E at : Walk(at, n)}
<1>1. 0 \in S
  <2>1. PICK at : at = [k \in 0 .. 0 |-> h.head]  OBVIOUS
  <2>2. Walk(at, 0)
    <3>1. \A k \in 0 .. 0 : k = 0  OBVIOUS
    <3>2. [k \in 0 .. 0 |-> h.head] = [k \in 0 .. 0 |-> IF k = 0 THEN h.head ELSE Follow(at[k - 1])]
      BY <3>1
    <3>3. QED  BY <2>1, <3>2
  <2>3. QED  BY <2>2
<1>2. ASSUME NEW n \in Nat, n \in S PROVE n + 1 \in S
  <2>1. PICK at : Walk(at, n)  BY <1>2
  <2>2. PICK y : y = Follow(at[n])  OBVIOUS
  <2>3. PICK f : f = [k \in 0 .. n + 1 |-> IF k <= n THEN at[k] ELSE y]  OBVIOUS
  <2>4. \A k \in 0 .. n : f[k] = at[k]  BY <2>3
  <2>5. f[n + 1] = y  BY <2>3
  <2>6. \A k \in 0 .. n + 1 : f[k] = IF k = 0 THEN h.head ELSE Follow(f[k - 1])
    <3>1. SUFFICES ASSUME NEW k \in 0 .. n + 1 PROVE f[k] = IF k = 0 THEN h.head ELSE Follow(f[k - 1])  OBVIOUS
    <3>2. CASE k <= n
      <4>1. k \in 0 .. n /\ (k # 0 => k - 1 \in 0 .. n)  BY <3>2
      <4>2. at[k] = IF k = 0 THEN h.head ELSE Follow(at[k - 1])  BY <2>1, <4>1
      <4>3. f[k] = at[k] /\ (k # 0 => f[k - 1] = at[k - 1])  BY <2>4, <4>1
      <4>4. QED  BY <4>2, <4>3
    <3>3. CASE k = n + 1
      <4>1. k # 0 /\ k - 1 = n /\ n \in 0 .. n  BY <3>3
      <4>2. f[n] = at[n]  BY <2>4, <4>1
      <4>3. QED  BY <2>2, <2>5, <3>3, <4>1, <4>2
    <3>4. QED  BY <3>2, <3>3
  <2>7. DOMAIN f = 0 .. n + 1 /\ f = [k \in 0 .. n + 1 |-> f[k]]  BY <2>3
  <2>8. Walk(f, n + 1)  BY <2>6, <2>7
  <2>9. QED  BY <2>8
<1>3. N \in S
  <2> HIDE DEF S
  <2>1. QED  BY <1>1, <1>2, Inductive
<1>4. PICK at : Walk(at, N)  BY <1>3
<1>5. QED  BY <1>4

\* What the walk of mm_malloc finds.
LEMMA FitFound ==
    ASSUME NEW h, Linked(h), NEW n
    PROVE  /\ FirstFit(h, n) \in Blocks(h) \cup {0, -1}
           /\ FirstFit(h, n) \in Blocks(h) =>
                h.block[FirstFit(h, n)].free /\ h.block[FirstFit(h, n)].size >= n
           /\ Ranked(h) => FirstFit(h, n) # -1
<1>1. PICK N \in Nat : N = Cardinality(DOMAIN h.block)
  BY FS_CardinalityType DEF Linked, Blocks
<1> DEFINE Walk(at) == at = [k \in 0 .. N |-> IF k = 0 THEN h.head
                                              ELSE IF at[k - 1] = 0 THEN 0
                                              ELSE h.block[at[k - 1]].next]
<1>2. PICK at : at = CHOOSE f : Walk(f)  OBVIOUS
<1>3. Walk(at)
  <2>1. \E f : Walk(f)  BY WalkExists
  <2> HIDE DEF Walk
  <2>2. QED  BY <1>2, <2>1, Zenon
<1>4. PICK stops : stops = {k \in 0 .. N : at[k] = 0 \/ (h.block[at[k]].free /\ h.block[at[k]].size >= n)}
  OBVIOUS
<1>5. FirstFit(h, n) = IF stops = {} THEN -1 ELSE at[Min(stops)]
  <2> DEFINE Fits(f) == {k \in 0 .. N : f[k] = 0 \/ (/\ h.block[f[k]].free
                                                     /\ h.block[f[k]].size >= n)}
             W == CHOOSE f : Walk(f)
  <2>1. FirstFit(h, n) = IF Fits(W) = {} THEN -1 ELSE W[Min(Fits(W))]
    BY <1>1 DEF FirstFit
  <2>2. Fits(W) = stops /\ W = at  BY <1>2, <1>4, Zenon
  <2> HIDE DEF Fits, W
  <2>3. QED  BY <2>1, <2>2
<1>6. \A k \in 0 .. N : at[k] = IF k = 0 THEN h.head
                                ELSE IF at[k - 1] = 0 THEN 0
                                ELSE h.block[at[k - 1]].next
  BY <1>3
<1> HIDE DEF Walk
<1>7. \A k \in 0 .. N : at[k] \in Blocks(h) \cup {0}
  <2> DEFINE S == {k \in Nat : k <= N => at[k] \in Blocks(h) \cup {0}}
  <2>1. 0 \in S  BY <1>6 DEF Linked
  <2>2. ASSUME NEW k \in Nat, k \in S PROVE k + 1 \in S
    <3>1. SUFFICES ASSUME k + 1 <= N PROVE at[k + 1] \in Blocks(h) \cup {0}  OBVIOUS
    <3>2. at[k] \in Blocks(h) \cup {0} /\ k + 1 \in 0 .. N /\ k + 1 # 0 /\ k + 1 - 1 = k  BY <2>2, <3>1
    <3>3. at[k + 1] = IF at[k] = 0 THEN 0 ELSE h.block[at[k]].next  BY <1>6, <3>2
    <3>4. QED  BY <3>2, <3>3 DEF Linked
  <2>3. Nat \subseteq S
    <3> HIDE DEF S
    <3>1. QED  BY <2>1, <2>2, Inductive
  <2>4. QED  BY <2>3
<1>8. CASE stops # {}
  <2>1. PICK m \in stops : m = Min(stops)
    <3>1. stops \subseteq Nat  BY <1>4
    <3>2. \E x \in stops : \A y \in stops : x <= y  BY <1>8, <3>1, LeastNatural
    <3>3. QED  BY <3>2 DEF Min
  <2>2. m \in 0 .. N /\ (at[m] = 0 \/ (h.block[at[m]].free /\ h.block[at[m]].size >= n))  BY <1>4
  <2>3. FirstFit(h, n) = at[m]  BY <1>5, <1>8, <2>1
  <2>4. at[m] \in Blocks(h) \cup {0}  BY <1>7, <2>2
  <2>5. 0 \notin Blocks(h) /\ -1 \notin Blocks(h) /\ -1 # 0  BY DEF Linked
  <2>6. QED  BY <2>2, <2>3, <2>4, <2>5
<1>9. CASE stops = {}
  <2>1. FirstFit(h, n) = -1 /\ -1 \notin Blocks(h)  BY <1>5, <1>9 DEF Linked
  <2>2. ASSUME NEW r, Ranks(h, r) PROVE FALSE
    <3>1. \A k \in 0 .. N : at[k] \in Blocks(h)  BY <1>4, <1>7, <1>9
    <3>2. 0 \notin Blocks(h)  BY DEF Linked
    <3>3. \A k \in 0 .. N : k > 0 => k - 1 \in 0 .. N /\ at[k] = h.block[at[k - 1]].next /\ at[k] # 0  BY <1>6, <3>1, <3>2
    <3>4. \A k \in 0 .. N : r[at[k]] \in Int  BY <2>2, <3>1 DEF Ranks
    <3>5. \A k \in 0 .. N : k > 0 => r[at[k - 1]] < r[at[k]]
      <4>1. SUFFICES ASSUME NEW k \in 0 .. N, k > 0 PROVE r[at[k - 1]] < r[at[k]]  OBVIOUS
      <4>2. k - 1 \in 0 .. N /\ at[k - 1] \in Blocks(h)  BY <3>1, <4>1
      <4>3. QED  BY <2>2, <3>3, <4>1, <4>2 DEF Ranks
    <3> DEFINE S == {k \in Nat : k <= N => \A i \in 0 .. k : i < k => r[at[i]] < r[at[k]]}
    <3>6. 0 \in S  OBVIOUS
    <3>7. ASSUME NEW k \in Nat, k \in S PROVE k + 1 \in S
      <4>1. SUFFICES ASSUME k + 1 <= N, NEW i \in 0 .. k + 1, i < k + 1 PROVE r[at[i]] < r[at[k + 1]]  OBVIOUS
      <4>2. k + 1 \in 0 .. N /\ k + 1 - 1 = k /\ k \in 0 .. N /\ i \in 0 .. N /\ i \in 0 .. k  BY <4>1
      <4>3. r[at[k]] < r[at[k + 1]]
        <5>1. k + 1 > 0  OBVIOUS
        <5>2. r[at[k + 1 - 1]] < r[at[k + 1]]  BY <3>5, <4>2, <5>1
        <5>3. QED  BY <4>2, <5>2
      <4>4. i = k \/ r[at[i]] < r[at[k]]  BY <3>7, <4>1, <4>2
      <4>5. r[at[i]] \in Int /\ r[at[k]] \in Int /\ r[at[k + 1]] \in Int  BY <3>4, <4>2
      <4>6. QED  BY <4>3, <4>4, <4>5
    <3>8. Nat \subseteq S
      <4> HIDE DEF S
      <4>1. QED  BY <3>6, <3>7, Inductive
    <3>9. \A i, k \in 0 .. N : i < k => at[i] # at[k]
      <4>1. SUFFICES ASSUME NEW i \in 0 .. N, NEW k \in 0 .. N, i < k PROVE at[i] # at[k]  OBVIOUS
      <4>2. r[at[i]] < r[at[k]]
        <5>1. k \in S /\ k <= N /\ i \in 0 .. k  BY <3>8, <4>1
        <5>2. QED  BY <4>1, <5>1
      <4>3. QED  BY <3>4, <4>2
    <3>10. PICK f : f = [k \in 0 .. N |-> at[k]]  OBVIOUS
    <3>11. f \in Injection(0 .. N, Blocks(h))
      <4>1. f \in [0 .. N -> Blocks(h)]  BY <3>1, <3>10
      <4>2. \A i, k \in 0 .. N : f[i] = f[k] => i = k
        <5>1. SUFFICES ASSUME NEW i \in 0 .. N, NEW k \in 0 .. N, f[i] = f[k] PROVE i = k  OBVIOUS
        <5>2. at[i] = at[k]  BY <3>10, <5>1
        <5>3. ~(i < k) /\ ~(k < i)  BY <3>9, <5>2
        <5>4. QED  BY <5>3
      <4>3. QED  BY <4>1, <4>2 DEF Injection, IsInjective
    <3>12. IsFiniteSet(Blocks(h)) /\ Cardinality(Blocks(h)) = N  BY <1>1 DEF Linked, Blocks
    <3>13. Cardinality(0 .. N) <= N  BY <3>11, <3>12, FS_Injection
    <3>14. Cardinality(0 .. N) = N + 1  BY FS_Interval
    <3>15. QED  BY <3>13, <3>14
  <2>3. QED  BY <2>1, <2>2 DEF Ranked
<1>10. QED  BY <1>8, <1>9

\* Two heaps with the same list and the same blocks, apart from who is free and
\* what is in them.
Alike(g, h) ==
    /\ Blocks(g) = Blocks(h) /\ g.brk = h.brk
    /\ \A a \in Blocks(h) : /\ g.block[a].size = h.block[a].size
                            /\ g.block[a].next = h.block[a].next
                            /\ g.block[a].prev = h.block[a].prev

\* What only depends on the list and the blocks.
LEMMA AlikeKeeps ==
    ASSUME NEW g, NEW h, Alike(g, h)
    PROVE  (Laid(h) => Laid(g)) /\ (Ranked(h) => Ranked(g)) /\ Headers(g) = Headers(h)
<1>1. Laid(h) => Laid(g)  BY DEF Alike, Laid
<1>2. Ranked(h) => Ranked(g)  BY DEF Alike, Ranked, Ranks
<1>3. Headers(g) = Headers(h)  BY DEF Alike, Headers, Blocks
<1>4. QED  BY <1>1, <1>2, <1>3

\* A block becomes free, or is taken.
Flagged(h, a, x) == [h EXCEPT !.block[a].free = x]
Flag(g, h, a, x) ==
    /\ Linked(g) /\ Alike(g, h) /\ g.byte = h.byte
    /\ \A b \in Blocks(h) : g.block[b].free = IF b = a THEN x ELSE h.block[b].free

LEMMA FlagSet ==
    ASSUME NEW h, Linked(h), NEW a \in Blocks(h), NEW x \in BOOLEAN
    PROVE  Flag(Flagged(h, a, x), h, a, x)
<1>0. PICK g : g = [h EXCEPT !.block[a].free = x]  OBVIOUS
<1>1. /\ g = [block |-> g.block, head |-> h.head, end |-> h.end, brk |-> h.brk, byte |-> h.byte]
      /\ g.block = [h.block EXCEPT ![a].free = x]
  BY <1>0 DEF Linked
<1>2. g.head = h.head /\ g.end = h.end /\ g.brk = h.brk /\ g.byte = h.byte  BY <1>1
<1>3. Blocks(g) = Blocks(h)  BY <1>1 DEF Linked, Blocks
<1>4. \A b \in Blocks(h) : h.block[b] \in Header /\ g.block[b] = IF b = a THEN [h.block[a] EXCEPT !.free = x] ELSE h.block[b]
  BY <1>1 DEF Linked, Blocks
<1>5. \A b \in Blocks(h) : /\ g.block[b] \in Header /\ g.block[b].size = h.block[b].size
                           /\ g.block[b].next = h.block[b].next /\ g.block[b].prev = h.block[b].prev
                           /\ g.block[b].free = IF b = a THEN x ELSE h.block[b].free
  BY <1>4 DEF Header
<1>6. g.block \in [Blocks(g) -> Header]  BY <1>1, <1>3, <1>5 DEF Linked, Blocks
<1>7. Linked(g)  BY <1>1, <1>2, <1>3, <1>5, <1>6 DEF Linked
<1>8. Alike(g, h)  BY <1>2, <1>3, <1>5 DEF Alike
<1>9. QED  BY <1>0, <1>2, <1>5, <1>7, <1>8 DEF Flag, Flagged

\* increase_mem that takes the new break for an error.
LEMMA BreakMoves ==
    ASSUME NEW h, Linked(h), NEW n \in Nat, h.brk + META_SIZE + n <= HeapMax + 1,
           NEW g, g = [h EXCEPT !.brk = @ + META_SIZE + n]
    PROVE  /\ Linked(g) /\ (Laid(h) => Laid(g)) /\ (Ranked(h) => Ranked(g))
           /\ g.byte = h.byte /\ g.block = h.block
<1>0. META_SIZE \in Nat /\ HeapMax \in Nat /\ h.brk \in Nat /\ h.brk >= 1  BY MmAssumption DEF Linked
<1>1. g = [block |-> h.block, head |-> h.head, end |-> h.end, brk |-> h.brk + META_SIZE + n, byte |-> h.byte]
  BY DEF Linked
<1>2. /\ g.head = h.head /\ g.end = h.end /\ g.brk = h.brk + META_SIZE + n /\ g.byte = h.byte
      /\ g.block = h.block
  BY <1>1
<1>3. Blocks(g) = Blocks(h)  BY <1>2 DEF Blocks
<1>4. g.brk \in 1 .. HeapMax + 1  BY <1>0, <1>2
<1>5. \A a \in Blocks(h) : a \in Nat /\ h.block[a].size \in Nat
  BY DEF Linked, Header
<1>6. \A a \in Blocks(h) : a + META_SIZE <= h.brk => a + META_SIZE <= g.brk  BY <1>0, <1>2, <1>5
<1>7. Linked(g)
  <2>1. g.brk = g.brk /\ g = [block |-> g.block, head |-> g.head, end |-> g.end, brk |-> g.brk, byte |-> g.byte]
    BY <1>1, <1>2
  <2>2. QED  BY <1>2, <1>3, <1>4, <1>6, <2>1 DEF Linked
<1>8. Laid(h) => Laid(g)
  <2>1. \A a \in Blocks(h) : a + META_SIZE + h.block[a].size <= h.brk => a + META_SIZE + h.block[a].size <= g.brk
    BY <1>0, <1>2, <1>5
  <2>2. QED  BY <1>2, <1>3, <2>1 DEF Laid
<1>9. Ranked(h) => Ranked(g)  BY <1>2, <1>3 DEF Ranked, Ranks
<1>10. QED  BY <1>2, <1>7, <1>8, <1>9

\* increase_mem with a new block.
LEMMA AppendNew ==
    ASSUME NEW h, Linked(h), NEW n \in Nat, h.brk + META_SIZE + n <= HeapMax + 1,
           NEW g, g = Appended(h, n)
    PROVE  /\ Linked(g) /\ (Laid(h) => Laid(g)) /\ (Ranked(h) => Ranked(g)) /\ g.byte = h.byte
           /\ Blocks(g) = Blocks(h) \cup {h.brk} /\ h.brk \notin Blocks(h)
           /\ g.block[h.brk].size = n /\ ~g.block[h.brk].free
           /\ \A a \in Blocks(h) : g.block[a].size = h.block[a].size /\ g.block[a].free = h.block[a].free
<1>0. META_SIZE \in Nat /\ META_SIZE > 0 /\ HeapMax \in Nat /\ h.brk \in Nat /\ h.brk >= 1
  <2>1. META_SIZE \in Nat /\ META_SIZE > 0 /\ HeapMax \in Nat  BY MmAssumption
  <2>2. h.brk \in 1 .. HeapMax + 1  BY DEF Linked
  <2>3. QED  BY <2>1, <2>2
<1>1. PICK new, D : new = h.brk /\ D = Blocks(h)  OBVIOUS
<1>2. \A a \in D : /\ a \in Nat /\ a # 0 /\ a + META_SIZE <= new /\ h.block[a] \in Header
                   /\ h.block[a].next \in D \cup {0} /\ h.block[a].prev \in D \cup {0}
  BY <1>1 DEF Linked
<1>3. new \notin D /\ new \in Nat /\ new # 0 /\ IsFiniteSet(D) /\ h.end \in D \cup {0} /\ h.head \in D \cup {0}
  BY <1>0, <1>1, <1>2 DEF Linked
<1>4. PICK head : head = [size |-> n, next |-> 0, prev |-> h.end, free |-> FALSE]  OBVIOUS
<1>5. PICK b : b = [a \in D \cup {new} |->
                     IF a = new THEN head
                     ELSE IF a = h.end THEN [h.block[a] EXCEPT !.next = new]
                     ELSE h.block[a]]
  OBVIOUS
<1>6. g = [h EXCEPT !.block = b, !.brk = new + META_SIZE + n, !.end = new, !.head = IF @ = 0 THEN new ELSE @]
  BY <1>1, <1>4, <1>5 DEF Appended, Blocks
<1>7. g = [block |-> b, head |-> (IF h.head = 0 THEN new ELSE h.head), end |-> new, brk |-> new + META_SIZE + n, byte |-> h.byte]
  BY <1>6 DEF Linked
<1>8. /\ g.block = b /\ g.head = (IF h.head = 0 THEN new ELSE h.head) /\ g.end = new
      /\ g.brk = new + META_SIZE + n /\ g.byte = h.byte
  BY <1>7
<1>9. Blocks(g) = D \cup {new}  BY <1>5, <1>8 DEF Blocks
<1>10. \A a \in D : /\ b[a] \in Header /\ b[a].size = h.block[a].size /\ b[a].free = h.block[a].free
                    /\ b[a].prev = h.block[a].prev
                    /\ b[a].next = IF a = h.end THEN new ELSE h.block[a].next
  <2>1. SUFFICES ASSUME NEW a \in D
                 PROVE  /\ b[a] \in Header /\ b[a].size = h.block[a].size /\ b[a].free = h.block[a].free
                        /\ b[a].prev = h.block[a].prev
                        /\ b[a].next = IF a = h.end THEN new ELSE h.block[a].next
    OBVIOUS
  <2>2. b[a] = IF a = h.end THEN [h.block[a] EXCEPT !.next = new] ELSE h.block[a]  BY <1>3, <1>5
  <2>3. h.block[a] \in Header  BY <1>2
  <2>4. QED  BY <1>3, <2>2, <2>3 DEF Header
<1>11. b[new] = head /\ head \in Header /\ head.size = n /\ head.next = 0 /\ head.prev = h.end /\ head.free = FALSE
  <2>1. h.end \in Nat  BY <1>2, <1>3
  <2>2. QED  BY <1>4, <1>5, <2>1 DEF Header
<1>12. Linked(g)
  <2>1. g = [block |-> g.block, head |-> g.head, end |-> g.end, brk |-> g.brk, byte |-> g.byte]  BY <1>7, <1>8
  <2>2. g.block \in [Blocks(g) -> Header]  BY <1>5, <1>8, <1>9, <1>10, <1>11
  <2>3. IsFiniteSet(Blocks(g)) /\ Blocks(g) \subseteq Nat \ {0}  BY <1>2, <1>3, <1>9, FS_AddElement
  <2>4. g.head \in Blocks(g) \cup {0} /\ g.end \in Blocks(g) \cup {0}  BY <1>3, <1>8, <1>9
  <2>5. g.brk \in 1 .. HeapMax + 1 /\ g.byte \in [1 .. HeapMax -> Nat]
    <3>1. g.brk \in 1 .. HeapMax + 1  BY <1>0, <1>1, <1>8
    <3>2. QED  BY <1>8, <3>1 DEF Linked
  <2>6. \A a \in Blocks(g) : a + META_SIZE <= g.brk
    <3>1. \A a \in D : a \in Nat /\ a + META_SIZE <= new  BY <1>2
    <3>2. QED  BY <1>0, <1>3, <1>8, <1>9, <3>1
  <2>7. \A a \in Blocks(g) : g.block[a].next \in Blocks(g) \cup {0} /\ g.block[a].prev \in Blocks(g) \cup {0}
    BY <1>2, <1>3, <1>8, <1>9, <1>10, <1>11
  <2>8. QED  BY <2>1, <2>2, <2>3, <2>4, <2>5, <2>6, <2>7 DEF Linked
<1>13. ASSUME Laid(h) PROVE Laid(g)
  <2>1. \A a \in D : h.block[a].size \in Nat /\ a + META_SIZE + h.block[a].size <= new  BY <1>1, <1>2, <1>13 DEF Laid, Header
  <2>2. \A a \in D : a + META_SIZE + h.block[a].size <= new + META_SIZE + n  BY <1>0, <1>2, <1>3, <2>1
  <2>3. \A a \in D : a < new /\ ~(new < a)
    <3>1. \A a \in D : a \in Nat /\ a + META_SIZE <= new  BY <1>2
    <3>2. QED  BY <1>0, <1>3, <3>1
  <2>4. SUFFICES ASSUME NEW a \in D \cup {new}
                 PROVE  /\ a + META_SIZE + b[a].size <= new + META_SIZE + n
                        /\ \A c \in D \cup {new} : a < c => a + META_SIZE + b[a].size <= c
    BY <1>8, <1>9 DEF Laid
  <2>5. CASE a \in D  BY <1>1, <1>10, <1>13, <2>1, <2>2, <2>5 DEF Laid
  <2>6. CASE a = new
    <3>1. a + META_SIZE + b[a].size = new + META_SIZE + n  BY <1>11, <2>6
    <3>2. \A c \in D \cup {new} : ~(a < c)  BY <1>3, <2>3, <2>6
    <3>3. new + META_SIZE + n \in Int  BY <1>0, <1>3
    <3>4. QED  BY <3>1, <3>2, <3>3
  <2>7. QED  BY <2>4, <2>5, <2>6
<1>14. ASSUME NEW r, Ranks(h, r) PROVE Ranked(g)
  <2>1. \A a \in D : r[a] \in Int  BY <1>1, <1>14 DEF Ranks
  <2>2. PICK m \in Int : \A a \in D : r[a] <= m
    <3>1. PICK T : T = {r[a] : a \in D}  OBVIOUS
    <3>2. T \subseteq Int  BY <2>1, <3>1
    <3>3. IsFiniteSet(T)
      <4>1. PICK f : f = [a \in D |-> r[a]]  OBVIOUS
      <4>2. f \in [D -> T] /\ \A t \in T : \E a \in D : f[a] = t  BY <3>1, <4>1
      <4>3. f \in Surjection(D, T)  BY <4>2 DEF Surjection
      <4>4. QED  BY <1>3, <4>3, FS_Surjection
    <3>4. QED  BY <3>1, <3>2, <3>3, FiniteBounded
  <2>3. PICK q : q = [a \in D \cup {new} |-> IF a = new THEN m + 1 ELSE r[a]]  OBVIOUS
  <2>4. q[new] = m + 1 /\ \A a \in D : q[a] = r[a] /\ q[a] < q[new] /\ q[a] \in Int
    <3>1. \A a \in D : q[a] = r[a]  BY <1>3, <2>3
    <3>2. QED  BY <2>1, <2>2, <2>3, <3>1
  <2>5. \A a \in D : /\ h.block[a].next # 0 => r[a] < r[h.block[a].next]
                     /\ h.block[a].prev # 0 => r[h.block[a].prev] < r[a]
    BY <1>1, <1>14 DEF Ranks
  <2>6. \A a \in D : /\ b[a].next # 0 => q[a] < q[b[a].next]
                     /\ b[a].prev # 0 => q[b[a].prev] < q[a]
    BY <1>2, <1>10, <2>4, <2>5
  <2>7. b[new].next = 0 /\ (b[new].prev # 0 => q[b[new].prev] < q[new]) /\ q[new] \in Int
    BY <1>3, <1>11, <2>2, <2>4
  <2>8. Ranks(g, q)  BY <1>8, <1>9, <2>4, <2>6, <2>7 DEF Ranks
  <2>9. QED  BY <2>8 DEF Ranked
<1>15. QED  BY <1>1, <1>3, <1>8, <1>9, <1>10, <1>11, <1>12, <1>13, <1>14 DEF Ranked

\* split: the list gets a new header, which keeps its order.
LEMMA SplitStep ==
    ASSUME NEW h, Linked(h), NEW start \in Blocks(h), NEW s \in Nat, NEW r, r = split(h, start, s)
    PROVE  /\ r.how \in {"ok", "wild"} /\ r.did = {"split"} /\ r.ret = start
           /\ r.how = "ok" => /\ Linked(r.h) /\ (Ranked(h) => Ranked(r.h)) /\ Blocks(h) \subseteq Blocks(r.h)
<1>0. /\ META_SIZE \in Nat /\ META_SIZE > 0 /\ PointerSize \in Nat /\ SizeWrap \in Nat /\ SizeWrap > 0
      /\ h.brk \in Nat
  <2>1. META_SIZE \in Nat /\ META_SIZE > 0 /\ PointerSize \in Nat /\ SizeWrap \in Nat /\ HeapMax \in Nat  BY MmAssumption
  <2>2. SizeWrap > HeapMax + (2 * META_SIZE)  BY MmAssumption
  <2>3. SizeWrap > 0  BY <2>1, <2>2
  <2>4. h.brk \in Nat  BY <2>1 DEF Linked
  <2>5. QED  BY <2>1, <2>3, <2>4
<1>1. PICK D, old, middle : D = Blocks(h) /\ old = h.block[start] /\ middle = start + META_SIZE + (PointerSize * s)  OBVIOUS
<1>2. PICK rest : rest = [next |-> old.next, prev |-> start, free |-> TRUE, size |-> (s - s - (2 * META_SIZE)) % SizeWrap]
  OBVIOUS
<1>3. PICK cut : cut = [a \in D \cup {middle} |->
                  IF a = middle THEN rest
                  ELSE IF a = start THEN [old EXCEPT !.size = s, !.next = middle]
                  ELSE h.block[a]]
  OBVIOUS
<1>4. r = IF Bytes(middle, META_SIZE) \cap Headers(h) = {} /\ middle + META_SIZE <= h.brk
          THEN Result([h EXCEPT !.block = cut], start, "ok", {"split"})
          ELSE Result(h, start, "wild", {"split"})
  BY <1>1, <1>2, <1>3 DEF split, Blocks
<1>5. r.how \in {"ok", "wild"} /\ r.did = {"split"} /\ r.ret = start  BY <1>4 DEF Result
<1>6. SUFFICES ASSUME r.how = "ok"
               PROVE  Linked(r.h) /\ (Ranked(h) => Ranked(r.h)) /\ Blocks(h) \subseteq Blocks(r.h)
  BY <1>5
<1>7. Bytes(middle, META_SIZE) \cap Headers(h) = {} /\ middle + META_SIZE <= h.brk /\ r.h = [h EXCEPT !.block = cut]
  BY <1>4, <1>6 DEF Result
<1>8. PICK g : g = r.h  OBVIOUS
<1>9. g = [block |-> cut, head |-> h.head, end |-> h.end, brk |-> h.brk, byte |-> h.byte]
  BY <1>7, <1>8 DEF Linked
<1>10. g.block = cut /\ g.head = h.head /\ g.end = h.end /\ g.brk = h.brk /\ g.byte = h.byte  BY <1>9
<1>11. Blocks(g) = D \cup {middle}  BY <1>3, <1>10 DEF Blocks
<1>12. /\ start \in D /\ old \in Header /\ old.next \in D \cup {0} /\ D \subseteq Nat \ {0} /\ IsFiniteSet(D)
  BY <1>1 DEF Linked
<1>13. middle \in Nat /\ middle # 0
  <2>1. PointerSize * s \in Nat  BY <1>0
  <2>2. QED  BY <1>0, <1>1, <1>12, <2>1
<1>14. middle \notin D
  <2>1. SUFFICES ASSUME middle \in D PROVE FALSE  OBVIOUS
  <2>2. middle \in Bytes(middle, META_SIZE)  BY <1>0, <1>13 DEF Bytes
  <2>3. Bytes(middle, META_SIZE) \subseteq Headers(h)  BY <1>1, <2>1 DEF Headers, Blocks
  <2>4. QED  BY <1>7, <2>2, <2>3
<1>15. /\ cut[middle] = rest /\ rest \in Header /\ rest.next = old.next /\ rest.prev = start
  <2>1. (s - s - (2 * META_SIZE)) % SizeWrap \in Nat  BY <1>0
  <2>2. old.next \in Nat /\ start \in Nat  BY <1>12 DEF Header
  <2>3. QED  BY <1>2, <1>3, <2>1, <2>2 DEF Header
<1>16. \A a \in D : /\ cut[a] \in Header /\ cut[a].prev = h.block[a].prev
                    /\ cut[a].next = IF a = start THEN middle ELSE h.block[a].next
  <2>1. SUFFICES ASSUME NEW a \in D
                 PROVE  /\ cut[a] \in Header /\ cut[a].prev = h.block[a].prev
                        /\ cut[a].next = IF a = start THEN middle ELSE h.block[a].next
    OBVIOUS
  <2>2. cut[a] = IF a = start THEN [old EXCEPT !.size = s, !.next = middle] ELSE h.block[a]  BY <1>3, <1>14
  <2>3. h.block[a] \in Header  BY <1>1 DEF Linked
  <2>4. QED  BY <1>1, <1>12, <1>13, <2>2, <2>3 DEF Header
<1>17. Linked(g)
  <2>1. g = [block |-> g.block, head |-> g.head, end |-> g.end, brk |-> g.brk, byte |-> g.byte]  BY <1>9, <1>10
  <2>2. g.block \in [Blocks(g) -> Header]  BY <1>3, <1>10, <1>11, <1>15, <1>16
  <2>3. IsFiniteSet(Blocks(g)) /\ Blocks(g) \subseteq Nat \ {0}  BY <1>11, <1>12, <1>13, FS_AddElement
  <2>4. g.head \in Blocks(g) \cup {0} /\ g.end \in Blocks(g) \cup {0}  BY <1>1, <1>10, <1>11 DEF Linked
  <2>5. g.brk \in 1 .. HeapMax + 1 /\ g.byte \in [1 .. HeapMax -> Nat]  BY <1>10 DEF Linked
  <2>6. \A a \in Blocks(g) : a + META_SIZE <= g.brk  BY <1>1, <1>7, <1>10, <1>11 DEF Linked
  <2>7. \A a \in D : h.block[a].next \in D \cup {0} /\ h.block[a].prev \in D \cup {0}  BY <1>1 DEF Linked
  <2>8. \A a \in Blocks(g) : g.block[a].next \in Blocks(g) \cup {0} /\ g.block[a].prev \in Blocks(g) \cup {0}
    BY <1>10, <1>11, <1>12, <1>15, <1>16, <2>7
  <2>9. QED  BY <2>1, <2>2, <2>3, <2>4, <2>5, <2>6, <2>8 DEF Linked
<1>18. ASSUME NEW q, Ranks(h, q) PROVE Ranked(g)
  <2>1. \A a \in D : /\ q[a] \in Int
                     /\ h.block[a].next \in D \cup {0} /\ h.block[a].prev \in D \cup {0}
                     /\ h.block[a].next # 0 => q[a] < q[h.block[a].next]
                     /\ h.block[a].prev # 0 => q[h.block[a].prev] < q[a]
    BY <1>1, <1>18 DEF Ranks, Linked
  <2>2. PICK x : x = [a \in D \cup {middle} |-> IF a = middle THEN 2 * q[start] + 1 ELSE 2 * q[a]]  OBVIOUS
  <2>3. x[middle] = 2 * q[start] + 1 /\ \A a \in D : x[a] = 2 * q[a]  BY <1>14, <2>2
  <2>4. x[middle] \in Int /\ \A a \in D : x[a] \in Int  BY <1>12, <2>1, <2>3
  <2>5. \A a, b \in D : q[a] < q[b] => x[a] < x[b]  BY <2>1, <2>3
  <2>6. x[start] < x[middle] /\ \A b \in D : q[start] < q[b] => x[middle] < x[b]  BY <1>12, <2>1, <2>3
  <2>7. \A a \in D : /\ cut[a].next # 0 => x[a] < x[cut[a].next]
                     /\ cut[a].prev # 0 => x[cut[a].prev] < x[a]
    BY <1>16, <2>1, <2>5, <2>6
  <2>8. /\ cut[middle].next # 0 => x[middle] < x[cut[middle].next]
        /\ cut[middle].prev # 0 => x[cut[middle].prev] < x[middle]
    BY <1>1, <1>12, <1>15, <2>1, <2>6
  <2>9. Ranks(g, x)  BY <1>10, <1>11, <2>4, <2>7, <2>8 DEF Ranks
  <2>10. QED  BY <2>9 DEF Ranked
<1>19. QED  BY <1>1, <1>8, <1>11, <1>17, <1>18 DEF Ranked

\* What mm_malloc of n bytes may do to a heap.
Got(h, r) ==
    /\ r.how \in {"ok", "hung", "wild"} /\ r.did \in {{}, {"split"}}
    /\ r.how = "wild" => r.did = {"split"}
    /\ r.how = "hung" => r.h = h /\ ~Ranked(h) /\ r.did = {}
    /\ r.how = "ok" =>
         /\ Linked(r.h) /\ (Ranked(h) => Ranked(r.h))
         /\ Blocks(h) \subseteq Blocks(r.h) /\ r.ret \in Blocks(r.h) \cup {0}

\* And when it splits no block.
Whole(h, n, r) ==
    /\ (Laid(h) => Laid(r.h)) /\ r.h.byte = h.byte
    /\ \A a \in Blocks(h) : /\ r.h.block[a].size = h.block[a].size
                            /\ a # r.ret => r.h.block[a].free = h.block[a].free
    /\ r.ret # 0 => /\ r.h.block[r.ret].size >= n /\ ~r.h.block[r.ret].free
                    /\ r.ret \in Blocks(h) => h.block[r.ret].free

LEMMA MallocStep ==
    ASSUME NEW h, Linked(h), NEW n \in Nat, NEW r, r = mm_malloc(h, n)
    PROVE  Got(h, r) /\ (r.how = "ok" /\ r.did = {} => Whole(h, n, r))
<1>0. PICK a : a = FirstFit(h, n)  OBVIOUS
<1>1. /\ a \in Blocks(h) \cup {0, -1} /\ (Ranked(h) => a # -1)
      /\ a \in Blocks(h) => h.block[a].free /\ h.block[a].size >= n
  BY <1>0, FitFound
<1>2. 0 \notin Blocks(h) /\ -1 \notin Blocks(h) /\ -1 # 0  BY DEF Linked
<1>3. r = IF n = 0 THEN Result(h, 0, "ok", {})
          ELSE IF a = -1 THEN Result(h, 0, "hung", {})
          ELSE IF a = 0 THEN increase_mem(h, n)
          ELSE IF h.block[a].size > n + (2 * META_SIZE) THEN split(h, a, n)
          ELSE TakeWhole(h, a)
  BY <1>0 DEF mm_malloc
<1>4. CASE r = Result(h, 0, "ok", {})
  <2>1. r.h = h /\ r.ret = 0 /\ r.how = "ok" /\ r.did = {}  BY <1>4 DEF Result
  <2>2. QED  BY <2>1 DEF Got, Whole
<1>5. CASE n # 0 /\ a = -1
  <2>1. r.h = h /\ r.ret = 0 /\ r.how = "hung" /\ r.did = {}  BY <1>3, <1>5 DEF Result
  <2>2. QED  BY <1>1, <1>5, <2>1 DEF Got
<1>6. CASE n # 0 /\ a = 0 /\ r = increase_mem(h, n) /\ r # Result(h, 0, "ok", {})
  <2>0. META_SIZE \in Nat /\ h.brk \in Nat /\ HeapMax \in Nat /\ h.brk # 0  BY MmAssumption DEF Linked
  <2>1. h.brk + META_SIZE + n <= HeapMax + 1  BY <1>6, <2>0 DEF increase_mem
  <2>2. CASE r = Result([h EXCEPT !.brk = @ + META_SIZE + n], 0, "ok", {})
    <3>1. PICK g : g = [h EXCEPT !.brk = @ + META_SIZE + n]  OBVIOUS
    <3>2. r.h = g /\ r.ret = 0 /\ r.how = "ok" /\ r.did = {}  BY <2>2, <3>1 DEF Result
    <3>3. Linked(g) /\ (Laid(h) => Laid(g)) /\ (Ranked(h) => Ranked(g)) /\ g.byte = h.byte /\ g.block = h.block
      BY <2>1, <3>1, BreakMoves
    <3>4. QED  BY <3>2, <3>3 DEF Got, Whole, Blocks
  <2>3. CASE r = Result(Appended(h, n), h.brk, "ok", {})
    <3>1. PICK g : g = Appended(h, n)  OBVIOUS
    <3>2. r.h = g /\ r.ret = h.brk /\ r.how = "ok" /\ r.did = {}  BY <2>3, <3>1 DEF Result
    <3>3. /\ Linked(g) /\ (Laid(h) => Laid(g)) /\ (Ranked(h) => Ranked(g)) /\ g.byte = h.byte
          /\ Blocks(g) = Blocks(h) \cup {h.brk} /\ h.brk \notin Blocks(h)
          /\ g.block[h.brk].size = n /\ ~g.block[h.brk].free
          /\ \A b \in Blocks(h) : g.block[b].size = h.block[b].size /\ g.block[b].free = h.block[b].free
      BY <2>1, <3>1, AppendNew
    <3>4. QED  BY <3>2, <3>3 DEF Got, Whole
  <2>4. QED  BY <1>6, <2>1, <2>0, <2>2, <2>3 DEF increase_mem
<1>7. CASE a \in Blocks(h) /\ r = split(h, a, n)
  <2>1. /\ r.how \in {"ok", "wild"} /\ r.did = {"split"} /\ r.ret = a
        /\ r.how = "ok" => /\ Linked(r.h) /\ (Ranked(h) => Ranked(r.h)) /\ Blocks(h) \subseteq Blocks(r.h)
    BY <1>7, SplitStep
  <2>2. QED  BY <1>7, <2>1 DEF Got
<1>8. CASE a \in Blocks(h) /\ r = TakeWhole(h, a)
  <2>1. PICK g : g = [h EXCEPT !.block[a].free = FALSE]  OBVIOUS
  <2>2. r.h = g /\ r.ret = a /\ r.how = "ok" /\ r.did = {}  BY <1>8, <2>1 DEF Result, TakeWhole
  <2>3. /\ Linked(g) /\ Alike(g, h) /\ g.byte = h.byte
        /\ \A b \in Blocks(h) : g.block[b].free = IF b = a THEN FALSE ELSE h.block[b].free
    <3>1. g = Flagged(h, a, FALSE)  BY <2>1 DEF Flagged
    <3>2. Flag(Flagged(h, a, FALSE), h, a, FALSE)  BY <1>8, FlagSet, Zenon
    <3>3. QED  BY <3>1, <3>2 DEF Flag
  <2>4. (Laid(h) => Laid(g)) /\ (Ranked(h) => Ranked(g))  BY <2>3, AlikeKeeps
  <2>5. Blocks(g) = Blocks(h) /\ \A b \in Blocks(h) : g.block[b].size = h.block[b].size  BY <2>3 DEF Alike
  <2>6. Got(h, r)  BY <1>8, <2>2, <2>3, <2>4, <2>5 DEF Got
  <2>7. Whole(h, n, r)  BY <1>1, <1>8, <2>2, <2>3, <2>4, <2>5 DEF Whole
  <2>8. QED  BY <2>6, <2>7
<1>9. QED  BY <1>1, <1>2, <1>3, <1>4, <1>5, <1>6, <1>7, <1>8

\* Bytes that hold no header, below the break.
Plain(h, a, n) == Bytes(a, n) \cap Headers(h) = {} /\ a + n <= h.brk

\* A store of f in n bytes from a.
Written(g, h, a, n, f) ==
    /\ Linked(g) /\ g.block = h.block /\ g.brk = h.brk
    /\ \A b \in 1 .. HeapMax : g.byte[b] = IF b \in Bytes(a, n) THEN f[b] ELSE h.byte[b]
Stored(z, h, a, n, f) ==
    /\ z.how \in {"ok", "wild"} /\ (z.how = "ok" => Written(z.h, h, a, n, f))
    /\ Plain(h, a, n) => z.how = "ok"

LEMMA StoreStep ==
    ASSUME NEW h, Linked(h), NEW a, NEW n, NEW f,
           \A b \in 1 .. HeapMax : b \in Bytes(a, n) => f[b] \in Nat, NEW z,
           z = IF Plain(h, a, n)
               THEN [h |-> [h EXCEPT !.byte = [b \in DOMAIN @ |-> IF b \in Bytes(a, n) THEN f[b] ELSE @[b]]],
                     how |-> "ok"]
               ELSE [h |-> h, how |-> "wild"]
    PROVE  Stored(z, h, a, n, f)
<1>1. z.how \in {"ok", "wild"} /\ (Plain(h, a, n) => z.how = "ok")  OBVIOUS
<1>2. SUFFICES ASSUME Plain(h, a, n) PROVE Written(z.h, h, a, n, f)
  <2>1. ~Plain(h, a, n) => z.how = "wild"  OBVIOUS
  <2>2. QED  BY <1>1, <2>1 DEF Stored
<1>3. h.byte \in [1 .. HeapMax -> Nat]  BY DEF Linked
<1>4. PICK c : c = [b \in 1 .. HeapMax |-> IF b \in Bytes(a, n) THEN f[b] ELSE h.byte[b]]  OBVIOUS
<1>5. PICK g : g = z.h  OBVIOUS
<1>6. g = [h EXCEPT !.byte = c]
  <2>1. DOMAIN h.byte = 1 .. HeapMax  BY <1>3
  <2>2. g = [h EXCEPT !.byte = [b \in DOMAIN h.byte |-> IF b \in Bytes(a, n) THEN f[b] ELSE h.byte[b]]]
    BY <1>2, <1>5 DEF Linked
  <2>3. QED  BY <1>4, <2>1, <2>2
<1>7. g = [block |-> h.block, head |-> h.head, end |-> h.end, brk |-> h.brk, byte |-> c]  BY <1>6 DEF Linked
<1>8. g.block = h.block /\ g.head = h.head /\ g.end = h.end /\ g.brk = h.brk /\ g.byte = c  BY <1>7
<1>9. c \in [1 .. HeapMax -> Nat]  BY <1>3, <1>4
<1>10. Blocks(g) = Blocks(h)  BY <1>8 DEF Blocks
<1>11. g = [block |-> g.block, head |-> g.head, end |-> g.end, brk |-> g.brk, byte |-> g.byte]  BY <1>7, <1>8
<1>12. Linked(g)  BY <1>8, <1>9, <1>10, <1>11 DEF Linked
<1>13. QED  BY <1>4, <1>5, <1>8, <1>12 DEF Written

\* A store leaves the list as it was.
LEMMA WrittenAlike ==
    ASSUME NEW g, NEW h, NEW a, NEW n, NEW f, Written(g, h, a, n, f)
    PROVE  Alike(g, h) /\ \A b \in Blocks(h) : g.block[b].free = h.block[b].free
  BY DEF Written, Alike, Blocks

\* The bytes of a block are plain.
LEMMA PlainInside ==
    ASSUME NEW h, Linked(h), Laid(h), NEW a \in Blocks(h), NEW m \in Nat, m <= h.block[a].size
    PROVE  Plain(h, a + META_SIZE, m)
<1>0. META_SIZE \in Nat  BY MmAssumption
<1>1. a \in Nat /\ h.block[a].size \in Nat /\ h.brk \in Nat /\ a + META_SIZE + h.block[a].size <= h.brk
  BY DEF Linked, Laid, Header
<1>2. ASSUME NEW x \in Bytes(a + META_SIZE, m), x \in Headers(h) PROVE FALSE
  <2>1. PICK b \in Blocks(h) : x \in Bytes(b, META_SIZE)  BY <1>2 DEF Headers, Blocks
  <2>2. b \in Nat /\ h.block[b].size \in Nat  BY DEF Linked, Header
  <2>3. x \in Int /\ x >= a + META_SIZE /\ x <= a + META_SIZE + m - 1  BY <1>0, <1>1, <1>2 DEF Bytes
  <2>4. x >= b /\ x <= b + META_SIZE - 1  BY <1>0, <2>1, <2>2 DEF Bytes
  <2>5. CASE b < a
    <3>1. b + META_SIZE + h.block[b].size <= a  BY <2>5 DEF Laid
    <3>2. QED  BY <1>0, <1>1, <2>2, <2>3, <2>4, <3>1
  <2>6. CASE a < b
    <3>1. a + META_SIZE + h.block[a].size <= b  BY <2>6 DEF Laid
    <3>2. QED  BY <1>0, <1>1, <2>2, <2>3, <2>4, <3>1
  <2>7. CASE a = b  BY <1>0, <1>1, <2>3, <2>4, <2>7
  <2>8. QED  BY <1>1, <2>2, <2>5, <2>6, <2>7
<1>3. a + META_SIZE + m <= h.brk  BY <1>0, <1>1
<1>4. QED  BY <1>2, <1>3 DEF Plain

\* The bytes of two blocks are different ones.
LEMMA SpansApart ==
    ASSUME NEW h, Linked(h), Laid(h), NEW a \in Blocks(h), NEW b \in Blocks(h), a # b
    PROVE  Bytes(a + META_SIZE, h.block[a].size) \cap Bytes(b + META_SIZE, h.block[b].size) = {}
<1>0. META_SIZE \in Nat  BY MmAssumption
<1>1. a \in Nat /\ h.block[a].size \in Nat /\ b \in Nat /\ h.block[b].size \in Nat  BY DEF Linked, Header
<1>2. SUFFICES ASSUME NEW x \in Bytes(a + META_SIZE, h.block[a].size), x \in Bytes(b + META_SIZE, h.block[b].size)
               PROVE  FALSE
  OBVIOUS
<1>3. x \in Int /\ x >= a + META_SIZE /\ x <= a + META_SIZE + h.block[a].size - 1  BY <1>0, <1>1 DEF Bytes
<1>4. x >= b + META_SIZE /\ x <= b + META_SIZE + h.block[b].size - 1  BY <1>0, <1>1, <1>2 DEF Bytes
<1>5. a < b => a + META_SIZE + h.block[a].size <= b  BY DEF Laid
<1>6. b < a => b + META_SIZE + h.block[b].size <= a  BY DEF Laid
<1>7. QED  BY <1>0, <1>1, <1>3, <1>4, <1>5, <1>6

\* The bytes of a block are bytes of the memory.
LEMMA SpanInside ==
    ASSUME NEW h, Linked(h), Laid(h), NEW a \in Blocks(h)
    PROVE  Bytes(a + META_SIZE, h.block[a].size) \subseteq 1 .. h.brk - 1 /\ 1 .. h.brk - 1 \subseteq 1 .. HeapMax
<1>0. META_SIZE \in Nat /\ META_SIZE > 0 /\ HeapMax \in Nat  BY MmAssumption
<1>1. /\ a \in Nat /\ h.block[a].size \in Nat /\ h.brk \in Nat /\ h.brk <= HeapMax + 1
      /\ a + META_SIZE + h.block[a].size <= h.brk
  BY <1>0 DEF Linked, Laid, Header
<1>2. QED  BY <1>0, <1>1 DEF Bytes

\* memset of a block's bytes.
LEMMA ZeroStep ==
    ASSUME NEW h, Linked(h), NEW a
    PROVE  Stored(Zero(h, a), h, a + META_SIZE, h.block[a].size, [b \in 1 .. HeapMax |-> 0])
<1>1. PICK f : f = [b \in 1 .. HeapMax |-> 0]  OBVIOUS
<1>2. PICK p, n, z : p = a + META_SIZE /\ n = h.block[a].size /\ z = Zero(h, a)  OBVIOUS
<1>3. \A b \in 1 .. HeapMax : b \in Bytes(p, n) => f[b] \in Nat  BY <1>1
<1>4. z = IF Plain(h, p, n)
          THEN [h |-> [h EXCEPT !.byte = [b \in DOMAIN @ |-> IF b \in Bytes(p, n) THEN f[b] ELSE @[b]]],
                how |-> "ok"]
          ELSE [h |-> h, how |-> "wild"]
  <2>1. z = IF Plain(h, p, n)
          THEN [h |-> [h EXCEPT !.byte = [b \in DOMAIN @ |-> IF b \in Bytes(p, n) THEN 0 ELSE @[b]]],
                how |-> "ok"]
          ELSE [h |-> h, how |-> "wild"]
    BY <1>2 DEF Zero, Store, Plain
  <2>2. h.byte \in [1 .. HeapMax -> Nat]  BY DEF Linked
  <2>3. [b \in DOMAIN h.byte |-> IF b \in Bytes(p, n) THEN 0 ELSE h.byte[b]]
            = [b \in DOMAIN h.byte |-> IF b \in Bytes(p, n) THEN f[b] ELSE h.byte[b]]
    BY <1>1, <2>2
  <2>4. QED  BY <2>1, <2>3 DEF Linked
<1>5. Stored(z, h, p, n, f)  BY <1>3, <1>4, StoreStep
<1>6. QED  BY <1>1, <1>2, <1>5

\* The caller's writes.
LEMMA FillStep ==
    ASSUME NEW h, Linked(h), NEW a, NEW n, mmCalls \in Nat
    PROVE  Stored(Fill(h, a, n), h, a + META_SIZE, n, [b \in 1 .. HeapMax |-> mmCalls + 1])
<1>0. PICK t \in Nat : t = mmCalls + 1  OBVIOUS
<1>1. PICK f : f = [b \in 1 .. HeapMax |-> t]  OBVIOUS
<1>2. PICK p, z : p = a + META_SIZE /\ z = Fill(h, a, n)  OBVIOUS
<1>3. \A b \in 1 .. HeapMax : b \in Bytes(p, n) => f[b] \in Nat  BY <1>1
<1>4. z = IF Plain(h, p, n)
          THEN [h |-> [h EXCEPT !.byte = [b \in DOMAIN @ |-> IF b \in Bytes(p, n) THEN f[b] ELSE @[b]]],
                how |-> "ok"]
          ELSE [h |-> h, how |-> "wild"]
  <2>1. z = IF Plain(h, p, n)
          THEN [h |-> [h EXCEPT !.byte = [b \in DOMAIN @ |-> IF b \in Bytes(p, n) THEN t ELSE @[b]]],
                how |-> "ok"]
          ELSE [h |-> h, how |-> "wild"]
    BY <1>0, <1>2 DEF Fill, Store, Plain
  <2>2. h.byte \in [1 .. HeapMax -> Nat]  BY DEF Linked
  <2>3. [b \in DOMAIN h.byte |-> IF b \in Bytes(p, n) THEN t ELSE h.byte[b]]
            = [b \in DOMAIN h.byte |-> IF b \in Bytes(p, n) THEN f[b] ELSE h.byte[b]]
    BY <1>1, <2>2
  <2>4. QED  BY <2>1, <2>3 DEF Linked
<1>5. Stored(z, h, p, n, f)  BY <1>3, <1>4, StoreStep
<1>6. QED  BY <1>0, <1>1, <1>2, <1>5

\* Headers whose pointers lead to headers.
Chained(b, D) ==
    /\ b \in [D -> Header]
    /\ \A a \in D : b[a].next \in D \cup {0} /\ b[a].prev \in D \cup {0}
Sized(c, b, D) == \A a \in D : c[a].size = b[a].size /\ c[a].free = b[a].free

\* One pointer of a header is set.
NextSet(b, a, v) == [b EXCEPT ![a].next = v]
PrevSet(b, a, v) == [b EXCEPT ![a].prev = v]
NextIs(c, b, D, a, v) ==
    /\ Chained(c, D) /\ Sized(c, b, D)
    /\ \A x \in D : c[x].prev = b[x].prev /\ c[x].next = IF x = a THEN v ELSE b[x].next
PrevIs(c, b, D, a, v) ==
    /\ Chained(c, D) /\ Sized(c, b, D)
    /\ \A x \in D : c[x].next = b[x].next /\ c[x].prev = IF x = a THEN v ELSE b[x].prev

LEMMA SetNext ==
    ASSUME NEW D, D \subseteq Nat, NEW b, Chained(b, D), NEW a \in D, NEW v \in D \cup {0}
    PROVE  NextIs(NextSet(b, a, v), b, D, a, v)
<1>0. PICK c : c = [b EXCEPT ![a].next = v]  OBVIOUS
<1>1. b \in [D -> Header] /\ \A x \in D : b[x] \in Header /\ b[x].next \in D \cup {0} /\ b[x].prev \in D \cup {0}
  BY DEF Chained
<1>2. \A x \in D : c[x] = IF x = a THEN [b[a] EXCEPT !.next = v] ELSE b[x]  BY <1>0, <1>1
<1>3. v \in Nat  OBVIOUS
<1>4. \A x \in D : /\ c[x] \in Header /\ c[x].size = b[x].size /\ c[x].free = b[x].free
                   /\ c[x].prev = b[x].prev /\ c[x].next = IF x = a THEN v ELSE b[x].next
  BY <1>1, <1>2, <1>3 DEF Header
<1>5. c \in [D -> Header]  BY <1>0, <1>1, <1>4
<1>6. Chained(c, D) /\ Sized(c, b, D)  BY <1>1, <1>4, <1>5 DEF Chained, Sized
<1>7. QED  BY <1>0, <1>4, <1>6 DEF NextIs, NextSet

LEMMA SetPrev ==
    ASSUME NEW D, D \subseteq Nat, NEW b, Chained(b, D), NEW a \in D, NEW v \in D \cup {0}
    PROVE  PrevIs(PrevSet(b, a, v), b, D, a, v)
<1>0. PICK c : c = [b EXCEPT ![a].prev = v]  OBVIOUS
<1>1. b \in [D -> Header] /\ \A x \in D : b[x] \in Header /\ b[x].next \in D \cup {0} /\ b[x].prev \in D \cup {0}
  BY DEF Chained
<1>2. \A x \in D : c[x] = IF x = a THEN [b[a] EXCEPT !.prev = v] ELSE b[x]  BY <1>0, <1>1
<1>3. v \in Nat  OBVIOUS
<1>4. \A x \in D : /\ c[x] \in Header /\ c[x].size = b[x].size /\ c[x].free = b[x].free
                   /\ c[x].next = b[x].next /\ c[x].prev = IF x = a THEN v ELSE b[x].prev
  BY <1>1, <1>2, <1>3 DEF Header
<1>5. c \in [D -> Header]  BY <1>0, <1>1, <1>4
<1>6. Chained(c, D) /\ Sized(c, b, D)  BY <1>1, <1>4, <1>5 DEF Chained, Sized
<1>7. QED  BY <1>0, <1>4, <1>6 DEF PrevIs, PrevSet

\* The neighbours of a header that takes the place of another.
NextJoined(b, old, new) == IF b[old].prev = 0 THEN b ELSE [b EXCEPT ![b[old].prev].next = new]
PrevJoined(b, old, new) == IF b[old].next = 0 THEN b ELSE [b EXCEPT ![b[old].next].prev = new]

\* mm_realloc's relinking: the blocks stay, and one that stays in its place
\* leaves the list in order.
LEMMA RelinkStep ==
    ASSUME NEW h, Linked(h), NEW old \in Blocks(h), NEW new \in Blocks(h), NEW g, g = Relink(h, old, new)
    PROVE  /\ Linked(g) /\ Blocks(g) = Blocks(h) /\ g.brk = h.brk /\ g.byte = h.byte
           /\ Sized(g.block, h.block, Blocks(h))
           /\ new = old /\ Ranked(h) => Ranked(g)
<1>1. PICK D, b0 : D = Blocks(h) /\ b0 = h.block  OBVIOUS
<1>2. D \subseteq Nat /\ 0 \notin D /\ Chained(b0, D) /\ old \in D /\ new \in D  BY <1>1 DEF Linked, Chained
<1>3. PICK op, on : op = b0[old].prev /\ on = b0[old].next  OBVIOUS
<1>4. op \in D \cup {0} /\ on \in D \cup {0}  BY <1>2, <1>3 DEF Chained
<1>5. PICK bb : bb = PrevSet(b0, new, op)  OBVIOUS
<1>6. PICK b1 : b1 = NextSet(bb, new, on)  OBVIOUS
<1>7. /\ Chained(bb, D) /\ Sized(bb, b0, D)
      /\ \A x \in D : bb[x].next = b0[x].next /\ bb[x].prev = IF x = new THEN op ELSE b0[x].prev
  <2>1. PrevIs(bb, b0, D, new, op)  BY <1>2, <1>4, <1>5, SetPrev
  <2>2. QED  BY <2>1 DEF PrevIs
<1>8. /\ Chained(b1, D) /\ Sized(b1, bb, D)
      /\ \A x \in D : b1[x].prev = bb[x].prev /\ b1[x].next = IF x = new THEN on ELSE bb[x].next
  <2>1. NextIs(b1, bb, D, new, on)  BY <1>2, <1>4, <1>6, <1>7, SetNext
  <2>2. QED  BY <2>1 DEF NextIs
<1>9. PICK p : p = b1[old].prev  OBVIOUS
<1>10. p \in D \cup {0}  BY <1>2, <1>8, <1>9 DEF Chained
<1>11. PICK b2 : b2 = IF p = 0 THEN b1 ELSE NextSet(b1, p, new)  OBVIOUS
<1>12. /\ Chained(b2, D) /\ Sized(b2, b1, D)
       /\ \A x \in D : b2[x].prev = b1[x].prev /\ b2[x].next = IF x = p THEN new ELSE b1[x].next
  <2>1. CASE p = 0  BY <1>2, <1>8, <1>11, <2>1 DEF Sized
  <2>2. CASE p # 0
    <3>1. p \in D /\ b2 = NextSet(b1, p, new) /\ new \in D \cup {0}  BY <1>2, <1>10, <1>11, <2>2
    <3>2. NextIs(b2, b1, D, p, new)  BY <1>2, <1>8, <3>1, SetNext
    <3>3. QED  BY <3>2 DEF NextIs
  <2>3. QED  BY <2>1, <2>2
<1>13. PICK m : m = b2[old].next  OBVIOUS
<1>14. m \in D \cup {0}  BY <1>2, <1>12, <1>13 DEF Chained
<1>15. PICK b3 : b3 = IF m = 0 THEN b2 ELSE PrevSet(b2, m, new)  OBVIOUS
<1>16. /\ Chained(b3, D) /\ Sized(b3, b2, D)
       /\ \A x \in D : b3[x].next = b2[x].next /\ b3[x].prev = IF x = m THEN new ELSE b2[x].prev
  <2>1. CASE m = 0  BY <1>2, <1>12, <1>15, <2>1 DEF Sized
  <2>2. CASE m # 0
    <3>1. m \in D /\ b3 = PrevSet(b2, m, new) /\ new \in D \cup {0}  BY <1>2, <1>14, <1>15, <2>2
    <3>2. PrevIs(b3, b2, D, m, new)  BY <1>2, <1>12, <3>1, SetPrev
    <3>3. QED  BY <3>2 DEF PrevIs
  <2>3. QED  BY <2>1, <2>2
<1>17. g = [h EXCEPT !.block = b3]
  <2>1. b1 = [b0 EXCEPT ![new].prev = op, ![new].next = on]  BY <1>5, <1>6 DEF PrevSet, NextSet
  <2>2. b2 = NextJoined(b1, old, new)  BY <1>9, <1>11 DEF NextSet, NextJoined
  <2>3. b3 = PrevJoined(b2, old, new)  BY <1>13, <1>15 DEF PrevSet, PrevJoined
  <2>4. b1 = [h.block EXCEPT ![new].prev = h.block[old].prev, ![new].next = h.block[old].next]  BY <1>1, <1>3, <2>1
  <2>5. g = [h EXCEPT !.block = PrevJoined(NextJoined(
                [h.block EXCEPT ![new].prev = h.block[old].prev, ![new].next = h.block[old].next], old, new), old, new)]
    BY DEF Relink, PrevJoined, NextJoined
  <2>6. QED  BY <2>2, <2>3, <2>4, <2>5
<1>18. g = [block |-> b3, head |-> h.head, end |-> h.end, brk |-> h.brk, byte |-> h.byte]  BY <1>17 DEF Linked
<1>19. g.block = b3 /\ g.head = h.head /\ g.end = h.end /\ g.brk = h.brk /\ g.byte = h.byte  BY <1>18
<1>20. DOMAIN b3 = D /\ b3 \in [D -> Header]  BY <1>16 DEF Chained
<1>21. Blocks(g) = D  BY <1>19, <1>20 DEF Blocks
<1>22. Linked(g)
  <2>1. g = [block |-> g.block, head |-> g.head, end |-> g.end, brk |-> g.brk, byte |-> g.byte]  BY <1>18, <1>19
  <2>2. \A a \in D : b3[a].next \in D \cup {0} /\ b3[a].prev \in D \cup {0}  BY <1>16 DEF Chained
  <2>3. QED  BY <1>1, <1>19, <1>20, <1>21, <2>1, <2>2 DEF Linked
<1>23. Sized(b3, b0, D)  BY <1>7, <1>8, <1>12, <1>16 DEF Sized
<1>24. ASSUME new = old, NEW r, Ranks(h, r) PROVE Ranked(g)
  <2>1. \A a \in D : /\ r[a] \in Int
                     /\ b0[a].next # 0 => r[a] < r[b0[a].next]
                     /\ b0[a].prev # 0 => r[b0[a].prev] < r[a]
    BY <1>1, <1>24 DEF Ranks
  <2>2. \A x \in D : b1[x].prev = b0[x].prev /\ b1[x].next = b0[x].next  BY <1>3, <1>7, <1>8, <1>24
  <2>3. p # 0 => r[p] < r[old]  BY <1>2, <1>9, <2>1, <2>2
  <2>4. p # old
    <3>1. r[old] \in Int /\ old # 0  BY <1>2, <2>1
    <3>2. QED  BY <2>3, <3>1
  <2>5. m = b0[old].next  BY <1>2, <1>12, <1>13, <2>2, <2>4
  <2>6. m # 0 => r[old] < r[m]  BY <1>2, <2>1, <2>5
  <2>7. \A x \in D : b3[x].next = (IF x = p THEN old ELSE b0[x].next) /\ b3[x].prev = (IF x = m THEN old ELSE b0[x].prev)
    BY <1>12, <1>16, <1>24, <2>2
  <2>8. \A x \in D : /\ b3[x].next # 0 => r[x] < r[b3[x].next]
                     /\ b3[x].prev # 0 => r[b3[x].prev] < r[x]
    BY <1>2, <2>1, <2>3, <2>6, <2>7
  <2>9. Ranks(g, r)  BY <1>19, <1>21, <2>1, <2>8 DEF Ranks
  <2>10. QED  BY <2>9 DEF Ranked
<1>25. QED  BY <1>1, <1>19, <1>21, <1>22, <1>23, <1>24 DEF Ranked

\* memset of n bytes from p.
Cleared(h, p, n) ==
    IF Plain(h, p, n)
    THEN [h |-> [h EXCEPT !.byte = [b \in DOMAIN @ |-> IF b \in Bytes(p, n) THEN 0 ELSE @[b]]], how |-> "ok"]
    ELSE [h |-> h, how |-> "wild"]
LEMMA ClearedStep ==
    ASSUME NEW h, Linked(h), NEW p, NEW n
    PROVE  Stored(Cleared(h, p, n), h, p, n, [b \in 1 .. HeapMax |-> 0])
<1>1. PICK f : f = [b \in 1 .. HeapMax |-> 0]  OBVIOUS
<1>2. PICK z : z = Cleared(h, p, n)  OBVIOUS
<1>3. \A b \in 1 .. HeapMax : b \in Bytes(p, n) => f[b] \in Nat  BY <1>1
<1>4. z = IF Plain(h, p, n)
          THEN [h |-> [h EXCEPT !.byte = [b \in DOMAIN @ |-> IF b \in Bytes(p, n) THEN f[b] ELSE @[b]]],
                how |-> "ok"]
          ELSE [h |-> h, how |-> "wild"]
  <2>1. h.byte \in [1 .. HeapMax -> Nat]  BY DEF Linked
  <2>2. [b \in DOMAIN h.byte |-> IF b \in Bytes(p, n) THEN 0 ELSE h.byte[b]]
            = [b \in DOMAIN h.byte |-> IF b \in Bytes(p, n) THEN f[b] ELSE h.byte[b]]
    BY <1>1, <2>1
  <2>3. QED  BY <1>2, <2>2 DEF Linked, Cleared
<1>5. Stored(z, h, p, n, f)  BY <1>3, <1>4, StoreStep
<1>6. QED  BY <1>1, <1>2, <1>5

\* memcpy within a heap, of m bytes to p from p + d.
Moving(h, p, m, d) ==
    IF Plain(h, p, m)
    THEN [h |-> [h EXCEPT !.byte = [b \in DOMAIN @ |-> IF b \in Bytes(p, m) THEN h.byte[d + (b - p)] ELSE @[b]]],
          how |-> "ok"]
    ELSE [h |-> h, how |-> "wild"]
LEMMA MovingStep ==
    ASSUME NEW h, Linked(h), NEW p \in Nat, NEW m \in Nat, NEW d \in Nat, Bytes(d, m) \subseteq 1 .. HeapMax
    PROVE  Stored(Moving(h, p, m, d), h, p, m, [b \in 1 .. HeapMax |-> h.byte[d + (b - p)]])
<1>1. PICK f : f = [b \in 1 .. HeapMax |-> h.byte[d + (b - p)]]  OBVIOUS
<1>2. PICK z : z = Moving(h, p, m, d)  OBVIOUS
<1>3. h.byte \in [1 .. HeapMax -> Nat]  BY DEF Linked
<1>4. \A b \in 1 .. HeapMax : b \in Bytes(p, m) => f[b] \in Nat
  <2>1. SUFFICES ASSUME NEW b \in 1 .. HeapMax, b \in Bytes(p, m) PROVE f[b] \in Nat  OBVIOUS
  <2>2. d + (b - p) \in Bytes(d, m)  BY <2>1, MmAssumption DEF Bytes
  <2>3. d + (b - p) \in 1 .. HeapMax  BY <2>2
  <2>4. h.byte[d + (b - p)] \in Nat  BY <1>3, <2>3
  <2>5. QED  BY <1>1, <2>4
<1>5. z = IF Plain(h, p, m)
          THEN [h |-> [h EXCEPT !.byte = [b \in DOMAIN @ |-> IF b \in Bytes(p, m) THEN f[b] ELSE @[b]]],
                how |-> "ok"]
          ELSE [h |-> h, how |-> "wild"]
  <2>1. DOMAIN h.byte = 1 .. HeapMax  BY <1>3
  <2>2. \A b \in DOMAIN h.byte : f[b] = h.byte[d + (b - p)]  BY <1>1, <2>1
  <2>3. [b \in DOMAIN h.byte |-> IF b \in Bytes(p, m) THEN h.byte[d + (b - p)] ELSE h.byte[b]]
            = [b \in DOMAIN h.byte |-> IF b \in Bytes(p, m) THEN f[b] ELSE h.byte[b]]
    BY <2>2
  <2>4. QED  BY <1>2, <2>3 DEF Linked, Moving
<1>6. Stored(z, h, p, m, f)  BY <1>4, <1>5, StoreStep
<1>7. QED  BY <1>1, <1>2, <1>6

\* The least of two numbers.
LEMMA MinOfTwo ==
    ASSUME NEW x \in Nat, NEW y \in Nat
    PROVE  Min({x, y}) \in Nat /\ Min({x, y}) = IF x <= y THEN x ELSE y
<1>1. PICK T : T = {x, y}  OBVIOUS
<1>2. T \subseteq Nat /\ T # {}  BY <1>1
<1>3. \E a \in T : \A b \in T : a <= b  BY <1>2, LeastNatural
<1>4. Min(T) \in T /\ \A b \in T : Min(T) <= b  BY <1>3 DEF Min
<1>5. QED  BY <1>1, <1>4

\* mm_realloc's clearing of the new block and copying of the old one.
Copied(c, h, old, new) ==
    /\ c.how = "ok"
    /\ \A b \in 1 .. HeapMax :
         b \notin Bytes(new + META_SIZE, h.block[new].size) => c.h.byte[b] = h.byte[b]
    /\ new # old => \A i \in Nat : i < h.block[old].size /\ i < h.block[new].size =>
         c.h.byte[new + META_SIZE + i] = h.byte[old + META_SIZE + i]

LEMMA CopyStep ==
    ASSUME NEW h, Linked(h), NEW old \in Blocks(h), NEW new \in Blocks(h), NEW n \in Nat,
           NEW c, c = CopyBytes(h, old, new, n)
    PROVE  /\ c.how \in {"ok", "wild"}
           /\ c.how = "ok" => Linked(c.h) /\ c.h.block = h.block /\ c.h.brk = h.brk
           /\ Laid(h) /\ n <= h.block[new].size => Copied(c, h, old, new)
<1>0. META_SIZE \in Nat /\ HeapMax \in Nat /\ old \in Nat /\ new \in Nat  BY MmAssumption DEF Linked
<1>1. PICK so \in Nat, sn \in Nat : so = h.block[old].size /\ sn = h.block[new].size  BY DEF Linked, Header
<1>2. PICK m \in Nat : m = Min({so, sn}) /\ m = IF so <= sn THEN so ELSE sn  BY MinOfTwo
<1>3. PICK p \in Nat, d \in Nat : p = new + META_SIZE /\ d = old + META_SIZE  BY <1>0
<1>4. PICK z : z = Cleared(h, p, n)  OBVIOUS
<1>5. c = IF z.how = "wild" \/ ~(Bytes(d, m) \subseteq DOMAIN h.byte) THEN [h |-> h, how |-> "wild"] ELSE Moving(z.h, p, m, d)
  BY <1>1, <1>2, <1>3, <1>4 DEF CopyBytes, Cleared, Moving, Store, Plain
<1>6. Stored(z, h, p, n, [b \in 1 .. HeapMax |-> 0])  BY <1>4, ClearedStep
<1>7. DOMAIN h.byte = 1 .. HeapMax  BY DEF Linked
<1>8. ASSUME z.how = "ok", Bytes(d, m) \subseteq 1 .. HeapMax
      PROVE  /\ Linked(z.h) /\ z.h.block = h.block /\ z.h.brk = h.brk
             /\ c = Moving(z.h, p, m, d) /\ Stored(c, z.h, p, m, [b \in 1 .. HeapMax |-> z.h.byte[d + (b - p)]])
  <2>1. Linked(z.h) /\ z.h.block = h.block /\ z.h.brk = h.brk  BY <1>6, <1>8 DEF Stored, Written
  <2>2. c = Moving(z.h, p, m, d)  BY <1>5, <1>7, <1>8
  <2>3. QED  BY <1>8, <2>1, <2>2, MovingStep
<1>9. CASE ~(z.how = "ok" /\ Bytes(d, m) \subseteq 1 .. HeapMax)
  <2>1. c = [h |-> h, how |-> "wild"]  BY <1>5, <1>6, <1>7, <1>9 DEF Stored
  <2>2. ASSUME Laid(h), n <= sn PROVE FALSE
    <3>1. Plain(h, p, n)  BY <1>1, <1>3, <2>2, PlainInside
    <3>2. Bytes(d, so) \subseteq 1 .. HeapMax  BY <1>1, <1>3, <2>2, SpanInside
    <3>3. Bytes(d, m) \subseteq Bytes(d, so)  BY <1>2 DEF Bytes
    <3>4. QED  BY <1>6, <1>9, <3>1, <3>2, <3>3 DEF Stored
  <2>3. QED  BY <1>1, <2>1, <2>2
<1>10. CASE z.how = "ok" /\ Bytes(d, m) \subseteq 1 .. HeapMax
  <2>1. /\ Linked(z.h) /\ z.h.block = h.block /\ z.h.brk = h.brk
        /\ Stored(c, z.h, p, m, [b \in 1 .. HeapMax |-> z.h.byte[d + (b - p)]])
    BY <1>8, <1>10
  <2>2. /\ c.how \in {"ok", "wild"}
        /\ c.how = "ok" => Linked(c.h) /\ c.h.block = h.block /\ c.h.brk = h.brk
    BY <2>1 DEF Stored, Written
  <2>3. ASSUME Laid(h), n <= sn PROVE Copied(c, h, old, new)
    <3>1. Alike(z.h, h) /\ Headers(z.h) = Headers(h)
      <4>1. Alike(z.h, h)  BY <2>1 DEF Alike, Blocks
      <4>2. QED  BY <4>1, AlikeKeeps
    <3>2. Plain(h, p, m)
      <4>1. m <= sn  BY <1>2
      <4>2. QED  BY <1>1, <1>3, <2>3, <4>1, PlainInside
    <3>3. Plain(z.h, p, m)  BY <2>1, <3>1, <3>2 DEF Plain
    <3>4. c.how = "ok" /\ Written(c.h, z.h, p, m, [b \in 1 .. HeapMax |-> z.h.byte[d + (b - p)]])
      BY <2>1, <3>3 DEF Stored
    <3>5. \A b \in 1 .. HeapMax : c.h.byte[b] = IF b \in Bytes(p, m) THEN z.h.byte[d + (b - p)] ELSE z.h.byte[b]
      BY <3>4 DEF Written
    <3>6. \A b \in 1 .. HeapMax : z.h.byte[b] = IF b \in Bytes(p, n) THEN 0 ELSE h.byte[b]
      BY <1>6, <1>10 DEF Stored, Written
    <3>7. Bytes(p, n) \subseteq Bytes(p, sn) /\ Bytes(p, m) \subseteq Bytes(p, sn)  BY <1>2, <2>3 DEF Bytes
    <3>8. \A b \in 1 .. HeapMax : b \notin Bytes(p, sn) => c.h.byte[b] = h.byte[b]  BY <3>5, <3>6, <3>7
    <3>9. ASSUME new # old, NEW i \in Nat, i < so, i < sn PROVE c.h.byte[p + i] = h.byte[d + i]
      <4>1. i < m /\ p + i \in Bytes(p, m) /\ d + i \in Bytes(d, so) /\ d + ((p + i) - p) = d + i
        BY <1>2, <3>9 DEF Bytes
      <4>2. Bytes(p, sn) \subseteq 1 .. HeapMax /\ Bytes(d, so) \subseteq 1 .. HeapMax  BY <1>1, <1>3, <2>3, SpanInside
      <4>3. Bytes(d, so) \cap Bytes(p, sn) = {}  BY <1>1, <1>3, <2>3, <3>9, SpansApart
      <4>4. p + i \in 1 .. HeapMax /\ d + i \in 1 .. HeapMax /\ d + i \notin Bytes(p, n)  BY <3>7, <4>1, <4>2, <4>3
      <4>5. c.h.byte[p + i] = z.h.byte[d + i]  BY <3>5, <4>1, <4>4
      <4>6. QED  BY <3>6, <4>4, <4>5
    <3>10. QED  BY <1>1, <1>3, <3>4, <3>8, <3>9 DEF Copied
  <2>4. QED  BY <1>1, <2>2, <2>3
<1>11. QED  BY <1>9, <1>10

\* What mm_realloc may do to a heap, whatever was done to it before.
Regot(h, r) ==
    /\ r.how \in {"ok", "hung", "wild"} /\ r.did \subseteq {"split", "failed", "moved"}
    /\ r.how = "hung" => ~Ranked(h)
    /\ r.how = "ok" =>
         /\ Linked(r.h) /\ Blocks(h) \subseteq Blocks(r.h) /\ r.ret \in Blocks(r.h) \cup {0}
         /\ Ranked(h) /\ "moved" \notin r.did => Ranked(r.h)

\* And what it does to one that is laid out, without a split and a failure.
Clean(h, old, n, r) ==
    /\ r.how # "wild" /\ Linked(r.h) /\ Laid(r.h) /\ Blocks(h) \subseteq Blocks(r.h)
    /\ \A a \in Blocks(h) : r.h.block[a].size = h.block[a].size
    /\ r.how = "hung" => r.h.byte = h.byte
    /\ r.how = "ok" =>
         /\ r.ret \in Blocks(r.h) /\ r.h.block[r.ret].size >= n /\ ~r.h.block[r.ret].free
         /\ r.ret \in Blocks(h) => r.ret = old \/ h.block[r.ret].free
         /\ \A a \in Blocks(h) : a # old /\ a # r.ret => r.h.block[a].free = h.block[a].free
         /\ \A b \in 1 .. HeapMax :
              /\ b \in Bytes(old + META_SIZE, h.block[old].size) => r.h.byte[b] = 0
              /\ (/\ b \notin Bytes(old + META_SIZE, h.block[old].size)
                  /\ b \notin Bytes(r.ret + META_SIZE, r.h.block[r.ret].size)) => r.h.byte[b] = h.byte[b]
         /\ r.ret # old => \A i \in Nat : i < h.block[old].size /\ i < n =>
              r.h.byte[r.ret + META_SIZE + i] = h.byte[old + META_SIZE + i]

LEMMA ReallocStep ==
    ASSUME NEW h, Linked(h), NEW old \in Blocks(h), NEW n \in Nat, NEW r, r = mm_realloc(h, old, n)
    PROVE  /\ Regot(h, r)
           /\ Laid(h) /\ r.did \cap {"split", "failed"} = {} => Clean(h, old, n, r)
<1>1. PICK h1 : h1 = Flagged(h, old, TRUE)  OBVIOUS
<1>2. /\ Linked(h1) /\ Alike(h1, h) /\ h1.byte = h.byte
      /\ \A b \in Blocks(h) : h1.block[b].free = IF b = old THEN TRUE ELSE h.block[b].free
  <2>1. Flag(Flagged(h, old, TRUE), h, old, TRUE)  BY FlagSet, Zenon
  <2>2. QED  BY <1>1, <2>1 DEF Flag
<1>3. /\ Blocks(h1) = Blocks(h) /\ (Laid(h) => Laid(h1)) /\ (Ranked(h) => Ranked(h1)) /\ (Ranked(h1) => Ranked(h))
      /\ \A b \in Blocks(h) : h1.block[b].size = h.block[b].size
  <2>1. Alike(h, h1)  BY <1>2 DEF Alike
  <2>2. QED  BY <1>2, <2>1, AlikeKeeps DEF Alike
<1>4. PICK got, new : got = mm_malloc(h1, n) /\ new = got.ret  OBVIOUS
<1>5. Got(h1, got) /\ (got.how = "ok" /\ got.did = {} => Whole(h1, n, got))  BY <1>2, <1>4, MallocStep
<1>6. PICK k, copied, zeroed : k = Relink(got.h, old, new) /\ copied = CopyBytes(k, old, new, n) /\ zeroed = Zero(copied.h, old)
  OBVIOUS
<1>7. r = IF got.how # "ok" THEN got
          ELSE IF new = 0 THEN Result(got.h, 0, "ok", got.did \cup {"failed"})
          ELSE IF copied.how = "wild" THEN Result(got.h, new, "wild", got.did)
          ELSE Result(zeroed.h, new, zeroed.how, got.did \cup (IF new = old THEN {} ELSE {"moved"}))
  BY <1>1, <1>4, <1>6 DEF mm_realloc, Flagged
<1>8. CASE got.how # "ok"
  <2>1. r = got  BY <1>7, <1>8
  <2>2. Regot(h, r)  BY <1>3, <1>5, <1>8, <2>1 DEF Got, Regot
  <2>3. ASSUME Laid(h), r.did \cap {"split", "failed"} = {} PROVE Clean(h, old, n, r)
    <3>1. r.how = "hung" /\ r.h = h1  BY <1>5, <1>8, <2>1, <2>3 DEF Got
    <3>2. QED  BY <1>2, <1>3, <2>3, <3>1 DEF Clean
  <2>4. QED  BY <2>2, <2>3
<1>9. CASE got.how = "ok" /\ new = 0
  <2>1. r.h = got.h /\ r.ret = 0 /\ r.how = "ok" /\ r.did = got.did \cup {"failed"}  BY <1>7, <1>9 DEF Result
  <2>2. Regot(h, r)  BY <1>3, <1>5, <1>9, <2>1 DEF Got, Regot
  <2>3. QED  BY <2>1, <2>2
<1>10. CASE got.how = "ok" /\ new # 0
  <2>1. /\ Linked(got.h) /\ (Ranked(h) => Ranked(got.h)) /\ Blocks(h) \subseteq Blocks(got.h)
        /\ new \in Blocks(got.h) /\ old \in Blocks(got.h) /\ got.did \in {{}, {"split"}}
    BY <1>3, <1>4, <1>5, <1>10 DEF Got
  <2>2. /\ Linked(k) /\ Blocks(k) = Blocks(got.h) /\ k.brk = got.h.brk /\ k.byte = got.h.byte
        /\ Sized(k.block, got.h.block, Blocks(got.h)) /\ (new = old /\ Ranked(got.h) => Ranked(k))
    BY <1>6, <2>1, RelinkStep
  <2>3. /\ copied.how \in {"ok", "wild"}
        /\ copied.how = "ok" => Linked(copied.h) /\ copied.h.block = k.block /\ copied.h.brk = k.brk
        /\ Laid(k) /\ n <= k.block[new].size => Copied(copied, k, old, new)
    BY <1>6, <2>1, <2>2, CopyStep
  <2>4. copied.how = "ok" => Stored(zeroed, copied.h, old + META_SIZE, copied.h.block[old].size, [b \in 1 .. HeapMax |-> 0])
    BY <1>6, <2>3, ZeroStep
  <2>5. copied.how = "ok" =>
          /\ zeroed.how \in {"ok", "wild"}
          /\ zeroed.how = "ok" => Linked(zeroed.h) /\ zeroed.h.block = k.block /\ zeroed.h.brk = k.brk
    BY <2>3, <2>4 DEF Stored, Written
  <2>6. Regot(h, r)
    <3>1. CASE copied.how = "wild"
      <4>1. r.how = "wild" /\ r.did = got.did  BY <1>7, <1>10, <3>1 DEF Result
      <4>2. QED  BY <2>1, <4>1 DEF Regot
    <3>2. CASE copied.how = "ok"
      <4>1. /\ r.h = zeroed.h /\ r.ret = new /\ r.how = zeroed.how
            /\ r.did = got.did \cup (IF new = old THEN {} ELSE {"moved"})
        BY <1>7, <1>10, <3>2 DEF Result
      <4>2. zeroed.how = "ok" => /\ Blocks(zeroed.h) = Blocks(k) /\ (Ranked(k) => Ranked(zeroed.h))
        <5>1. SUFFICES ASSUME zeroed.how = "ok" PROVE Blocks(zeroed.h) = Blocks(k) /\ (Ranked(k) => Ranked(zeroed.h))
          OBVIOUS
        <5>2. Alike(zeroed.h, k)  BY <2>5, <3>2, <5>1 DEF Alike, Blocks
        <5>3. QED  BY <5>2, AlikeKeeps DEF Alike
      <4>3. r.did \subseteq {"split", "failed", "moved"}  BY <2>1, <4>1
      <4>4. r.how = "ok" => /\ Linked(r.h) /\ Blocks(h) \subseteq Blocks(r.h) /\ r.ret \in Blocks(r.h) \cup {0}
        BY <2>1, <2>2, <2>5, <3>2, <4>1, <4>2
      <4>5. r.how = "ok" /\ Ranked(h) /\ "moved" \notin r.did => Ranked(r.h)
        BY <2>1, <2>2, <4>1, <4>2
      <4>6. QED  BY <2>5, <3>2, <4>1, <4>3, <4>4, <4>5 DEF Regot
    <3>3. QED  BY <2>3, <3>1, <3>2
  <2>7. ASSUME Laid(h), r.did \cap {"split", "failed"} = {} PROVE Clean(h, old, n, r)
    <3>1. got.did = {}  BY <1>7, <1>10, <2>1, <2>7 DEF Result
    <3>2. Whole(h1, n, got)  BY <1>5, <1>10, <3>1
    <3>3. /\ Laid(got.h) /\ got.h.byte = h.byte
          /\ \A a \in Blocks(h) : /\ got.h.block[a].size = h.block[a].size
                                  /\ a # new /\ a # old => got.h.block[a].free = h.block[a].free
          /\ got.h.block[new].size >= n /\ ~got.h.block[new].free
          /\ new \in Blocks(h) => new = old \/ h.block[new].free
      BY <1>2, <1>3, <1>4, <1>10, <2>7, <3>2 DEF Whole
    <3>4. /\ Laid(k) /\ k.byte = h.byte
          /\ \A a \in Blocks(got.h) : k.block[a].size = got.h.block[a].size /\ k.block[a].free = got.h.block[a].free
      <4>1. \A a \in Blocks(got.h) : k.block[a].size = got.h.block[a].size /\ k.block[a].free = got.h.block[a].free
        BY <2>2 DEF Sized
      <4>2. Laid(k)  BY <2>2, <3>3, <4>1 DEF Laid
      <4>3. QED  BY <2>2, <3>3, <4>1, <4>2
    <3>5. k.block[new].size >= n /\ k.block[new].size \in Nat /\ k.block[old].size = h.block[old].size /\ k.block[old].size \in Nat
      BY <2>1, <2>2, <3>3, <3>4 DEF Linked, Header
    <3>6. n <= k.block[new].size  BY <3>5
    <3>7. Copied(copied, k, old, new)  BY <2>3, <3>4, <3>6
    <3>8. copied.how = "ok" /\ Linked(copied.h) /\ copied.h.block = k.block /\ copied.h.brk = k.brk  BY <2>3, <3>7 DEF Copied
    <3>9. Laid(copied.h) /\ Blocks(copied.h) = Blocks(k)
      <4>1. Alike(copied.h, k)  BY <3>8 DEF Alike, Blocks
      <4>2. QED  BY <3>4, <4>1, AlikeKeeps DEF Alike
    <3>10. PICK so \in Nat, sn \in Nat : so = k.block[old].size /\ sn = k.block[new].size  BY <3>5
    <3>11. Plain(copied.h, old + META_SIZE, so)
      <4>1. old \in Blocks(copied.h) /\ copied.h.block[old].size = so /\ so <= so  BY <2>1, <2>2, <3>8, <3>9, <3>10
      <4>2. QED  BY <3>8, <3>9, <4>1, PlainInside
    <3>12. zeroed.how = "ok" /\ Written(zeroed.h, copied.h, old + META_SIZE, so, [b \in 1 .. HeapMax |-> 0])
      BY <2>4, <3>8, <3>10, <3>11 DEF Stored
    <3>13. r.h = zeroed.h /\ r.ret = new /\ r.how = "ok"
      BY <1>7, <1>10, <3>8, <3>12 DEF Result
    <3>14. /\ Linked(zeroed.h) /\ zeroed.h.block = k.block /\ Laid(zeroed.h) /\ Blocks(zeroed.h) = Blocks(k)
           /\ \A b \in 1 .. HeapMax : zeroed.h.byte[b] = IF b \in Bytes(old + META_SIZE, so) THEN 0 ELSE copied.h.byte[b]
      <4>1. /\ Linked(zeroed.h) /\ zeroed.h.block = k.block /\ zeroed.h.brk = k.brk
            /\ \A b \in 1 .. HeapMax : zeroed.h.byte[b] = IF b \in Bytes(old + META_SIZE, so) THEN 0 ELSE copied.h.byte[b]
        BY <3>8, <3>12 DEF Written
      <4>2. Alike(zeroed.h, k)  BY <4>1 DEF Alike, Blocks
      <4>3. QED  BY <3>4, <4>1, <4>2, AlikeKeeps DEF Alike
    <3>15. \A b \in 1 .. HeapMax : b \notin Bytes(new + META_SIZE, sn) => copied.h.byte[b] = h.byte[b]
      BY <3>4, <3>7, <3>10 DEF Copied
    <3>16. new # old => \A i \in Nat : i < so /\ i < n => zeroed.h.byte[new + META_SIZE + i] = h.byte[old + META_SIZE + i]
      <4>1. SUFFICES ASSUME new # old, NEW i \in Nat, i < so, i < n
                     PROVE  zeroed.h.byte[new + META_SIZE + i] = h.byte[old + META_SIZE + i]
        OBVIOUS
      <4>2. i < sn  BY <3>6, <3>10, <4>1
      <4>3. copied.h.byte[new + META_SIZE + i] = h.byte[old + META_SIZE + i]
        BY <3>4, <3>7, <3>10, <4>1, <4>2 DEF Copied
      <4>4. new \in Nat /\ META_SIZE \in Nat  BY <2>1, MmAssumption DEF Linked
      <4>5. new + META_SIZE + i \in Bytes(new + META_SIZE, sn)  BY <4>2, <4>4 DEF Bytes
      <4>6. Bytes(old + META_SIZE, so) \cap Bytes(new + META_SIZE, sn) = {}
        BY <2>1, <2>2, <3>4, <3>10, <4>1, SpansApart
      <4>7. Bytes(new + META_SIZE, sn) \subseteq 1 .. HeapMax  BY <2>1, <2>2, <3>4, <3>10, SpanInside
      <4>8. QED  BY <3>14, <4>3, <4>5, <4>6, <4>7
    <3>17. \A b \in 1 .. HeapMax :
              /\ b \in Bytes(old + META_SIZE, so) => zeroed.h.byte[b] = 0
              /\ b \notin Bytes(old + META_SIZE, so) /\ b \notin Bytes(new + META_SIZE, sn) => zeroed.h.byte[b] = h.byte[b]
      BY <3>14, <3>15
    <3>18. so = h.block[old].size /\ sn = r.h.block[r.ret].size  BY <3>5, <3>10, <3>13, <3>14
    <3>19. /\ Blocks(h) \subseteq Blocks(r.h) /\ r.ret \in Blocks(r.h) /\ r.h.block[r.ret].size >= n
           /\ ~r.h.block[r.ret].free /\ Linked(r.h) /\ Laid(r.h)
           /\ \A a \in Blocks(h) : r.h.block[a].size = h.block[a].size
           /\ \A a \in Blocks(h) : a # old /\ a # r.ret => r.h.block[a].free = h.block[a].free
      BY <2>1, <2>2, <3>3, <3>4, <3>5, <3>13, <3>14
    <3>20. QED  BY <3>3, <3>13, <3>16, <3>17, <3>18, <3>19 DEF Clean
  <2>8. QED  BY <2>6, <2>7
<1>11. QED  BY <1>8, <1>9, <1>10

\* A block that a caller has: large enough, with the caller's bytes.
Placed(h, l) ==
    /\ l.at \in Blocks(h) /\ l.size \in Nat /\ l.size <= h.block[l.at].size
    /\ DOMAIN l.byte \subseteq 0 .. l.size - 1
    /\ \A i \in DOMAIN l.byte : h.byte[l.at + META_SIZE + i] = l.byte[i]

\* No block has been split and no mm_realloc has failed.
Unspoilt == past \cap {"split", "failed"} = {}

\* The heap until then: laid out, and each block given to one caller.
Given(h, held, how) ==
    /\ how # "wild" /\ Linked(h) /\ Laid(h)
    /\ \A l \in held : Placed(h, l)
    /\ \A l, m \in held : l.at = m.at => l = m
    /\ how = "ok" => \A l \in held : ~h.block[l.at].free

\* The heap always, as long as the program's behaviour is defined.
Sane(h, held, moved) ==
    Linked(h) /\ (~moved => Ranked(h)) /\ \A l \in held : l.at \in Blocks(h)

\* While the program runs the heap is sane, and a search hangs only after a move.
MmInv ==
    /\ ended \in {"ok", "hung", "wild"} /\ mmCalls \in Nat
    /\ ended = "ok" => Sane(mmHeap, live, "moved" \in past)
    /\ ended = "hung" => "moved" \in past
    /\ Unspoilt => Given(mmHeap, live, ended)

\* A caller's block stays its own when its bytes do.
LEMMA PlacedStays ==
    ASSUME NEW h, NEW g, NEW l, Linked(h), Laid(h), Placed(h, l),
           l.at \in Blocks(g), g.block[l.at].size = h.block[l.at].size,
           \A b \in 1 .. HeapMax : b \in Bytes(l.at + META_SIZE, h.block[l.at].size) => g.byte[b] = h.byte[b]
    PROVE  Placed(g, l)
<1>1. PICK a \in Blocks(h), s \in Nat, t \in Nat : a = l.at /\ s = l.size /\ t = h.block[a].size /\ s <= t
  BY DEF Placed, Linked, Header
<1>2. a \in Nat /\ META_SIZE \in Nat  BY MmAssumption DEF Linked
<1>3. Bytes(a + META_SIZE, t) \subseteq 1 .. HeapMax  BY <1>1, SpanInside
<1>4. \A i \in DOMAIN l.byte : i \in 0 .. s - 1  BY <1>1 DEF Placed
<1>5. \A i \in 0 .. s - 1 : a + META_SIZE + i \in Bytes(a + META_SIZE, t)  BY <1>1, <1>2 DEF Bytes
<1>6. \A i \in DOMAIN l.byte : g.byte[l.at + META_SIZE + i] = l.byte[i]  BY <1>1, <1>3, <1>4, <1>5 DEF Placed
<1>7. QED  BY <1>6 DEF Placed

\* What the properties say of such a heap.
LEMMA MmSafe ==
    ASSUME MmInv
    PROVE  HeapSound
<1>1. HangCause  BY DEF MmInv, HangCause
<1>2. ASSUME Unspoilt PROVE Given(mmHeap, live, ended)  BY <1>2 DEF MmInv
<1>3. ASSUME Unspoilt, NEW l \in live
      PROVE  /\ l.at \in Blocks(mmHeap) /\ Linked(mmHeap) /\ Laid(mmHeap)
             /\ Span(l) \subseteq Bytes(l.at + META_SIZE, mmHeap.block[l.at].size)
             /\ Span(l) \cap Headers(mmHeap) = {} /\ Span(l) \subseteq 1 .. (mmHeap.brk - 1)
  <2>1. Linked(mmHeap) /\ Laid(mmHeap) /\ Placed(mmHeap, l)  BY <1>2, <1>3 DEF Given
  <2>2. PICK a \in Blocks(mmHeap), s \in Nat, t \in Nat : a = l.at /\ s = l.size /\ t = mmHeap.block[a].size /\ s <= t
    BY <2>1 DEF Placed, Linked, Header
  <2>3. a \in Nat /\ META_SIZE \in Nat  BY <2>1, MmAssumption DEF Linked
  <2>4. Bytes(a + META_SIZE, s) \subseteq Bytes(a + META_SIZE, t)  BY <2>2, <2>3 DEF Bytes
  <2>5. Plain(mmHeap, a + META_SIZE, s)  BY <2>1, <2>2, PlainInside
  <2>6. Bytes(a + META_SIZE, t) \subseteq 1 .. mmHeap.brk - 1  BY <2>1, <2>2, SpanInside
  <2>7. QED  BY <2>1, <2>2, <2>4, <2>5, <2>6 DEF Span, Plain
<1>4. HandedOnce
  <2>1. SUFFICES ASSUME Unspoilt
                 PROVE  /\ ended # "wild"
                        /\ \A l \in live : Span(l) \cap Headers(mmHeap) = {} /\ Span(l) \subseteq 1 .. (mmHeap.brk - 1)
                        /\ \A l, m \in live : l = m \/ Span(l) \cap Span(m) = {}
    BY DEF HandedOnce, Unspoilt
  <2>2. ended # "wild"  BY <1>2, <2>1 DEF Given
  <2>3. ASSUME NEW l \in live, NEW m \in live, l # m PROVE Span(l) \cap Span(m) = {}
    <3>1. l.at # m.at  BY <1>2, <2>1, <2>3 DEF Given
    <3>2. Bytes(l.at + META_SIZE, mmHeap.block[l.at].size) \cap Bytes(m.at + META_SIZE, mmHeap.block[m.at].size) = {}
      BY <1>3, <2>1, <3>1, SpansApart
    <3>3. QED  BY <1>3, <2>1, <3>2
  <2>4. QED  BY <1>3, <2>1, <2>2, <2>3
<1>5. BytesHeld  BY <1>2 DEF BytesHeld, Unspoilt, Given, Placed
<1>6. QED  BY <1>1, <1>4, <1>5 DEF HeapSound

\* The heap before the first call.
LEMMA MmStart ==
    ASSUME MmInit
    PROVE  MmInv
<1>1. PICK h : h = mmHeap  OBVIOUS
<1>2. h = [block |-> [a \in {} |-> 0], head |-> 0, end |-> 0, brk |-> 1, byte |-> [a \in Bytes(1, HeapMax) |-> 0]]
  BY <1>1 DEF MmInit
<1>3. h.block = [a \in {} |-> 0] /\ h.head = 0 /\ h.end = 0 /\ h.brk = 1 /\ h.byte = [a \in Bytes(1, HeapMax) |-> 0]
  BY <1>2
<1>4. HeapMax \in Nat  BY MmAssumption
<1>5. Bytes(1, HeapMax) = 1 .. HeapMax  BY <1>4 DEF Bytes
<1>6. h.byte \in [1 .. HeapMax -> Nat] /\ h.brk \in 1 .. HeapMax + 1  BY <1>3, <1>4, <1>5
<1>7. Blocks(h) = {}  BY <1>3 DEF Blocks
<1>8. h = [block |-> h.block, head |-> h.head, end |-> h.end, brk |-> h.brk, byte |-> h.byte]  BY <1>2, <1>3
<1>9. h.block \in [Blocks(h) -> Header] /\ IsFiniteSet(Blocks(h))  BY <1>3, <1>7, FS_EmptySet
<1>10. Linked(h)  BY <1>3, <1>6, <1>7, <1>8, <1>9 DEF Linked
<1>11. Laid(h) /\ Ranked(h)  BY <1>7 DEF Laid, Ranked, Ranks
<1>12. live = {} /\ ended = "ok" /\ past = {} /\ mmCalls = 0  BY DEF MmInit
<1>13. QED  BY <1>1, <1>10, <1>11, <1>12 DEF MmInv, Sane, Given

\* What mm_malloc does for the callers of the other blocks.
LEMMA GotKeeps ==
    ASSUME MmInv, ended = "ok", NEW n \in Nat, NEW r, r = mm_malloc(mmHeap, n), past' = past \cup r.did
    PROVE  /\ r.how \in {"ok", "hung", "wild"}
           /\ r.how = "ok" => Sane(r.h, live, "moved" \in past') /\ r.ret \in Blocks(r.h) \cup {0}
           /\ r.how = "hung" => "moved" \in past'
           /\ Unspoilt' => Given(r.h, live, r.how) /\ (r.how = "ok" => Whole(mmHeap, n, r))
<1>1. Sane(mmHeap, live, "moved" \in past)  BY DEF MmInv
<1>2. Linked(mmHeap)  BY <1>1 DEF Sane
<1>3. Got(mmHeap, r) /\ (r.how = "ok" /\ r.did = {} => Whole(mmHeap, n, r))  BY <1>2, MallocStep
<1>4. r.how \in {"ok", "hung", "wild"} /\ r.did \in {{}, {"split"}}  BY <1>3 DEF Got
<1>5. "moved" \in past' <=> "moved" \in past  BY <1>4
<1>6. r.how = "ok" => Sane(r.h, live, "moved" \in past') /\ r.ret \in Blocks(r.h) \cup {0}
  BY <1>1, <1>3, <1>5 DEF Got, Sane
<1>7. r.how = "hung" => "moved" \in past'  BY <1>1, <1>3, <1>5 DEF Got, Sane
<1>8. ASSUME Unspoilt' PROVE Given(r.h, live, r.how) /\ (r.how = "ok" => Whole(mmHeap, n, r))
  <2>1. Unspoilt /\ r.did = {}  BY <1>4, <1>8 DEF Unspoilt
  <2>2. Given(mmHeap, live, "ok")  BY <2>1 DEF MmInv
  <2>3. CASE r.how = "hung"
    <3>1. r.h = mmHeap  BY <1>3, <2>3 DEF Got
    <3>2. QED  BY <2>2, <2>3, <3>1 DEF Given
  <2>4. CASE r.how = "ok"
    <3>1. Whole(mmHeap, n, r) /\ Linked(r.h) /\ Blocks(mmHeap) \subseteq Blocks(r.h)  BY <1>3, <2>1, <2>4 DEF Got
    <3>2. Laid(mmHeap) /\ Laid(r.h)  BY <2>2, <3>1 DEF Given, Whole
    <3>3. ASSUME NEW l \in live PROVE Placed(r.h, l) /\ ~r.h.block[l.at].free
      <4>1. Placed(mmHeap, l) /\ ~mmHeap.block[l.at].free /\ l.at \in Blocks(mmHeap)  BY <2>2, <3>3 DEF Given, Placed
      <4>2. l.at \in Blocks(r.h) /\ r.h.block[l.at].size = mmHeap.block[l.at].size /\ r.h.byte = mmHeap.byte
        BY <3>1, <4>1 DEF Whole
      <4>3. Placed(r.h, l)  BY <1>2, <3>2, <4>1, <4>2, PlacedStays
      <4>4. l.at # 0  BY <1>2, <4>1 DEF Linked
      <4>5. l.at # r.ret  BY <3>1, <4>1, <4>4 DEF Whole
      <4>6. QED  BY <3>1, <4>1, <4>3, <4>5 DEF Whole
    <3>4. QED  BY <2>2, <2>4, <3>1, <3>2, <3>3 DEF Given
  <2>5. CASE r.how = "wild"  BY <1>3, <2>1, <2>5 DEF Got
  <2>6. QED  BY <1>4, <2>3, <2>4, <2>5
<1>9. QED  BY <1>4, <1>6, <1>7, <1>8

\* The state after a call.
LEMMA ReturnedInv ==
    ASSUME MmInv, ended = "ok", NEW r, NEW h, NEW how, NEW held, Returned(r, h, how, held),
           how \in {"ok", "hung", "wild"}, how = "ok" => Sane(h, held, "moved" \in past'),
           how = "hung" => "moved" \in past', Unspoilt' => Given(h, held, how)
    PROVE  MmInv'
<1>1. mmHeap' = h /\ ended' = how /\ live' = held /\ mmCalls' = mmCalls + 1  BY DEF Returned
<1>2. mmCalls' \in Nat  BY <1>1 DEF MmInv
<1>3. (ended = "ok" => Sane(mmHeap, live, "moved" \in past))'  BY <1>1
<1>4. (Unspoilt => Given(mmHeap, live, ended))'  BY <1>1
<1>5. QED  BY <1>1, <1>2, <1>3, <1>4 DEF MmInv

\* mm_realloc of NULL.
LEMMA CallReallocNullStep ==
    ASSUME MmInv, CallReallocNull
    PROVE  MmInv'
<1>0. PICK n \in ReqSize \ {0} : \E r : r = mm_malloc(mmHeap, n) /\ Returned(r, r.h, r.how, live)  BY DEF CallReallocNull
<1>1. PICK r : r = mm_malloc(mmHeap, n) /\ Returned(r, r.h, r.how, live)  BY <1>0
<1>2. ended = "ok" /\ past' = past \cup r.did  BY <1>1 DEF CallReallocNull, Ready, Returned
<1>3. n \in Nat  BY MmAssumption
<1>4. QED  BY <1>1, <1>2, <1>3, GotKeeps, ReturnedInv

\* mm_malloc, and the caller's writes.
LEMMA CallMallocStep ==
    ASSUME MmInv, CallMalloc
    PROVE  MmInv'
<1>0. PICK n \in ReqSize : \E r, f, mine :
        /\ r = mm_malloc(mmHeap, n) /\ f = Fill(r.h, r.ret, n)
        /\ mine = [at |-> r.ret, size |-> n, byte |-> [i \in 0 .. (n - 1) |-> mmCalls + 1]]
        /\ IF r.how # "ok" \/ r.ret = 0 THEN Returned(r, r.h, r.how, live)
           ELSE Returned(r, f.h, f.how, live \cup {mine})
  BY DEF CallMalloc
<1>1. PICK r, f, mine :
        /\ r = mm_malloc(mmHeap, n) /\ f = Fill(r.h, r.ret, n)
        /\ mine = [at |-> r.ret, size |-> n, byte |-> [i \in 0 .. (n - 1) |-> mmCalls + 1]]
        /\ IF r.how # "ok" \/ r.ret = 0 THEN Returned(r, r.h, r.how, live)
           ELSE Returned(r, f.h, f.how, live \cup {mine})
  BY <1>0
<1>2. ended = "ok" /\ past' = past \cup r.did  BY <1>1 DEF CallMalloc, Ready, Returned
<1>3. n \in Nat /\ mmCalls \in Nat  BY MmAssumption DEF MmInv
<1>4. /\ r.how \in {"ok", "hung", "wild"}
      /\ r.how = "ok" => Sane(r.h, live, "moved" \in past') /\ r.ret \in Blocks(r.h) \cup {0}
      /\ r.how = "hung" => "moved" \in past'
      /\ Unspoilt' => Given(r.h, live, r.how) /\ (r.how = "ok" => Whole(mmHeap, n, r))
  BY <1>1, <1>2, <1>3, GotKeeps
<1>5. CASE r.how # "ok" \/ r.ret = 0
  <2>1. Returned(r, r.h, r.how, live)  BY <1>1, <1>5
  <2>2. QED  BY <1>2, <1>4, <2>1, ReturnedInv
<1>6. CASE r.how = "ok" /\ r.ret # 0
  <2>1. Returned(r, f.h, f.how, live \cup {mine})  BY <1>1, <1>6
  <2>2. /\ Linked(r.h) /\ ("moved" \notin past' => Ranked(r.h)) /\ (\A l \in live : l.at \in Blocks(r.h)) /\ r.ret \in Blocks(r.h)
    BY <1>4, <1>6 DEF Sane
  <2>3. Stored(f, r.h, r.ret + META_SIZE, n, [b \in 1 .. HeapMax |-> mmCalls + 1])  BY <1>1, <1>3, <2>2, FillStep
  <2>4. f.how \in {"ok", "wild"}  BY <2>3 DEF Stored
  <2>5. mine.at = r.ret /\ mine.size = n /\ mine.byte = [i \in 0 .. (n - 1) |-> mmCalls + 1]  BY <1>1
  <2>6. f.how = "ok" => Alike(f.h, r.h) /\ Linked(f.h) /\ Blocks(f.h) = Blocks(r.h) /\ (Ranked(r.h) => Ranked(f.h))
    <3>1. SUFFICES ASSUME f.how = "ok"
                   PROVE  Alike(f.h, r.h) /\ Linked(f.h) /\ Blocks(f.h) = Blocks(r.h) /\ (Ranked(r.h) => Ranked(f.h))
      OBVIOUS
    <3>2. Written(f.h, r.h, r.ret + META_SIZE, n, [b \in 1 .. HeapMax |-> mmCalls + 1])  BY <2>3, <3>1 DEF Stored
    <3>3. Linked(f.h) /\ Alike(f.h, r.h)  BY <3>2, WrittenAlike DEF Written
    <3>4. QED  BY <3>3, AlikeKeeps DEF Alike
  <2>7. f.how = "ok" => Sane(f.h, live \cup {mine}, "moved" \in past')  BY <2>2, <2>5, <2>6 DEF Sane
  <2>8. ASSUME Unspoilt' PROVE Given(f.h, live \cup {mine}, f.how)
    <3>1. Given(r.h, live, "ok") /\ Whole(mmHeap, n, r) /\ Unspoilt  BY <1>2, <1>4, <1>6, <2>8 DEF Unspoilt
    <3>2. PICK m \in Nat : m = r.h.block[r.ret].size  BY <2>2 DEF Linked, Header
    <3>3. n <= m /\ ~r.h.block[r.ret].free  BY <1>3, <1>6, <3>1, <3>2 DEF Whole
    <3>4. Laid(r.h)  BY <3>1 DEF Given
    <3>5. Plain(r.h, r.ret + META_SIZE, n)  BY <1>3, <2>2, <3>2, <3>3, <3>4, PlainInside
    <3>6. f.how = "ok" /\ Written(f.h, r.h, r.ret + META_SIZE, n, [b \in 1 .. HeapMax |-> mmCalls + 1])
      BY <2>3, <3>5 DEF Stored
    <3>7. /\ f.h.block = r.h.block
          /\ \A b \in 1 .. HeapMax : f.h.byte[b] = IF b \in Bytes(r.ret + META_SIZE, n) THEN mmCalls + 1 ELSE r.h.byte[b]
      BY <3>6 DEF Written
    <3>8. Laid(f.h)  BY <2>6, <3>4, <3>6, AlikeKeeps
    <3>9. r.ret \in Nat /\ META_SIZE \in Nat  BY <2>2, MmAssumption DEF Linked
    <3>10. Bytes(r.ret + META_SIZE, n) \subseteq Bytes(r.ret + META_SIZE, m)  BY <1>3, <3>3, <3>9 DEF Bytes
    <3>11. Bytes(r.ret + META_SIZE, m) \subseteq 1 .. HeapMax  BY <2>2, <3>2, <3>4, SpanInside
    <3>12. Placed(f.h, mine)
      <4>1. mine.at \in Blocks(f.h) /\ mine.size \in Nat /\ mine.size <= f.h.block[mine.at].size
        BY <1>3, <2>2, <2>5, <2>6, <3>2, <3>3, <3>6, <3>7
      <4>2. DOMAIN mine.byte = 0 .. mine.size - 1  BY <2>5
      <4>3. ASSUME NEW i \in 0 .. n - 1 PROVE f.h.byte[r.ret + META_SIZE + i] = mine.byte[i]
        <5>1. r.ret + META_SIZE + i \in Bytes(r.ret + META_SIZE, n)  BY <1>3, <3>9, <4>3 DEF Bytes
        <5>2. r.ret + META_SIZE + i \in 1 .. HeapMax  BY <3>10, <3>11, <5>1
        <5>3. mine.byte[i] = mmCalls + 1  BY <2>5, <4>3
        <5>4. QED  BY <3>7, <5>1, <5>2, <5>3
      <4>4. QED  BY <2>5, <4>1, <4>2, <4>3 DEF Placed
    <3>13. ASSUME NEW l \in live PROVE Placed(f.h, l) /\ ~f.h.block[l.at].free /\ l.at # r.ret
      <4>1. Placed(r.h, l) /\ ~r.h.block[l.at].free /\ l.at \in Blocks(r.h)  BY <2>2, <3>1, <3>13 DEF Given
      <4>2. l.at # r.ret
        <5>1. Given(mmHeap, live, "ok")  BY <1>2, <3>1 DEF MmInv
        <5>2. l.at \in Blocks(mmHeap) /\ ~mmHeap.block[l.at].free  BY <3>13, <5>1 DEF Given, Placed
        <5>3. QED  BY <1>6, <3>1, <5>2 DEF Whole
      <4>3. Bytes(l.at + META_SIZE, r.h.block[l.at].size) \cap Bytes(r.ret + META_SIZE, m) = {}
        BY <2>2, <3>2, <3>4, <4>1, <4>2, SpansApart
      <4>4. \A b \in 1 .. HeapMax : b \in Bytes(l.at + META_SIZE, r.h.block[l.at].size) => f.h.byte[b] = r.h.byte[b]
        BY <3>7, <3>10, <4>3
      <4>5. l.at \in Blocks(f.h) /\ f.h.block[l.at].size = r.h.block[l.at].size  BY <2>6, <3>6, <3>7, <4>1
      <4>6. Placed(f.h, l)  BY <2>2, <3>4, <4>1, <4>4, <4>5, PlacedStays
      <4>7. QED  BY <3>7, <4>1, <4>2, <4>6
    <3>14. \A l, x \in live : l.at = x.at => l = x  BY <3>1 DEF Given
    <3>15. QED  BY <2>5, <2>6, <3>3, <3>6, <3>7, <3>8, <3>12, <3>13, <3>14 DEF Given
  <2>9. f.how # "hung"  BY <2>4
  <2>10. QED  BY <1>2, <2>1, <2>4, <2>7, <2>8, <2>9, ReturnedInv
<1>7. QED  BY <1>5, <1>6

\* mm_free.
LEMMA CallFreeStep ==
    ASSUME MmInv, CallFree
    PROVE  MmInv'
<1>0. PICK l \in live : \E f, r : /\ f = mm_free(mmHeap, l.at) /\ r = Result(f.h, 0, f.how, {})
                                  /\ Returned(r, f.h, f.how, live \ {l})
  BY DEF CallFree
<1>1. PICK f, r : /\ f = mm_free(mmHeap, l.at) /\ r = Result(f.h, 0, f.how, {})
                  /\ Returned(r, f.h, f.how, live \ {l})
  BY <1>0
<1>2. ended = "ok"  BY DEF CallFree, Ready
<1>3. r.did = {}  BY <1>1 DEF Result
<1>4. past' = past  BY <1>1, <1>3 DEF Returned
<1>5. Sane(mmHeap, live, "moved" \in past)  BY <1>2 DEF MmInv
<1>6. PICK a, h : a = l.at /\ h = mmHeap  OBVIOUS
<1>7. Linked(h) /\ a \in Blocks(h) /\ ("moved" \notin past => Ranked(h)) /\ \A m \in live : m.at \in Blocks(h)
  BY <1>1, <1>5, <1>6 DEF Sane
<1>8. PICK g : g = Flagged(h, a, TRUE)  OBVIOUS
<1>9. Flag(g, h, a, TRUE)  BY <1>7, <1>8, FlagSet, Zenon
<1>10. /\ Linked(g) /\ Alike(g, h) /\ g.byte = h.byte /\ Blocks(g) = Blocks(h)
       /\ \A b \in Blocks(h) : /\ b # a => g.block[b].free = h.block[b].free
                               /\ g.block[b].size = h.block[b].size
  BY <1>9 DEF Flag, Alike
<1>11. f = Zero(g, a)  BY <1>1, <1>6, <1>8 DEF mm_free, Flagged
<1>12. PICK n \in Nat : n = g.block[a].size  BY <1>7, <1>10 DEF Linked, Header
<1>13. Stored(f, g, a + META_SIZE, n, [b \in 1 .. HeapMax |-> 0])  BY <1>10, <1>11, <1>12, ZeroStep
<1>14. f.how \in {"ok", "wild"}  BY <1>13 DEF Stored
<1>15. ASSUME f.how = "ok"
       PROVE  /\ Linked(f.h) /\ Alike(f.h, g) /\ Blocks(f.h) = Blocks(h) /\ (Ranked(h) => Ranked(f.h)) /\ (Laid(h) => Laid(f.h))
              /\ \A b \in Blocks(h) : /\ b # a => f.h.block[b].free = h.block[b].free
                                      /\ f.h.block[b].size = h.block[b].size
              /\ \A b \in 1 .. HeapMax : f.h.byte[b] = IF b \in Bytes(a + META_SIZE, n) THEN 0 ELSE h.byte[b]
  <2>1. Written(f.h, g, a + META_SIZE, n, [b \in 1 .. HeapMax |-> 0])  BY <1>13, <1>15 DEF Stored
  <2>2. Linked(f.h) /\ Alike(f.h, g) /\ \A b \in Blocks(g) : f.h.block[b].free = g.block[b].free
    BY <2>1, WrittenAlike DEF Written
  <2>3. (Ranked(g) => Ranked(f.h)) /\ (Laid(g) => Laid(f.h))  BY <2>2, AlikeKeeps
  <2>4. (Ranked(h) => Ranked(g)) /\ (Laid(h) => Laid(g))  BY <1>10, AlikeKeeps
  <2>5. Blocks(f.h) = Blocks(h) /\ \A b \in Blocks(h) : f.h.block[b].size = h.block[b].size  BY <1>10, <2>2 DEF Alike
  <2>6. \A b \in 1 .. HeapMax : f.h.byte[b] = IF b \in Bytes(a + META_SIZE, n) THEN 0 ELSE h.byte[b]
    BY <1>10, <2>1 DEF Written
  <2>7. QED  BY <1>10, <2>2, <2>3, <2>4, <2>5, <2>6
<1>16. f.how = "ok" => Sane(f.h, live \ {l}, "moved" \in past')  BY <1>4, <1>7, <1>15 DEF Sane
<1>17. ASSUME Unspoilt' PROVE Given(f.h, live \ {l}, f.how)
  <2>1. Given(h, live, "ok")  BY <1>2, <1>4, <1>6, <1>17 DEF MmInv, Unspoilt
  <2>2. Laid(h) /\ \A x, y \in live : x.at = y.at => x = y  BY <2>1 DEF Given
  <2>3. Laid(g)  BY <1>10, <2>2, AlikeKeeps
  <2>4. Plain(g, a + META_SIZE, n)  BY <1>7, <1>10, <1>12, <2>3, PlainInside
  <2>5. f.how = "ok"  BY <1>13, <2>4 DEF Stored
  <2>6. ASSUME NEW m \in live \ {l} PROVE Placed(f.h, m) /\ ~f.h.block[m.at].free
    <3>1. m.at # a  BY <1>1, <1>6, <2>2, <2>6
    <3>2. Placed(h, m) /\ ~h.block[m.at].free /\ m.at \in Blocks(h)  BY <1>7, <2>1, <2>6 DEF Given
    <3>3. Bytes(m.at + META_SIZE, h.block[m.at].size) \cap Bytes(a + META_SIZE, h.block[a].size) = {}
      BY <1>7, <2>2, <3>1, <3>2, SpansApart
    <3>4. h.block[a].size = n  BY <1>7, <1>10, <1>12
    <3>5. \A b \in 1 .. HeapMax : b \in Bytes(m.at + META_SIZE, h.block[m.at].size) => f.h.byte[b] = h.byte[b]
      BY <1>15, <2>5, <3>3, <3>4
    <3>6. m.at \in Blocks(f.h) /\ f.h.block[m.at].size = h.block[m.at].size  BY <1>15, <2>5, <3>2
    <3>7. Placed(f.h, m)  BY <1>7, <2>2, <3>2, <3>5, <3>6, PlacedStays
    <3>8. QED  BY <1>15, <2>5, <3>1, <3>2, <3>7
  <2>7. QED  BY <1>15, <2>2, <2>5, <2>6 DEF Given
<1>18. f.how # "hung"  BY <1>14
<1>19. QED  BY <1>1, <1>2, <1>14, <1>16, <1>17, <1>18, ReturnedInv

\* mm_realloc of a block.
LEMMA CallReallocStep ==
    ASSUME MmInv, CallRealloc
    PROVE  MmInv'
<1>0. PICK l \in live, n \in ReqSize \ {0} : \E r, held :
        /\ r = mm_realloc(mmHeap, l.at, n) /\ Returned(r, r.h, r.how, held)
        /\ held = IF r.how # "ok" \/ r.ret = 0 THEN live ELSE (live \ {l}) \cup {Expected(l, n, r)}
  BY DEF CallRealloc
<1>1. PICK r, held :
        /\ r = mm_realloc(mmHeap, l.at, n) /\ Returned(r, r.h, r.how, held)
        /\ held = IF r.how # "ok" \/ r.ret = 0 THEN live ELSE (live \ {l}) \cup {Expected(l, n, r)}
  BY <1>0
<1>2. ended = "ok" /\ past' = past \cup r.did  BY <1>1 DEF CallRealloc, Ready, Returned
<1>3. n \in Nat  BY MmAssumption
<1>4. PICK old, h, mine : old = l.at /\ h = mmHeap /\ mine = Expected(l, n, r)  OBVIOUS
<1>5. Sane(h, live, "moved" \in past)  BY <1>2, <1>4 DEF MmInv
<1>6. Linked(h) /\ old \in Blocks(h) /\ ("moved" \notin past => Ranked(h)) /\ \A m \in live : m.at \in Blocks(h)
  BY <1>1, <1>4, <1>5 DEF Sane
<1>7. r = mm_realloc(h, old, n)  BY <1>1, <1>4
<1>8. Regot(h, r) /\ (Laid(h) /\ r.did \cap {"split", "failed"} = {} => Clean(h, old, n, r))
  BY <1>3, <1>6, <1>7, ReallocStep
<1>9. r.how \in {"ok", "hung", "wild"} /\ (r.how = "hung" => "moved" \in past')  BY <1>2, <1>6, <1>8 DEF Regot
<1>10. /\ mine.at = r.ret /\ mine.size = n /\ DOMAIN mine.byte = DOMAIN l.byte \cap 0 .. (n - 1)
       /\ \A i \in DOMAIN mine.byte : mine.byte[i] = IF r.ret # old THEN l.byte[i] ELSE 0
  BY <1>4 DEF Expected
<1>11. ASSUME r.how = "ok" PROVE Sane(r.h, held, "moved" \in past')
  <2>1. /\ Linked(r.h) /\ Blocks(h) \subseteq Blocks(r.h) /\ r.ret \in Blocks(r.h) \cup {0}
        /\ Ranked(h) /\ "moved" \notin r.did => Ranked(r.h)
    BY <1>8, <1>11 DEF Regot
  <2>2. "moved" \notin past' => Ranked(r.h)  BY <1>2, <1>6, <2>1
  <2>3. \A m \in held : m.at \in Blocks(r.h)  BY <1>1, <1>4, <1>6, <1>10, <2>1
  <2>4. QED  BY <2>1, <2>2, <2>3 DEF Sane
<1>12. ASSUME Unspoilt' PROVE Given(r.h, held, r.how)
  <2>1. Unspoilt /\ r.did \cap {"split", "failed"} = {}  BY <1>2, <1>12 DEF Unspoilt
  <2>2. Given(h, live, "ok")  BY <1>2, <1>4, <2>1 DEF MmInv
  <2>3. Laid(h) /\ \A x, y \in live : x.at = y.at => x = y  BY <2>2 DEF Given
  <2>4. Clean(h, old, n, r)  BY <1>8, <2>1, <2>3
  <2>5. /\ r.how # "wild" /\ Linked(r.h) /\ Laid(r.h) /\ Blocks(h) \subseteq Blocks(r.h)
        /\ \A a \in Blocks(h) : r.h.block[a].size = h.block[a].size
    BY <2>4 DEF Clean
  <2>6. CASE r.how = "hung"
    <3>1. r.h.byte = h.byte /\ held = live  BY <1>1, <2>4, <2>6 DEF Clean
    <3>2. ASSUME NEW m \in live PROVE Placed(r.h, m)
      <4>1. Placed(h, m) /\ m.at \in Blocks(h)  BY <1>6, <2>2, <3>2 DEF Given
      <4>2. m.at \in Blocks(r.h) /\ r.h.block[m.at].size = h.block[m.at].size  BY <2>5, <4>1
      <4>3. QED  BY <1>6, <2>3, <3>1, <4>1, <4>2, PlacedStays
    <3>3. QED  BY <2>3, <2>5, <2>6, <3>1, <3>2 DEF Given
  <2>7. CASE r.how = "ok"
    <3>1. r.ret \in Blocks(r.h) /\ r.h.block[r.ret].size >= n /\ ~r.h.block[r.ret].free  BY <2>4, <2>7 DEF Clean
    <3>2. r.ret \in Blocks(h) => r.ret = old \/ h.block[r.ret].free  BY <2>4, <2>7 DEF Clean
    <3>3. \A a \in Blocks(h) : a # old /\ a # r.ret => r.h.block[a].free = h.block[a].free  BY <2>4, <2>7 DEF Clean
    <3>4. \A b \in 1 .. HeapMax :
              /\ b \in Bytes(old + META_SIZE, h.block[old].size) => r.h.byte[b] = 0
              /\ (/\ b \notin Bytes(old + META_SIZE, h.block[old].size)
                  /\ b \notin Bytes(r.ret + META_SIZE, r.h.block[r.ret].size)) => r.h.byte[b] = h.byte[b]
      BY <2>4, <2>7 DEF Clean
    <3>5. r.ret # old => \A i \in Nat : i < h.block[old].size /\ i < n =>
              r.h.byte[r.ret + META_SIZE + i] = h.byte[old + META_SIZE + i]
      BY <2>4, <2>7 DEF Clean
    <3>6. r.ret # 0  BY <2>5, <3>1 DEF Linked
    <3>7. held = (live \ {l}) \cup {mine}  BY <1>1, <1>4, <2>7, <3>6
    <3>8. Placed(h, l)  BY <1>1, <2>2 DEF Given
    <3>9. PICK s \in Nat, t \in Nat, u \in Nat :
            s = l.size /\ t = h.block[old].size /\ s <= t /\ u = r.h.block[r.ret].size /\ u >= n
      BY <1>4, <1>6, <2>5, <3>1, <3>8 DEF Placed, Linked, Header
    <3>10. old \in Nat /\ r.ret \in Nat /\ META_SIZE \in Nat  BY <1>6, <2>5, <3>1, MmAssumption DEF Linked
    <3>11. Bytes(old + META_SIZE, t) \subseteq 1 .. HeapMax  BY <1>6, <2>3, <3>9, SpanInside
    <3>12. ASSUME NEW i \in DOMAIN mine.byte PROVE r.h.byte[r.ret + META_SIZE + i] = mine.byte[i]
      <4>1. i \in DOMAIN l.byte /\ i \in 0 .. n - 1 /\ i \in 0 .. s - 1  BY <1>10, <3>8, <3>9, <3>12 DEF Placed
      <4>2. i \in Nat /\ i < n /\ i < t  BY <1>3, <3>9, <4>1
      <4>3. h.byte[old + META_SIZE + i] = l.byte[i]  BY <1>4, <3>8, <4>1 DEF Placed
      <4>4. CASE r.ret # old  BY <1>10, <3>5, <3>9, <3>12, <4>2, <4>3, <4>4
      <4>5. CASE r.ret = old
        <5>1. old + META_SIZE + i \in Bytes(old + META_SIZE, t)  BY <3>9, <3>10, <4>2 DEF Bytes
        <5>2. old + META_SIZE + i \in 1 .. HeapMax  BY <3>11, <5>1
        <5>3. r.h.byte[old + META_SIZE + i] = 0  BY <3>4, <3>9, <5>1, <5>2
        <5>4. QED  BY <1>10, <3>12, <4>5, <5>3
      <4>6. QED  BY <4>4, <4>5
    <3>13. Placed(r.h, mine)
      <4>1. mine.at \in Blocks(r.h) /\ mine.size \in Nat /\ mine.size <= r.h.block[mine.at].size
        BY <1>3, <1>10, <3>1, <3>9
      <4>2. DOMAIN mine.byte \subseteq 0 .. mine.size - 1  BY <1>10
      <4>3. \A i \in DOMAIN mine.byte : r.h.byte[mine.at + META_SIZE + i] = mine.byte[i]  BY <1>10, <3>12
      <4>4. QED  BY <4>1, <4>2, <4>3 DEF Placed
    <3>14. ASSUME NEW m \in live \ {l} PROVE Placed(r.h, m) /\ ~r.h.block[m.at].free /\ m.at # r.ret
      <4>1. m.at # old  BY <1>1, <1>4, <2>3, <3>14
      <4>2. Placed(h, m) /\ ~h.block[m.at].free /\ m.at \in Blocks(h)  BY <1>6, <2>2, <3>14 DEF Given
      <4>3. m.at # r.ret  BY <3>2, <4>1, <4>2
      <4>4. m.at \in Blocks(r.h) /\ r.h.block[m.at].size = h.block[m.at].size  BY <2>5, <4>2
      <4>5. Bytes(m.at + META_SIZE, h.block[m.at].size) \cap Bytes(old + META_SIZE, h.block[old].size) = {}
        BY <1>6, <2>3, <4>1, <4>2, SpansApart
      <4>6. Bytes(m.at + META_SIZE, r.h.block[m.at].size) \cap Bytes(r.ret + META_SIZE, r.h.block[r.ret].size) = {}
        BY <2>5, <3>1, <4>3, <4>4, SpansApart
      <4>7. \A b \in 1 .. HeapMax : b \in Bytes(m.at + META_SIZE, h.block[m.at].size) => r.h.byte[b] = h.byte[b]
        BY <3>4, <4>4, <4>5, <4>6
      <4>8. Placed(r.h, m)  BY <1>6, <2>3, <4>2, <4>4, <4>7, PlacedStays
      <4>9. QED  BY <3>3, <4>1, <4>2, <4>3, <4>8
    <3>15. \A x, y \in held : x.at = y.at => x = y  BY <1>10, <2>3, <3>7, <3>14
    <3>16. \A x \in held : Placed(r.h, x) /\ ~r.h.block[x.at].free  BY <1>10, <3>1, <3>7, <3>13, <3>14
    <3>17. QED  BY <2>5, <3>15, <3>16 DEF Given
  <2>8. QED  BY <1>9, <2>5, <2>6, <2>7
<1>13. QED  BY <1>1, <1>2, <1>9, <1>11, <1>12, ReturnedInv

\* Every step of the allocator and of its callers keeps the invariant.
LEMMA MmStep ==
    ASSUME MmInv, [MmNext]_mmVars
    PROVE  MmInv'
<1>1. CASE UNCHANGED mmVars
  <2>1. mmHeap' = mmHeap /\ live' = live /\ ended' = ended /\ past' = past /\ mmCalls' = mmCalls  BY <1>1 DEF mmVars
  <2>2. QED  BY <2>1 DEF MmInv, Unspoilt
<1>2. QED  BY <1>1, CallMallocStep, CallFreeStep, CallReallocNullStep, CallReallocStep DEF MmNext

\* The inductive invariant of hw3's allocator, for any memory, sizes and calls:
\* every pointer of mm_alloc.c leads to a header below the break; the list has
\* an order until mm_realloc relinks a block it moved; and until the first
\* split or failed mm_realloc the blocks lie one after the other and each
\* belongs to at most one caller, with that caller's bytes.
THEOREM MmInvariant == MmSpec => []MmInv
  BY MmStart, MmStep, PTL DEF MmSpec

\* Through any sequence of mm_malloc, mm_free and mm_realloc without a split and
\* without a failed mm_realloc, no byte is handed out twice, no caller's block
\* reaches into a header and every caller finds its bytes; and with them too,
\* the search of mm_malloc comes to no end only after the relinking of a block
\* that mm_realloc moved.
THEOREM HeapCorrect == MmSpec => []HeapSound
  BY MmInvariant, MmSafe, PTL

=============================================================================
