------------------------- MODULE ProcessWait_proofs -------------------------
(***************************************************************************)
(* Processes, for any number of them.                                      *)
(*                                                                         *)
(* exec, wait and exit: the struct wait_status that a parent and its child *)
(* share.                                                                  *)
(*                                                                         *)
(* Page tables: the frames that directories and tables refer to, and what  *)
(* the CPU caches of them.                                                 *)
(***************************************************************************)
EXTENDS ProcessWait, PageTable, SeqLemmas, FiniteSetTheorems, TLAPS

\* p is in process_execute for c.
Execs(p, c) == pc[p] = "exec" /\ target[p] = c

\* c has got past start_process.
Started(c) == pc[c] \in {"running", "exec", "wait", "exit_own", "exit_kids"}

\* c has given up its reference in process_exit.
GivenUp(c) == pc[c] \in {"exit_kids", "dead"}

\* The initial thread neither has a wait_status nor exits.
MainRuns ==
    /\ pc[Main] \in {"running", "exec", "wait"}
    /\ parent[Main] = NoProc /\ ~loaded[Main] /\ got[Main] = NoCode

\* Before and during load nobody but the parent in process_execute, and after
\* it only loaded programs run.
Birth(c) ==
    /\ pc[c] \in {"unborn", "loading"} =>
         /\ ~loaded[c] /\ children[c] = <<>> /\ kid[c] = 1 /\ sema[c] = 0
         /\ said[c] = NoCode /\ got[c] = NoCode /\ exit_code[c] = -1
    /\ pc[c] = "unborn" =>
         parent[c] = NoProc /\ heap[c] = "none" /\ ref_cnt[c] = 0
    /\ pc[c] = "loading" =>
         /\ parent[c] \in Proc /\ Execs(parent[c], c)
         /\ heap[c] = "allocated" /\ ref_cnt[c] = 2
    /\ Started(c) /\ c # Main => loaded[c]
    /\ loaded[c] => parent[c] \in Proc /\ pc[c] \notin {"unborn", "loading"}
    /\ wait_status[c] = loaded[c]
    /\ ~loaded[c] => got[c] = NoCode

\* What a process is in the middle of.
Target(p) ==
    /\ pc[p] = "exec" =>
         LET c == target[p] IN
         /\ c \in Proc /\ parent[c] = p
         /\ got[c] = NoCode /\ c \notin ToSet(children[p])
         /\ ~loaded[c] => heap[c] = "allocated" /\ pc[c] \in {"loading", "dead"}
    /\ pc[p] = "wait" => target[p] \in ToSet(children[p])

\* children_wait_status: each loaded child, until it is waited for.
Children(p) ==
    /\ IsInjective(children[p])
    /\ \A c \in ToSet(children[p]) : parent[c] = p /\ loaded[c] /\ got[c] = NoCode

Listed(c) ==
    loaded[c] /\ got[c] = NoCode /\ ~Execs(parent[c], c)
        => c \in ToSet(children[parent[c]])

\* sema counts the events that are still to be taken: that of start_process and
\* that of process_exit.
Events(c) ==
    sema[c] = (IF parent[c] \in Proc /\ Execs(parent[c], c) /\ pc[c] # "loading"
               THEN 1 ELSE 0)
            + (IF loaded[c] /\ GivenUp(c) /\ got[c] = NoCode THEN 1 ELSE 0)

\* ref_cnt, as process_exit counts it: once for the process itself and once
\* for each child it has not waited for.
Counted(c) ==
    loaded[c] =>
        /\ ~GivenUp(c) =>
             /\ ref_cnt[c] = 2 /\ kid[c] = 1
             /\ heap[c] = "allocated" /\ got[c] = NoCode
        /\ GivenUp(c) =>
             /\ kid[c] \in 1 .. Len(children[c]) + 1
             /\ ref_cnt[c] = 2 - kid[c]
             /\ ref_cnt[c] >= 0 \/ fault
             /\ heap[c] = (IF got[c] # NoCode \/ ref_cnt[c] <= 0
                           THEN "freed" ELSE "allocated")

\* The status travels from exit to the struct, and from there to wait.
Statuses(c) ==
    /\ loaded[c] /\ pc[c] \in {"exit_own", "exit_kids", "dead"} =>
         exit_code[c] = said[c]
    /\ got[c] # NoCode => GivenUp(c) /\ got[c] = said[c]

IndInv ==
    /\ TypeOK /\ MainRuns /\ TidyUse
    /\ \A p \in Proc : /\ Birth(p) /\ Target(p) /\ Children(p) /\ Listed(p)
                       /\ Events(p) /\ Counted(p) /\ Statuses(p)

-----------------------------------------------------------------------------
\* The lists as sequences and as sets.
LEMMA ChildrenExist ==
    ASSUME IndInv, NEW q \in Proc
    PROVE  /\ children[q] \in Seq(Proc) /\ ToSet(children[q]) \subseteq Proc
           /\ Len(children[q]) \in Nat
           /\ children[q] = <<>> <=> ToSet(children[q]) = {}
  BY SeqElements DEF IndInv, TypeOK

\* The types that most of the steps need.
Shape ==
    /\ pc \in [Proc -> {"unborn", "loading", "running", "exec", "wait",
                        "exit_own", "exit_kids", "dead"}]
    /\ parent \in [Proc -> Proc \cup {NoProc}]
    /\ target \in [Proc -> Proc \cup {NoProc}]
    /\ sema \in [Proc -> 0 .. 2]
    /\ heap \in [Proc -> {"none", "allocated", "freed"}]

LEMMA ShapeHolds == IndInv => Shape
  BY DEF IndInv, TypeOK, Shape

-----------------------------------------------------------------------------
\* One lemma for each step of process.c: it keeps every part of IndInv.
LEMMA ExecStep ==
    ASSUME IndInv, NEW p \in Proc, Exec(p)
    PROVE  IndInv'
<1> USE MainAssumption, CodeAssumption, NoProcAssumption
        DEF ExitCode, Execs, Started, GivenUp
<1>1. PICK c \in Proc :
         /\ ~fault /\ pc[p] = "running" /\ pc[c] = "unborn"
         /\ pc' = [pc EXCEPT ![p] = "exec", ![c] = "loading"]
         /\ parent' = [parent EXCEPT ![c] = p]
         /\ target' = [target EXCEPT ![p] = c]
         /\ heap' = [heap EXCEPT ![c] = "allocated"]
         /\ ref_cnt' = [ref_cnt EXCEPT ![c] = 2]
         /\ UNCHANGED <<children, kid, wait_status, sema, exit_code, loaded, said,
                        got, fault>>
  BY DEF Exec
<1>2. TypeOK'
  <2>1. fault' \in BOOLEAN
    BY <1>1, Zenon DEF IndInv, TypeOK
  <2>2. pc' \in [Proc -> {"unborn", "loading", "running", "exec", "wait",
                         "exit_own", "exit_kids", "dead"}]
    BY <1>1 DEF TypeOK, IndInv
  <2>3. /\ parent' \in [Proc -> Proc \cup {NoProc}]
        /\ target' \in [Proc -> Proc \cup {NoProc}]
        /\ heap' \in [Proc -> {"none", "allocated", "freed"}]
    BY <1>1 DEF TypeOK, IndInv
  <2>4. ref_cnt' \in [Proc -> -1 .. 2]
    BY <1>1 DEF TypeOK, IndInv
  <2> QED BY <1>1, <2>1, <2>2, <2>3, <2>4 DEF TypeOK, IndInv
<1>3. MainRuns'
  BY <1>1 DEF TypeOK, IndInv, MainRuns
<1>4. TidyUse'
  BY <1>1 DEF TidyUse, NoUseAfterFree
<1>5. ASSUME NEW q \in Proc PROVE Birth(q)'
  BY <1>1 DEF TypeOK, IndInv, Birth
<1>6. ASSUME NEW q \in Proc PROVE Target(q)'
  BY <1>1, ShapeHolds DEF Shape, IndInv, Birth, Children, Target
<1>7. ASSUME NEW q \in Proc PROVE Children(q)'
  <2>1. ~loaded[c]
    BY <1>1 DEF IndInv, Birth
  <2>2. \A x \in ToSet(children[q]) : x \in Proc /\ x # c /\ parent[x] = q
    BY <2>1, ChildrenExist DEF IndInv, Children
  <2> QED BY <1>1, <2>2 DEF TypeOK, IndInv, Children
<1>8. ASSUME NEW q \in Proc PROVE Listed(q)'
  BY <1>1 DEF TypeOK, IndInv, Birth, Listed
<1>9. ASSUME NEW q \in Proc PROVE Events(q)'
  <2>1. Events(q) /\ Birth(q) /\ Birth(c)
    BY DEF IndInv
  <2> QED BY <1>1, <2>1, ShapeHolds DEF Shape, Birth, Events
<1>10. ASSUME NEW q \in Proc PROVE Counted(q)'
  BY <1>1 DEF TypeOK, IndInv, Birth, Counted
<1>11. ASSUME NEW q \in Proc PROVE Statuses(q)'
  BY <1>1 DEF TypeOK, IndInv, Birth, Statuses
<1> QED BY <1>2, <1>3, <1>4, <1>5, <1>6, <1>7, <1>8, <1>9, <1>10, <1>11 DEF IndInv
LEMMA LoadFailsStep ==
    ASSUME IndInv, NEW c \in Proc, LoadFails(c)
    PROVE  IndInv'
<1> USE MainAssumption, CodeAssumption, NoProcAssumption
        DEF ExitCode, Execs, Started, GivenUp
<1>1. /\ pc[c] = "loading" /\ heap[c] = "allocated" /\ ~loaded[c]
      /\ parent[c] \in Proc /\ Execs(parent[c], c) /\ c # Main
      /\ sema[c] = 0 /\ got[c] = NoCode /\ sema' = [sema EXCEPT ![c] = 1]
      /\ fault' = FALSE
  <2>1. /\ pc[c] = "loading" /\ heap[c] = "allocated" /\ ~loaded[c]
        /\ parent[c] \in Proc /\ Execs(parent[c], c) /\ c # Main
        /\ sema[c] = 0 /\ got[c] = NoCode
    BY DEF LoadFails, Goto, IndInv, TypeOK, Birth, MainRuns
  <2>2. sema' = [sema EXCEPT ![c] = 1]
    BY <2>1 DEF LoadFails, IndInv, TypeOK
  <2>3. fault' = FALSE
    BY <2>1 DEF LoadFails, Touch
  <2> QED BY <2>1, <2>2, <2>3
<1>2. TypeOK'
  <2>1. fault' \in BOOLEAN
    BY <1>1, Zenon
  <2>2. pc' \in [Proc -> {"unborn", "loading", "running", "exec", "wait",
                         "exit_own", "exit_kids", "dead"}]
    BY <1>1 DEF LoadFails, Goto, wsVars, IndInv, TypeOK
  <2>3. sema' \in [Proc -> 0 .. 2]
    BY <1>1 DEF LoadFails, Goto, wsVars, IndInv, TypeOK
  <2> QED BY <1>1, <2>1, <2>2, <2>3 DEF LoadFails, Goto, wsVars, IndInv, TypeOK
<1>3. MainRuns'
  BY <1>1 DEF LoadFails, Goto, wsVars, TypeOK, IndInv, MainRuns
<1>4. TidyUse'
  BY <1>1 DEF TidyUse, NoUseAfterFree
<1>5. ASSUME NEW q \in Proc PROVE Birth(q)'
  BY <1>1 DEF LoadFails, Goto, wsVars, TypeOK, IndInv, Birth
<1>6. ASSUME NEW q \in Proc PROVE Target(q)'
  BY <1>1 DEF LoadFails, Goto, wsVars, TypeOK, IndInv, Target
<1>7. ASSUME NEW q \in Proc PROVE Children(q)'
  BY <1>1 DEF LoadFails, Goto, wsVars, TypeOK, IndInv, Children
<1>8. ASSUME NEW q \in Proc PROVE Listed(q)'
  BY <1>1 DEF LoadFails, Goto, wsVars, TypeOK, IndInv, Listed
<1>9. ASSUME NEW q \in Proc PROVE Events(q)'
  BY <1>1, ShapeHolds DEF LoadFails, Goto, wsVars, Shape, IndInv, Events
<1>10. ASSUME NEW q \in Proc PROVE Counted(q)'
  BY <1>1 DEF LoadFails, Goto, wsVars, TypeOK, IndInv, Counted
<1>11. ASSUME NEW q \in Proc PROVE Statuses(q)'
  BY <1>1 DEF LoadFails, Goto, wsVars, TypeOK, IndInv, Statuses
<1> QED BY <1>2, <1>3, <1>4, <1>5, <1>6, <1>7, <1>8, <1>9, <1>10, <1>11 DEF IndInv

LEMMA LoadSucceedsStep ==
    ASSUME IndInv, NEW c \in Proc, LoadSucceeds(c)
    PROVE  IndInv'
<1> USE MainAssumption, CodeAssumption, NoProcAssumption
        DEF ExitCode, Execs, Started, GivenUp
<1>1. /\ pc[c] = "loading" /\ heap[c] = "allocated" /\ ~loaded[c]
      /\ parent[c] \in Proc /\ Execs(parent[c], c) /\ c # Main
      /\ sema[c] = 0 /\ got[c] = NoCode /\ sema' = [sema EXCEPT ![c] = 1]
      /\ fault' = FALSE
  <2>1. /\ pc[c] = "loading" /\ heap[c] = "allocated" /\ ~loaded[c]
        /\ parent[c] \in Proc /\ Execs(parent[c], c) /\ c # Main
        /\ sema[c] = 0 /\ got[c] = NoCode
    BY DEF LoadSucceeds, Goto, IndInv, TypeOK, Birth, MainRuns
  <2>2. sema' = [sema EXCEPT ![c] = 1]
    BY <2>1 DEF LoadSucceeds, IndInv, TypeOK
  <2>3. fault' = FALSE
    BY <2>1 DEF LoadSucceeds, Touch
  <2> QED BY <2>1, <2>2, <2>3
<1>2. TypeOK'
  <2>1. fault' \in BOOLEAN
    BY <1>1, Zenon
  <2>2. pc' \in [Proc -> {"unborn", "loading", "running", "exec", "wait",
                         "exit_own", "exit_kids", "dead"}]
    BY <1>1 DEF LoadSucceeds, Goto, wsVars, IndInv, TypeOK
  <2>3. sema' \in [Proc -> 0 .. 2]
    BY <1>1 DEF LoadSucceeds, Goto, wsVars, IndInv, TypeOK
  <2>4. wait_status' \in [Proc -> BOOLEAN]
    BY <1>1 DEF LoadSucceeds, Goto, wsVars, IndInv, TypeOK
  <2>5. loaded' \in [Proc -> BOOLEAN]
    BY <1>1 DEF LoadSucceeds, Goto, wsVars, IndInv, TypeOK
  <2> QED BY <1>1, <2>1, <2>2, <2>3, <2>4, <2>5 DEF LoadSucceeds, Goto, wsVars, IndInv, TypeOK
<1>3. MainRuns'
  BY <1>1 DEF LoadSucceeds, Goto, wsVars, TypeOK, IndInv, MainRuns
<1>4. TidyUse'
  BY <1>1 DEF TidyUse, NoUseAfterFree
<1>5. ASSUME NEW q \in Proc PROVE Birth(q)'
  <2>1. CASE q = c
    <3>1. wait_status'[c] = TRUE /\ loaded'[c] = TRUE /\ pc'[c] = "running"
      BY DEF LoadSucceeds, Goto, IndInv, TypeOK
    <3> QED BY <1>1, <2>1, <3>1 DEF LoadSucceeds, Birth
  <2>2. CASE q # c
    <3>1. wait_status'[q] = wait_status[q] /\ loaded'[q] = loaded[q]
          /\ pc'[q] = pc[q] /\ sema'[q] = sema[q] /\ Birth(q)
      BY <2>2 DEF LoadSucceeds, Goto, IndInv, TypeOK
    <3>2. wait_status'[q] = loaded'[q]
      BY <3>1 DEF Birth
    <3> QED BY <1>1, <2>2, <3>1, <3>2 DEF LoadSucceeds, Goto, TypeOK, IndInv, Birth
  <2> QED BY <2>1, <2>2
<1>6. ASSUME NEW q \in Proc PROVE Target(q)'
  BY <1>1 DEF LoadSucceeds, Goto, wsVars, TypeOK, IndInv, Target
<1>7. ASSUME NEW q \in Proc PROVE Children(q)'
  BY <1>1 DEF LoadSucceeds, Goto, wsVars, TypeOK, IndInv, Children
<1>8. ASSUME NEW q \in Proc PROVE Listed(q)'
  BY <1>1 DEF LoadSucceeds, Goto, wsVars, TypeOK, IndInv, Listed
<1>9. ASSUME NEW q \in Proc PROVE Events(q)'
  BY <1>1, ShapeHolds DEF LoadSucceeds, Goto, wsVars, Shape, IndInv, Events
<1>10. ASSUME NEW q \in Proc PROVE Counted(q)'
  BY <1>1 DEF LoadSucceeds, Goto, wsVars, TypeOK, IndInv, Birth, Counted
<1>11. ASSUME NEW q \in Proc PROVE Statuses(q)'
  BY <1>1 DEF LoadSucceeds, Goto, wsVars, TypeOK, IndInv, Statuses
<1> QED BY <1>2, <1>3, <1>4, <1>5, <1>6, <1>7, <1>8, <1>9, <1>10, <1>11 DEF IndInv

LEMMA ExitStep ==
    ASSUME IndInv, NEW p \in Proc, Exit(p)
    PROVE  IndInv'
<1> USE MainAssumption, CodeAssumption, NoProcAssumption
        DEF ExitCode, Execs, Started, GivenUp
<1>1. /\ pc[p] = "running" /\ heap[p] = "allocated" /\ loaded[p]
      /\ got[p] = NoCode /\ p # Main
      /\ fault' = FALSE
  BY DEF Exit, Goto, Touch, IndInv, TypeOK, Birth, Counted
<1>2. TypeOK'
  <2>1. fault' \in BOOLEAN
    BY <1>1, Zenon
  <2>2. pc' \in [Proc -> {"unborn", "loading", "running", "exec", "wait",
                         "exit_own", "exit_kids", "dead"}]
    BY <1>1 DEF Exit, Goto, wsVars, IndInv, TypeOK
  <2>3. exit_code' \in [Proc -> ExitCode]
    BY <1>1 DEF Exit, Goto, wsVars, IndInv, TypeOK
  <2>4. said' \in [Proc -> ExitCode \cup {NoCode}]
    BY <1>1 DEF Exit, Goto, wsVars, IndInv, TypeOK
  <2> QED BY <1>1, <2>1, <2>2, <2>3, <2>4 DEF Exit, Goto, wsVars, IndInv, TypeOK
<1>3. MainRuns'
  BY <1>1 DEF Exit, Goto, wsVars, TypeOK, IndInv, MainRuns
<1>4. TidyUse'
  BY <1>1 DEF TidyUse, NoUseAfterFree
<1>5. ASSUME NEW q \in Proc PROVE Birth(q)'
  BY <1>1 DEF Exit, Goto, wsVars, TypeOK, IndInv, Birth
<1>6. ASSUME NEW q \in Proc PROVE Target(q)'
  BY <1>1 DEF Exit, Goto, wsVars, TypeOK, IndInv, Target
<1>7. ASSUME NEW q \in Proc PROVE Children(q)'
  BY <1>1 DEF Exit, Goto, wsVars, TypeOK, IndInv, Children
<1>8. ASSUME NEW q \in Proc PROVE Listed(q)'
  BY <1>1 DEF Exit, Goto, wsVars, TypeOK, IndInv, Listed
<1>9. ASSUME NEW q \in Proc PROVE Events(q)'
  BY <1>1, ShapeHolds DEF Exit, Goto, wsVars, Shape, IndInv, Events
<1>10. ASSUME NEW q \in Proc PROVE Counted(q)'
  BY <1>1 DEF Exit, Goto, wsVars, TypeOK, IndInv, Counted
<1>11. ASSUME NEW q \in Proc PROVE Statuses(q)'
  BY <1>1 DEF Exit, Goto, wsVars, TypeOK, IndInv, Statuses
<1> QED BY <1>2, <1>3, <1>4, <1>5, <1>6, <1>7, <1>8, <1>9, <1>10, <1>11 DEF IndInv

LEMMA ExitOwnStep ==
    ASSUME IndInv, NEW p \in Proc, ExitOwn(p)
    PROVE  IndInv'
<1> USE MainAssumption, CodeAssumption, NoProcAssumption
        DEF ExitCode, Execs, Started, GivenUp
<1>1. /\ pc[p] = "exit_own" /\ heap[p] = "allocated" /\ loaded[p]
      /\ got[p] = NoCode /\ p # Main /\ ref_cnt[p] = 2 /\ kid[p] = 1
      /\ ref_cnt' = [ref_cnt EXCEPT ![p] = 1] /\ heap' = heap
      /\ sema' = [sema EXCEPT ![p] = @ + 1]
      /\ sema[p] \in {0, 1}
      /\ fault' = FALSE
  <2>1. /\ pc[p] = "exit_own" /\ p # Main /\ loaded[p]
    BY DEF ExitOwn, Goto, IndInv, Birth, MainRuns
  <2>2. /\ heap[p] = "allocated" /\ got[p] = NoCode /\ ref_cnt[p] = 2 /\ kid[p] = 1
    BY <2>1 DEF IndInv, Counted
  <2>3. sema[p] \in {0, 1}
    BY <2>1 DEF IndInv, Events
  <2>4. ref_cnt' = [ref_cnt EXCEPT ![p] = 1] /\ heap' = heap
    BY <2>2 DEF ExitOwn, IndInv, TypeOK
  <2>5. sema' = [sema EXCEPT ![p] = @ + 1]
    BY <2>2 DEF ExitOwn
  <2>6. fault' = FALSE
    BY <2>2 DEF ExitOwn, Touch
  <2> QED BY <2>1, <2>2, <2>3, <2>4, <2>5, <2>6
<1>2. TypeOK'
  <2>1. fault' \in BOOLEAN
    BY <1>1, Zenon
  <2>2. pc' \in [Proc -> {"unborn", "loading", "running", "exec", "wait",
                         "exit_own", "exit_kids", "dead"}]
    BY <1>1 DEF ExitOwn, Goto, wsVars, IndInv, TypeOK
  <2>3. sema' \in [Proc -> 0 .. 2]
    BY <1>1 DEF ExitOwn, Goto, wsVars, IndInv, TypeOK
  <2>4. ref_cnt' \in [Proc -> -1 .. 2]
    BY <1>1 DEF ExitOwn, Goto, wsVars, IndInv, TypeOK
  <2> QED BY <1>1, <2>1, <2>2, <2>3, <2>4 DEF ExitOwn, Goto, wsVars, IndInv, TypeOK
<1>3. MainRuns'
  BY <1>1 DEF ExitOwn, Goto, wsVars, TypeOK, IndInv, MainRuns
<1>4. TidyUse'
  BY <1>1 DEF TidyUse, NoUseAfterFree
<1>5. ASSUME NEW q \in Proc PROVE Birth(q)'
  BY <1>1 DEF ExitOwn, Goto, wsVars, TypeOK, IndInv, Birth
<1>6. ASSUME NEW q \in Proc PROVE Target(q)'
  BY <1>1 DEF ExitOwn, Goto, wsVars, TypeOK, IndInv, Target
<1>7. ASSUME NEW q \in Proc PROVE Children(q)'
  BY <1>1 DEF ExitOwn, Goto, wsVars, TypeOK, IndInv, Children
<1>8. ASSUME NEW q \in Proc PROVE Listed(q)'
  BY <1>1 DEF ExitOwn, Goto, wsVars, TypeOK, IndInv, Listed
<1>9. ASSUME NEW q \in Proc PROVE Events(q)'
  BY <1>1, ShapeHolds DEF ExitOwn, Goto, wsVars, Shape, IndInv, Events
<1>10. ASSUME NEW q \in Proc PROVE Counted(q)'
  BY <1>1 DEF ExitOwn, Goto, wsVars, TypeOK, IndInv, Counted
<1>11. ASSUME NEW q \in Proc PROVE Statuses(q)'
  BY <1>1 DEF ExitOwn, Goto, wsVars, TypeOK, IndInv, Statuses
<1> QED BY <1>2, <1>3, <1>4, <1>5, <1>6, <1>7, <1>8, <1>9, <1>10, <1>11 DEF IndInv

LEMMA ExitDoneStep ==
    ASSUME IndInv, NEW p \in Proc, ExitDone(p)
    PROVE  IndInv'
<1> USE MainAssumption, CodeAssumption, NoProcAssumption
        DEF ExitCode, Execs, Started, GivenUp
<1>1. /\ pc[p] = "exit_kids" /\ loaded[p] /\ p # Main /\ ~fault
      /\ fault' = fault
  BY DEF ExitDone, Goto, IndInv, TypeOK, Birth, MainRuns
<1>2. TypeOK'
  <2>1. fault' \in BOOLEAN
    BY <1>1, Zenon DEF IndInv, TypeOK
  <2>2. pc' \in [Proc -> {"unborn", "loading", "running", "exec", "wait",
                         "exit_own", "exit_kids", "dead"}]
    BY <1>1 DEF ExitDone, Goto, wsVars, IndInv, TypeOK
  <2> QED BY <1>1, <2>1, <2>2 DEF ExitDone, Goto, wsVars, IndInv, TypeOK
<1>3. MainRuns'
  BY <1>1 DEF ExitDone, Goto, wsVars, TypeOK, IndInv, MainRuns
<1>4. TidyUse'
  BY <1>1 DEF TidyUse, NoUseAfterFree
<1>5. ASSUME NEW q \in Proc PROVE Birth(q)'
  BY <1>1 DEF ExitDone, Goto, wsVars, TypeOK, IndInv, Birth
<1>6. ASSUME NEW q \in Proc PROVE Target(q)'
  BY <1>1 DEF ExitDone, Goto, wsVars, TypeOK, IndInv, Target
<1>7. ASSUME NEW q \in Proc PROVE Children(q)'
  BY <1>1 DEF ExitDone, Goto, wsVars, TypeOK, IndInv, Children
<1>8. ASSUME NEW q \in Proc PROVE Listed(q)'
  BY <1>1 DEF ExitDone, Goto, wsVars, TypeOK, IndInv, Listed
<1>9. ASSUME NEW q \in Proc PROVE Events(q)'
  BY <1>1, ShapeHolds DEF ExitDone, Goto, wsVars, Shape, IndInv, Events
<1>10. ASSUME NEW q \in Proc PROVE Counted(q)'
  BY <1>1 DEF ExitDone, Goto, wsVars, TypeOK, IndInv, Counted
<1>11. ASSUME NEW q \in Proc PROVE Statuses(q)'
  BY <1>1 DEF ExitDone, Goto, wsVars, TypeOK, IndInv, Statuses
<1> QED BY <1>2, <1>3, <1>4, <1>5, <1>6, <1>7, <1>8, <1>9, <1>10, <1>11 DEF IndInv

\* A struct that its owner has given back too early belonged to a process that
\* has come to process_exit with children.
LEMMA FreedEarly ==
    ASSUME IndInv, NEW c \in Proc, loaded[c], got[c] = NoCode, heap[c] = "freed"
    PROVE  GivenUp(c) /\ children[c] # <<>>
<1>1. GivenUp(c) /\ ref_cnt[c] <= 0 /\ ref_cnt[c] = 2 - kid[c]
      /\ kid[c] \in 1 .. Len(children[c]) + 1
  BY DEF IndInv, Counted
<1>2. Len(children[c]) # 0
  BY <1>1
<1> QED BY <1>1, <1>2

LEMMA ExitKidStep ==
    ASSUME IndInv, NEW p \in Proc, ExitKid(p)
    PROVE  IndInv'
<1> USE MainAssumption, CodeAssumption, NoProcAssumption
        DEF ExitCode, Execs, Started, GivenUp
<1>1. /\ ~fault /\ pc[p] = "exit_kids" /\ loaded[p] /\ p # Main
      /\ Len(children[p]) \in Nat /\ kid[p] <= Len(children[p])
  BY ChildrenExist DEF ExitKid, IndInv, Birth, MainRuns
<1>2. /\ kid[p] \in 1 .. Len(children[p]) /\ ref_cnt[p] \in {0, 1}
      /\ ref_cnt[p] = 2 - kid[p]
      /\ heap[p] = (IF got[p] # NoCode \/ ref_cnt[p] <= 0 THEN "freed" ELSE "allocated")
  <2>1. /\ kid[p] \in 1 .. Len(children[p]) + 1 /\ ref_cnt[p] = 2 - kid[p]
        /\ ref_cnt[p] >= 0
        /\ heap[p] = (IF got[p] # NoCode \/ ref_cnt[p] <= 0 THEN "freed" ELSE "allocated")
    BY <1>1 DEF IndInv, Counted
  <2> QED BY <1>1, <2>1
<1>3. /\ kid' = [kid EXCEPT ![p] = kid[p] + 1]
      /\ ref_cnt' = [ref_cnt EXCEPT ![p] = ref_cnt[p] - 1]
      /\ heap' = [heap EXCEPT ![p] = "freed"]
      /\ UNCHANGED <<pc, parent, target, children, wait_status, sema, exit_code,
                     loaded, said, got>>
  <2>1. (IF ref_cnt[p] - 1 <= 0 THEN "freed" ELSE heap[p]) = "freed"
    BY <1>2
  <2> QED BY <2>1 DEF ExitKid
<1>4. ref_cnt[p] = 0 => fault'
  BY <1>2 DEF ExitKid, Touch
<1>5. TypeOK'
  <2>1. fault' \in BOOLEAN
    BY Zenon DEF ExitKid, Touch
  <2>2. kid' \in [Proc -> Nat] /\ ref_cnt' \in [Proc -> -1 .. 2]
    <3>1. kid[p] + 1 \in Nat /\ ref_cnt[p] - 1 \in -1 .. 2
      BY <1>2 DEF IndInv, TypeOK
    <3> QED BY <1>3, <3>1 DEF IndInv, TypeOK
  <2>3. heap' \in [Proc -> {"none", "allocated", "freed"}]
    BY <1>3 DEF IndInv, TypeOK
  <2> QED BY <1>3, <2>1, <2>2, <2>3 DEF IndInv, TypeOK
<1>6. MainRuns'
  BY <1>3 DEF IndInv, MainRuns
<1>7. TidyUse'
  <2>1. children[p] # <<>>
    BY <1>1, <1>2
  <2> QED BY <1>1, <1>3, <2>1 DEF TidyUse, Tidy
<1>8. ASSUME NEW q \in Proc PROVE Birth(q)' /\ Target(q)'
  BY <1>1, <1>3 DEF IndInv, TypeOK, Birth, Target
<1>9. ASSUME NEW q \in Proc PROVE Children(q)' /\ Listed(q)' /\ Events(q)' /\ Statuses(q)'
  BY <1>1, <1>3 DEF IndInv, TypeOK, Children, Listed, Events, Statuses
<1>10. ASSUME NEW q \in Proc PROVE Counted(q)'
  <2>1. CASE q = p
    <3>1. /\ kid'[p] = kid[p] + 1 /\ ref_cnt'[p] = ref_cnt[p] - 1
          /\ heap'[p] = "freed"
      BY <1>3 DEF IndInv, TypeOK
    <3>2. /\ kid'[p] \in 1 .. Len(children[p]) + 1 /\ ref_cnt'[p] = 2 - kid'[p]
          /\ ref_cnt'[p] <= 0 /\ (ref_cnt'[p] >= 0 \/ ref_cnt[p] = 0)
      BY <1>1, <1>2, <3>1
    <3> QED BY <1>1, <1>3, <1>4, <2>1, <3>1, <3>2 DEF Counted
  <2>2. CASE q # p
    BY <1>1, <1>3, <2>2 DEF IndInv, TypeOK, Counted
  <2> QED BY <2>1, <2>2
<1> QED BY <1>5, <1>6, <1>7, <1>8, <1>9, <1>10 DEF IndInv

LEMMA ExecNoThreadStep ==
    ASSUME IndInv, NEW p \in Proc, ExecNoThread(p)
    PROVE  IndInv'
<1> USE MainAssumption, CodeAssumption, NoProcAssumption
        DEF ExitCode, Execs, Started, GivenUp
<1>1. PICK c \in Proc :
         /\ ~fault /\ pc[c] = "unborn"
         /\ pc' = [pc EXCEPT ![c] = "dead"]
         /\ heap' = [heap EXCEPT ![c] = "allocated"]
         /\ ref_cnt' = [ref_cnt EXCEPT ![c] = 2]
         /\ UNCHANGED <<parent, target, children, kid, wait_status, sema, exit_code,
                        loaded, said, got, fault>>
  BY DEF ExecNoThread
<1>2. TypeOK'
  <2>1. fault' \in BOOLEAN
    BY <1>1, Zenon DEF IndInv, TypeOK
  <2>2. pc' \in [Proc -> {"unborn", "loading", "running", "exec", "wait",
                         "exit_own", "exit_kids", "dead"}]
    BY <1>1 DEF IndInv, TypeOK
  <2>3. heap' \in [Proc -> {"none", "allocated", "freed"}]
    BY <1>1 DEF IndInv, TypeOK
  <2>4. ref_cnt' \in [Proc -> -1 .. 2]
    BY <1>1 DEF IndInv, TypeOK
  <2> QED BY <1>1, <2>1, <2>2, <2>3, <2>4 DEF IndInv, TypeOK
<1>3. MainRuns'
  BY <1>1 DEF TypeOK, IndInv, MainRuns
<1>4. TidyUse'
  BY <1>1 DEF TidyUse, NoUseAfterFree
<1>5. ASSUME NEW q \in Proc PROVE Birth(q)'
  BY <1>1 DEF TypeOK, IndInv, Birth
<1>6. ASSUME NEW q \in Proc PROVE Target(q)'
  BY <1>1 DEF TypeOK, IndInv, Birth, Target
<1>7. ASSUME NEW q \in Proc PROVE Children(q)' /\ Listed(q)'
  BY <1>1 DEF TypeOK, IndInv, Birth, Children, Listed
<1>8. ASSUME NEW q \in Proc PROVE Events(q)'
  <2>1. Events(q) /\ Birth(q) /\ Birth(c)
    BY DEF IndInv
  <2> QED BY <1>1, <2>1, ShapeHolds DEF Shape, Birth, Events
<1>9. ASSUME NEW q \in Proc PROVE Counted(q)' /\ Statuses(q)'
  BY <1>1 DEF TypeOK, IndInv, Birth, Counted, Statuses
<1> QED BY <1>2, <1>3, <1>4, <1>5, <1>6, <1>7, <1>8, <1>9 DEF IndInv

LEMMA WaitStep ==
    ASSUME IndInv, NEW p \in Proc, Wait(p)
    PROVE  IndInv'
<1> USE MainAssumption, CodeAssumption, NoProcAssumption
        DEF ExitCode, Execs, Started, GivenUp
<1>1. PICK i \in 1 .. Len(children[p]) :
         /\ ~fault /\ pc[p] = "running" /\ pc' = [pc EXCEPT ![p] = "wait"]
         /\ target' = [target EXCEPT ![p] = children[p][i]]
         /\ Touch({children[p][j] : j \in 1 .. i})
         /\ UNCHANGED <<parent, children, kid, wait_status, heap, ref_cnt, sema,
                        exit_code, loaded, said, got>>
  BY DEF Wait, Goto, wsVars
<1>2. /\ children[p] \in Seq(Proc) /\ Len(children[p]) \in Nat
      /\ \A j \in 1 .. Len(children[p]) :
           children[p][j] \in ToSet(children[p]) /\ children[p][j] \in Proc
  BY ChildrenExist DEF ToSet
<1>3. TypeOK'
  <2>1. fault' \in BOOLEAN
    BY <1>1, Zenon DEF Touch
  <2>2. pc' \in [Proc -> {"unborn", "loading", "running", "exec", "wait",
                         "exit_own", "exit_kids", "dead"}]
    BY <1>1 DEF IndInv, TypeOK
  <2>3. target' \in [Proc -> Proc \cup {NoProc}]
    BY <1>1, <1>2 DEF IndInv, TypeOK
  <2> QED BY <1>1, <2>1, <2>2, <2>3 DEF IndInv, TypeOK
<1>4. MainRuns'
  BY <1>1 DEF IndInv, TypeOK, MainRuns
<1>5. TidyUse'
  <2> SUFFICES ASSUME fault' PROVE ~Tidy'
    BY DEF TidyUse, NoUseAfterFree
  <2>1. PICK j \in 1 .. i : heap[children[p][j]] = "freed"
    BY <1>1 DEF Touch
  <2>2. j \in 1 .. Len(children[p])
    BY <1>2
  <2>3. PICK w \in Proc : w \in ToSet(children[p]) /\ heap[w] = "freed"
    BY <1>2, <2>1, <2>2
  <2>4. GivenUp(w) /\ children[w] # <<>>
    BY <2>3, FreedEarly DEF IndInv, Children
  <2> QED BY <1>1, <2>4 DEF IndInv, TypeOK, Tidy
<1>6. ASSUME NEW q \in Proc PROVE Birth(q)'
  BY <1>1 DEF IndInv, TypeOK, Birth
<1>7. ASSUME NEW q \in Proc PROVE Target(q)'
  <2>1. Target(q)
    BY DEF IndInv
  <2> QED BY <1>1, <1>2, <2>1, ShapeHolds DEF Shape, Target
<1>8. ASSUME NEW q \in Proc PROVE Children(q)' /\ Listed(q)'
  <2>1. Children(q) /\ Listed(q)
    BY DEF IndInv
  <2> QED BY <1>1, <2>1, ShapeHolds DEF Shape, Birth, Children, Listed
<1>9. ASSUME NEW q \in Proc PROVE Events(q)'
  BY <1>1 DEF IndInv, TypeOK, Events
<1>10. ASSUME NEW q \in Proc PROVE Counted(q)' /\ Statuses(q)'
  BY <1>1 DEF IndInv, TypeOK, Counted, Statuses
<1> QED BY <1>3, <1>4, <1>5, <1>6, <1>7, <1>8, <1>9, <1>10 DEF IndInv

LEMMA ExecReturnsStep ==
    ASSUME IndInv, NEW p \in Proc, ExecReturns(p)
    PROVE  IndInv'
<1> USE MainAssumption, CodeAssumption, NoProcAssumption
        DEF ExitCode, Execs, Started, GivenUp
<1> DEFINE c == target[p]
<1>1. /\ ~fault /\ pc[p] = "exec" /\ c \in Proc /\ parent[c] = p /\ c # Main
      /\ got[c] = NoCode /\ c \notin ToSet(children[p]) /\ sema[c] \in 1 .. 2
      /\ ~loaded[c] => heap[c] = "allocated" /\ pc[c] = "dead"
  <2>1. /\ ~fault /\ pc[p] = "exec" /\ c \in Proc /\ parent[c] = p /\ c # Main
        /\ got[c] = NoCode /\ c \notin ToSet(children[p]) /\ sema[c] > 0
        /\ ~loaded[c] => heap[c] = "allocated" /\ pc[c] \in {"loading", "dead"}
    BY DEF ExecReturns, Goto, IndInv, Target, MainRuns
  <2>2. sema[c] \in 0 .. 2
    BY <2>1 DEF IndInv, TypeOK
  <2>3. pc[c] = "loading" => sema[c] = 0
    BY <2>1 DEF IndInv, Birth
  <2> QED BY <2>1, <2>2, <2>3
<1>2. /\ pc' = [pc EXCEPT ![p] = "running"]
      /\ sema' = [sema EXCEPT ![c] = sema[c] - 1]
      /\ heap' = [heap EXCEPT ![c] = IF loaded[c] THEN heap[c] ELSE "freed"]
      /\ target' = [target EXCEPT ![p] = NoProc]
      /\ Touch({c})
      /\ UNCHANGED <<parent, kid, wait_status, ref_cnt, exit_code, loaded, said, got>>
  BY DEF ExecReturns, Goto
<1>3. /\ children' \in [Proc -> Seq(Proc)]
      /\ \A q \in Proc :
           /\ IsInjective(children'[q])
           /\ ToSet(children'[q]) = ToSet(children[q]) \cup
                (IF q = p /\ loaded[c] THEN {c} ELSE {})
           /\ q # p => children'[q] = children[q]
  <2> DEFINE s == <<c>> \o children[p]
  <2>1. children' = [children EXCEPT ![p] = IF loaded[c] THEN s ELSE children[p]]
    BY DEF ExecReturns
  <2>2. IsInjective(children[p]) /\ children \in [Proc -> Seq(Proc)]
    BY DEF IndInv, TypeOK, Children
  <2>3. s \in Seq(Proc) /\ ToSet(s) = ToSet(children[p]) \cup {c} /\ IsInjective(s)
    BY <1>1, <2>2, PrependElements
  <2> HIDE DEF s
  <2>4. /\ children' \in [Proc -> Seq(Proc)]
        /\ children'[p] = IF loaded[c] THEN s ELSE children[p]
        /\ \A q \in Proc : q # p => children'[q] = children[q]
    BY <2>1, <2>2, <2>3
  <2> QED BY <2>2, <2>3, <2>4 DEF IndInv, Children
<1> HIDE DEF c
<1>4. TypeOK'
  <2>1. fault' \in BOOLEAN
    BY <1>2, Zenon DEF Touch
  <2>2. pc' \in [Proc -> {"unborn", "loading", "running", "exec", "wait",
                         "exit_own", "exit_kids", "dead"}]
    BY <1>2 DEF IndInv, TypeOK
  <2>3. target' \in [Proc -> Proc \cup {NoProc}]
    BY <1>2 DEF IndInv, TypeOK
  <2>4. sema' \in [Proc -> 0 .. 2]
    BY <1>1, <1>2 DEF IndInv, TypeOK
  <2>5. heap' \in [Proc -> {"none", "allocated", "freed"}]
    BY <1>1, <1>2 DEF IndInv, TypeOK
  <2> QED BY <1>2, <1>3, <2>1, <2>2, <2>3, <2>4, <2>5 DEF IndInv, TypeOK
<1>5. MainRuns'
  BY <1>2 DEF IndInv, TypeOK, MainRuns
<1>6. TidyUse'
  <2> SUFFICES ASSUME fault' PROVE ~Tidy'
    BY DEF TidyUse, NoUseAfterFree
  <2>1. heap[c] = "freed" /\ loaded[c]
    BY <1>1, <1>2 DEF Touch
  <2>2. GivenUp(c) /\ children[c] # <<>> /\ c # p
    BY <1>1, <2>1, FreedEarly
  <2> QED BY <1>1, <1>2, <1>3, <2>2 DEF IndInv, TypeOK, Tidy
<1>7. ASSUME NEW q \in Proc PROVE Birth(q)'
  <2>1. children'[q] = children[q] \/ q = p
    BY <1>3
  <2>2. pc[q] = "loading" => parent[q] # p \/ q = c
    BY <1>1 DEF IndInv, Birth, c
  <2>3. /\ pc'[q] = (IF q = p THEN "running" ELSE pc[q])
        /\ sema'[q] = (IF q = c THEN sema[q] - 1 ELSE sema[q])
        /\ heap'[q] = (IF q = c /\ ~loaded[c] THEN "freed" ELSE heap[q])
        /\ parent[q] \in Proc => pc'[parent[q]] = (IF parent[q] = p THEN "running" ELSE pc[parent[q]])
        /\ parent[q] \in Proc => target'[parent[q]] = (IF parent[q] = p THEN NoProc ELSE target[parent[q]])
    BY <1>1, <1>2, ShapeHolds DEF Shape
  <2>4. Birth(q)
    BY DEF IndInv
  <2>5. pc[c] # "loading" /\ pc[c] # "unborn"
    BY <1>1 DEF IndInv, Birth
  <2> QED BY <1>1, <1>2, <2>1, <2>2, <2>3, <2>4, <2>5 DEF Birth
<1>8. ASSUME NEW q \in Proc PROVE Target(q)'
  <2>1. target[q] = c /\ pc[q] = "exec" => q = p
    BY <1>1 DEF IndInv, Target
  <2>2. Target(q)
    BY DEF IndInv
  <2> QED BY <1>1, <1>2, <1>3, <2>1, <2>2, ShapeHolds DEF Shape, Target
<1>9. ASSUME NEW q \in Proc PROVE Children(q)'
  BY <1>1, <1>2, <1>3 DEF IndInv, Children
<1>10. ASSUME NEW q \in Proc PROVE Listed(q)'
  <2> SUFFICES ASSUME loaded[q], got[q] = NoCode, ~Execs(parent[q], q)'
               PROVE  q \in ToSet(children'[parent[q]])
    BY <1>2 DEF Listed
  <2>1. parent[q] \in Proc
    BY DEF IndInv, Birth
  <2>2. CASE q = c
    BY <1>1, <1>3, <2>2
  <2>3. CASE q # c
    <3>1. ~Execs(parent[q], q)
      BY <1>2, <2>1, <2>3 DEF IndInv, TypeOK, c
    <3> QED BY <1>3, <2>1, <3>1 DEF IndInv, Listed
  <2> QED BY <2>2, <2>3
<1>11. ASSUME NEW q \in Proc PROVE Events(q)'
  <2>1. CASE q = c
    BY <1>1, <1>2, <2>1 DEF IndInv, TypeOK, Events, c
  <2>2. CASE q # c
    BY <1>1, <1>2, <2>2 DEF IndInv, TypeOK, Events, c
  <2> QED BY <2>1, <2>2
<1>12. ASSUME NEW q \in Proc PROVE Counted(q)'
  <2>1. GivenUp(q) => children'[q] = children[q]
    BY <1>1, <1>3
  <2> QED BY <1>1, <1>2, <2>1 DEF IndInv, TypeOK, Counted
<1>13. ASSUME NEW q \in Proc PROVE Statuses(q)'
  BY <1>1, <1>2 DEF IndInv, TypeOK, Statuses
<1> QED BY <1>4, <1>5, <1>6, <1>7, <1>8, <1>9, <1>10, <1>11, <1>12, <1>13 DEF IndInv

LEMMA WaitReturnsStep ==
    ASSUME IndInv, NEW p \in Proc, WaitReturns(p)
    PROVE  IndInv'
<1> USE MainAssumption, CodeAssumption, NoProcAssumption
        DEF ExitCode, Execs, Started, GivenUp
<1> DEFINE c == target[p]
<1>1. /\ ~fault /\ pc[p] = "wait" /\ c \in ToSet(children[p]) /\ sema[c] > 0
      /\ pc' = [pc EXCEPT ![p] = "running"]
      /\ sema' = [sema EXCEPT ![c] = sema[c] - 1]
      /\ heap' = [heap EXCEPT ![c] = "freed"]
      /\ got' = [got EXCEPT ![c] = exit_code[c]]
      /\ target' = [target EXCEPT ![p] = NoProc]
      /\ Touch({c})
      /\ UNCHANGED <<parent, kid, wait_status, ref_cnt, exit_code, loaded, said>>
  BY DEF WaitReturns, Goto, IndInv, Target
<1>2. /\ children' \in [Proc -> Seq(Proc)]
      /\ \A q \in Proc :
           /\ IsInjective(children'[q])
           /\ ToSet(children'[q]) = ToSet(children[q]) \ (IF q = p THEN {c} ELSE {})
           /\ q # p => children'[q] = children[q]
  <2>1. PICK i \in DOMAIN children[p] :
          children[p][i] = c /\ children' = [children EXCEPT ![p] = RemoveAt(children[p], i)]
    BY DEF WaitReturns
  <2>2. IsInjective(children[p]) /\ children \in [Proc -> Seq(Proc)]
    BY DEF IndInv, TypeOK, Children
  <2>3. i \in 1 .. Len(children[p]) /\ children[p] \in Seq(Proc)
    BY <2>2
  <2> DEFINE s == RemoveAt(children[p], i)
  <2>4. s \in Seq(Proc) /\ ToSet(s) = ToSet(children[p]) \ {c} /\ IsInjective(s)
    <3> DEFINE k == children[p]
    <3>2. k \in Seq(Proc) /\ i \in 1 .. Len(k) /\ IsInjective(k)
      BY <2>2, <2>3
    <3> HIDE DEF k
    <3>3. /\ RemoveAt(k, i) \in Seq(Proc) /\ IsInjective(RemoveAt(k, i))
          /\ ToSet(RemoveAt(k, i)) = ToSet(k) \ {k[i]}
      BY <3>2, RemoveAtElements
    <3>1. /\ s \in Seq(Proc) /\ IsInjective(s)
          /\ ToSet(s) = ToSet(children[p]) \ {children[p][i]}
      BY <3>3 DEF k
    <3> QED BY <2>1, <3>1
  <2>5. children' = [children EXCEPT ![p] = s]
    BY <2>1
  <2> HIDE DEF s
  <2>6. /\ children' \in [Proc -> Seq(Proc)]
        /\ children'[p] = s
        /\ \A q \in Proc : q # p => children'[q] = children[q]
    BY <2>2, <2>4, <2>5
  <2> QED BY <2>2, <2>4, <2>6 DEF IndInv, Children
<1>3. /\ c \in Proc /\ parent[c] = p /\ loaded[c] /\ got[c] = NoCode /\ c # Main
  BY <1>1, ChildrenExist DEF IndInv, Children, MainRuns
<1>4. /\ ~Execs(p, c) /\ GivenUp(c) /\ sema[c] = 1
  <2>1. sema[c] = (IF GivenUp(c) THEN 1 ELSE 0)
    BY <1>1, <1>3 DEF IndInv, Events
  <2> QED BY <1>1, <2>1
<1>5. exit_code[c] = said[c] /\ exit_code[c] \in ExitCode /\ exit_code[c] # NoCode
  BY <1>3, <1>4 DEF IndInv, TypeOK, Statuses
<1> HIDE DEF c
<1>6. TypeOK'
  <2>1. fault' \in BOOLEAN
    BY <1>1, Zenon DEF Touch
  <2>2. pc' \in [Proc -> {"unborn", "loading", "running", "exec", "wait",
                         "exit_own", "exit_kids", "dead"}]
    BY <1>1 DEF IndInv, TypeOK
  <2>3. target' \in [Proc -> Proc \cup {NoProc}]
    BY <1>1 DEF IndInv, TypeOK
  <2>4. sema' \in [Proc -> 0 .. 2]
    BY <1>1, <1>3, <1>4 DEF IndInv, TypeOK
  <2>5. heap' \in [Proc -> {"none", "allocated", "freed"}]
    BY <1>1 DEF IndInv, TypeOK
  <2>6. got' \in [Proc -> ExitCode \cup {NoCode}]
    BY <1>1, <1>5 DEF IndInv, TypeOK
  <2> QED BY <1>1, <1>2, <2>1, <2>2, <2>3, <2>4, <2>5, <2>6 DEF IndInv, TypeOK
<1>7. MainRuns'
  BY <1>1, <1>3 DEF IndInv, TypeOK, MainRuns
<1>8. TidyUse'
  <2> SUFFICES ASSUME fault' PROVE ~Tidy'
    BY DEF TidyUse, NoUseAfterFree
  <2>1. heap[c] = "freed"
    BY <1>1 DEF Touch
  <2>2. children[c] # <<>> /\ c # p
    BY <1>1, <1>3, <1>4, <2>1, FreedEarly
  <2> QED BY <1>1, <1>2, <1>3, <1>4, <2>2 DEF IndInv, TypeOK, Tidy
<1>9. ASSUME NEW q \in Proc PROVE Birth(q)'
  <2>1. children'[q] = children[q] \/ q = p
    BY <1>2
  <2>2. /\ pc'[q] = (IF q = p THEN "running" ELSE pc[q])
        /\ q # c => sema'[q] = sema[q] /\ heap'[q] = heap[q] /\ got'[q] = got[q]
        /\ parent[q] \in Proc => pc'[parent[q]] = (IF parent[q] = p THEN "running" ELSE pc[parent[q]])
        /\ parent[q] \in Proc /\ parent[q] # p => target'[parent[q]] = target[parent[q]]
    BY <1>1, <1>3 DEF IndInv, TypeOK
  <2>3. Birth(q)
    BY DEF IndInv
  <2> QED BY <1>1, <1>3, <1>4, <2>1, <2>2, <2>3 DEF Birth
<1>10. ASSUME NEW q \in Proc PROVE Target(q)'
  <2>1. pc[q] = "exec" => q # p /\ target[q] # c
    BY <1>1, <1>3 DEF IndInv, Target
  <2>2. pc[q] = "wait" /\ q # p => children'[q] = children[q]
    BY <1>2
  <2> QED BY <1>1, <1>2, <1>3, <2>1, <2>2, ShapeHolds DEF Shape, IndInv, TypeOK, Target
<1>11. ASSUME NEW q \in Proc PROVE Children(q)'
  <2>1. \A x \in ToSet(children'[q]) :
           x \in Proc /\ x \in ToSet(children[q]) /\ x # c /\ parent[x] = q /\ loaded[x]
           /\ got[x] = NoCode
    <3>1. ToSet(children'[q]) \subseteq ToSet(children[q])
      BY <1>2
    <3>2. c \notin ToSet(children'[q])
      BY <1>2, <1>3 DEF IndInv, Children
    <3> QED BY <3>1, <3>2, ChildrenExist DEF IndInv, Children
  <2>2. \A x \in Proc : x # c => got'[x] = got[x]
    BY <1>1, <1>3 DEF IndInv, TypeOK
  <2> QED BY <1>1, <1>2, <2>1, <2>2 DEF Children
<1>12. ASSUME NEW q \in Proc PROVE Listed(q)'
  <2> SUFFICES ASSUME loaded[q], got'[q] = NoCode, ~Execs(parent[q], q)'
               PROVE  q \in ToSet(children'[parent[q]])
    BY <1>1 DEF Listed
  <2>1. q # c /\ got[q] = NoCode
    BY <1>1, <1>3, <1>5 DEF IndInv, TypeOK
  <2>2. parent[q] \in Proc
    BY DEF IndInv, Birth
  <2>3. ~Execs(parent[q], q)
    BY <1>1, <2>2 DEF IndInv, TypeOK
  <2> QED BY <1>2, <2>1, <2>2, <2>3 DEF IndInv, Listed
<1>13. ASSUME NEW q \in Proc PROVE Events(q)'
  <2>1. parent[q] \in Proc => (Execs(parent[q], q)' <=> Execs(parent[q], q))
    BY <1>1 DEF IndInv, TypeOK
  <2>2. GivenUp(q)' <=> GivenUp(q)
    BY <1>1 DEF IndInv, TypeOK
  <2>3. pc'[q] = "loading" <=> pc[q] = "loading"
    BY <1>1 DEF IndInv, TypeOK
  <2>4. CASE q = c
    <3>1. sema'[c] = 0 /\ got'[c] # NoCode /\ parent'[c] = p
      BY <1>1, <1>3, <1>4, <1>5 DEF IndInv, TypeOK
    <3>2. pc'[p] = "running"
      BY <1>1 DEF IndInv, TypeOK
    <3> QED BY <2>4, <3>1, <3>2 DEF Events
  <2>5. CASE q # c
    <3>1. sema'[q] = sema[q] /\ got'[q] = got[q] /\ parent'[q] = parent[q]
          /\ loaded'[q] = loaded[q]
      BY <1>1, <1>3, <2>5 DEF IndInv, TypeOK
    <3> HIDE DEF Execs, GivenUp
    <3> QED BY <1>1, <2>1, <2>2, <2>3, <3>1 DEF IndInv, Events
  <2> QED BY <2>4, <2>5
<1>14. ASSUME NEW q \in Proc PROVE Counted(q)'
  <2>1. GivenUp(q) => children'[q] = children[q]
    BY <1>1, <1>2
  <2>2. q # c => got'[q] = got[q] /\ heap'[q] = heap[q]
    BY <1>1, <1>3 DEF IndInv, TypeOK
  <2>3. q = c => got'[q] # NoCode /\ heap'[q] = "freed"
    BY <1>1, <1>3, <1>5 DEF IndInv, TypeOK
  <2>4. GivenUp(q)' <=> GivenUp(q)
    BY <1>1 DEF IndInv, TypeOK
  <2>5. fault => fault'
    BY <1>1
  <2> HIDE DEF GivenUp
  <2> QED BY <1>1, <1>4, <2>1, <2>2, <2>3, <2>4, <2>5 DEF IndInv, Counted
<1>15. ASSUME NEW q \in Proc PROVE Statuses(q)'
  <2>1. CASE q = c
    BY <1>1, <1>3, <1>4, <1>5, <2>1 DEF IndInv, TypeOK, Statuses
  <2>2. CASE q # c
    BY <1>1, <1>3, <2>2 DEF IndInv, TypeOK, Statuses
  <2> QED BY <2>1, <2>2
<1> QED BY <1>6, <1>7, <1>8, <1>9, <1>10, <1>11, <1>12, <1>13, <1>14, <1>15 DEF IndInv

-----------------------------------------------------------------------------
LEMMA InitInv == Init => IndInv
<1> SUFFICES ASSUME Init PROVE IndInv
  OBVIOUS
<1> USE MainAssumption, CodeAssumption, NoProcAssumption
        DEF Init, ExitCode, Execs, Started, GivenUp
<1>1. TypeOK
  <2>1. fault \in BOOLEAN
    BY Zenon
  <2>2. wait_status \in [Proc -> BOOLEAN] /\ loaded \in [Proc -> BOOLEAN]
    OBVIOUS
  <2>3. children \in [Proc -> Seq(Proc)]
    OBVIOUS
  <2> QED BY <2>1, <2>2, <2>3 DEF TypeOK
<1>2. MainRuns /\ TidyUse
  BY DEF MainRuns, TidyUse, NoUseAfterFree
<1>3. ASSUME NEW p \in Proc PROVE Birth(p) /\ Target(p)
  BY DEF Birth, Target
<1>4. ASSUME NEW p \in Proc PROVE Children(p) /\ Listed(p)
  BY EmptyProperties DEF Children, Listed
<1>5. ASSUME NEW p \in Proc PROVE Events(p) /\ Counted(p) /\ Statuses(p)
  BY DEF Events, Counted, Statuses
<1> QED BY <1>1, <1>2, <1>3, <1>4, <1>5 DEF IndInv

LEMMA Invariance == Spec => []IndInv
<1>1. IndInv /\ UNCHANGED vars => IndInv'
  BY DEF vars, wsVars, IndInv, TypeOK, MainRuns, TidyUse, Tidy, NoUseAfterFree, Birth,
         Target, Children, Listed, Events, Counted, Statuses, Execs, Started, GivenUp
<1>2. IndInv /\ [Next]_vars => IndInv'
  BY <1>1, ExecStep, ExecNoThreadStep, LoadFailsStep, LoadSucceedsStep,
     ExecReturnsStep, WaitStep, WaitReturnsStep, ExitStep, ExitOwnStep, ExitKidStep,
     ExitDoneStep DEF Next
<1> QED BY InitInv, <1>2, PTL DEF Spec

\* The struct wait_status serves parent and child in every order of exec, load,
\* exit and wait, with any number of processes: exec knows whether load
\* succeeded, wait returns the status given to exit, and while parents wait for
\* all their children ref_cnt is the number of users, the struct is freed when
\* both are gone, and nobody uses it after.
THEOREM WaitStatusShared == Spec => []StatusShared
<1>1. IndInv => StatusShared
  <2> SUFFICES ASSUME IndInv PROVE StatusShared
    OBVIOUS
  <2>1. WaitReturnsStatus
    BY DEF IndInv, Statuses, WaitReturnsStatus
  <2>2. ASSUME NEW c \in Proc, loaded[c], got[c] = NoCode, Tidy
        PROVE  ~Gone(parent[c])
    <3>1. parent[c] \in Proc
      BY <2>2 DEF IndInv, Birth
    <3>2. Execs(parent[c], c) \/ c \in ToSet(children[parent[c]])
      BY <2>2 DEF IndInv, Listed
    <3> QED BY <2>2, <3>1, <3>2, ChildrenExist DEF Gone, Execs, Tidy
  <2>3. RefCountMeaning
    <3> SUFFICES ASSUME Tidy, NEW c \in Proc, heap[c] = "allocated", loaded[c]
                 PROVE  ref_cnt[c] = (IF pc[c] \in {"exit_kids", "dead"} THEN 0 ELSE 1)
                                   + (IF Gone(parent[c]) THEN 0 ELSE 1)
      BY DEF IndInv, Birth, RefCountMeaning
    <3>1. got[c] = NoCode /\ ref_cnt[c] = (IF GivenUp(c) THEN 1 ELSE 2)
      <4>1. CASE ~GivenUp(c)
        BY <4>1 DEF IndInv, Counted
      <4>2. CASE GivenUp(c)
        <5>1. /\ kid[c] \in 1 .. Len(children[c]) + 1 /\ ref_cnt[c] = 2 - kid[c]
              /\ got[c] = NoCode /\ ~ (ref_cnt[c] <= 0)
          BY <4>2 DEF IndInv, Counted
        <5>2. Len(children[c]) \in Nat
          BY ChildrenExist
        <5> QED BY <4>2, <5>1, <5>2
      <4> QED BY <4>1, <4>2
    <3>2. ~Gone(parent[c])
      BY <2>2, <3>1
    <3> QED BY <3>1, <3>2 DEF GivenUp
  <2>4. NoLeak
    <3> SUFFICES ASSUME Tidy, NEW c \in Proc, loaded[c], Gone(c), Gone(parent[c])
                 PROVE  heap[c] = "freed"
      BY DEF IndInv, Birth, NoLeak
    <3>1. got[c] # NoCode
      BY <2>2
    <3> QED BY <3>1 DEF IndInv, Counted, Gone, GivenUp
  <2>5. ExecKnowsLoad
    <3> SUFFICES ASSUME NEW c \in Proc, parent[c] # NoProc,
                        pc[parent[c]] # "exec" \/ target[parent[c]] # c
                 PROVE  /\ pc[c] # "loading"
                        /\ got[c] = NoCode =>
                             (loaded[c] <=> \E i \in DOMAIN children[parent[c]] :
                                              children[parent[c]][i] = c)
      BY DEF ExecKnowsLoad
    <3>1. parent[c] \in Proc
      BY DEF IndInv, TypeOK
    <3>2. pc[c] # "loading"
      BY <3>1 DEF IndInv, Birth, Execs
    <3>3. c \in ToSet(children[parent[c]]) <=> \E i \in DOMAIN children[parent[c]] :
                                                children[parent[c]][i] = c
      BY DEF ToSet
    <3>4. loaded[c] /\ got[c] = NoCode => c \in ToSet(children[parent[c]])
      BY DEF IndInv, Listed, Execs
    <3>5. c \in ToSet(children[parent[c]]) => loaded[c]
      BY <3>1 DEF IndInv, Children
    <3> QED BY <3>2, <3>3, <3>4, <3>5
  <2> QED BY <2>1, <2>3, <2>4, <2>5 DEF IndInv, StatusShared
<1> QED BY <1>1, Invariance, PTL
-----------------------------------------------------------------------------
\* Page tables.

Pte == [frame : PFrame \cup {NoFrame}, P : BOOLEAN, W : BOOLEAN, A : BOOLEAN, D : BOOLEAN]
Entry == [page : UPage, frame : PFrame \cup {NoFrame}, W : BOOLEAN, D : BOOLEAN]
Slot == 0 .. Tables - 1

PtTypes ==
    /\ at \in [Space -> {"new", "created", "live", "unset", "left", "gone"}]
    /\ pagedir \in [Space -> PFrame \cup {NoFrame}] /\ dir \in [Space -> PFrame \cup {NoFrame}]
    /\ pde \in [Space -> [Slot -> PFrame \cup {NoFrame}]] /\ pte \in [Space -> [UPage -> Pte]]
    /\ used \subseteq PFrame /\ loose \subseteq PFrame
    /\ running \in Space /\ tlb \subseteq Entry
    /\ touched \in [Space -> SUBSET UPage] /\ written \in [Space -> SUBSET UPage]

\* A process's directory is there from pagedir_create to pagedir_destroy, and
\* t->pagedir refers to it until process_exit clears it.
Owned ==
    \A s \in Space :
        /\ at[s] \in {"new", "gone"} =>
             /\ dir[s] = NoFrame /\ pagedir[s] = NoFrame
             /\ \A i \in Slot : pde[s][i] = NoFrame
        /\ at[s] \in {"created", "live"} => pagedir[s] = dir[s]
        /\ at[s] \in {"unset", "left"} => pagedir[s] = NoFrame
        /\ at[s] \in {"created", "live", "unset", "left"} => dir[s] \in PFrame
        /\ at[s] \in {"new", "created"} => touched[s] = {} /\ written[s] = {}

\* A present entry lies in a page table and refers to a frame.
Backed == \A s \in Space : \A u \in UPage : pte[s][u].P => Mapped(s, u) /\ pte[s][u].frame \in PFrame

\* The CPU uses the running process's directory or the kernel's.
Active ==
    /\ cr3 \in {KernelDir, dir[running]}
    /\ at[running] = "live" => cr3 = dir[running]
    /\ at[running] \in {"new", "left", "gone"} => cr3 = KernelDir

\* What the CPU has cached is what the running process's entries say; they
\* were accessed since the bits were last cleared.
Cached ==
    \A e \in tlb :
        /\ at[running] \in {"live", "unset"} /\ cr3 = dir[running] /\ Present(running, e.page)
        /\ pte[running][e.page].frame = e.frame /\ pte[running][e.page].W = e.W
        /\ pte[running][e.page].A /\ (e.D => pte[running][e.page].D)

\* Who refers to frame f.
DirOf(f) == {s \in Space : dir[s] = f}
PdeOf(f) == {x \in Space \X Slot : pde[x[1]][x[2]] = f}
PteOf(f) == {x \in Space \X UPage : pte[x[1]][x[2]].P /\ pte[x[1]][x[2]].frame = f}

Single(S) == \E x : S = {x}
Unheld(f) == DirOf(f) = {} /\ PdeOf(f) = {} /\ PteOf(f) = {} /\ f \notin loose
HeldOnce(f) ==
    \/ Single(DirOf(f)) /\ PdeOf(f) = {} /\ PteOf(f) = {} /\ f \notin loose
    \/ DirOf(f) = {} /\ Single(PdeOf(f)) /\ PteOf(f) = {} /\ f \notin loose
    \/ DirOf(f) = {} /\ PdeOf(f) = {} /\ Single(PteOf(f)) /\ f \notin loose
    \/ DirOf(f) = {} /\ PdeOf(f) = {} /\ PteOf(f) = {} /\ f \in loose

Frames == \A f \in PFrame : IF f \in used THEN HeldOnce(f) ELSE Unheld(f)

PtInv == PtTypes /\ Owned /\ Backed /\ Active /\ Cached /\ BitsTrue /\ Frames

-----------------------------------------------------------------------------
\* The number of a page's table.
LEMMA TableNumber ==
    ASSUME NEW u \in UPage
    PROVE  pd_no(u) \in Slot
<1>1. PICK T \in Nat, P \in Nat : T = Tables /\ P = PerTable /\ T > 0 /\ P > 0  BY TablesAssumption
<1>2. u \in Nat /\ u < T * P  BY <1>1 DEF UPage
<1>3. PICK q \in Nat : q = u \div P /\ P * q <= u  BY <1>1, <1>2
<1>4. ~(T <= q)
  <2>1. SUFFICES ASSUME T <= q PROVE FALSE  OBVIOUS
  <2>2. T * P <= q * P  BY <1>1, <2>1
  <2>3. q * P = P * q /\ P * q \in Int /\ T * P \in Int  BY <1>1
  <2>4. QED  BY <1>2, <1>3, <2>2, <2>3
<1>5. QED  BY <1>1, <1>3, <1>4 DEF pd_no, Slot

\* The parts of a state's types that proofs cite.
LEMMA PtParts ==
    ASSUME PtTypes, NEW s \in Space
    PROVE  /\ at[s] \in {"new", "created", "live", "unset", "left", "gone"}
           /\ pagedir[s] \in PFrame \cup {NoFrame} /\ dir[s] \in PFrame \cup {NoFrame}
           /\ \A i \in Slot : pde[s][i] \in PFrame \cup {NoFrame}
           /\ pte[s] \in [UPage -> Pte]
           /\ \A u \in UPage : pte[s][u] \in Pte
  BY DEF PtTypes

\* A frame whose references stay keeps its holders.
LEMMA HoldersStay ==
    ASSUME NEW f, DirOf(f)' = DirOf(f), PdeOf(f)' = PdeOf(f), PteOf(f)' = PteOf(f),
           f \in loose' <=> f \in loose
    PROVE  HeldOnce(f)' = HeldOnce(f) /\ Unheld(f)' = Unheld(f)
  BY DEF HeldOnce, Unheld, Single

\* All references stay.
LEMMA FramesStay ==
    ASSUME Frames, dir' = dir, pde' = pde, loose' = loose, used' = used,
           \A s \in Space : \A u \in UPage :
              pte'[s][u].P = pte[s][u].P /\ pte'[s][u].frame = pte[s][u].frame
    PROVE  Frames'
<1>1. ASSUME NEW f \in PFrame
      PROVE  DirOf(f)' = DirOf(f) /\ PdeOf(f)' = PdeOf(f) /\ PteOf(f)' = PteOf(f)
  <2>1. DirOf(f)' = DirOf(f) /\ PdeOf(f)' = PdeOf(f)  BY DEF DirOf, PdeOf, Slot
  <2>2. PteOf(f)' = PteOf(f)
    <3>1. \A x \in Space \X UPage : /\ pte'[x[1]][x[2]].P = pte[x[1]][x[2]].P
                                    /\ pte'[x[1]][x[2]].frame = pte[x[1]][x[2]].frame
      OBVIOUS
    <3>2. QED  BY <3>1 DEF PteOf, UPage
  <2>3. QED  BY <2>1, <2>2
<1>2. QED  BY <1>1, HoldersStay DEF Frames

\* A frame that is not in use is referred to by nothing.
LEMMA FreshFrame ==
    ASSUME PtTypes, Frames, NEW f \in PFrame, f \notin used
    PROVE  /\ f \notin loose
           /\ \A s \in Space : dir[s] # f
           /\ \A s \in Space : \A i \in Slot : pde[s][i] # f
           /\ \A s \in Space : \A u \in UPage : pte[s][u].P => pte[s][u].frame # f
<1>1. Unheld(f)  BY DEF Frames
<1>2. DirOf(f) = {} /\ PdeOf(f) = {} /\ PteOf(f) = {} /\ f \notin loose  BY <1>1 DEF Unheld
<1>3. \A s \in Space : dir[s] # f  BY <1>2 DEF DirOf
<1>4. ASSUME NEW s \in Space, NEW i \in Slot PROVE pde[s][i] # f
  <2>1. <<s, i>> \in Space \X Slot /\ <<s, i>>[1] = s /\ <<s, i>>[2] = i  OBVIOUS
  <2>2. <<s, i>> \notin PdeOf(f)  BY <1>2
  <2>3. QED  BY <2>1, <2>2 DEF PdeOf
<1>5. ASSUME NEW s \in Space, NEW u \in UPage, pte[s][u].P PROVE pte[s][u].frame # f
  <2>1. <<s, u>> \in Space \X UPage /\ <<s, u>>[1] = s /\ <<s, u>>[2] = u  OBVIOUS
  <2>2. <<s, u>> \notin PteOf(f)  BY <1>2
  <2>3. QED  BY <1>5, <2>1, <2>2 DEF PteOf
<1>6. QED  BY <1>2, <1>3, <1>4, <1>5

LEMMA PtInitInv == PtInit => PtInv
<1> SUFFICES ASSUME PtInit PROVE PtInv  OBVIOUS
<1>1. NoPte \in Pte /\ NoPte.P = FALSE  BY DEF NoPte, Pte
<1>2. PtTypes  BY <1>1 DEF PtInit, PtTypes, Slot
<1>3. Owned  BY DEF PtInit, Owned, Slot
<1>4. Backed /\ BitsTrue  BY <1>1 DEF PtInit, Backed, BitsTrue
<1>5. Active /\ Cached  BY DEF PtInit, Active, Cached
<1>6. Frames
  <2>1. ASSUME NEW f \in PFrame PROVE Unheld(f)
    <3>1. f # NoFrame  BY NoFrameAssumption
    <3>2. DirOf(f) = {}  BY <3>1 DEF PtInit, DirOf
    <3>3. PdeOf(f) = {}  BY <3>1 DEF PtInit, PdeOf, Slot
    <3>4. PteOf(f) = {}
      <4>1. \A x \in Space \X UPage : pte[x[1]][x[2]].P = FALSE  BY <1>1 DEF PtInit
      <4>2. QED  BY <4>1 DEF PteOf
    <3>5. QED  BY <3>2, <3>3, <3>4 DEF Unheld, PtInit
  <2>2. used = {}  BY DEF PtInit
  <2>3. QED  BY <2>1, <2>2 DEF Frames
<1>7. QED  BY <1>2, <1>3, <1>4, <1>5, <1>6 DEF PtInv

LEMMA CreateStep ==
    ASSUME PtInv, NEW s \in Space, Create(s)
    PROVE  PtInv'
<1>0. PtTypes /\ Owned /\ Backed /\ Active /\ Cached /\ BitsTrue /\ Frames  BY DEF PtInv
<1>1. PICK f \in GetPage(used) : /\ used' = used \cup {f}
                                 /\ pagedir' = [pagedir EXCEPT ![s] = f] /\ dir' = [dir EXCEPT ![s] = f]
  BY DEF Create
<1>2. f \in PFrame /\ f \notin used  BY DEF GetPage
<1>3. /\ running = s /\ at[s] = "new" /\ at' = [at EXCEPT ![s] = "created"]
      /\ UNCHANGED <<pde, pte, loose, running, cr3, tlb, touched, written>>
  BY DEF Create
<1>4. PtTypes'  BY <1>0, <1>1, <1>2, <1>3 DEF PtTypes, Slot, UPage, Pte, Entry
<1>5. /\ dir[s] = NoFrame /\ dir'[s] = f /\ \A t \in Space : t # s => dir'[t] = dir[t]
      /\ pagedir'[s] = f /\ \A t \in Space : t # s => pagedir'[t] = pagedir[t]
      /\ at'[s] = "created" /\ \A t \in Space : t # s => at'[t] = at[t]
  BY <1>0, <1>1, <1>3 DEF PtTypes, Owned
<1>6. Owned'  BY <1>0, <1>2, <1>3, <1>5 DEF Owned, Slot
<1>7. Backed'  BY <1>0, <1>3 DEF Backed, Mapped
<1>8. cr3 = KernelDir /\ tlb = {}  BY <1>0, <1>3 DEF Active, Cached
<1>9. Active' /\ Cached'  BY <1>3, <1>5, <1>8 DEF Active, Cached
<1>10. BitsTrue'  BY <1>0, <1>3, <1>5 DEF BitsTrue
<1>11. Frames'
  <2>1. ASSUME NEW g \in PFrame PROVE PdeOf(g)' = PdeOf(g) /\ PteOf(g)' = PteOf(g)
    BY <1>3 DEF PdeOf, PteOf, Slot, UPage
  <2>2. ASSUME NEW g \in PFrame, g # f PROVE DirOf(g)' = DirOf(g)
    BY <1>5, <2>2, NoFrameAssumption DEF DirOf
  <2>3. HeldOnce(f)'
    <3>1. Unheld(f)  BY <1>0, <1>2 DEF Frames
    <3>2. DirOf(f)' = {s}  BY <1>5, <3>1 DEF Unheld, DirOf
    <3>3. QED  BY <1>2, <1>3, <2>1, <3>1, <3>2 DEF Unheld, HeldOnce, Single
  <2>4. ASSUME NEW g \in PFrame, g # f PROVE IF g \in used' THEN HeldOnce(g)' ELSE Unheld(g)'
    BY <1>0, <1>1, <1>3, <2>1, <2>2, <2>4, HoldersStay DEF Frames
  <2>5. QED  BY <1>1, <2>3, <2>4 DEF Frames
<1>12. QED  BY <1>4, <1>6, <1>7, <1>9, <1>10, <1>11 DEF PtInv

\* A step that changes one entry of one page table.
LEMMA OneEntry ==
    ASSUME PtTypes, NEW s \in Space, NEW u \in UPage, NEW e \in Pte,
           pte' = [pte EXCEPT ![s][u] = e]
    PROVE  /\ pte' \in [Space -> [UPage -> Pte]] /\ pte'[s][u] = e
           /\ \A v \in UPage : v # u => pte'[s][v] = pte[s][v]
           /\ \A t \in Space : t # s => pte'[t] = pte[t]
<1>1. pte \in [Space -> [UPage -> Pte]]  BY DEF PtTypes
<1>2. QED  BY <1>1

\* A step that leaves directories, tables and frames alone.
LEMMA Calm ==
    ASSUME PtInv, dir' = dir, pde' = pde, pte' = pte, used' = used, loose' = loose
    PROVE  Backed' /\ Frames'
<1>1. Frames'  BY FramesStay DEF PtInv
<1>2. Backed'  BY DEF PtInv, Backed, Mapped
<1>3. QED  BY <1>1, <1>2

LEMMA ActivateStep ==
    ASSUME PtInv, NEW s \in Space, ActivateNew(s)
    PROVE  PtInv'
<1>0. PtTypes /\ Owned /\ Active /\ BitsTrue  BY DEF PtInv
<1>1. /\ running = s /\ at[s] = "created" /\ at' = [at EXCEPT ![s] = "live"]
      /\ cr3' = (IF pagedir[s] = NoFrame THEN KernelDir ELSE pagedir[s]) /\ tlb' = {}
      /\ UNCHANGED <<pagedir, dir, pde, pte, used, loose, running, touched, written>>
  BY DEF ActivateNew, pagedir_activate
<1>2. Backed' /\ Frames'  BY <1>1, Calm
<1>3. PtTypes'  BY <1>0, <1>1 DEF PtTypes, Slot, UPage, Pte, Entry
<1>4. at'[s] = "live" /\ \A t \in Space : t # s => at'[t] = at[t]  BY <1>0, <1>1 DEF PtTypes
<1>5. pagedir[s] = dir[s] /\ dir[s] \in PFrame /\ touched[s] = {} /\ written[s] = {}
  BY <1>0, <1>1 DEF Owned
<1>6. Owned'  BY <1>0, <1>1, <1>4, <1>5 DEF Owned, Slot
<1>7. cr3' = dir[s]  BY <1>1, <1>5, NoFrameAssumption
<1>8. Active' /\ Cached'  BY <1>1, <1>4, <1>7 DEF Active, Cached
<1>9. BitsTrue'  BY <1>0, <1>1, <1>4, <1>5 DEF BitsTrue
<1>10. QED  BY <1>2, <1>3, <1>6, <1>8, <1>9 DEF PtInv

LEMMA SwitchStep ==
    ASSUME PtInv, NEW s \in Space, SwitchTo(s)
    PROVE  PtInv'
<1>0. PtTypes /\ Owned /\ BitsTrue  BY DEF PtInv
<1>1. /\ running' = s
      /\ cr3' = (IF pagedir[s] = NoFrame THEN KernelDir ELSE pagedir[s]) /\ tlb' = {}
      /\ UNCHANGED <<at, pagedir, dir, pde, pte, used, loose, touched, written>>
  BY DEF SwitchTo, pagedir_activate
<1>2. Backed' /\ Frames'  BY <1>1, Calm
<1>3. PtTypes'  BY <1>0, <1>1 DEF PtTypes, Slot, UPage, Pte, Entry
<1>4. Owned' /\ BitsTrue'  BY <1>0, <1>1 DEF Owned, BitsTrue, Slot
<1>5. at[s] \in {"new", "created", "live", "unset", "left", "gone"}  BY <1>0, PtParts
<1>6. CASE at[s] \in {"created", "live"}
  <2>1. cr3' = dir[s]  BY <1>0, <1>1, <1>6, NoFrameAssumption DEF Owned
  <2>2. Active'  BY <1>1, <1>6, <2>1 DEF Active
  <2>3. Cached'  BY <1>1 DEF Cached
  <2>4. QED  BY <1>2, <1>3, <1>4, <2>2, <2>3 DEF PtInv
<1>7. CASE at[s] \in {"new", "unset", "left", "gone"}
  <2>1. cr3' = KernelDir  BY <1>0, <1>1, <1>7 DEF Owned
  <2>2. Active'  BY <1>1, <1>7, <2>1 DEF Active
  <2>3. Cached'  BY <1>1 DEF Cached
  <2>4. QED  BY <1>2, <1>3, <1>4, <2>2, <2>3 DEF PtInv
<1>8. QED  BY <1>5, <1>6, <1>7

LEMMA UnsetStep ==
    ASSUME PtInv, NEW s \in Space, ExitUnset(s)
    PROVE  PtInv'
<1>0. PtTypes /\ Owned /\ Active /\ Cached /\ BitsTrue  BY DEF PtInv
<1>1. /\ running = s /\ at[s] = "live" /\ at' = [at EXCEPT ![s] = "unset"]
      /\ pagedir' = [pagedir EXCEPT ![s] = NoFrame]
      /\ UNCHANGED <<dir, pde, pte, used, loose, running, cr3, tlb, touched, written>>
  BY DEF ExitUnset
<1>2. Backed' /\ Frames'  BY <1>1, Calm
<1>3. PtTypes'  BY <1>0, <1>1 DEF PtTypes, Slot, UPage, Pte, Entry
<1>4. /\ at'[s] = "unset" /\ \A t \in Space : t # s => at'[t] = at[t]
      /\ pagedir'[s] = NoFrame /\ \A t \in Space : t # s => pagedir'[t] = pagedir[t]
  BY <1>0, <1>1 DEF PtTypes
<1>5. Owned'  BY <1>0, <1>1, <1>4 DEF Owned, Slot
<1>6. Active'  BY <1>0, <1>1, <1>4 DEF Active
<1>7. Cached'
  <2>2. \A e \in tlb : Present(running, e.page)' = Present(running, e.page)
    BY <1>1 DEF Present, Mapped
  <2>3. QED  BY <1>0, <1>1, <1>4, <2>2 DEF Cached
<1>8. BitsTrue'  BY <1>0, <1>1, <1>4 DEF BitsTrue
<1>9. QED  BY <1>2, <1>3, <1>5, <1>6, <1>7, <1>8 DEF PtInv

LEMMA LeaveStep ==
    ASSUME PtInv, NEW s \in Space, ExitActivate(s)
    PROVE  PtInv'
<1>0. PtTypes /\ Owned /\ Active /\ BitsTrue  BY DEF PtInv
<1>1. /\ running = s /\ at[s] = "unset" /\ at' = [at EXCEPT ![s] = "left"]
      /\ cr3' = KernelDir /\ tlb' = {}
      /\ UNCHANGED <<pagedir, dir, pde, pte, used, loose, running, touched, written>>
  BY DEF ExitActivate, pagedir_activate
<1>2. Backed' /\ Frames'  BY <1>1, Calm
<1>3. PtTypes'  BY <1>0, <1>1 DEF PtTypes, Slot, UPage, Pte, Entry
<1>4. at'[s] = "left" /\ \A t \in Space : t # s => at'[t] = at[t]  BY <1>0, <1>1 DEF PtTypes
<1>5. Owned'  BY <1>0, <1>1, <1>4 DEF Owned, Slot
<1>6. Active' /\ Cached'  BY <1>1, <1>4 DEF Active, Cached
<1>7. BitsTrue'  BY <1>0, <1>1, <1>4 DEF BitsTrue
<1>8. QED  BY <1>2, <1>3, <1>5, <1>6, <1>7 DEF PtInv

LEMMA DestroyStep ==
    ASSUME PtInv, NEW s \in Space, Destroy(s)
    PROVE  PtInv'
<1>0. PtTypes /\ Owned /\ Backed /\ Active /\ Cached /\ BitsTrue /\ Frames  BY DEF PtInv
<1>1. /\ running = s /\ at[s] = "left" /\ at' = [at EXCEPT ![s] = "gone"]
      /\ used' = used \ Destroyed(s) /\ dir' = [dir EXCEPT ![s] = NoFrame]
      /\ pde' = [pde EXCEPT ![s] = [i \in 0 .. Tables - 1 |-> NoFrame]]
      /\ pte' = [pte EXCEPT ![s] = [u \in UPage |-> NoPte]]
      /\ UNCHANGED <<pagedir, loose, running, cr3, tlb, touched, written>>
  BY DEF Destroy
<1>2. NoPte \in Pte /\ NoPte.P = FALSE  BY DEF NoPte, Pte
<1>3. PtTypes'
  <2>1. pte' \in [Space -> [UPage -> Pte]]  BY <1>0, <1>1, <1>2 DEF PtTypes
  <2>2. pde' \in [Space -> [Slot -> PFrame \cup {NoFrame}]]  BY <1>0, <1>1 DEF PtTypes, Slot
  <2>3. used' \subseteq PFrame  BY <1>0, <1>1 DEF PtTypes
  <2>4. QED  BY <1>0, <1>1, <2>1, <2>2, <2>3 DEF PtTypes, Slot, UPage, Pte, Entry
<1>4. /\ at'[s] = "gone" /\ \A t \in Space : t # s => at'[t] = at[t]
      /\ dir'[s] = NoFrame /\ \A t \in Space : t # s => dir'[t] = dir[t]
  BY <1>0, <1>1 DEF PtTypes
<1>5. (\A i \in Slot : pde'[s][i] = NoFrame) /\ \A t \in Space : t # s => pde'[t] = pde[t]
  BY <1>0, <1>1 DEF PtTypes, Slot
<1>6. (\A u \in UPage : pte'[s][u].P = FALSE) /\ \A t \in Space : t # s => pte'[t] = pte[t]
  BY <1>0, <1>1, <1>2 DEF PtTypes
<1>7. Owned'  BY <1>0, <1>1, <1>4, <1>5 DEF Owned, Slot
<1>8. Backed'
  <2>1. ASSUME NEW t \in Space, NEW u \in UPage, pte'[t][u].P
        PROVE  Mapped(t, u)' /\ pte'[t][u].frame \in PFrame
    <3>1. t # s  BY <1>6, <2>1
    <3>2. QED  BY <1>0, <1>5, <1>6, <2>1, <3>1 DEF Backed, Mapped
  <2>2. QED  BY <2>1 DEF Backed, UPage
<1>9. Active' /\ Cached'
  <2>1. cr3 = KernelDir /\ tlb = {}  BY <1>0, <1>1 DEF Active, Cached
  <2>2. QED  BY <1>1, <1>4, <2>1 DEF Active, Cached
<1>10. BitsTrue'  BY <1>0, <1>1, <1>4, <1>6 DEF BitsTrue
<1>11. Frames'
  <2>1. SUFFICES ASSUME NEW g \in PFrame PROVE IF g \in used' THEN HeldOnce(g)' ELSE Unheld(g)'
    BY DEF Frames
  <2>0. g # NoFrame  BY NoFrameAssumption
  <2>2. DirOf(g)' = {t \in DirOf(g) : t # s}  BY <1>4, <2>0 DEF DirOf
  <2>3. PdeOf(g)' = {x \in PdeOf(g) : x[1] # s}
    <3>1. \A x \in Space \X Slot : pde'[x[1]][x[2]] = (IF x[1] = s THEN NoFrame ELSE pde[x[1]][x[2]])
      BY <1>5
    <3>2. QED  BY <2>0, <3>1 DEF PdeOf, Slot
  <2>4. PteOf(g)' = {x \in PteOf(g) : x[1] # s}
    <3>1. \A x \in Space \X UPage : /\ x[1] = s => pte'[x[1]][x[2]].P = FALSE
                                    /\ x[1] # s => pte'[x[1]][x[2]] = pte[x[1]][x[2]]
      BY <1>6
    <3>2. QED  BY <3>1 DEF PteOf, UPage
  <2>5. Destroyed(s) = {pte[s][u].frame : u \in {v \in UPage : Present(s, v)}}
                          \cup ({pde[s][i] : i \in 0 .. Tables - 1} \ {NoFrame}) \cup {dir[s]}
    BY DEF Destroyed
  <2>6. CASE g \notin Destroyed(s)
    <3>1. DirOf(g)' = DirOf(g)  BY <2>2, <2>5, <2>6 DEF DirOf
    <3>2. PdeOf(g)' = PdeOf(g)
      <4>1. \A x \in PdeOf(g) : x[1] # s  BY <2>0, <2>5, <2>6 DEF PdeOf, Slot
      <4>2. QED  BY <2>3, <4>1
    <3>3. PteOf(g)' = PteOf(g)
      <4>1. \A x \in PteOf(g) : x[1] # s
        <5>1. ASSUME NEW x \in PteOf(g), x[1] = s PROVE FALSE
          <6>1. x[2] \in UPage /\ pte[s][x[2]].P /\ pte[s][x[2]].frame = g  BY <5>1 DEF PteOf
          <6>2. Present(s, x[2])  BY <1>0, <6>1 DEF Backed, Present
          <6>3. QED  BY <2>5, <2>6, <6>1, <6>2
        <5>2. QED  BY <5>1
      <4>2. QED  BY <2>4, <4>1
    <3>4. QED  BY <1>0, <1>1, <2>6, <3>1, <3>2, <3>3, HoldersStay DEF Frames
  <2>7. CASE g \in Destroyed(s)
    <3>1. \/ s \in DirOf(g)
          \/ \E i \in Slot : <<s, i>> \in PdeOf(g)
          \/ \E u \in UPage : <<s, u>> \in PteOf(g)
      <4>1. CASE g = dir[s]  BY <4>1 DEF DirOf
      <4>2. CASE \E i \in Slot : g = pde[s][i]
        <5>1. PICK i \in Slot : g = pde[s][i]  BY <4>2
        <5>2. <<s, i>> \in Space \X Slot /\ <<s, i>>[1] = s /\ <<s, i>>[2] = i  OBVIOUS
        <5>3. <<s, i>> \in PdeOf(g)  BY <5>1, <5>2 DEF PdeOf
        <5>4. QED  BY <5>3
      <4>3. CASE \E u \in UPage : Present(s, u) /\ g = pte[s][u].frame
        <5>1. PICK u \in UPage : Present(s, u) /\ g = pte[s][u].frame  BY <4>3
        <5>2. <<s, u>> \in Space \X UPage /\ <<s, u>>[1] = s /\ <<s, u>>[2] = u  OBVIOUS
        <5>3. <<s, u>> \in PteOf(g)  BY <5>1, <5>2 DEF PteOf, Present
        <5>4. QED  BY <5>3
      <4>4. QED  BY <2>5, <2>7, <4>1, <4>2, <4>3 DEF Slot
    <3>2. IF g \in used THEN HeldOnce(g) ELSE Unheld(g)  BY <1>0 DEF Frames
    <3>3. HeldOnce(g)  BY <3>1, <3>2 DEF Unheld
    <3>4. g \notin used'  BY <1>1, <2>7
    <3>5. CASE s \in DirOf(g)
      <4>1. DirOf(g) = {s} /\ PdeOf(g) = {} /\ PteOf(g) = {} /\ g \notin loose
        BY <3>3, <3>5 DEF HeldOnce, Single
      <4>2. DirOf(g)' = {} /\ PdeOf(g)' = {} /\ PteOf(g)' = {} /\ g \notin loose'
        BY <1>1, <2>2, <2>3, <2>4, <4>1
      <4>3. QED  BY <3>4, <4>2 DEF Unheld
    <3>6. CASE \E i \in Slot : <<s, i>> \in PdeOf(g)
      <4>0. PICK i \in Slot : <<s, i>> \in PdeOf(g)  BY <3>6
      <4>1. DirOf(g) = {} /\ PdeOf(g) = {<<s, i>>} /\ PteOf(g) = {} /\ g \notin loose
        BY <3>3, <4>0 DEF HeldOnce, Single
      <4>2. DirOf(g)' = {} /\ PdeOf(g)' = {} /\ PteOf(g)' = {} /\ g \notin loose'
        BY <1>1, <2>2, <2>3, <2>4, <4>1
      <4>3. QED  BY <3>4, <4>2 DEF Unheld
    <3>7. CASE \E u \in UPage : <<s, u>> \in PteOf(g)
      <4>0. PICK u \in UPage : <<s, u>> \in PteOf(g)  BY <3>7
      <4>1. DirOf(g) = {} /\ PdeOf(g) = {} /\ PteOf(g) = {<<s, u>>} /\ g \notin loose
        BY <3>3, <4>0 DEF HeldOnce, Single
      <4>2. DirOf(g)' = {} /\ PdeOf(g)' = {} /\ PteOf(g)' = {} /\ g \notin loose'
        BY <1>1, <2>2, <2>3, <2>4, <4>1
      <4>3. QED  BY <3>4, <4>2 DEF Unheld
    <3>8. QED  BY <3>1, <3>5, <3>6, <3>7
  <2>8. QED  BY <2>6, <2>7
<1>12. QED  BY <1>3, <1>7, <1>8, <1>9, <1>10, <1>11 DEF PtInv

LEMMA LooseStep ==
    ASSUME PtInv, FreeLoose
    PROVE  PtInv'
<1>0. PtTypes /\ Owned /\ Backed /\ Active /\ Cached /\ BitsTrue /\ Frames  BY DEF PtInv
<1>1. PICK f \in loose :
        /\ loose' = loose \ {f} /\ used' = used \ {f}
        /\ UNCHANGED <<at, pagedir, dir, pde, pte, running, cr3, tlb, touched, written>>
  BY DEF FreeLoose
<1>2. PtTypes'
  <2>1. loose' \subseteq PFrame /\ used' \subseteq PFrame  BY <1>0, <1>1 DEF PtTypes
  <2>2. QED  BY <1>0, <1>1, <2>1 DEF PtTypes, Slot, UPage, Pte, Entry
<1>3. Owned' /\ Backed' /\ Active' /\ BitsTrue'
  BY <1>0, <1>1 DEF Owned, Backed, Active, BitsTrue, Slot, Mapped
<1>4. Cached'
  <2>1. \A e \in tlb : Present(running, e.page)' = Present(running, e.page)
    BY <1>1 DEF Present, Mapped
  <2>2. QED  BY <1>0, <1>1, <2>1 DEF Cached
<1>5. Frames'
  <2>1. SUFFICES ASSUME NEW g \in PFrame PROVE IF g \in used' THEN HeldOnce(g)' ELSE Unheld(g)'
    BY DEF Frames
  <2>2. DirOf(g)' = DirOf(g) /\ PdeOf(g)' = PdeOf(g) /\ PteOf(g)' = PteOf(g)
    BY <1>1 DEF DirOf, PdeOf, PteOf, Slot, UPage
  <2>3. CASE g = f
    <3>1. HeldOnce(g)  BY <1>0, <2>3 DEF Frames, Unheld
    <3>2. DirOf(g) = {} /\ PdeOf(g) = {} /\ PteOf(g) = {}  BY <2>3, <3>1 DEF HeldOnce
    <3>3. QED  BY <1>1, <2>2, <2>3, <3>2 DEF Unheld
  <2>4. CASE g # f  BY <1>0, <1>1, <2>2, <2>4, HoldersStay DEF Frames
  <2>5. QED  BY <2>3, <2>4
<1>6. QED  BY <1>2, <1>3, <1>4, <1>5 DEF PtInv

\* After invalidate_pagedir what is left in the TLB is of another directory.
LEMMA Invalidated ==
    ASSUME PtInv, NEW s \in Space, invalidate(s)
    PROVE  tlb' = {} \/ (tlb' = tlb /\ s # running)
  BY DEF PtInv, Cached, invalidate

\* Cached translations stay true when the entries they come from do.
LEMMA CachedStay ==
    ASSUME PtInv, UNCHANGED <<at, dir, pde, running, cr3>>,
           \/ tlb' = {}
           \/ tlb' = tlb /\ pte'[running] = pte[running]
    PROVE  Cached'
<1>1. CASE tlb' = {}  BY <1>1 DEF Cached
<1>2. CASE tlb' = tlb /\ pte'[running] = pte[running]
  <2>1. \A e \in tlb : Present(running, e.page)' = Present(running, e.page)
    BY <1>2 DEF Present, Mapped
  <2>2. QED  BY <1>2, <2>1 DEF PtInv, Cached
<1>3. QED  BY <1>1, <1>2

LEMMA ClearStep ==
    ASSUME PtInv, NEW s \in Space, NEW u \in UPage, ClearPage(s, u)
    PROVE  PtInv'
<1>0. PtTypes /\ Owned /\ Backed /\ Active /\ Cached /\ BitsTrue /\ Frames  BY DEF PtInv
<1>1. /\ at[s] = "live" /\ Present(s, u) /\ pte' = [pte EXCEPT ![s][u].P = FALSE]
      /\ loose' = loose \cup {pte[s][u].frame} /\ invalidate(s)
      /\ UNCHANGED <<at, pagedir, dir, pde, used, running, cr3, touched, written>>
  BY DEF ClearPage
<1>2. PICK p \in Pte : p = pte[s][u]  BY <1>0, PtParts
<1>3. PICK q \in Pte : q = [p EXCEPT !.P = FALSE]  BY DEF Pte
<1>4. q.P = FALSE /\ q.D = p.D /\ q.A = p.A  BY <1>3 DEF Pte
<1>5. pte' = [pte EXCEPT ![s][u] = q]  BY <1>1, <1>2, <1>3
<1>6. /\ pte' \in [Space -> [UPage -> Pte]] /\ pte'[s][u] = q
      /\ \A v \in UPage : v # u => pte'[s][v] = pte[s][v]
      /\ \A t \in Space : t # s => pte'[t] = pte[t]
  BY <1>0, <1>5, OneEntry
<1>7. p.P /\ p.frame \in PFrame  BY <1>0, <1>1, <1>2 DEF Present, Backed
<1>8. PtTypes'
  <2>1. tlb' \subseteq Entry  BY <1>0, <1>1 DEF PtTypes, invalidate
  <2>2. loose' \subseteq PFrame  BY <1>0, <1>1, <1>2, <1>7 DEF PtTypes
  <2>3. QED  BY <1>0, <1>1, <1>6, <2>1, <2>2 DEF PtTypes, Slot, UPage, Pte, Entry
<1>9. Owned' /\ Active'  BY <1>0, <1>1 DEF Owned, Active, Slot
<1>10. Backed'
  <2>1. ASSUME NEW t \in Space, NEW v \in UPage, pte'[t][v].P
        PROVE  Mapped(t, v)' /\ pte'[t][v].frame \in PFrame
    <3>1. t # s \/ v # u  BY <1>4, <1>6, <2>1
    <3>2. pte'[t][v] = pte[t][v]  BY <1>6, <3>1
    <3>3. QED  BY <1>0, <1>1, <2>1, <3>2 DEF Backed, Mapped
  <2>2. QED  BY <2>1 DEF Backed, UPage
<1>11. Cached'
  <2>1. running \in Space  BY <1>0 DEF PtTypes
  <2>2. QED  BY <1>1, <1>6, <2>1, Invalidated, CachedStay
<1>12. BitsTrue'
  <2>1. \A t \in Space, v \in UPage : pte'[t][v].D = pte[t][v].D /\ pte'[t][v].A = pte[t][v].A
    BY <1>2, <1>4, <1>6
  <2>2. \A t \in Space : touched[t] \subseteq UPage /\ written[t] \subseteq UPage  BY <1>0 DEF PtTypes
  <2>3. QED  BY <1>0, <1>1, <2>1, <2>2 DEF BitsTrue
<1>13. Frames'
  <2>1. SUFFICES ASSUME NEW g \in PFrame PROVE IF g \in used' THEN HeldOnce(g)' ELSE Unheld(g)'
    BY DEF Frames
  <2>2. DirOf(g)' = DirOf(g) /\ PdeOf(g)' = PdeOf(g)  BY <1>1 DEF DirOf, PdeOf, Slot
  <2>3. PteOf(g)' = {x \in PteOf(g) : x # <<s, u>>}
    <3>1. ASSUME NEW x \in Space \X UPage
          PROVE  /\ x = <<s, u>> => pte'[x[1]][x[2]].P = FALSE
                 /\ x # <<s, u>> => pte'[x[1]][x[2]] = pte[x[1]][x[2]]
      <4>1. PICK a \in Space, b \in UPage : x = <<a, b>>  OBVIOUS
      <4>2. x[1] = a /\ x[2] = b /\ (x = <<s, u>> <=> a = s /\ b = u)  BY <4>1
      <4>3. QED  BY <1>4, <1>6, <4>2
    <3>2. QED  BY <3>1 DEF PteOf, UPage
  <2>4. <<s, u>> \in PteOf(p.frame)
    <3>1. <<s, u>> \in Space \X UPage /\ <<s, u>>[1] = s /\ <<s, u>>[2] = u  OBVIOUS
    <3>2. QED  BY <1>2, <1>7, <3>1 DEF PteOf
  <2>5. CASE g = p.frame
    <3>1. g \in used /\ HeldOnce(g)  BY <1>0, <2>4, <2>5 DEF Frames, Unheld
    <3>2. DirOf(g) = {} /\ PdeOf(g) = {} /\ PteOf(g) = {<<s, u>>}
      BY <2>4, <2>5, <3>1 DEF HeldOnce, Single
    <3>3. DirOf(g)' = {} /\ PdeOf(g)' = {} /\ PteOf(g)' = {} /\ g \in loose'
      BY <1>1, <1>2, <2>2, <2>3, <2>5, <3>2
    <3>4. QED  BY <1>1, <3>1, <3>3 DEF HeldOnce
  <2>6. CASE g # p.frame
    <3>1. <<s, u>> \notin PteOf(g)
      <4>1. <<s, u>>[1] = s /\ <<s, u>>[2] = u  OBVIOUS
      <4>2. QED  BY <1>2, <2>6, <4>1 DEF PteOf
    <3>2. PteOf(g)' = PteOf(g)  BY <2>3, <3>1
    <3>3. g \in loose' <=> g \in loose  BY <1>1, <1>2, <2>6
    <3>4. QED  BY <1>0, <1>1, <2>2, <3>2, <3>3, HoldersStay DEF Frames
  <2>7. QED  BY <2>5, <2>6
<1>14. QED  BY <1>8, <1>9, <1>10, <1>11, <1>12, <1>13 DEF PtInv

\* A step that changes only the accessed and dirty bits of one entry.
LEMMA BitStep ==
    ASSUME PtInv, NEW s \in Space, NEW u \in UPage, NEW q \in Pte,
           pte' = [pte EXCEPT ![s][u] = q], q.P = pte[s][u].P, q.frame = pte[s][u].frame,
           UNCHANGED <<at, pagedir, dir, pde, used, loose, running, cr3>>
    PROVE  Backed' /\ Active' /\ Frames'
<1>0. PtTypes /\ Backed /\ Active /\ Frames  BY DEF PtInv
<1>1. /\ pte'[s][u] = q
      /\ \A v \in UPage : v # u => pte'[s][v] = pte[s][v]
      /\ \A t \in Space : t # s => pte'[t] = pte[t]
  BY <1>0, OneEntry
<1>2. \A t \in Space : \A v \in UPage :
         pte'[t][v].P = pte[t][v].P /\ pte'[t][v].frame = pte[t][v].frame
  BY <1>1
<1>3. Frames'  BY <1>0, <1>2, FramesStay
<1>4. Backed'  BY <1>0, <1>2 DEF Backed, Mapped, UPage
<1>5. Active'  BY <1>0 DEF Active
<1>6. QED  BY <1>3, <1>4, <1>5

LEMMA DirtyStep ==
    ASSUME PtInv, NEW s \in Space, NEW u \in UPage, NEW dirty \in BOOLEAN, SetDirty(s, u, dirty)
    PROVE  PtInv'
<1>0. PtTypes /\ Owned /\ Backed /\ Active /\ Cached /\ BitsTrue /\ Frames  BY DEF PtInv
<1>1. /\ at[s] = "live" /\ pte' = [pte EXCEPT ![s][u].D = dirty]
      /\ IF dirty THEN UNCHANGED <<tlb, written>>
         ELSE invalidate(s) /\ written' = [written EXCEPT ![s] = @ \ {u}]
      /\ UNCHANGED <<at, pagedir, dir, pde, used, loose, running, cr3, touched>>
  BY DEF SetDirty
<1>2. PICK p \in Pte : p = pte[s][u]  BY <1>0, PtParts
<1>3. PICK q \in Pte : q = [p EXCEPT !.D = dirty]  BY DEF Pte
<1>4. q.P = p.P /\ q.frame = p.frame /\ q.W = p.W /\ q.A = p.A /\ q.D = dirty  BY <1>3 DEF Pte
<1>5. pte' = [pte EXCEPT ![s][u] = q]  BY <1>1, <1>2, <1>3
<1>6. /\ pte' \in [Space -> [UPage -> Pte]] /\ pte'[s][u] = q
      /\ \A v \in UPage : v # u => pte'[s][v] = pte[s][v]
      /\ \A t \in Space : t # s => pte'[t] = pte[t]
  BY <1>0, <1>5, OneEntry
<1>7. Backed' /\ Active' /\ Frames'
  <2>1. q.P = pte[s][u].P /\ q.frame = pte[s][u].frame  BY <1>2, <1>4
  <2>2. UNCHANGED <<at, pagedir, dir, pde, used, loose, running, cr3>>  BY <1>1
  <2>3. QED  BY <1>5, <2>1, <2>2, BitStep
<1>8. running \in Space /\ \A t \in Space : touched[t] \subseteq UPage /\ written[t] \subseteq UPage
  BY <1>0 DEF PtTypes
<1>9. CASE dirty
  <2>1. UNCHANGED <<tlb, written>>  BY <1>1, <1>9
  <2>2. PtTypes'  BY <1>0, <1>1, <1>6, <2>1 DEF PtTypes, Slot, UPage, Pte, Entry
  <2>3. Owned'  BY <1>0, <1>1, <2>1 DEF Owned, Slot
  <2>4. \A t \in Space, v \in UPage :
           /\ pte'[t][v].P = pte[t][v].P /\ pte'[t][v].frame = pte[t][v].frame
           /\ pte'[t][v].W = pte[t][v].W /\ pte'[t][v].A = pte[t][v].A
           /\ pte[t][v].D => pte'[t][v].D
    BY <1>2, <1>4, <1>6, <1>9
  <2>5. BitsTrue'  BY <1>0, <1>1, <1>8, <2>1, <2>4 DEF BitsTrue
  <2>6. Cached'
    <3>1. SUFFICES ASSUME NEW e \in tlb
                   PROVE  /\ at[running] \in {"live", "unset"} /\ cr3 = dir[running]
                          /\ Present(running, e.page)'
                          /\ pte'[running][e.page].frame = e.frame /\ pte'[running][e.page].W = e.W
                          /\ pte'[running][e.page].A /\ (e.D => pte'[running][e.page].D)
      BY <1>1, <2>1 DEF Cached
    <3>2. e.page \in UPage  BY <1>0 DEF PtTypes, Entry
    <3>3. Present(running, e.page)' = Present(running, e.page)
      BY <1>1, <1>8, <2>4, <3>2 DEF Present, Mapped
    <3>4. QED  BY <1>0, <1>8, <2>4, <3>2, <3>3 DEF Cached
  <2>7. QED  BY <1>7, <2>2, <2>3, <2>5, <2>6 DEF PtInv
<1>10. CASE ~dirty
  <2>1. invalidate(s) /\ written' = [written EXCEPT ![s] = @ \ {u}]  BY <1>1, <1>10
  <2>2. /\ written' \in [Space -> SUBSET UPage] /\ written'[s] = written[s] \ {u}
        /\ \A t \in Space : t # s => written'[t] = written[t]
    BY <1>0, <2>1 DEF PtTypes
  <2>3. tlb' \subseteq Entry  BY <1>0, <2>1 DEF PtTypes, invalidate
  <2>4. PtTypes'  BY <1>0, <1>1, <1>6, <2>2, <2>3 DEF PtTypes, Slot, UPage, Pte, Entry
  <2>5. Owned'  BY <1>0, <1>1, <2>2 DEF Owned, Slot
  <2>6. Cached'  BY <1>1, <1>6, <1>8, <2>1, Invalidated, CachedStay
  <2>7. BitsTrue'
    <3>1. \A t \in Space : \A v \in touched[t] : pte'[t][v].A = pte[t][v].A
      BY <1>2, <1>4, <1>6, <1>8
    <3>2. \A t \in Space : \A v \in written'[t] : pte'[t][v].D = pte[t][v].D /\ v \in written[t]
      BY <1>6, <1>8, <2>2
    <3>3. QED  BY <1>0, <1>1, <3>1, <3>2 DEF BitsTrue
  <2>8. QED  BY <1>7, <2>4, <2>5, <2>6, <2>7 DEF PtInv
<1>11. QED  BY <1>9, <1>10

LEMMA AccessedStep ==
    ASSUME PtInv, NEW s \in Space, NEW u \in UPage, NEW accessed \in BOOLEAN,
           SetAccessed(s, u, accessed)
    PROVE  PtInv'
<1>0. PtTypes /\ Owned /\ Backed /\ Active /\ Cached /\ BitsTrue /\ Frames  BY DEF PtInv
<1>1. /\ at[s] = "live" /\ pte' = [pte EXCEPT ![s][u].A = accessed]
      /\ IF accessed THEN UNCHANGED <<tlb, touched>>
         ELSE invalidate(s) /\ touched' = [touched EXCEPT ![s] = @ \ {u}]
      /\ UNCHANGED <<at, pagedir, dir, pde, used, loose, running, cr3, written>>
  BY DEF SetAccessed
<1>2. PICK p \in Pte : p = pte[s][u]  BY <1>0, PtParts
<1>3. PICK q \in Pte : q = [p EXCEPT !.A = accessed]  BY DEF Pte
<1>4. q.P = p.P /\ q.frame = p.frame /\ q.W = p.W /\ q.D = p.D /\ q.A = accessed  BY <1>3 DEF Pte
<1>5. pte' = [pte EXCEPT ![s][u] = q]  BY <1>1, <1>2, <1>3
<1>6. /\ pte' \in [Space -> [UPage -> Pte]] /\ pte'[s][u] = q
      /\ \A v \in UPage : v # u => pte'[s][v] = pte[s][v]
      /\ \A t \in Space : t # s => pte'[t] = pte[t]
  BY <1>0, <1>5, OneEntry
<1>7. Backed' /\ Active' /\ Frames'
  <2>1. q.P = pte[s][u].P /\ q.frame = pte[s][u].frame  BY <1>2, <1>4
  <2>2. UNCHANGED <<at, pagedir, dir, pde, used, loose, running, cr3>>  BY <1>1
  <2>3. QED  BY <1>5, <2>1, <2>2, BitStep
<1>8. running \in Space /\ \A t \in Space : touched[t] \subseteq UPage /\ written[t] \subseteq UPage
  BY <1>0 DEF PtTypes
<1>9. CASE accessed
  <2>1. UNCHANGED <<tlb, touched>>  BY <1>1, <1>9
  <2>2. PtTypes'  BY <1>0, <1>1, <1>6, <2>1 DEF PtTypes, Slot, UPage, Pte, Entry
  <2>3. Owned'  BY <1>0, <1>1, <2>1 DEF Owned, Slot
  <2>4. \A t \in Space, v \in UPage :
           /\ pte'[t][v].P = pte[t][v].P /\ pte'[t][v].frame = pte[t][v].frame
           /\ pte'[t][v].W = pte[t][v].W /\ pte'[t][v].D = pte[t][v].D
           /\ pte[t][v].A => pte'[t][v].A
    BY <1>2, <1>4, <1>6, <1>9
  <2>5. BitsTrue'  BY <1>0, <1>1, <1>8, <2>1, <2>4 DEF BitsTrue
  <2>6. Cached'
    <3>1. SUFFICES ASSUME NEW e \in tlb
                   PROVE  /\ at[running] \in {"live", "unset"} /\ cr3 = dir[running]
                          /\ Present(running, e.page)'
                          /\ pte'[running][e.page].frame = e.frame /\ pte'[running][e.page].W = e.W
                          /\ pte'[running][e.page].A /\ (e.D => pte'[running][e.page].D)
      BY <1>1, <2>1 DEF Cached
    <3>2. e.page \in UPage  BY <1>0 DEF PtTypes, Entry
    <3>3. Present(running, e.page)' = Present(running, e.page)
      BY <1>1, <1>8, <2>4, <3>2 DEF Present, Mapped
    <3>4. QED  BY <1>0, <1>8, <2>4, <3>2, <3>3 DEF Cached
  <2>7. QED  BY <1>7, <2>2, <2>3, <2>5, <2>6 DEF PtInv
<1>10. CASE ~accessed
  <2>1. invalidate(s) /\ touched' = [touched EXCEPT ![s] = @ \ {u}]  BY <1>1, <1>10
  <2>2. /\ touched' \in [Space -> SUBSET UPage] /\ touched'[s] = touched[s] \ {u}
        /\ \A t \in Space : t # s => touched'[t] = touched[t]
    BY <1>0, <2>1 DEF PtTypes
  <2>3. tlb' \subseteq Entry  BY <1>0, <2>1 DEF PtTypes, invalidate
  <2>4. PtTypes'  BY <1>0, <1>1, <1>6, <2>2, <2>3 DEF PtTypes, Slot, UPage, Pte, Entry
  <2>5. Owned'  BY <1>0, <1>1, <2>2 DEF Owned, Slot
  <2>6. Cached'  BY <1>1, <1>6, <1>8, <2>1, Invalidated, CachedStay
  <2>7. BitsTrue'
    <3>1. \A t \in Space : \A v \in written[t] : pte'[t][v].D = pte[t][v].D
      BY <1>2, <1>4, <1>6, <1>8
    <3>2. \A t \in Space : \A v \in touched'[t] : pte'[t][v].A = pte[t][v].A /\ v \in touched[t]
      BY <1>6, <1>8, <2>2
    <3>3. QED  BY <1>0, <1>1, <3>1, <3>2 DEF BitsTrue
  <2>8. QED  BY <1>7, <2>4, <2>5, <2>6, <2>7 DEF PtInv
<1>11. QED  BY <1>9, <1>10

\* What an access does to the entry it goes through and to the TLB.
Accessed(s, u, w, q) ==
    /\ q.P = pte[s][u].P /\ q.frame = pte[s][u].frame /\ q.W = pte[s][u].W
    /\ q.A /\ (pte[s][u].D \/ w => q.D)
    /\ tlb' \subseteq Entry
    /\ \A e \in tlb' :
         \/ e \in tlb
         \/ /\ e.page = u /\ Present(s, u)
            /\ pte[s][u].frame = e.frame /\ pte[s][u].W = e.W /\ (e.D => q.D)

LEMMA AccessEntry ==
    ASSUME PtInv, NEW s \in Space, NEW u \in UPage, NEW write \in BOOLEAN, Access(s, u, write)
    PROVE  \E q \in Pte : pte' = [pte EXCEPT ![s][u] = q] /\ Accessed(s, u, write, q)
<1>0. PtTypes /\ Owned /\ Backed /\ Active /\ Cached /\ BitsTrue /\ Frames  BY DEF PtInv
<1>1. PICK p \in Pte : p = pte[s][u]  BY <1>0, PtParts
<1>2. p.D \in BOOLEAN /\ p.A \in BOOLEAN /\ p.frame \in PFrame \cup {NoFrame} /\ p.W \in BOOLEAN
  BY DEF Pte
<1>3. running = s  BY DEF Access
<1>4. CASE \E e \in {x \in tlb : x.page = u} :
            /\ tlb' = (tlb \ {e}) \cup {[e EXCEPT !.D = @ \/ write]}
            /\ pte' = [pte EXCEPT ![s][u].D = @ \/ (write /\ ~e.D)]
  <2>1. PICK e \in tlb : /\ e.page = u /\ tlb' = (tlb \ {e}) \cup {[e EXCEPT !.D = @ \/ write]}
                         /\ pte' = [pte EXCEPT ![s][u].D = @ \/ (write /\ ~e.D)]
    BY <1>4
  <2>2. e \in Entry /\ e.D \in BOOLEAN  BY <1>0 DEF PtTypes, Entry
  <2>3. /\ Present(s, u) /\ p.frame = e.frame /\ p.W = e.W /\ p.A /\ (e.D => p.D)
    BY <1>0, <1>1, <1>3, <2>1 DEF Cached
  <2>4. PICK d \in BOOLEAN : d = (p.D \/ (write /\ ~e.D))  BY <1>2, <2>2
  <2>5. PICK q \in Pte : q = [p EXCEPT !.D = d]  BY DEF Pte
  <2>6. q.P = p.P /\ q.frame = p.frame /\ q.W = p.W /\ q.A = p.A /\ q.D = d  BY <2>5 DEF Pte
  <2>7. pte' = [pte EXCEPT ![s][u] = q]  BY <1>1, <2>1, <2>4, <2>5
  <2>8. PICK c \in BOOLEAN : c = (e.D \/ write)  BY <2>2
  <2>9. PICK n \in Entry : n = [e EXCEPT !.D = c]  BY <2>2 DEF Entry
  <2>10. n.page = e.page /\ n.frame = e.frame /\ n.W = e.W /\ n.D = c  BY <2>2, <2>9 DEF Entry
  <2>11. tlb' = (tlb \ {e}) \cup {n}  BY <2>1, <2>8, <2>9
  <2>12. tlb' \subseteq Entry  BY <1>0, <2>9, <2>11 DEF PtTypes
  <2>13. n.D => q.D  BY <2>3, <2>4, <2>6, <2>8, <2>10
  <2>14. p.D \/ write => q.D  BY <2>3, <2>4, <2>6
  <2>15. \A x \in tlb' : x \in tlb \/ x = n  BY <2>11
  <2>16. Accessed(s, u, write, q)
    BY <1>1, <2>1, <2>3, <2>6, <2>10, <2>12, <2>13, <2>14, <2>15 DEF Accessed
  <2>17. QED  BY <2>7, <2>16
<1>5. CASE /\ Present(s, u)
           /\ tlb' = tlb \cup {[page |-> u, frame |-> pte[s][u].frame, W |-> pte[s][u].W,
                               D |-> write \/ pte[s][u].D]}
           /\ pte' = [pte EXCEPT ![s][u].A = TRUE, ![s][u].D = @ \/ write]
  <2>1. PICK d \in BOOLEAN : d = (p.D \/ write)  BY <1>2
  <2>2. PICK q \in Pte : q = [[p EXCEPT !.A = TRUE] EXCEPT !.D = d]  BY DEF Pte
  <2>3. q.P = p.P /\ q.frame = p.frame /\ q.W = p.W /\ q.A = TRUE /\ q.D = d  BY <2>2 DEF Pte
  <2>4. pte' = [pte EXCEPT ![s][u] = q]
    <3>1. pte \in [Space -> [UPage -> Pte]]  BY <1>0 DEF PtTypes
    <3>2. pte' = [[pte EXCEPT ![s][u].A = TRUE] EXCEPT ![s][u].D = @ \/ write]  BY <1>5
    <3>0. PICK r \in Pte : r = [p EXCEPT !.A = TRUE]  BY DEF Pte
    <3>3. r = [p EXCEPT !.A = TRUE] /\ r.D = p.D  BY <3>0 DEF Pte
    <3>4. PICK m \in [Space -> [UPage -> Pte]] : m = [pte EXCEPT ![s][u] = r]  BY <3>1
    <3>5. [pte EXCEPT ![s][u].A = TRUE] = m  BY <1>1, <3>3, <3>4
    <3>6. m[s][u] = r  BY <3>1, <3>4
    <3>7. pte' = [m EXCEPT ![s][u] = q]  BY <2>1, <2>2, <3>2, <3>3, <3>5, <3>6
    <3>8. QED  BY <3>1, <3>4, <3>7
  <2>5. PICK n \in Entry : n = [page |-> u, frame |-> p.frame, W |-> p.W, D |-> d]  BY <1>2 DEF Entry
  <2>6. n.page = u /\ n.frame = p.frame /\ n.W = p.W /\ n.D = d  BY <2>5
  <2>7. tlb' = tlb \cup {n}  BY <1>1, <1>2, <1>5, <2>1, <2>5
  <2>8. tlb' \subseteq Entry  BY <1>0, <2>7 DEF PtTypes
  <2>9. Accessed(s, u, write, q)  BY <1>1, <1>5, <2>1, <2>3, <2>6, <2>7, <2>8 DEF Accessed
  <2>10. QED  BY <2>4, <2>9
<1>6. QED  BY <1>4, <1>5 DEF Access

LEMMA AccessStep ==
    ASSUME PtInv, NEW s \in Space, NEW u \in UPage, NEW write \in BOOLEAN, Access(s, u, write)
    PROVE  PtInv'
<1>0. PtTypes /\ Owned /\ Backed /\ Active /\ Cached /\ BitsTrue /\ Frames  BY DEF PtInv
<1>1. PICK q \in Pte : pte' = [pte EXCEPT ![s][u] = q] /\ Accessed(s, u, write, q)  BY AccessEntry
<1>2. /\ running = s /\ at[s] = "live" /\ cr3 = dir[s]
      /\ touched' = [touched EXCEPT ![s] = @ \cup {u}]
      /\ written' = [written EXCEPT ![s] = IF write THEN @ \cup {u} ELSE @]
      /\ UNCHANGED <<at, pagedir, dir, pde, used, loose, running, cr3>>
  BY DEF Access
<1>3. /\ q.P = pte[s][u].P /\ q.frame = pte[s][u].frame /\ q.W = pte[s][u].W
      /\ q.A /\ (pte[s][u].D \/ write => q.D)
      /\ tlb' \subseteq Entry
      /\ \A e \in tlb' :
           \/ e \in tlb
           \/ /\ e.page = u /\ Present(s, u)
              /\ pte[s][u].frame = e.frame /\ pte[s][u].W = e.W /\ (e.D => q.D)
  BY <1>1 DEF Accessed
<1>4. /\ pte' \in [Space -> [UPage -> Pte]] /\ pte'[s][u] = q
      /\ \A v \in UPage : v # u => pte'[s][v] = pte[s][v]
      /\ \A t \in Space : t # s => pte'[t] = pte[t]
  BY <1>0, <1>1, OneEntry
<1>5. Backed' /\ Active' /\ Frames'  BY <1>1, <1>2, <1>3, BitStep
<1>6. /\ touched' \in [Space -> SUBSET UPage] /\ touched'[s] = touched[s] \cup {u}
      /\ \A t \in Space : t # s => touched'[t] = touched[t]
  BY <1>0, <1>2 DEF PtTypes
<1>7. /\ written' \in [Space -> SUBSET UPage]
      /\ written'[s] = IF write THEN written[s] \cup {u} ELSE written[s]
      /\ \A t \in Space : t # s => written'[t] = written[t]
  BY <1>0, <1>2 DEF PtTypes
<1>8. PtTypes'  BY <1>0, <1>2, <1>3, <1>4, <1>6, <1>7 DEF PtTypes, Slot, UPage, Pte, Entry
<1>9. Owned'  BY <1>0, <1>2, <1>6, <1>7 DEF Owned, Slot
<1>10. BitsTrue'
  <2>1. touched[s] \subseteq UPage /\ written[s] \subseteq UPage  BY <1>0 DEF PtTypes
  <2>2. \A v \in touched'[s] : pte'[s][v].A  BY <1>0, <1>2, <1>3, <1>4, <1>6, <2>1 DEF BitsTrue
  <2>3. \A v \in written'[s] : pte'[s][v].D
    BY <1>0, <1>2, <1>3, <1>4, <1>7, <2>1 DEF BitsTrue
  <2>4. QED  BY <1>0, <1>2, <1>4, <1>6, <1>7, <2>2, <2>3 DEF BitsTrue
<1>11. Cached'
  <2>1. SUFFICES ASSUME NEW e \in tlb'
                 PROVE  /\ Present(s, e.page)'
                        /\ pte'[s][e.page].frame = e.frame /\ pte'[s][e.page].W = e.W
                        /\ pte'[s][e.page].A /\ (e.D => pte'[s][e.page].D)
    BY <1>2 DEF Cached
  <2>2. e.page \in UPage  BY <1>3 DEF Entry
  <2>3. Present(s, e.page)' = Present(s, e.page)  BY <1>2, <1>3, <1>4, <2>2 DEF Present, Mapped
  <2>4. CASE e \in tlb
    <3>1. /\ Present(s, e.page) /\ pte[s][e.page].frame = e.frame /\ pte[s][e.page].W = e.W
          /\ pte[s][e.page].A /\ (e.D => pte[s][e.page].D)
      BY <1>0, <1>2, <2>4 DEF Cached
    <3>2. CASE e.page = u  BY <1>3, <1>4, <2>3, <3>1, <3>2
    <3>3. CASE e.page # u  BY <1>4, <2>2, <2>3, <3>1, <3>3
    <3>4. QED  BY <3>2, <3>3
  <2>5. CASE e \notin tlb  BY <1>3, <1>4, <2>3, <2>5
  <2>6. QED  BY <2>4, <2>5
<1>12. QED  BY <1>5, <1>8, <1>9, <1>10, <1>11 DEF PtInv

\* The frame an installed page gets, and the one its page table is in.
Installed(s, u, f, t) ==
    /\ f \in PFrame /\ f \notin used /\ t \in PFrame /\ t # f
    /\ used' = used \cup {f, t} /\ pde' = [pde EXCEPT ![s][pd_no(u)] = t]
    /\ \/ t \notin used /\ pde[s][pd_no(u)] = NoFrame
       \/ t \in used /\ pde[s][pd_no(u)] = t

LEMMA InstallFrames ==
    ASSUME PtInv, NEW s \in Space, NEW u \in UPage, NEW w \in BOOLEAN, InstallPage(s, u, w)
    PROVE  \E f, t : Installed(s, u, f, t) /\ pte' = [pte EXCEPT ![s][u] = pte_create_user(s, u, f, w)]
<1>0. PtTypes /\ Frames  BY DEF PtInv
<1>1. PICK i \in Slot : i = pd_no(u)  BY TableNumber
<1>2. PICK o \in PFrame \cup {NoFrame} : o = pde[s][i]  BY <1>0, PtParts
<1>3. PICK f \in GetPage(used) :
        /\ \E t \in IF o = NoFrame THEN GetPage(used \cup {f}) ELSE {o} :
             used' = used \cup {f, t} /\ pde' = [pde EXCEPT ![s][pd_no(u)] = t]
        /\ pte' = [pte EXCEPT ![s][u] = pte_create_user(s, u, f, w)]
  BY <1>1, <1>2 DEF InstallPage
<1>4. f \in PFrame /\ f \notin used  BY <1>3 DEF GetPage
<1>5. PICK t \in IF o = NoFrame THEN GetPage(used \cup {f}) ELSE {o} :
        used' = used \cup {f, t} /\ pde' = [pde EXCEPT ![s][pd_no(u)] = t]
  BY <1>3
<1>6. CASE o = NoFrame
  <2>1. t \in PFrame /\ t \notin used /\ t # f  BY <1>5, <1>6 DEF GetPage
  <2>2. Installed(s, u, f, t)  BY <1>1, <1>2, <1>4, <1>5, <1>6, <2>1 DEF Installed
  <2>3. QED  BY <1>3, <2>2
<1>7. CASE o # NoFrame
  <2>1. t = o /\ o \in PFrame  BY <1>2, <1>5, <1>7
  <2>2. o \in used /\ o # f  BY <1>0, <1>2, <1>4, <2>1, FreshFrame
  <2>3. Installed(s, u, f, t)  BY <1>1, <1>2, <1>4, <1>5, <2>1, <2>2 DEF Installed
  <2>4. QED  BY <1>3, <2>3
<1>8. QED  BY <1>6, <1>7

LEMMA InstallStep ==
    ASSUME PtInv, NEW s \in Space, NEW u \in UPage, NEW w \in BOOLEAN, InstallPage(s, u, w)
    PROVE  PtInv'
<1>0. PtTypes /\ Owned /\ Backed /\ Active /\ Cached /\ BitsTrue /\ Frames  BY DEF PtInv
<1>1. /\ running = s /\ at[s] = "live" /\ ~Present(s, u)
      /\ touched' = [touched EXCEPT ![s] = @ \ {u}] /\ written' = [written EXCEPT ![s] = @ \ {u}]
      /\ UNCHANGED <<at, pagedir, dir, loose, running, cr3, tlb>>
  BY DEF InstallPage
<1>2. PICK f, t : /\ Installed(s, u, f, t)
                  /\ pte' = [pte EXCEPT ![s][u] = pte_create_user(s, u, f, w)]
  BY InstallFrames
<1>3. /\ f \in PFrame /\ f \notin used /\ t \in PFrame /\ t # f
      /\ used' = used \cup {f, t} /\ pde' = [pde EXCEPT ![s][pd_no(u)] = t]
      /\ \/ t \notin used /\ pde[s][pd_no(u)] = NoFrame
         \/ t \in used /\ pde[s][pd_no(u)] = t
  BY <1>2 DEF Installed
<1>4. PICK q \in Pte : q = pte_create_user(s, u, f, w) /\ q.P = TRUE /\ q.frame = f
  <2>1. NoPte \in Pte  BY DEF NoPte, Pte
  <2>2. PICK x \in Pte : x = [NoPte EXCEPT !.frame = f]  BY <1>3, <2>1 DEF Pte
  <2>3. PICK y \in Pte : y = [x EXCEPT !.P = TRUE]  BY DEF Pte
  <2>4. PICK z \in Pte : z = [y EXCEPT !.W = w]  BY DEF Pte
  <2>5. z = pte_create_user(s, u, f, w)  BY <2>2, <2>3, <2>4 DEF pte_create_user
  <2>6. x.frame = f  BY <2>1, <2>2 DEF Pte
  <2>7. y.frame = f /\ y.P = TRUE  BY <2>3, <2>6 DEF Pte
  <2>8. z.frame = f /\ z.P = TRUE  BY <2>4, <2>7 DEF Pte
  <2>9. QED  BY <2>5, <2>8
<1>5. /\ pte' \in [Space -> [UPage -> Pte]] /\ pte'[s][u] = q
      /\ \A v \in UPage : v # u => pte'[s][v] = pte[s][v]
      /\ \A x \in Space : x # s => pte'[x] = pte[x]
  <2>1. pte' = [pte EXCEPT ![s][u] = q]  BY <1>2, <1>4
  <2>2. QED  BY <1>0, <2>1, OneEntry
<1>6. PICK i \in Slot : i = pd_no(u)  BY TableNumber
<1>7. /\ pde' \in [Space -> [Slot -> PFrame \cup {NoFrame}]] /\ pde'[s][i] = t
      /\ \A j \in Slot : j # i => pde'[s][j] = pde[s][j]
      /\ \A x \in Space : x # s => pde'[x] = pde[x]
  <2>1. pde \in [Space -> [Slot -> PFrame \cup {NoFrame}]]  BY <1>0 DEF PtTypes
  <2>2. QED  BY <1>3, <1>6, <2>1
<1>8. pte[s][u].P = FALSE
  <2>1. pte[s][u].P \in BOOLEAN  BY <1>0, PtParts DEF Pte
  <2>2. QED  BY <1>0, <1>1, <2>1 DEF Backed, Present
<1>9. /\ touched' \in [Space -> SUBSET UPage] /\ touched'[s] = touched[s] \ {u}
      /\ \A x \in Space : x # s => touched'[x] = touched[x]
      /\ written' \in [Space -> SUBSET UPage] /\ written'[s] = written[s] \ {u}
      /\ \A x \in Space : x # s => written'[x] = written[x]
  BY <1>0, <1>1 DEF PtTypes
<1>10. PtTypes'
  <2>1. used' \subseteq PFrame  BY <1>0, <1>3 DEF PtTypes
  <2>2. QED  BY <1>0, <1>1, <1>5, <1>7, <1>9, <2>1 DEF PtTypes, Slot, UPage, Pte, Entry
<1>11. Owned'  BY <1>0, <1>1, <1>7, <1>9 DEF Owned, Slot
<1>12. \A x \in Space, v \in UPage : Mapped(x, v) => Mapped(x, v)'
  <2>1. SUFFICES ASSUME NEW x \in Space, NEW v \in UPage, Mapped(x, v) PROVE Mapped(x, v)'
    OBVIOUS
  <2>2. PICK j \in Slot : j = pd_no(v)  BY TableNumber
  <2>3. pde'[x][j] = pde[x][j] \/ pde'[x][j] = t  BY <1>7
  <2>4. QED  BY <1>3, <2>1, <2>2, <2>3, NoFrameAssumption DEF Mapped
<1>13. Mapped(s, u)'  BY <1>3, <1>6, <1>7, NoFrameAssumption DEF Mapped
<1>14. Backed'
  <2>1. ASSUME NEW x \in Space, NEW v \in UPage, pte'[x][v].P
        PROVE  Mapped(x, v)' /\ pte'[x][v].frame \in PFrame
    <3>1. CASE x = s /\ v = u  BY <1>3, <1>4, <1>5, <1>13, <3>1
    <3>2. CASE ~(x = s /\ v = u)
      <4>1. pte'[x][v] = pte[x][v]  BY <1>5, <3>2
      <4>2. QED  BY <1>0, <1>12, <2>1, <4>1 DEF Backed
    <3>3. QED  BY <3>1, <3>2
  <2>2. QED  BY <2>1 DEF Backed, UPage
<1>15. Active'  BY <1>0, <1>1 DEF Active
<1>16. Cached'
  <2>1. ASSUME NEW e \in tlb
        PROVE  /\ Present(s, e.page)' /\ Present(s, e.page) /\ pte'[s][e.page] = pte[s][e.page]
    <3>1. e.page \in UPage  BY <1>0 DEF PtTypes, Entry
    <3>2. Present(s, e.page)  BY <1>0, <1>1 DEF Cached
    <3>3. pte'[s][e.page] = pte[s][e.page]  BY <1>1, <1>5, <3>1, <3>2
    <3>4. QED  BY <1>12, <3>1, <3>2, <3>3 DEF Present
  <2>2. QED  BY <1>0, <1>1, <2>1 DEF Cached
<1>17. BitsTrue'
  <2>1. \A x \in Space : touched[x] \subseteq UPage /\ written[x] \subseteq UPage  BY <1>0 DEF PtTypes
  <2>2. \A x \in Space : /\ \A v \in touched'[x] : v \in touched[x] /\ pte'[x][v] = pte[x][v]
                         /\ \A v \in written'[x] : v \in written[x] /\ pte'[x][v] = pte[x][v]
    BY <1>5, <1>9, <2>1
  <2>3. QED  BY <1>0, <1>1, <2>2 DEF BitsTrue
<1>18. Frames'
  <2>1. SUFFICES ASSUME NEW g \in PFrame PROVE IF g \in used' THEN HeldOnce(g)' ELSE Unheld(g)'
    BY DEF Frames
  <2>2. DirOf(g)' = DirOf(g) /\ (g \in loose' <=> g \in loose)  BY <1>1 DEF DirOf
  <2>3. PteOf(g)' = IF g = f THEN PteOf(g) \cup {<<s, u>>} ELSE PteOf(g)
    <3>1. ASSUME NEW x \in Space \X UPage
          PROVE  /\ x = <<s, u>> => /\ pte'[x[1]][x[2]].P /\ pte'[x[1]][x[2]].frame = f
                                    /\ pte[x[1]][x[2]].P = FALSE
                 /\ x # <<s, u>> => pte'[x[1]][x[2]] = pte[x[1]][x[2]]
      <4>1. PICK a \in Space, b \in UPage : x = <<a, b>>  OBVIOUS
      <4>2. x[1] = a /\ x[2] = b /\ (x = <<s, u>> <=> a = s /\ b = u)  BY <4>1
      <4>3. QED  BY <1>4, <1>5, <1>8, <4>2
    <3>2. <<s, u>> \in Space \X UPage  OBVIOUS
    <3>3. QED  BY <3>1, <3>2 DEF PteOf, UPage
  <2>4. PdeOf(g)' = IF g = t THEN PdeOf(g) \cup {<<s, i>>} ELSE PdeOf(g)
    <3>1. ASSUME NEW x \in Space \X Slot
          PROVE  /\ x = <<s, i>> => /\ pde'[x[1]][x[2]] = t /\ pde[x[1]][x[2]] \in {t, NoFrame}
                 /\ x # <<s, i>> => pde'[x[1]][x[2]] = pde[x[1]][x[2]]
      <4>1. PICK a \in Space, b \in Slot : x = <<a, b>>  OBVIOUS
      <4>2. x[1] = a /\ x[2] = b /\ (x = <<s, i>> <=> a = s /\ b = i)  BY <4>1
      <4>3. QED  BY <1>3, <1>6, <1>7, <4>2
    <3>2. <<s, i>> \in Space \X Slot /\ g # NoFrame  BY NoFrameAssumption
    <3>3. QED  BY <3>1, <3>2 DEF PdeOf, Slot
  <2>5. CASE g = f
    <3>1. Unheld(g)  BY <1>0, <1>3, <2>5 DEF Frames
    <3>2. DirOf(g)' = {} /\ PdeOf(g)' = {} /\ PteOf(g)' = {<<s, u>>} /\ g \notin loose'
      BY <1>3, <2>2, <2>3, <2>4, <2>5, <3>1 DEF Unheld
    <3>3. QED  BY <1>3, <2>5, <3>2 DEF HeldOnce, Single
  <2>6. CASE g = t /\ t \notin used
    <3>1. Unheld(g)  BY <1>0, <2>6 DEF Frames
    <3>2. DirOf(g)' = {} /\ PdeOf(g)' = {<<s, i>>} /\ PteOf(g)' = {} /\ g \notin loose'
      BY <1>3, <2>2, <2>3, <2>4, <2>6, <3>1 DEF Unheld
    <3>3. QED  BY <1>3, <2>6, <3>2 DEF HeldOnce, Single
  <2>7. CASE g # f /\ ~(g = t /\ t \notin used)
    <3>1. PteOf(g)' = PteOf(g)  BY <2>3, <2>7
    <3>2. PdeOf(g)' = PdeOf(g)
      <4>1. CASE g # t  BY <2>4, <4>1
      <4>2. CASE g = t
        <5>1. pde[s][i] = g  BY <1>3, <1>6, <2>7, <4>2
        <5>2. <<s, i>> \in Space \X Slot /\ <<s, i>>[1] = s /\ <<s, i>>[2] = i  OBVIOUS
        <5>3. <<s, i>> \in PdeOf(g)  BY <5>1, <5>2 DEF PdeOf
        <5>4. QED  BY <2>4, <4>2, <5>3
      <4>3. QED  BY <4>1, <4>2
    <3>3. g \in used' <=> g \in used  BY <1>3, <2>7
    <3>4. QED  BY <1>0, <2>2, <3>1, <3>2, <3>3, HoldersStay DEF Frames
  <2>8. QED  BY <2>5, <2>6, <2>7
<1>19. QED  BY <1>10, <1>11, <1>14, <1>15, <1>16, <1>17, <1>18 DEF PtInv

\* Whatever pagedir.c, load, process_exit, the scheduler and the CPU do in any
\* order, the invariant holds.
THEOREM PtInvariant == PtSpec => []PtInv
<1>1. PtInit => PtInv  BY PtInitInv
<1>2. ASSUME PtInv, [PtNext]_ptVars PROVE PtInv'
  <2>1. CASE UNCHANGED ptVars
    <3>1. UNCHANGED <<at, pagedir, dir, pde, pte, used, loose, running, cr3, tlb, touched, written>>
      BY <2>1 DEF ptVars
    <3>2. Backed' /\ Frames'  BY <1>2, <3>1, Calm
    <3>3. Cached'  BY <1>2, <3>1, CachedStay
    <3>4. PtTypes' /\ Owned' /\ Active' /\ BitsTrue'
      BY <1>2, <3>1 DEF PtInv, PtTypes, Owned, Active, BitsTrue, Slot, UPage, Pte, Entry
    <3>5. QED  BY <3>2, <3>3, <3>4 DEF PtInv
  <2>2. CASE FreeLoose  BY <1>2, <2>2, LooseStep
  <2>3. ASSUME NEW s \in Space,
               \/ Create(s) \/ ActivateNew(s) \/ SwitchTo(s)
               \/ ExitUnset(s) \/ ExitActivate(s) \/ Destroy(s)
        PROVE  PtInv'
    BY <1>2, <2>3, CreateStep, ActivateStep, SwitchStep, UnsetStep, LeaveStep, DestroyStep
  <2>4. ASSUME NEW s \in Space, NEW u \in UPage, ClearPage(s, u) PROVE PtInv'
    BY <1>2, <2>4, ClearStep
  <2>5. ASSUME NEW s \in Space, NEW u \in UPage, NEW b \in BOOLEAN,
               \/ InstallPage(s, u, b) \/ SetDirty(s, u, b)
               \/ SetAccessed(s, u, b) \/ Access(s, u, b)
        PROVE  PtInv'
    BY <1>2, <2>5, InstallStep, DirtyStep, AccessedStep, AccessStep
  <2>6. QED  BY <1>2, <2>1, <2>2, <2>3, <2>4, <2>5 DEF PtNext
<1>3. QED  BY <1>1, <1>2, PTL DEF PtSpec

\* The references that FramesTrue counts.
DirRefs == {<<"dir", s, 0, dir[s]>> : s \in Space}
PdeRefs == {<<"pde", s, i, pde[s][i]>> : s \in Space, i \in 0 .. Tables - 1}
PteRefs == {<<"pte", x[1], x[2], pte[x[1]][x[2]].frame>> :
              x \in {y \in Space \X UPage : pte[y[1]][y[2]].P}}
LooseRefs == {<<"loose", f, 0, f>> : f \in loose}

\* The references to a frame, one for each of its holders.
LEMMA RefsOf ==
    ASSUME NEW f
    PROVE  /\ {r \in DirRefs : r[4] = f} = {<<"dir", s, 0, f>> : s \in DirOf(f)}
           /\ {r \in PdeRefs : r[4] = f} = {<<"pde", x[1], x[2], f>> : x \in PdeOf(f)}
           /\ {r \in PteRefs : r[4] = f} = {<<"pte", x[1], x[2], f>> : x \in PteOf(f)}
           /\ {r \in LooseRefs : r[4] = f} = (IF f \in loose THEN {<<"loose", f, 0, f>>} ELSE {})
<1>1. {r \in DirRefs : r[4] = f} = {<<"dir", s, 0, f>> : s \in DirOf(f)}  BY DEF DirOf, DirRefs
<1>2. {r \in PdeRefs : r[4] = f} = {<<"pde", x[1], x[2], f>> : x \in PdeOf(f)}
  <2>1. PdeRefs = {<<"pde", x[1], x[2], pde[x[1]][x[2]]>> : x \in Space \X Slot}
    <3>1. ASSUME NEW r \in PdeRefs
          PROVE  r \in {<<"pde", x[1], x[2], pde[x[1]][x[2]]>> : x \in Space \X Slot}
      <4>1. PICK s \in Space, i \in Slot : r = <<"pde", s, i, pde[s][i]>>  BY DEF Slot, PdeRefs
      <4>2. <<s, i>> \in Space \X Slot /\ <<s, i>>[1] = s /\ <<s, i>>[2] = i  OBVIOUS
      <4>3. QED  BY <4>1, <4>2
    <3>2. ASSUME NEW x \in Space \X Slot
          PROVE  <<"pde", x[1], x[2], pde[x[1]][x[2]]>> \in PdeRefs
      <4>1. x[1] \in Space /\ x[2] \in Slot  OBVIOUS
      <4>2. QED  BY <4>1 DEF Slot, PdeRefs
    <3>3. QED  BY <3>1, <3>2
  <2>2. QED  BY <2>1 DEF PdeOf
<1>3. {r \in PteRefs : r[4] = f} = {<<"pte", x[1], x[2], f>> : x \in PteOf(f)}  BY DEF PteOf, PteRefs
<1>4. {r \in LooseRefs : r[4] = f} = (IF f \in loose THEN {<<"loose", f, 0, f>>} ELSE {})  BY DEF LooseRefs
<1>5. QED  BY <1>1, <1>2, <1>3, <1>4

LEMMA FramesCounted == PtInv => FramesTrue
<1> SUFFICES ASSUME PtInv PROVE FramesTrue  OBVIOUS
<1>1. ASSUME NEW f \in PFrame
      PROVE  Cardinality({r \in DirRefs \cup PdeRefs \cup PteRefs \cup LooseRefs : r[4] = f})
               = (IF f \in used THEN 1 ELSE 0)
  <2>1. PICK a : a = {<<"dir", s, 0, f>> : s \in DirOf(f)}  OBVIOUS
  <2>2. PICK b : b = {<<"pde", x[1], x[2], f>> : x \in PdeOf(f)}  OBVIOUS
  <2>3. PICK c : c = {<<"pte", x[1], x[2], f>> : x \in PteOf(f)}  OBVIOUS
  <2>4. PICK d : d = (IF f \in loose THEN {<<"loose", f, 0, f>>} ELSE {})  OBVIOUS
  <2>5. /\ {r \in DirRefs : r[4] = f} = a /\ {r \in PdeRefs : r[4] = f} = b
        /\ {r \in PteRefs : r[4] = f} = c /\ {r \in LooseRefs : r[4] = f} = d
    BY <2>1, <2>2, <2>3, <2>4, RefsOf
  <2>6. {r \in DirRefs \cup PdeRefs \cup PteRefs \cup LooseRefs : r[4] = f} = a \cup b \cup c \cup d  BY <2>5
  <2>7. CASE f \in used
    <3>1. HeldOnce(f)  BY <2>7 DEF PtInv, Frames
    <3>2. \E y : a \cup b \cup c \cup d = {y}
      <4>1. CASE Single(DirOf(f)) /\ PdeOf(f) = {} /\ PteOf(f) = {} /\ f \notin loose
        <5>1. PICK x : DirOf(f) = {x}  BY <4>1 DEF Single
        <5>2. a = {<<"dir", x, 0, f>>} /\ b = {} /\ c = {} /\ d = {}
          BY <2>1, <2>2, <2>3, <2>4, <4>1, <5>1
        <5>3. QED  BY <5>2
      <4>2. CASE DirOf(f) = {} /\ Single(PdeOf(f)) /\ PteOf(f) = {} /\ f \notin loose
        <5>1. PICK x : PdeOf(f) = {x}  BY <4>2 DEF Single
        <5>2. a = {} /\ b = {<<"pde", x[1], x[2], f>>} /\ c = {} /\ d = {}
          BY <2>1, <2>2, <2>3, <2>4, <4>2, <5>1
        <5>3. QED  BY <5>2
      <4>3. CASE DirOf(f) = {} /\ PdeOf(f) = {} /\ Single(PteOf(f)) /\ f \notin loose
        <5>1. PICK x : PteOf(f) = {x}  BY <4>3 DEF Single
        <5>2. a = {} /\ b = {} /\ c = {<<"pte", x[1], x[2], f>>} /\ d = {}
          BY <2>1, <2>2, <2>3, <2>4, <4>3, <5>1
        <5>3. QED  BY <5>2
      <4>4. CASE DirOf(f) = {} /\ PdeOf(f) = {} /\ PteOf(f) = {} /\ f \in loose
        <5>1. a = {} /\ b = {} /\ c = {} /\ d = {<<"loose", f, 0, f>>}
          BY <2>1, <2>2, <2>3, <2>4, <4>4
        <5>2. QED  BY <5>1
      <4>5. QED  BY <3>1, <4>1, <4>2, <4>3, <4>4 DEF HeldOnce
    <3>3. PICK y : a \cup b \cup c \cup d = {y}  BY <3>2
    <3>4. Cardinality({y}) = 1  BY FS_Singleton
    <3>5. QED  BY <2>6, <2>7, <3>3, <3>4
  <2>8. CASE f \notin used
    <3>1. DirOf(f) = {} /\ PdeOf(f) = {} /\ PteOf(f) = {} /\ f \notin loose
      BY <2>8 DEF PtInv, Frames, Unheld
    <3>2. a = {} /\ b = {} /\ c = {} /\ d = {}  BY <2>1, <2>2, <2>3, <2>4, <3>1
    <3>3. Cardinality({}) = 0  BY FS_EmptySet
    <3>4. QED  BY <2>6, <2>8, <3>2, <3>3
  <2>9. QED  BY <2>7, <2>8
<1>2. QED  BY <1>1 DEF FramesTrue, DirRefs, PdeRefs, PteRefs, LooseRefs

\* pagedir.c with process start and exit, for any number of processes, pages and
\* tables: no stale translation stays in the TLB, accessed and dirty bits are
\* true, the active directory is alive, and a frame in use has one holder.
THEOREM TablesCorrect == PtSpec => []TablesSound
<1>1. PtInv => TablesSound
  <2>1. SUFFICES ASSUME PtInv PROVE TablesSound  OBVIOUS
  <2>2. running \in Space  BY <2>1 DEF PtInv, PtTypes
  <2>3. TlbFresh  BY <2>1, <2>2 DEF PtInv, Cached, TlbFresh
  <2>4. ActiveAlive
    <3>1. SUFFICES ASSUME cr3 # KernelDir PROVE cr3 \in used /\ \E s \in Space : dir[s] = cr3
      BY DEF ActiveAlive
    <3>2. cr3 = dir[running]  BY <2>1, <3>1 DEF PtInv, Active
    <3>3. at[running] \in {"created", "live", "unset"}
      BY <2>1, <2>2, <3>1, PtParts DEF PtInv, Active
    <3>4. dir[running] \in PFrame  BY <2>1, <2>2, <3>3 DEF PtInv, Owned
    <3>5. dir[running] \in used  BY <2>1, <2>2, <3>4, FreshFrame DEF PtInv
    <3>6. QED  BY <2>2, <3>2, <3>5
  <2>5. QED  BY <2>1, <2>3, <2>4, FramesCounted DEF PtInv, TablesSound
<1>2. QED  BY <1>1, PtInvariant, PTL
=============================================================================
