---------------------------- MODULE ProcessWait -----------------------------
(***************************************************************************)
(* exec, wait and exit of userprog/process.c: how a parent and its child   *)
(* share a struct wait_status, and who frees it.                           *)
(*                                                                         *)
(* A wait_status is named after the child it was allocated for.  A process *)
(* is at one of these places:                                              *)
(*   "unborn"     not created yet                                          *)
(*   "loading"    in start_process, before its sema_up                     *)
(*   "running"    in user code (Main: in run_task)                         *)
(*   "exec"       in process_execute, at sema_down                         *)
(*   "wait"       in process_wait, at sema_down                            *)
(*   "exit_own"   in process_exit, before it gives up its own wait_status  *)
(*   "exit_kids"  in process_exit, in the loop over its children           *)
(*   "dead"       gone                                                     *)
(*                                                                         *)
(* Reading or writing a freed wait_status is undefined behaviour: the step *)
(* sets fault and the behaviour ends there.                                *)
(***************************************************************************)
EXTENDS Integers, Sequences, SequencesExt

CONSTANTS
    Proc,       \* processes; each runs at most once
    Main,       \* the initial kernel thread, which has no wait_status
    Code,       \* statuses that programs pass to exit, beside -1
    NoProc,     \* no process
    NoCode      \* no exit status

ASSUME MainAssumption == Main \in Proc
\* -1 is also the status of a killed process.
ExitCode == Code \cup {-1}

ASSUME CodeAssumption == NoCode \notin ExitCode
ASSUME NoProcAssumption == NoProc \notin Proc

VARIABLES
    pc, parent,
    target,        \* the child a process execs or waits for
    children,      \* children_wait_status, newest first
    kid,           \* place of e in the loop of process_exit
    wait_status,   \* has the thread's wait_status been set?
    heap,          \* by wait_status: "none", "allocated" or "freed"
    ref_cnt, sema, exit_code, loaded,   \* fields of struct wait_status
    said, got,     \* history: status given to exit, status returned by wait
    fault          \* a freed wait_status has been used

wsVars == <<heap, ref_cnt, sema, exit_code, loaded>>
vars == <<pc, parent, target, children, kid, wait_status, wsVars, said, got,
          fault>>

Init ==
    /\ pc = [p \in Proc |-> IF p = Main THEN "running" ELSE "unborn"]
    /\ parent = [p \in Proc |-> NoProc]
    /\ target = [p \in Proc |-> NoProc]
    /\ children = [p \in Proc |-> <<>>]
    /\ kid = [p \in Proc |-> 1]
    /\ wait_status = [p \in Proc |-> FALSE]
    /\ heap = [p \in Proc |-> "none"]
    /\ ref_cnt = [p \in Proc |-> 0]
    /\ sema = [p \in Proc |-> 0]
    /\ exit_code = [p \in Proc |-> -1]
    /\ loaded = [p \in Proc |-> FALSE]
    /\ said = [p \in Proc |-> NoCode]
    /\ got = [p \in Proc |-> NoCode]
    /\ fault = FALSE

Goto(p, from, to) == ~fault /\ pc[p] = from /\ pc' = [pc EXCEPT ![p] = to]

\* The step reads or writes the wait_status structs of S.
Touch(S) == fault' = \E w \in S : heap[w] = "freed"

-----------------------------------------------------------------------------
\* process_execute up to sema_down. Main runs one task at a time (run_task).
Exec(p) ==
    /\ ~fault /\ pc[p] = "running"
    /\ p = Main => children[p] = <<>>
    /\ \E c \in {q \in Proc : pc[q] = "unborn"} :
         /\ pc' = [pc EXCEPT ![p] = "exec", ![c] = "loading"]
         /\ parent' = [parent EXCEPT ![c] = p]
         /\ target' = [target EXCEPT ![p] = c]
         /\ heap' = [heap EXCEPT ![c] = "allocated"]
         /\ ref_cnt' = [ref_cnt EXCEPT ![c] = 2]
    /\ UNCHANGED <<children, kid, wait_status, sema, exit_code, loaded, said,
                   got, fault>>

\* process_execute when thread_create fails: TID_ERROR is returned and the
\* wait_status is neither freed nor put on a list.
ExecNoThread(p) ==
    /\ ~fault /\ pc[p] = "running"
    /\ p = Main => children[p] = <<>>
    /\ \E c \in {q \in Proc : pc[q] = "unborn"} :
         /\ pc' = [pc EXCEPT ![c] = "dead"]
         /\ heap' = [heap EXCEPT ![c] = "allocated"]
         /\ ref_cnt' = [ref_cnt EXCEPT ![c] = 2]
    /\ UNCHANGED <<parent, target, children, kid, wait_status, sema, exit_code,
                   loaded, said, got, fault>>

\* start_process when load fails; thread_exit then finds wait_status NULL
\* and no children.
LoadFails(c) ==
    /\ Goto(c, "loading", "dead")
    /\ sema' = [sema EXCEPT ![c] = @ + 1]
    /\ Touch({c})
    /\ UNCHANGED <<parent, target, children, kid, wait_status, heap, ref_cnt,
                   exit_code, loaded, said, got>>

\* start_process when load succeeds.
LoadSucceeds(c) ==
    /\ Goto(c, "loading", "running")
    /\ wait_status' = [wait_status EXCEPT ![c] = TRUE]
    /\ loaded' = [loaded EXCEPT ![c] = TRUE]
    /\ sema' = [sema EXCEPT ![c] = @ + 1]
    /\ Touch({c})
    /\ UNCHANGED <<parent, target, children, kid, heap, ref_cnt, exit_code,
                   said, got>>

\* process_execute after sema_down: TID_ERROR and free, or the child's tid.
ExecReturns(p) ==
    LET c == target[p] IN
    /\ Goto(p, "exec", "running")
    /\ sema[c] > 0
    /\ sema' = [sema EXCEPT ![c] = @ - 1]
    /\ heap' = [heap EXCEPT ![c] = IF loaded[c] THEN @ ELSE "freed"]
    /\ children' = [children EXCEPT ![p] = IF loaded[c] THEN <<c>> \o @ ELSE @]
    /\ target' = [target EXCEPT ![p] = NoProc]
    /\ Touch({c})
    /\ UNCHANGED <<parent, kid, wait_status, ref_cnt, exit_code, loaded, said,
                   got>>

\* process_wait for a child on the list: the structs before it are looked at.
\* Main waits for the task it has started.  For any other tid the call
\* returns -1 and changes nothing.
Wait(p) ==
    /\ Goto(p, "running", "wait")
    /\ \E i \in 1 .. Len(children[p]) :
         /\ target' = [target EXCEPT ![p] = children[p][i]]
         /\ Touch({children[p][j] : j \in 1 .. i})
    /\ UNCHANGED <<parent, children, kid, wait_status, wsVars, said, got>>

\* Mutant of WaitReturns: the struct stays on the list.
WaitReturnsKeep(p) ==
    LET c == target[p] IN
    /\ Goto(p, "wait", "running")
    /\ sema[c] > 0
    /\ sema' = [sema EXCEPT ![c] = @ - 1]
    /\ heap' = [heap EXCEPT ![c] = "freed"]
    /\ got' = [got EXCEPT ![c] = exit_code[c]]
    /\ target' = [target EXCEPT ![p] = NoProc]
    /\ Touch({c})
    /\ UNCHANGED <<parent, kid, children, wait_status, ref_cnt, exit_code,
                   loaded, said>>

\* process_wait after sema_down.
WaitReturns(p) ==
    LET c == target[p] IN
    /\ Goto(p, "wait", "running")
    /\ sema[c] > 0
    /\ sema' = [sema EXCEPT ![c] = @ - 1]
    /\ \E i \in DOMAIN children[p] :
         /\ children[p][i] = c
         /\ children' = [children EXCEPT ![p] = RemoveAt(@, i)]
    /\ heap' = [heap EXCEPT ![c] = "freed"]
    /\ got' = [got EXCEPT ![c] = exit_code[c]]
    /\ target' = [target EXCEPT ![p] = NoProc]
    /\ Touch({c})
    /\ UNCHANGED <<parent, kid, wait_status, ref_cnt, exit_code, loaded, said>>

\* exit, also called by kill with status -1; user code only.
Exit(p) ==
    /\ p # Main
    /\ Goto(p, "running", "exit_own")
    /\ \E s \in ExitCode :
         /\ exit_code' = [exit_code EXCEPT ![p] = s]
         /\ said' = [said EXCEPT ![p] = s]
    /\ Touch({p})
    /\ UNCHANGED <<parent, target, children, kid, wait_status, heap, ref_cnt,
                   sema, loaded, got>>

\* Mutant of ExitOwn: no sema_up.
ExitOwnSilent(p) ==
    /\ Goto(p, "exit_own", "exit_kids")
    /\ ref_cnt' = [ref_cnt EXCEPT ![p] = @ - 1]
    /\ Touch({p})
    /\ UNCHANGED <<parent, target, children, kid, wait_status, heap, sema,
                   exit_code, loaded, said, got>>

\* process_exit gives up the process's own wait_status.
ExitOwn(p) ==
    /\ Goto(p, "exit_own", "exit_kids")
    /\ ref_cnt' = [ref_cnt EXCEPT ![p] = @ - 1]
    /\ IF ref_cnt[p] - 1 <= 0
       THEN heap' = [heap EXCEPT ![p] = "freed"] /\ UNCHANGED sema
       ELSE sema' = [sema EXCEPT ![p] = @ + 1] /\ UNCHANGED heap
    /\ Touch({p})
    /\ UNCHANGED <<parent, target, children, kid, wait_status, exit_code,
                   loaded, said, got>>

\* One turn of the loop of process_exit over the children: e is the child's,
\* but the struct that is locked, decremented and freed is ws, the process's
\* own.
ExitKid(p) ==
    /\ ~fault /\ pc[p] = "exit_kids"
    /\ kid[p] <= Len(children[p])
    /\ kid' = [kid EXCEPT ![p] = @ + 1]
    /\ ref_cnt' = [ref_cnt EXCEPT ![p] = @ - 1]
    /\ heap' = [heap EXCEPT ![p] = IF ref_cnt[p] - 1 <= 0 THEN "freed" ELSE @]
    /\ Touch({p, children[p][kid[p]]})
    /\ UNCHANGED <<pc, parent, target, children, wait_status, sema, exit_code,
                   loaded, said, got>>

\* The rest of process_exit, and thread_exit.
ExitDone(p) ==
    /\ Goto(p, "exit_kids", "dead")
    /\ kid[p] > Len(children[p])
    /\ UNCHANGED <<parent, target, children, kid, wait_status, wsVars, said,
                   got, fault>>

Next ==
    \E p \in Proc :
        \/ Exec(p) \/ ExecNoThread(p) \/ LoadFails(p) \/ LoadSucceeds(p)
        \/ ExecReturns(p) \/ Wait(p) \/ WaitReturns(p)
        \/ Exit(p) \/ ExitOwn(p) \/ ExitKid(p) \/ ExitDone(p)

Spec == Init /\ [][Next]_vars

\* The kernel runs every thread that can run; what user code does next, and
\* whether it ever exits, is its own affair.
Fairness ==
    \A p \in Proc :
        WF_vars(\/ LoadFails(p) \/ LoadSucceeds(p) \/ ExecReturns(p)
                \/ WaitReturns(p) \/ ExitOwn(p) \/ ExitKid(p) \/ ExitDone(p))

FairSpec == Spec /\ Fairness

-----------------------------------------------------------------------------
\* Types; sema and ref_cnt of a wait_status of process.c stay in the small
\* ranges their two users give them.
TypeOK ==
    /\ pc \in [Proc -> {"unborn", "loading", "running", "exec", "wait",
                        "exit_own", "exit_kids", "dead"}]
    /\ parent \in [Proc -> Proc \cup {NoProc}]
    /\ target \in [Proc -> Proc \cup {NoProc}]
    /\ children \in [Proc -> Seq(Proc)]
    /\ kid \in [Proc -> Nat]
    /\ wait_status \in [Proc -> BOOLEAN]
    /\ heap \in [Proc -> {"none", "allocated", "freed"}]
    /\ ref_cnt \in [Proc -> -1 .. 2]
    /\ sema \in [Proc -> 0 .. 2]
    /\ exit_code \in [Proc -> ExitCode]
    /\ loaded \in [Proc -> BOOLEAN]
    /\ said \in [Proc -> ExitCode \cup {NoCode}]
    /\ got \in [Proc -> ExitCode \cup {NoCode}]
    /\ fault \in BOOLEAN

\* "Waits for thread TID to die and returns its exit status" (process_wait):
\* a wait that returns, in whatever order parent and child got there, returns
\* the status the child gave to exit; the semaphore that exec and wait share
\* is never taken for the wrong event.
WaitReturnsStatus ==
    \A c \in Proc : got[c] # NoCode => got[c] = said[c]

\* exec "does not return before knowing whether or not the child thread
\* successfully loaded" (doc/project2.md): when the parent is past exec the
\* child has been loaded and is on its list, or was not loaded and is not.
ExecKnowsLoad ==
    \A c \in Proc : parent[c] # NoProc =>
        LET p == parent[c] IN
        (pc[p] # "exec" \/ target[p] # c) =>
            /\ pc[c] # "loading"
            /\ ~fault /\ got[c] = NoCode =>
                 (loaded[c] <=> \E i \in DOMAIN children[p] : children[p][i] = c)

\* "We only free the struct when ref_cnt reaches 0, meaning that the other
\* thread has died and we are the only one holding a reference to this
\* struct" (doc/project2.md): nobody uses a wait_status after it was freed.
NoUseAfterFree == ~fault

\* No process has come to process_exit with a child it never waited for: the
\* loop there, over the wrong struct, has had nothing to do.
Tidy ==
    \A p \in Proc :
        pc[p] \in {"exit_own", "exit_kids", "dead"} => children[p] = <<>>

\* As long as parents wait for all their children no freed wait_status is
\* used, in whatever order parents and children load, wait and exit.
TidyUse == Tidy => NoUseAfterFree

\* Process p has finished process_exit.
Gone(p) == pc[p] = "dead"

\* The comment at ref_cnt in thread.h: "2=child and parent both alive,
\* 1=either child or parent alive, 0=child and parent both dead", as long as
\* parents wait for all their children.
RefCountMeaning ==
    Tidy => \A c \in Proc :
        heap[c] = "allocated" /\ wait_status[c] =>
            ref_cnt[c] = (IF pc[c] \in {"exit_kids", "dead"} THEN 0 ELSE 1)
                       + (IF Gone(parent[c]) THEN 0 ELSE 1)

\* "whoever sees that ref_cnt is 0 will free the struct" (doc/project2.md):
\* when a loaded child and its parent, which waited for it, are both gone, so
\* is their struct.
NoLeak ==
    Tidy => \A c \in Proc :
        wait_status[c] /\ Gone(c) /\ Gone(parent[c]) => heap[c] = "freed"

\* A parent that waits for a child that exits does get its answer.
WaitEnds ==
    \A p \in Proc, c \in Proc :
        (pc[p] = "wait" /\ target[p] = c /\ pc[c] = "exit_own")
            ~> (pc[p] # "wait" \/ fault)

\* A wait_status serves parent and child whichever of exec, load, exit and wait
\* comes first: exec learns whether load succeeded, wait returns what the child
\* passed to exit, and while parents wait for all their children ref_cnt counts
\* the two users, the last of them frees the struct, and nobody uses it after.
StatusShared ==
    /\ TypeOK
    /\ TidyUse
    /\ RefCountMeaning
    /\ NoLeak
    /\ WaitReturnsStatus
    /\ ExecKnowsLoad
=============================================================================
