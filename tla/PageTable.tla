------------------------------ MODULE PageTable -----------------------------
(***************************************************************************)
(* userprog/pagedir.c and its callers in process.c: page directories, page *)
(* tables and the frames they refer to, the page directory the CPU uses    *)
(* (cr3), and the CPU's TLB, which pagedir.c must empty when it makes an   *)
(* entry say less than before.                                             *)
(*                                                                         *)
(* A process is at one of these places:                                    *)
(*   "new"       in load, before pagedir_create                            *)
(*   "created"   in load, before process_activate                          *)
(*   "live"      has an active address space                               *)
(*   "unset"     in process_exit, t->pagedir already NULL                  *)
(*   "left"      in process_exit, the kernel's page directory activated    *)
(*   "gone"      its page directory has been destroyed                     *)
(* The kernel's own mappings, the same in every directory, are left out.   *)
(***************************************************************************)
EXTENDS Integers, FiniteSets

CONSTANTS
    Space,      \* processes
    PFrame,     \* pages of memory, by number, for directories, tables, users
    NoFrame,    \* null
    KernelDir,  \* init_page_dir
    Tables,     \* user entries of a page directory
    PerTable,   \* entries of a page table
    MaxTouch    \* bound on changes to accessed and dirty bits by the kernel

ASSUME PFrameAssumption == PFrame \subseteq Nat
ASSUME NoFrameAssumption == NoFrame \notin PFrame /\ KernelDir \notin PFrame
ASSUME TablesAssumption == Tables \in Nat \ {0} /\ PerTable \in Nat \ {0}

VARIABLES
    at,         \* where each process is
    pagedir,    \* t->pagedir
    dir,        \* the page directory a process built: page of the directory
    pde,        \* its entries: the page of each page table
    pte,        \* by user page: the page table entry
    used,       \* pages palloc has handed out
    loose,      \* user pages unmapped by pagedir_clear_page, now the caller's
    running,    \* current thread
    cr3,        \* active page directory
    tlb,        \* translations the CPU has cached
    touched,    \* history: pages accessed, written since the bit was cleared
    written,
    touches     \* counts the kernel's changes to the bits

ptVars == <<at, pagedir, dir, pde, pte, used, loose, running, cr3, tlb,
            touched, written, touches>>

UPage == 0 .. Tables * PerTable - 1
pd_no(u) == u \div PerTable

\* A page table entry that is 0.
NoPte == [frame |-> NoFrame, P |-> FALSE, W |-> FALSE, A |-> FALSE, D |-> FALSE]

PtInit ==
    /\ at = [s \in Space |-> "new"]
    /\ pagedir = [s \in Space |-> NoFrame]
    /\ dir = [s \in Space |-> NoFrame]
    /\ pde = [s \in Space |-> [i \in 0 .. Tables - 1 |-> NoFrame]]
    /\ pte = [s \in Space |-> [u \in UPage |-> NoPte]]
    /\ used = {} /\ loose = {}
    /\ running \in Space
    /\ cr3 = KernelDir /\ tlb = {}
    /\ touched = [s \in Space |-> {}] /\ written = [s \in Space |-> {}]
    /\ touches = 0

\* pagedir_activate: loading cr3 empties the TLB.
pagedir_activate(pd) == cr3' = (IF pd = NoFrame THEN KernelDir ELSE pd) /\ tlb' = {}

\* Mutant of invalidate: the TLB is left alone.
InvalidateNot(s) == UNCHANGED tlb

\* invalidate_pagedir, of the directory of process s.
invalidate(s) == tlb' = (IF cr3 = dir[s] THEN {} ELSE tlb)

\* lookup_page without create: there is a page table for the page.
Mapped(s, u) == pde[s][pd_no(u)] # NoFrame
Present(s, u) == Mapped(s, u) /\ pte[s][u].P

\* palloc_get_page: the first page that is free, if there is one.
GetPage(busy) == {f \in PFrame \ busy : \A g \in PFrame \ busy : f <= g}

-----------------------------------------------------------------------------
\* pagedir_create, called by load.
Create(s) ==
    /\ running = s /\ at[s] = "new"
    /\ \E f \in GetPage(used) :
         /\ used' = used \cup {f}
         /\ pagedir' = [pagedir EXCEPT ![s] = f]
         /\ dir' = [dir EXCEPT ![s] = f]
    /\ at' = [at EXCEPT ![s] = "created"]
    /\ UNCHANGED <<pde, pte, loose, running, cr3, tlb, touched, written, touches>>

\* process_activate, called by load.
ActivateNew(s) ==
    /\ running = s /\ at[s] = "created"
    /\ at' = [at EXCEPT ![s] = "live"]
    /\ pagedir_activate(pagedir[s])
    /\ UNCHANGED <<pagedir, dir, pde, pte, used, loose, running, touched,
                   written, touches>>

\* pte_create_user.
pte_create_user(s, u, f, w) == [NoPte EXCEPT !.frame = f, !.P = TRUE, !.W = w]

\* install_page, of a page just got from palloc: pagedir_get_page finds
\* nothing there, pagedir_set_page makes the page table if it is missing.
\* When there is no page for the table the user page is given back.
InstallPage(s, u, w) ==
    /\ running = s /\ at[s] = "live" /\ ~Present(s, u)
    /\ \E f \in GetPage(used) :
         LET pt == pde[s][pd_no(u)] IN
         /\ \E t \in IF pt = NoFrame THEN GetPage(used \cup {f}) ELSE {pt} :
              /\ used' = used \cup {f, t}
              /\ pde' = [pde EXCEPT ![s][pd_no(u)] = t]
         /\ pte' = [pte EXCEPT ![s][u] = pte_create_user(s, u, f, w)]
    /\ touched' = [touched EXCEPT ![s] = @ \ {u}]
    /\ written' = [written EXCEPT ![s] = @ \ {u}]
    /\ UNCHANGED <<at, pagedir, dir, loose, running, cr3, tlb, touches>>

\* pagedir_clear_page, on the directory of any process: the other bits of
\* the entry stay.  The page is now the caller's to free.
ClearPage(s, u) ==
    /\ touches < MaxTouch /\ touches' = touches + 1
    /\ at[s] = "live" /\ Present(s, u)
    /\ pte' = [pte EXCEPT ![s][u].P = FALSE]
    /\ loose' = loose \cup {pte[s][u].frame}
    /\ invalidate(s)
    /\ UNCHANGED <<at, pagedir, dir, pde, used, running, cr3, touched, written>>

\* The caller frees a page it unmapped.
FreeLoose ==
    \E f \in loose :
        /\ loose' = loose \ {f} /\ used' = used \ {f}
        /\ UNCHANGED <<at, pagedir, dir, pde, pte, running, cr3, tlb, touched,
                       written, touches>>

\* pagedir_set_dirty and pagedir_set_accessed: only clearing a bit
\* invalidates the TLB.
SetDirty(s, u, dirty) ==
    /\ touches < MaxTouch /\ touches' = touches + 1
    /\ at[s] = "live" /\ Mapped(s, u)
    /\ pte' = [pte EXCEPT ![s][u].D = dirty]
    /\ IF dirty THEN UNCHANGED <<tlb, written>>
       ELSE invalidate(s) /\ written' = [written EXCEPT ![s] = @ \ {u}]
    /\ UNCHANGED <<at, pagedir, dir, pde, used, loose, running, cr3, touched>>

SetAccessed(s, u, accessed) ==
    /\ touches < MaxTouch /\ touches' = touches + 1
    /\ at[s] = "live" /\ Mapped(s, u)
    /\ pte' = [pte EXCEPT ![s][u].A = accessed]
    /\ IF accessed THEN UNCHANGED <<tlb, touched>>
       ELSE invalidate(s) /\ touched' = [touched EXCEPT ![s] = @ \ {u}]
    /\ UNCHANGED <<at, pagedir, dir, pde, used, loose, running, cr3, written>>

\* The CPU (external): a user access through the active directory, by a
\* cached translation or by a walk that sets the accessed bit; the first
\* write through a translation sets the dirty bit.
Access(s, u, write) ==
    LET hit == {e \in tlb : e.page = u}
        new == [page |-> u, frame |-> pte[s][u].frame, W |-> pte[s][u].W,
                D |-> write \/ pte[s][u].D]
    IN
    /\ running = s /\ at[s] = "live" /\ cr3 = dir[s]
    /\ \/ \E e \in hit :
            /\ write => e.W
            /\ tlb' = (tlb \ {e}) \cup {[e EXCEPT !.D = @ \/ write]}
            /\ pte' = [pte EXCEPT ![s][u].D = @ \/ (write /\ ~e.D)]
       \/ /\ hit = {} /\ Present(s, u) /\ (write => pte[s][u].W)
          /\ tlb' = tlb \cup {new}
          /\ pte' = [pte EXCEPT ![s][u].A = TRUE, ![s][u].D = @ \/ write]
    /\ touched' = [touched EXCEPT ![s] = @ \cup {u}]
    /\ written' = [written EXCEPT ![s] = IF write THEN @ \cup {u} ELSE @]
    /\ UNCHANGED <<at, pagedir, dir, pde, used, loose, running, cr3, touches>>

\* thread_schedule_tail calls process_activate on every context switch.
SwitchTo(s) ==
    /\ running # s /\ running' = s
    /\ pagedir_activate(pagedir[s])
    /\ UNCHANGED <<at, pagedir, dir, pde, pte, used, loose, touched, written,
                   touches>>

\* process_exit: "we must set cur->pagedir to NULL before switching page
\* directories, so that a timer interrupt can't switch back".
ExitUnset(s) ==
    /\ running = s /\ at[s] = "live"
    /\ at' = [at EXCEPT ![s] = "unset"]
    /\ pagedir' = [pagedir EXCEPT ![s] = NoFrame]
    /\ UNCHANGED <<dir, pde, pte, used, loose, running, cr3, tlb, touched,
                   written, touches>>

\* process_exit: "we must activate the base page directory before destroying
\* the process's page directory".
ExitActivate(s) ==
    /\ running = s /\ at[s] = "unset"
    /\ at' = [at EXCEPT ![s] = "left"]
    /\ pagedir_activate(NoFrame)
    /\ UNCHANGED <<pagedir, dir, pde, pte, used, loose, running, touched,
                   written, touches>>

\* The pages pagedir_destroy frees.
Destroyed(s) ==
    {pte[s][u].frame : u \in {v \in UPage : Present(s, v)}}
        \cup ({pde[s][i] : i \in 0 .. Tables - 1} \ {NoFrame}) \cup {dir[s]}

\* pagedir_destroy.
Destroy(s) ==
    /\ running = s /\ at[s] = "left"
    /\ at' = [at EXCEPT ![s] = "gone"]
    /\ used' = used \ Destroyed(s)
    /\ dir' = [dir EXCEPT ![s] = NoFrame]
    /\ pde' = [pde EXCEPT ![s] = [i \in 0 .. Tables - 1 |-> NoFrame]]
    /\ pte' = [pte EXCEPT ![s] = [u \in UPage |-> NoPte]]
    /\ UNCHANGED <<pagedir, loose, running, cr3, tlb, touched, written, touches>>

PtNext ==
    \/ \E s \in Space :
         \/ Create(s) \/ ActivateNew(s) \/ SwitchTo(s)
         \/ ExitUnset(s) \/ ExitActivate(s) \/ Destroy(s)
         \/ \E u \in UPage :
              \/ ClearPage(s, u)
              \/ \E b \in BOOLEAN : \/ InstallPage(s, u, b) \/ SetDirty(s, u, b)
                                    \/ SetAccessed(s, u, b) \/ Access(s, u, b)
    \/ FreeLoose

PtSpec == PtInit /\ [][PtNext]_ptVars

-----------------------------------------------------------------------------
\* "Some page table changes can cause the CPU's TLB to become out-of-sync"
\* (pagedir.c): every translation the CPU has cached is one the active
\* directory still makes, and no more is allowed or known dirty by it.
TlbFresh ==
    \A e \in tlb : \E s \in Space :
        /\ cr3 = dir[s] /\ Present(s, e.page)
        /\ pte[s][e.page].frame = e.frame /\ pte[s][e.page].W = e.W
        /\ e.D => pte[s][e.page].D

\* pagedir_is_dirty, pagedir_is_accessed: a page written or used since the
\* bit was last cleared has the bit set, whichever directory was active then.
BitsTrue ==
    \A s \in Space : at[s] = "live" =>
        /\ \A u \in written[s] : pte[s][u].D
        /\ \A u \in touched[s] : pte[s][u].A

\* Wherever process_exit is interrupted, the page directory the CPU uses is
\* never one that has been freed.
ActiveAlive ==
    cr3 # KernelDir => cr3 \in used /\ \E s \in Space : dir[s] = cr3

\* Every page handed out is held by exactly one directory entry, table entry,
\* process or caller, and nothing freed is: process_exit leaks no page.
FramesTrue ==
    LET refs == {<<"dir", s, 0, dir[s]>> : s \in Space}
            \cup {<<"pde", s, i, pde[s][i]>> : s \in Space, i \in 0 .. Tables - 1}
            \cup {<<"pte", x[1], x[2], pte[x[1]][x[2]].frame>> :
                    x \in {y \in Space \X UPage : pte[y[1]][y[2]].P}}
            \cup {<<"loose", f, 0, f>> : f \in loose}
    IN \A f \in PFrame :
         Cardinality({r \in refs : r[4] = f}) = (IF f \in used THEN 1 ELSE 0)

\* pagedir.c with process start and exit: no stale translation is used, accessed
\* and dirty bits are true, the active directory is alive, and a frame is
\* referred to once.
TablesSound == TlbFresh /\ BitsTrue /\ ActiveAlive /\ FramesTrue
=============================================================================
