------------------------------- MODULE Memory -------------------------------
(***************************************************************************)
(* The page allocator and the block allocator above it, after              *)
(* threads/palloc.c and threads/malloc.c of "group projects", with threads *)
(* that allocate and free at the same time.                                *)
(*                                                                         *)
(* Pages are numbered through both pools.  A request is for a block of a   *)
(* descriptor ("small"), for a block of two pages ("big") or for a page of *)
(* the user pool ("user").  A thread is                                    *)
(*   "idle"                                                                *)
(*   "desc"     at lock_acquire (&d->lock), to allocate or to free         *)
(*   "pool"     at lock_acquire (&pool->lock)                              *)
(*   "scan"     in bitmap_scan, at window at                               *)
(*   "flip"     in bitmap_set_multiple, one bit at a time                  *)
(*   "arena"    back in malloc with its pages, or none                     *)
(*   "clear"    in palloc_free_multiple, one bit at a time, without lock   *)
(*   "leave"    at lock_release (&d->lock)                                 *)
(***************************************************************************)
EXTENDS Integers, Sequences, FiniteSets, FiniteSetsExt

CONSTANTS MemThread, Nobody,
    RamPages,        \* free pages of the machine: a set of numbers to try
    BitsPerPage,     \* bits of a bitmap that fit into a page
    UserLimit,       \* user_page_limit
    PerArena,        \* blocks_per_arena
    MaxAllocs        \* bound: requests of one thread

ASSUME MemoryAssumption ==
    /\ RamPages \subseteq Nat /\ BitsPerPage \in Nat \ {0} /\ UserLimit \in Nat
    /\ PerArena \in Nat \ {0} /\ MaxAllocs \in Nat /\ Nobody \notin MemThread

VARIABLES pool,      \* by pool: [base, size]
    used,            \* used_map of both pools, by page
    poolLock, descLock,
    free_list,       \* free blocks <<page, index>>
    arena,           \* by page: free_cnt of the descriptor's arena there, or -1
    mpc, want,       \* by thread: where it is; the kind of its request
    pages,           \* by thread: the pages it is working on, first and end
    own,             \* by thread: its block [kind, first, idx], kind "none" without
    allocs

memVars == <<pool, used, poolLock, descLock, free_list, arena, mpc, want, pages, own, allocs>>

NoBlock == [kind |-> "none", first |-> 0, idx |-> 0]
PageCount(kind) == IF kind = "big" THEN 2 ELSE 1
PoolOf(kind) == IF kind = "user" THEN "user" ELSE "kernel"
Blocks(p) == {<<p, i>> : i \in 0 .. PerArena - 1}

\* A list after list_remove of each element of a set.
Without(list, set) ==
    LET kept[n \in 0 .. Len(list)] ==
          IF n = 0 THEN <<>>
          ELSE IF list[n] \in set THEN kept[n - 1] ELSE Append(kept[n - 1], list[n])
    IN  kept[Len(list)]

\* init_pool: the bitmap takes the first pages of the pool.
DivRoundUp(x, y) == (x + y - 1) \div y
init_pool(base, page_cnt) ==
    LET bm_pages == DivRoundUp(page_cnt + 1, BitsPerPage)
    IN  [base |-> base + bm_pages, size |-> page_cnt - bm_pages]

\* palloc_init.
palloc_init(free) ==
    LET user == IF free \div 2 > UserLimit THEN UserLimit ELSE free \div 2
    IN  [kernel |-> init_pool(0, free - user), user |-> init_pool(free - user, user)]

PagesOf(pl) == pl.base .. pl.base + pl.size - 1

MemInit ==
    /\ \E free \in RamPages :
         /\ pool = palloc_init(free)
         /\ used = [p \in 0 .. free - 1 |-> FALSE]
         /\ arena = [p \in 0 .. free - 1 |-> -1]
    /\ poolLock = [k \in {"kernel", "user"} |-> Nobody]
    /\ descLock = Nobody /\ free_list = <<>>
    /\ mpc = [t \in MemThread |-> "idle"] /\ want = [t \in MemThread |-> "small"]
    /\ pages = [t \in MemThread |-> [first |-> 0, end |-> 0]]
    /\ own = [t \in MemThread |-> NoBlock] /\ allocs = [t \in MemThread |-> 0]

Goes(t, to) == mpc' = [mpc EXCEPT ![t] = to]
Busy_(t) == pages[t].first .. pages[t].end - 1

-----------------------------------------------------------------------------
\* malloc, up to the first lock; palloc_get_page (PAL_USER).
Malloc(t, kind) ==
    /\ mpc[t] = "idle" /\ own[t] = NoBlock /\ allocs[t] < MaxAllocs
    /\ allocs' = [allocs EXCEPT ![t] = @ + 1]
    /\ want' = [want EXCEPT ![t] = kind]
    /\ Goes(t, IF kind = "small" THEN "desc" ELSE "pool")
    /\ UNCHANGED <<pool, used, poolLock, descLock, free_list, arena, pages, own>>

\* The block on the front of the free list.
TakeBlock(t, list, counts) ==
    LET b == Head(list)
    IN  /\ free_list' = Tail(list)
        /\ arena' = [counts EXCEPT ![b[1]] = @ - 1]
        /\ own' = [own EXCEPT ![t] = [kind |-> "small", first |-> b[1], idx |-> b[2]]]
        /\ Goes(t, "leave")

\* malloc under the descriptor's lock.
DescAlloc(t) ==
    /\ mpc[t] = "desc" /\ own[t] = NoBlock /\ descLock = Nobody
    /\ descLock' = t
    /\ IF free_list # <<>> THEN TakeBlock(t, free_list, arena)
       ELSE Goes(t, "pool") /\ UNCHANGED <<free_list, arena, own>>
    /\ UNCHANGED <<pool, used, poolLock, want, pages, allocs>>

\* Mutant of PoolLock: no lock on the pool.
PoolLockFree(t) ==
    /\ mpc[t] = "pool"
    /\ pages' = [pages EXCEPT ![t] = [first |-> pool[PoolOf(want[t])].base, end |-> pool[PoolOf(want[t])].base]]
    /\ Goes(t, "scan")
    /\ UNCHANGED <<pool, used, poolLock, descLock, free_list, arena, want, own, allocs>>

\* palloc_get_multiple.
PoolLock(t) ==
    LET k == PoolOf(want[t])
    IN  /\ mpc[t] = "pool" /\ poolLock[k] = Nobody
        /\ poolLock' = [poolLock EXCEPT ![k] = t]
        /\ pages' = [pages EXCEPT ![t] = [first |-> pool[k].base, end |-> pool[k].base]]
        /\ Goes(t, "scan")
        /\ UNCHANGED <<pool, used, descLock, free_list, arena, want, own, allocs>>

\* One window of bitmap_scan; past the last one, BITMAP_ERROR.
Scan(t) ==
    LET k == PoolOf(want[t])
        window == pages[t].first .. pages[t].first + PageCount(want[t]) - 1
    IN  /\ mpc[t] = "scan"
        /\ IF ~(window \subseteq PagesOf(pool[k]))
             THEN /\ poolLock' = [poolLock EXCEPT ![k] = Nobody]
                  /\ pages' = [pages EXCEPT ![t] = [first |-> 0, end |-> 0]]
                  /\ Goes(t, "arena")
           ELSE IF \E p \in window : used[p]
             THEN pages' = [pages EXCEPT ![t] = [first |-> @.first + 1, end |-> @.end + 1]]
                  /\ UNCHANGED <<poolLock, mpc>>
           ELSE Goes(t, "flip") /\ UNCHANGED <<poolLock, pages>>
        /\ UNCHANGED <<pool, used, descLock, free_list, arena, want, own, allocs>>

\* One bit of bitmap_set_multiple (..., true); after the last, lock_release.
Flip(t) ==
    LET k == PoolOf(want[t])
    IN  /\ mpc[t] = "flip"
        /\ used' = [used EXCEPT ![pages[t].end] = TRUE]
        /\ pages' = [pages EXCEPT ![t].end = @ + 1]
        /\ IF pages'[t].end = pages[t].first + PageCount(want[t])
             THEN Goes(t, "arena") /\ poolLock' = [poolLock EXCEPT ![k] = Nobody]
           ELSE UNCHANGED <<mpc, poolLock>>
        /\ UNCHANGED <<pool, descLock, free_list, arena, want, own, allocs>>

\* Mutant of Arena: without a page malloc returns with the lock held.
ArenaLocked(t) ==
    LET p == pages[t].first
        got == pages[t].end > p
    IN  /\ mpc[t] = "arena"
        /\ pages' = [pages EXCEPT ![t] = [first |-> 0, end |-> 0]]
        /\ IF want[t] = "small" /\ got
             THEN TakeBlock(t, free_list \o [i \in 1 .. PerArena |-> <<p, i - 1>>],
                            [arena EXCEPT ![p] = PerArena])
           ELSE Goes(t, "idle") /\ UNCHANGED <<free_list, arena, own>>
        /\ UNCHANGED <<pool, used, poolLock, descLock, want, allocs>>

\* malloc with its page: a new arena and its first block, a big block, or a
\* null pointer.
Arena(t) ==
    LET p == pages[t].first
        got == pages[t].end > p
    IN  /\ mpc[t] = "arena"
        /\ pages' = [pages EXCEPT ![t] = [first |-> 0, end |-> 0]]
        /\ CASE want[t] = "small" /\ got ->
                  TakeBlock(t, free_list \o [i \in 1 .. PerArena |-> <<p, i - 1>>],
                            [arena EXCEPT ![p] = PerArena])
             [] want[t] = "small" /\ ~got ->
                  Goes(t, "leave") /\ UNCHANGED <<free_list, arena, own>>
             [] OTHER ->
                  /\ own' = IF got THEN [own EXCEPT ![t] = [kind |-> want[t], first |-> p, idx |-> 0]]
                            ELSE own
                  /\ Goes(t, "idle") /\ UNCHANGED <<free_list, arena>>
        /\ UNCHANGED <<pool, used, poolLock, descLock, want, allocs>>

\* lock_release (&d->lock).
Leave(t) ==
    /\ mpc[t] = "leave"
    /\ descLock' = Nobody /\ Goes(t, "idle")
    /\ UNCHANGED <<pool, used, poolLock, free_list, arena, want, pages, own, allocs>>

\* free: a big block's pages go back at once, a block of an arena waits for
\* the descriptor's lock.
Free(t) ==
    LET b == own[t]
    IN  /\ mpc[t] = "idle" /\ b # NoBlock
        /\ IF b.kind = "small" THEN Goes(t, "desc") /\ UNCHANGED <<pages, own>>
           ELSE /\ Goes(t, "clear")
                /\ pages' = [pages EXCEPT ![t] = [first |-> b.first, end |-> b.first + PageCount(b.kind)]]
                /\ own' = [own EXCEPT ![t] = NoBlock]
        /\ UNCHANGED <<pool, used, poolLock, descLock, free_list, arena, want, allocs>>

\* free under the descriptor's lock; an arena that is entirely unused goes.
DescFree(t) ==
    LET b == <<own[t].first, own[t].idx>>
        list == <<b>> \o free_list
    IN  /\ mpc[t] = "desc" /\ own[t] # NoBlock /\ descLock = Nobody
        /\ descLock' = t /\ own' = [own EXCEPT ![t] = NoBlock]
        /\ IF arena[b[1]] + 1 >= PerArena
             THEN /\ free_list' = Without(list, Blocks(b[1]))
                  /\ arena' = [arena EXCEPT ![b[1]] = -1]
                  /\ pages' = [pages EXCEPT ![t] = [first |-> b[1], end |-> b[1] + 1]]
                  /\ Goes(t, "clear")
           ELSE /\ free_list' = list
                /\ arena' = [arena EXCEPT ![b[1]] = @ + 1]
                /\ Goes(t, "leave") /\ UNCHANGED pages
        /\ UNCHANGED <<pool, used, poolLock, want, allocs>>

\* One bit of bitmap_set_multiple (..., false).
Clear(t) ==
    /\ mpc[t] = "clear"
    /\ used' = [used EXCEPT ![pages[t].first] = FALSE]
    /\ pages' = [pages EXCEPT ![t].first = @ + 1]
    /\ IF pages'[t].first < pages[t].end THEN UNCHANGED mpc
       ELSE Goes(t, IF descLock = t THEN "leave" ELSE "idle")
    /\ UNCHANGED <<pool, poolLock, descLock, free_list, arena, want, own, allocs>>

MemStep(t) ==
    \/ DescAlloc(t) \/ PoolLock(t) \/ Scan(t) \/ Flip(t) \/ Arena(t) \/ Leave(t)
    \/ DescFree(t) \/ Clear(t)
MemCall(t) == Free(t) \/ \E kind \in {"small", "big", "user"} : Malloc(t, kind)
MemNext == \E t \in MemThread : MemStep(t) \/ MemCall(t)

MemSpec == MemInit /\ [][MemNext]_memVars

-----------------------------------------------------------------------------
\* The pages a block or a thread at work has.
Held(t) ==
    LET b == own[t]
    IN  (IF b.kind \in {"big", "user"} THEN b.first .. b.first + PageCount(b.kind) - 1 ELSE {})
        \cup (IF mpc[t] \in {"flip", "arena", "clear"} THEN Busy_(t) ELSE {})

\* A page has one user: it is an arena, or one thread's, and a block of an
\* arena is either free or one thread's.  The bitmap says so, bit by bit,
\* while other threads scan it and clear bits without the pool's lock.
OneUser ==
    LET arenas == {p \in DOMAIN arena : arena[p] >= 0}
        blocks == {t \in MemThread : own[t].kind = "small"}
    IN  /\ \A t \in MemThread :
             Held(t) \cap arenas = {} /\ \A u \in MemThread \ {t} : Held(t) \cap Held(u) = {}
        /\ \A p \in DOMAIN used : used[p] = (p \in arenas \/ \E t \in MemThread : p \in Held(t))
        /\ \A t, u \in blocks : t # u => own[t] # own[u]
        /\ \A t \in blocks : own[t].first \in arenas
        /\ \A i \in DOMAIN free_list :
             /\ free_list[i][1] \in arenas
             /\ \A t \in blocks : <<own[t].first, own[t].idx>> # free_list[i]
             /\ \A j \in DOMAIN free_list : free_list[i] = free_list[j] => i = j

\* free_cnt is the number of an arena's blocks on the free list, and an arena
\* without a block in use does not exist: the test in free that gives the
\* page back can neither be missed nor come too early.
FreeCountTrue ==
    \A p \in DOMAIN arena : arena[p] >= 0 =>
      /\ arena[p] = Cardinality({i \in DOMAIN free_list : free_list[i][1] = p})
      /\ arena[p] < PerArena

\* Every request is answered, also when several threads want both locks: the
\* threads are all out of the allocators again and again.
MemAnswers == []<>(\A t \in MemThread : mpc[t] = "idle")

\* Pages and blocks allocated and freed at the same time, bit by bit: a page
\* has one user although palloc_free_multiple takes no lock, and an arena's
\* free_cnt counts its free blocks.
MemorySound == OneUser /\ FreeCountTrue
=============================================================================
