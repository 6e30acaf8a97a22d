---------------------------- MODULE BufferCache -----------------------------
(***************************************************************************)
(* The write-back buffer cache of filesys/fs_cache.c: CACHE_SIZE entries,  *)
(* the global cache_lock, one lock per entry, reference counts that pin an *)
(* entry and the clock algorithm that picks a victim.                      *)
(*                                                                         *)
(* A thread runs one cache_read_len or cache_write_len at a time.  Its pc  *)
(* says where in the code it is:                                           *)
(*                                                                         *)
(*   "idle"       outside fs_cache.c                                       *)
(*   "find"       entering cache_find_ent, about to take cache_lock        *)
(*   "evict"      in the loop of cache_evict, holding cache_lock           *)
(*   "writeback"  in block_write of a dirty victim, holding cache_lock     *)
(*   "claim"      has an invalid entry for its block, holding cache_lock   *)
(*   "lock_miss"  about to take the entry's lock, holding cache_lock       *)
(*   "load"       in block_read, holding the entry's lock                  *)
(*   "lock_hit"   entry found and pinned, about to take its lock           *)
(*   "copy"       at the memcpy, holding the entry's lock                  *)
(*   "mark"       at dirty = 1 / use = 1, holding the entry's lock         *)
(*   "unpin"      about to take cache_lock for ref_cnt--                   *)
(*   "hole"       a read of a hole, at the memset                          *)
(*   "return"     a read of a hole, about to return                        *)
(*                                                                         *)
(* A step ends wherever another thread could observe or change something   *)
(* the code touches next: at a lock that may block, at a transfer to or    *)
(* from the disk, and between the accesses that no common lock protects.   *)
(***************************************************************************)
EXTENDS Integers, FiniteSets, TLC

CONSTANTS
    Thread, Block, UNALLOCATED, Cell, Value, Zero, Extent, Buffer,
    CACHE_SIZE,    \* number of entries
    None           \* no thread, no entry, no sector

VARIABLES
    disk,        \* the sectors of fs_device
    clk_hand,    \* the clock hand
    cache_lock,  \* holder of cache_lock, or None
    valid, dirty, use, ref_cnt, block, data,   \* struct cache_ent, by entry
    lock,        \* by entry, the holder of its lock, or None
    pc, req, ent, buf    \* by thread: place in the code, arguments, the
                         \* local e, bytes copied to the caller

entVars == <<valid, dirty, use, ref_cnt, block, data, lock>>
vars == <<disk, clk_hand, cache_lock, entVars, pc, req, ent, buf>>

Entry == 0 .. CACHE_SIZE - 1

Sector == [Cell -> Value]
ZEROS == [c \in Cell |-> Zero]
NoReq == [kind |-> "none"]
NoBytes == [c \in {} |-> Zero]
Bytes == {NoBytes} \cup UNION {[x -> Value] : x \in Extent}
ReadReq == [kind : {"read"}, blk : Block \cup {UNALLOCATED}, ext : Extent]
WriteReq == [kind : {"write"}, blk : Block, ext : Extent, src : Buffer]

CopyOut(s, ext) == [c \in ext |-> s[c]]
CopyIn(s, ext, src) == [c \in Cell |-> IF c \in ext THEN src[c] ELSE s[c]]

ASSUME CacheSizeAssumption == CACHE_SIZE \in Nat \ {0}
ASSUME NoneAssumption ==
    None \notin Thread /\ None \notin Entry /\ None \notin Block
ASSUME BlockAssumption == UNALLOCATED \notin Block
ASSUME BytesAssumption ==
    Zero \in Value /\ Extent \subseteq SUBSET Cell /\ Buffer \subseteq Sector
ASSUME ThreadAssumption == IsFiniteSet(Thread)

-----------------------------------------------------------------------------
\* buff_cache_init: the entries are in zeroed memory and all invalid.
Init ==
    /\ disk \in [Block -> Sector]
    /\ clk_hand = 0
    /\ cache_lock = None
    /\ valid = [i \in Entry |-> FALSE]
    /\ dirty = [i \in Entry |-> FALSE]
    /\ use = [i \in Entry |-> FALSE]
    /\ ref_cnt = [i \in Entry |-> 0]
    /\ block = [i \in Entry |-> None]
    /\ data = [i \in Entry |-> ZEROS]
    /\ lock = [i \in Entry |-> None]
    /\ pc = [t \in Thread |-> "idle"]
    /\ req = [t \in Thread |-> NoReq]
    /\ ent = [t \in Thread |-> None]
    /\ buf = [t \in Thread |-> NoBytes]

Goto(t, from, to) == pc[t] = from /\ pc' = [pc EXCEPT ![t] = to]

\* The entry a scan for blk hits, and the invalid entries it passes.
Hits(blk) == {i \in Entry : valid[i] /\ block[i] = blk}
Invalid == {i \in Entry : ~valid[i]}

\* free_ent is overwritten at every invalid entry: the last one is kept.
free_ent(i) == i \in Invalid /\ \A j \in Invalid : j <= i

-----------------------------------------------------------------------------
\* A call of cache_read_len or cache_write_len; only the former looks for a
\* hole first.
Call(t) ==
    /\ \E r \in ReadReq \cup WriteReq :
         /\ req' = [req EXCEPT ![t] = r]
         /\ Goto(t, "idle", IF r.blk = UNALLOCATED THEN "hole" ELSE "find")
    /\ UNCHANGED <<disk, clk_hand, cache_lock, entVars, ent, buf>>

\* cache_read_len of a hole: memset, no entry is looked for.
ReadHole(t) ==
    /\ Goto(t, "hole", "return")
    /\ buf' = [buf EXCEPT ![t] = CopyOut(ZEROS, req[t].ext)]
    /\ UNCHANGED <<disk, clk_hand, cache_lock, entVars, req, ent>>

ReturnHole(t) ==
    /\ Goto(t, "return", "idle")
    /\ req' = [req EXCEPT ![t] = NoReq]
    /\ buf' = [buf EXCEPT ![t] = NoBytes]
    /\ UNCHANGED <<disk, clk_hand, cache_lock, entVars, ent>>

\* Scan hits: pin the entry and give cache_lock back.
FindHit(t) ==
    /\ Goto(t, "find", "lock_hit")
    /\ cache_lock = None
    /\ \E i \in Hits(req[t].blk) :
         /\ ent' = [ent EXCEPT ![t] = i]
         /\ ref_cnt' = [ref_cnt EXCEPT ![i] = @ + 1]
    /\ UNCHANGED <<disk, clk_hand, cache_lock, valid, dirty, use, block, data,
                   lock, req, buf>>

\* Mutant of FindFree: the scan stops at an invalid entry.
FindFreeEarly(t) ==
    /\ Goto(t, "find", "claim")
    /\ cache_lock = None
    /\ cache_lock' = t
    /\ \E i \in Entry : free_ent(i) /\ ent' = [ent EXCEPT ![t] = i]
    /\ UNCHANGED <<disk, clk_hand, entVars, req, buf>>

\* Scan misses but passed an invalid entry.
FindFree(t) ==
    /\ Goto(t, "find", "claim")
    /\ cache_lock = None
    /\ Hits(req[t].blk) = {}
    /\ cache_lock' = t
    /\ \E i \in Entry : free_ent(i) /\ ent' = [ent EXCEPT ![t] = i]
    /\ UNCHANGED <<disk, clk_hand, entVars, req, buf>>

\* Scan misses and every entry is valid.
FindFull(t) ==
    /\ Goto(t, "find", "evict")
    /\ cache_lock = None
    /\ Hits(req[t].blk) = {}
    /\ Invalid = {}
    /\ cache_lock' = t
    /\ UNCHANGED <<disk, clk_hand, entVars, req, ent, buf>>

NextHand == (clk_hand + 1) % CACHE_SIZE

\* May the clock hand's entry be evicted?
Evictable(i) == ref_cnt[i] = 0 /\ ~use[i]

\* Mutant of EvictSkip: the use bit is not cleared.
EvictSkipKeepUse(t) ==
    /\ pc[t] = "evict"
    /\ ~Evictable(NextHand)
    /\ clk_hand' = NextHand
    /\ UNCHANGED <<disk, cache_lock, entVars, pc, req, ent, buf>>

\* One turn of the loop of cache_evict that passes an entry over.
EvictSkip(t) ==
    /\ pc[t] = "evict"
    /\ ~Evictable(NextHand)
    /\ clk_hand' = NextHand
    /\ use' = [use EXCEPT ![NextHand] = FALSE]
    /\ UNCHANGED <<disk, cache_lock, valid, dirty, ref_cnt, block, data, lock,
                   pc, req, ent, buf>>

\* Mutant of EvictClean: the dirty bit is not looked at.
EvictAny(t) ==
    /\ Goto(t, "evict", "claim")
    /\ Evictable(NextHand)
    /\ clk_hand' = NextHand
    /\ valid' = [valid EXCEPT ![NextHand] = FALSE]
    /\ ent' = [ent EXCEPT ![t] = NextHand]
    /\ UNCHANGED <<disk, cache_lock, dirty, use, ref_cnt, block, data, lock,
                   req, buf>>

\* The turn that stops at a clean victim.
EvictClean(t) ==
    /\ Goto(t, "evict", "claim")
    /\ Evictable(NextHand)
    /\ ~dirty[NextHand]
    /\ clk_hand' = NextHand
    /\ valid' = [valid EXCEPT ![NextHand] = FALSE]
    /\ ent' = [ent EXCEPT ![t] = NextHand]
    /\ UNCHANGED <<disk, cache_lock, dirty, use, ref_cnt, block, data, lock,
                   req, buf>>

\* The turn that stops at a dirty victim and starts block_write.
EvictDirty(t) ==
    /\ Goto(t, "evict", "writeback")
    /\ Evictable(NextHand)
    /\ dirty[NextHand]
    /\ clk_hand' = NextHand
    /\ ent' = [ent EXCEPT ![t] = NextHand]
    /\ UNCHANGED <<disk, cache_lock, entVars, req, buf>>

\* block_write completes; dirty = 0 and valid = 0.
WriteBack(t) ==
    /\ Goto(t, "writeback", "claim")
    /\ disk' = [disk EXCEPT ![block[ent[t]]] = data[ent[t]]]
    /\ dirty' = [dirty EXCEPT ![ent[t]] = FALSE]
    /\ valid' = [valid EXCEPT ![ent[t]] = FALSE]
    /\ UNCHANGED <<clk_hand, cache_lock, use, ref_cnt, block, data, lock,
                   req, ent, buf>>

\* Mutants of Claim: the miss path forgets ref_cnt++; cache_lock is released
\* before the entry's lock is taken.
ClaimNoPin(t) ==
    /\ Goto(t, "claim", "lock_miss")
    /\ block' = [block EXCEPT ![ent[t]] = req[t].blk]
    /\ valid' = [valid EXCEPT ![ent[t]] = TRUE]
    /\ UNCHANGED <<disk, clk_hand, cache_lock, dirty, use, ref_cnt, data, lock,
                   req, ent, buf>>

ClaimRelease(t) ==
    /\ Goto(t, "claim", "lock_miss")
    /\ ref_cnt' = [ref_cnt EXCEPT ![ent[t]] = @ + 1]
    /\ block' = [block EXCEPT ![ent[t]] = req[t].blk]
    /\ valid' = [valid EXCEPT ![ent[t]] = TRUE]
    /\ cache_lock' = None
    /\ UNCHANGED <<disk, clk_hand, dirty, use, data, lock, req, ent, buf>>

\* ref_cnt++, block = blk, valid = 1: the entry can be found from here on,
\* before its data is there.
Claim(t) ==
    /\ Goto(t, "claim", "lock_miss")
    /\ ref_cnt' = [ref_cnt EXCEPT ![ent[t]] = @ + 1]
    /\ block' = [block EXCEPT ![ent[t]] = req[t].blk]
    /\ valid' = [valid EXCEPT ![ent[t]] = TRUE]
    /\ UNCHANGED <<disk, clk_hand, cache_lock, dirty, use, data, lock,
                   req, ent, buf>>

\* lock_acquire (&e->lock) inside cache_lock, then release cache_lock.
LockMiss(t) ==
    /\ Goto(t, "lock_miss", "load")
    /\ lock[ent[t]] = None
    /\ lock' = [lock EXCEPT ![ent[t]] = t]
    /\ cache_lock' = None
    /\ UNCHANGED <<disk, clk_hand, valid, dirty, use, ref_cnt, block, data,
                   req, ent, buf>>

\* block_read of the new entry, cache_lock already released.
Load(t) ==
    /\ Goto(t, "load", "copy")
    /\ data' = [data EXCEPT ![ent[t]] = disk[req[t].blk]]
    /\ UNCHANGED <<disk, clk_hand, cache_lock, valid, dirty, use, ref_cnt,
                   block, lock, req, ent, buf>>

\* lock_acquire (&e->lock) after a hit: waits for the thread that loads,
\* reads or writes the entry.
LockHit(t) ==
    /\ Goto(t, "lock_hit", "copy")
    /\ lock[ent[t]] = None
    /\ lock' = [lock EXCEPT ![ent[t]] = t]
    /\ UNCHANGED <<disk, clk_hand, cache_lock, valid, dirty, use, ref_cnt,
                   block, data, req, ent, buf>>

\* cache_read_len: memcpy to the caller.
CopyRead(t) ==
    /\ Goto(t, "copy", "mark")
    /\ req[t].kind = "read"
    /\ buf' = [buf EXCEPT ![t] = CopyOut(data[ent[t]], req[t].ext)]
    /\ UNCHANGED <<disk, clk_hand, cache_lock, entVars, req, ent>>

\* cache_write_len: memcpy into the entry.
CopyWrite(t) ==
    /\ Goto(t, "copy", "mark")
    /\ req[t].kind = "write"
    /\ data' = [data EXCEPT ![ent[t]] = CopyIn(@, req[t].ext, req[t].src)]
    /\ UNCHANGED <<disk, clk_hand, cache_lock, valid, dirty, use, ref_cnt,
                   block, lock, req, ent, buf>>

\* Mutant of Mark: a write leaves the dirty bit clear.
MarkClean(t) ==
    /\ Goto(t, "mark", "unpin")
    /\ use' = [use EXCEPT ![ent[t]] = TRUE]
    /\ lock' = [lock EXCEPT ![ent[t]] = None]
    /\ UNCHANGED <<disk, clk_hand, cache_lock, valid, dirty, ref_cnt, block,
                   data, req, ent, buf>>

\* dirty = 1 (writes only), use = 1, lock_release (&e->lock).
Mark(t) ==
    /\ Goto(t, "mark", "unpin")
    /\ dirty' = [dirty EXCEPT ![ent[t]] = @ \/ req[t].kind = "write"]
    /\ use' = [use EXCEPT ![ent[t]] = TRUE]
    /\ lock' = [lock EXCEPT ![ent[t]] = None]
    /\ UNCHANGED <<disk, clk_hand, cache_lock, valid, ref_cnt, block, data,
                   req, ent, buf>>

\* ref_cnt-- under cache_lock, and return.
Unpin(t) ==
    /\ Goto(t, "unpin", "idle")
    /\ cache_lock = None
    /\ ref_cnt' = [ref_cnt EXCEPT ![ent[t]] = @ - 1]
    /\ req' = [req EXCEPT ![t] = NoReq]
    /\ ent' = [ent EXCEPT ![t] = None]
    /\ buf' = [buf EXCEPT ![t] = NoBytes]
    /\ UNCHANGED <<disk, clk_hand, cache_lock, valid, dirty, use, block, data,
                   lock>>

-----------------------------------------------------------------------------
\* The steps of a call in progress.
Step(t) ==
    \/ ReadHole(t) \/ ReturnHole(t)
    \/ FindHit(t) \/ FindFree(t) \/ FindFull(t)
    \/ EvictSkip(t) \/ EvictClean(t) \/ EvictDirty(t) \/ WriteBack(t)
    \/ Claim(t) \/ LockMiss(t) \/ Load(t) \/ LockHit(t)
    \/ CopyRead(t) \/ CopyWrite(t) \/ Mark(t) \/ Unpin(t)

Next == \E t \in Thread : Call(t) \/ Step(t)

Spec == Init /\ [][Next]_vars

\* Every thread is scheduled again and again (round robin with a timer), so
\* a step that stays possible is taken.  Nothing is assumed about who gets a
\* contended lock.
Fairness == \A t \in Thread : WF_vars(Step(t))

FairSpec == Spec /\ Fairness
-----------------------------------------------------------------------------
Places == {"idle", "hole", "return", "find", "evict", "writeback", "claim",
           "lock_miss", "load", "lock_hit", "copy", "mark", "unpin"}

\* Places between ref_cnt++ and ref_cnt--.
Pinning == {"lock_miss", "load", "lock_hit", "copy", "mark", "unpin"}

\* Places where the code holds the lock of the entry it works on.
Locking == {"load", "copy", "mark"}

\* Places where the code holds cache_lock between steps.
Searching == {"evict", "writeback", "claim", "lock_miss"}

\* The threads that have pinned entry i.
Pinners(i) == {t \in Thread : pc[t] \in Pinning /\ ent[t] = i}

\* Entry i is valid but its sector has not been read in yet.
Loading(i) == \E t \in Thread : pc[t] \in {"lock_miss", "load"} /\ ent[t] = i

\* A thread has written into entry i and not yet set its dirty bit.
Unmarked(i) == \E t \in Thread :
    pc[t] = "mark" /\ ent[t] = i /\ req[t].kind = "write"

\* The current contents of sector b, wherever it is.
Contents(b) ==
    IF \E i \in Hits(b) : ~Loading(i)
    THEN data[CHOOSE i \in Hits(b) : ~Loading(i)]
    ELSE disk[b]

-----------------------------------------------------------------------------
\* Every variable keeps its type; in particular the clock hand stays inside
\* buff_cache and the unsigned ref_cnt never goes below zero (cache_evict
\* would then never take the entry again).
TypeOK ==
    /\ disk \in [Block -> Sector]
    /\ clk_hand \in Entry
    /\ cache_lock \in Thread \cup {None}
    /\ valid \in [Entry -> BOOLEAN]
    /\ dirty \in [Entry -> BOOLEAN]
    /\ use \in [Entry -> BOOLEAN]
    /\ ref_cnt \in [Entry -> Nat]
    /\ block \in [Entry -> Block \cup {None}]
    /\ data \in [Entry -> Sector]
    /\ lock \in [Entry -> Thread \cup {None}]
    /\ pc \in [Thread -> Places]
    /\ req \in [Thread -> ReadReq \cup WriteReq \cup {NoReq}]
    /\ ent \in [Thread -> Entry \cup {None}]
    /\ buf \in [Thread -> Bytes]

\* ref_cnt counts exactly the threads between their ref_cnt++ and their
\* ref_cnt--, across hits, misses and evictions by any interleaving.
RefCountExact ==
    \A i \in Entry : ref_cnt[i] = Cardinality(Pinners(i))

\* No sector is ever cached in two entries: cache_lock makes the scan, the
\* eviction and the claim of an entry one unit, although the load of the
\* entry happens after cache_lock is released.
OneEntryPerBlock ==
    \A i, j \in Entry :
        valid[i] /\ valid[j] /\ block[i] = block[j] => i = j

\* "once we found a cache entry, it won't be evicted until we are done"
\* (doc/project3.md): from the moment cache_find_ent pins an entry to the
\* return, the entry is valid and stands for the sector that was asked for.
PinnedKeepsBlock ==
    \A t \in Thread : pc[t] \in Pinning =>
        valid[ent[t]] /\ block[ent[t]] = req[t].blk

\* The comment at the nested lock_acquire of cache_find_ent: "no other thread
\* is using this block; therefore, we must succeed acquiring this lock".  It
\* is what makes taking an entry's lock inside cache_lock free of deadlock.
MissLockFree ==
    \A t \in Thread : pc[t] = "lock_miss" => lock[ent[t]] = None

\* An entry whose dirty bit is clear holds what the disk holds, so eviction
\* may drop it without block_write (unless its writer is just about to set
\* the bit, in which case the entry is pinned).
CleanMatchesDisk ==
    \A i \in Entry :
        valid[i] /\ ~dirty[i] /\ ~Loading(i) /\ ~Unmarked(i)
            => data[i] = disk[block[i]]

-----------------------------------------------------------------------------
\* The cache implements an array of sectors with indivisible reads and
\* writes.  A call takes effect at its memcpy.
Phase(t) ==
    CASE pc[t] = "idle" -> "idle"
      [] pc[t] \in {"mark", "unpin", "return"} -> "done"
      [] OTHER -> "pending"

Store == INSTANCE BlockStore WITH
    store <- [b \in Block |-> Contents(b)],
    phase <- [t \in Thread |-> Phase(t)]

\* Every cache_read_len returns the bytes of the latest cache_write_len to
\* them, through loads, evictions, write-backs and concurrent access.
LinearizableStore == Store!StoreSpec

\* cache_lock is always given back: a search for a victim ends.
CacheLockReleased ==
    \A t \in Thread : cache_lock = t ~> cache_lock # t

\* Once no new call is made, every call in progress returns: no thread waits
\* for ever on cache_lock or on the lock of an entry.
DrainsWhenQuiet ==
    (<>[][\A t \in Thread : ~Call(t)]_vars)
        => \A t \in Thread : []<>(pc[t] = "idle")

\* The cache makes progress while no more threads than entries use it: the
\* thread that searches for a victim under cache_lock gives the lock back, and
\* once no new calls come every call of cache_read_len and cache_write_len
\* returns.
CacheProgress == CacheLockReleased /\ DrainsWhenQuiet

-----------------------------------------------------------------------------
\* What the configurations choose from.

\* Whole-sector accesses of a one-byte sector.
WholeExtent == {Cell}

\* Buffers that hold one value throughout.
FillBuffer == {[c \in Cell |-> v] : v \in Value}

\* Only the non-zero byte is written; zeros come from the disk.
NonzeroBuffer == {[c \in Cell |-> v] : v \in Value \ {Zero}}

\* Threads are interchangeable, and so are sectors: no definition of this
\* module or of CacheShutdown tells two of them apart.
Symmetry == Permutations(Thread) \cup Permutations(Block)
=============================================================================
