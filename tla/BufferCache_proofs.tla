------------------------- MODULE BufferCache_proofs -------------------------
(***************************************************************************)
(* The safety properties of BufferCache for any number of threads, sectors *)
(* and entries, that it implements BlockStore, and what CacheShutdown      *)
(* leaves on the disk.                                                     *)
(***************************************************************************)
EXTENDS CacheShutdown, FiniteSetTheorems, TLAPS

\* Who holds cache_lock is a matter of where it is in the code.
CacheLockHeld ==
    \A t \in Thread : cache_lock = t <=> pc[t] \in Searching

\* So is who holds the lock of an entry.
EntryLockHeld ==
    \A i \in Entry, t \in Thread :
        lock[i] = t <=> pc[t] \in Locking /\ ent[t] = i

\* The local variables of a thread make sense at its place in the code.
LocalsOK ==
    \A t \in Thread :
        /\ ent[t] \in Entry <=> pc[t] \in Pinning \cup {"writeback", "claim"}
        /\ pc[t] = "idle" <=> req[t] = NoReq
        /\ pc[t] \in {"hole", "return"} =>
               req[t] \in ReadReq /\ req[t].blk = UNALLOCATED
        /\ pc[t] \in Pinning \cup {"find", "evict", "writeback", "claim"} =>
               req[t] \in ReadReq \cup WriteReq /\ req[t].blk \in Block
        /\ pc[t] \notin {"mark", "unpin", "return"} => buf[t] = NoBytes
        /\ req[t] \in WriteReq => buf[t] = NoBytes

\* An entry that is not valid is clean and unpinned.
InvalidEntry ==
    \A i \in Entry :
        /\ ~valid[i] => ~dirty[i] /\ Pinners(i) = {}
        /\ valid[i] => block[i] \in Block

\* From its miss to its claim a thread finds its sector nowhere in the cache,
\* and the entry it evicts or takes is pinned by no one.
SearchOK ==
    \A t \in Thread :
        /\ pc[t] \in {"evict", "writeback", "claim"} => Hits(req[t].blk) = {}
        /\ pc[t] = "writeback" =>
               valid[ent[t]] /\ dirty[ent[t]] /\ Pinners(ent[t]) = {}
        /\ pc[t] = "claim" => ~valid[ent[t]]

\* Until cache_lock is released only the claiming thread knows the entry;
\* until its load is over nobody else is past the entry's lock.
LoadingAlone ==
    \A t, u \in Thread :
        /\ pc[t] = "lock_miss" /\ pc[u] \in Pinning /\ ent[u] = ent[t] => u = t
        /\ pc[t] = "load" /\ pc[u] \in Pinning /\ ent[u] = ent[t] =>
               u = t \/ pc[u] = "lock_hit"

IndInv ==
    /\ TypeOK /\ CacheLockHeld /\ EntryLockHeld /\ LocalsOK
    /\ RefCountExact /\ OneEntryPerBlock /\ PinnedKeepsBlock
    /\ InvalidEntry /\ SearchOK /\ LoadingAlone
    /\ CleanMatchesDisk

-----------------------------------------------------------------------------
\* The pinning threads of an entry are finitely many.
LEMMA PinnersFinite ==
    ASSUME NEW i
    PROVE  /\ IsFiniteSet(Pinners(i))
           /\ Cardinality(Pinners(i)) \in Nat
           /\ Cardinality(Pinners(i)) = 0 <=> Pinners(i) = {}
<1>1. Pinners(i) \subseteq Thread
  BY DEF Pinners
<1>2. IsFiniteSet(Pinners(i))
  BY <1>1, ThreadAssumption, FS_Subset
<1> QED
  BY <1>2, FS_CardinalityType, FS_EmptySet

\* What a memcpy leaves on either side.
LEMMA CopyType ==
    ASSUME NEW s \in Sector, NEW x \in Extent
    PROVE  /\ CopyOut(s, x) \in Bytes
           /\ \A b \in Buffer : CopyIn(s, x, b) \in Sector
           /\ NoBytes \in Bytes
           /\ ZEROS \in Sector
<1>1. CopyOut(s, x) \in [x -> Value]
  BY BytesAssumption DEF CopyOut, Sector
<1> QED
  BY <1>1, BytesAssumption DEF Bytes, CopyIn, Sector, ZEROS

\* The initial state satisfies the inductive invariant.
LEMMA InitInv == Init => IndInv
<1> SUFFICES ASSUME Init PROVE IndInv
  OBVIOUS
<1> USE NoneAssumption, CacheSizeAssumption, BytesAssumption DEF Init
<1>1. TypeOK
  BY DEF TypeOK, Entry, Places, Sector, ZEROS, Bytes
<1>2. CacheLockHeld /\ EntryLockHeld /\ LocalsOK
  BY DEF CacheLockHeld, EntryLockHeld, LocalsOK, Searching, Locking, Pinning,
         WriteReq, NoReq
<1>3. \A i \in Entry : Pinners(i) = {}
  BY DEF Pinners, Pinning
<1>4. RefCountExact
  BY <1>3, FS_EmptySet DEF RefCountExact
<1>5. OneEntryPerBlock /\ PinnedKeepsBlock /\ InvalidEntry
  BY <1>3 DEF OneEntryPerBlock, PinnedKeepsBlock, InvalidEntry, Pinning
<1>6. SearchOK /\ LoadingAlone /\ CleanMatchesDisk
  BY DEF SearchOK, LoadingAlone, CleanMatchesDisk, Pinning
<1> QED
  BY <1>1, <1>2, <1>4, <1>5, <1>6 DEF IndInv

-----------------------------------------------------------------------------
\* A step keeps every variable in its type.  The only decrement, in Unpin,
\* is of a count that includes the thread itself.
LEMMA TypeStep ==
    ASSUME IndInv, NEW t \in Thread, Call(t) \/ Step(t)
    PROVE  TypeOK'
<1> USE NoneAssumption, CacheSizeAssumption, BytesAssumption
<1> TypeOK /\ LocalsOK /\ RefCountExact /\ PinnedKeepsBlock
  BY DEF IndInv
<1> USE DEF TypeOK, Goto, entVars, Places
<1>1. CASE Call(t)
  BY <1>1 DEF Call
<1>2. CASE ReadHole(t)
  BY <1>2, CopyType DEF ReadHole, LocalsOK, ReadReq
<1>3. CASE ReturnHole(t)
  BY <1>3 DEF ReturnHole, Bytes
<1>4. CASE FindHit(t)
  BY <1>4 DEF FindHit, Hits
<1>5. CASE FindFree(t)
  BY <1>5 DEF FindFree
<1>6. CASE FindFull(t)
  BY <1>6 DEF FindFull
<1>7. NextHand \in Entry
  BY DEF NextHand, Entry
<1>8. CASE EvictSkip(t)
  BY <1>7, <1>8 DEF EvictSkip
<1>9. CASE EvictClean(t)
  BY <1>7, <1>9 DEF EvictClean
<1>10. CASE EvictDirty(t)
  BY <1>7, <1>10 DEF EvictDirty
<1>11. CASE WriteBack(t)
  BY <1>11 DEF WriteBack, LocalsOK
<1>12. CASE Claim(t)
  BY <1>12 DEF Claim, LocalsOK
<1>13. CASE LockMiss(t)
  BY <1>13 DEF LockMiss
<1>14. CASE Load(t)
  BY <1>14 DEF Load, LocalsOK, Pinning
<1>15. CASE LockHit(t)
  BY <1>15 DEF LockHit
<1>16. CASE CopyRead(t)
  BY <1>16, CopyType DEF CopyRead, LocalsOK, Pinning, ReadReq, WriteReq
<1>17. CASE CopyWrite(t)
  BY <1>17, CopyType DEF CopyWrite, LocalsOK, Pinning, ReadReq, WriteReq
<1>18. CASE Mark(t)
  BY <1>18 DEF Mark
<1>19. CASE Unpin(t)
  <2>1. ent[t] \in Entry /\ t \in Pinners(ent[t])
    BY <1>19 DEF Unpin, LocalsOK, Pinning, Pinners
  <2>2. ref_cnt[ent[t]] - 1 \in Nat
    BY <2>1, PinnersFinite DEF RefCountExact
  <2> QED
    BY <1>19, <2>1, <2>2 DEF Unpin, Bytes
<1> QED
  BY <1>1, <1>2, <1>3, <1>4, <1>5, <1>6, <1>8, <1>9, <1>10, <1>11, <1>12,
     <1>13, <1>14, <1>15, <1>16, <1>17, <1>18, <1>19 DEF Step

-----------------------------------------------------------------------------
\* The locks and the locals of a thread follow its pc.
LEMMA HoldersStep ==
    ASSUME IndInv, NEW t \in Thread, Call(t) \/ Step(t)
    PROVE  CacheLockHeld' /\ EntryLockHeld' /\ LocalsOK'
<1> USE NoneAssumption, BlockAssumption
<1> TypeOK /\ CacheLockHeld /\ EntryLockHeld /\ LocalsOK
  BY DEF IndInv
<1> USE DEF TypeOK, CacheLockHeld, EntryLockHeld, LocalsOK, Goto, entVars,
            Searching, Locking, Pinning
<1>1. CASE Call(t)
  BY <1>1 DEF Call, ReadReq, WriteReq, NoReq
<1>2. CASE ReadHole(t)
  BY <1>2 DEF ReadHole, ReadReq, WriteReq
<1>3. CASE ReturnHole(t)
  BY <1>3 DEF ReturnHole, WriteReq, NoReq
<1>4. CASE FindHit(t)
  BY <1>4 DEF FindHit, Hits
<1>5. CASE FindFree(t)
  BY <1>5 DEF FindFree
<1>6. CASE FindFull(t)
  BY <1>6 DEF FindFull
<1>7. NextHand \in Entry
  BY CacheSizeAssumption DEF NextHand, Entry
<1>8. CASE EvictSkip(t)
  BY <1>7, <1>8 DEF EvictSkip
<1>9. CASE EvictClean(t)
  BY <1>7, <1>9 DEF EvictClean
<1>10. CASE EvictDirty(t)
  BY <1>7, <1>10 DEF EvictDirty
<1>11. CASE WriteBack(t)
  BY <1>11 DEF WriteBack
<1>12. CASE Claim(t)
  BY <1>12 DEF Claim
<1>13. CASE LockMiss(t)
  BY <1>13 DEF LockMiss
<1>14. CASE Load(t)
  BY <1>14 DEF Load
<1>15. CASE LockHit(t)
  BY <1>15 DEF LockHit
<1>16. CASE CopyRead(t)
  BY <1>16 DEF CopyRead, ReadReq, WriteReq
<1>17. CASE CopyWrite(t)
  BY <1>17 DEF CopyWrite
<1>18. CASE Mark(t)
  BY <1>18 DEF Mark
<1>19. CASE Unpin(t)
  BY <1>19 DEF Unpin, NoReq, WriteReq
<1> QED
  BY <1>1, <1>2, <1>3, <1>4, <1>5, <1>6, <1>8, <1>9, <1>10, <1>11, <1>12,
     <1>13, <1>14, <1>15, <1>16, <1>17, <1>18, <1>19 DEF Step

-----------------------------------------------------------------------------
\* A thread joins the pinners of an entry where the code does ref_cnt++ and
\* leaves them where it does ref_cnt--; nothing else changes who pins what.
LEMMA RefCountStep ==
    ASSUME IndInv, NEW t \in Thread, Call(t) \/ Step(t)
    PROVE  RefCountExact'
<1> TypeOK /\ LocalsOK /\ RefCountExact
  BY DEF IndInv
<1> USE DEF TypeOK, Goto, entVars
<1>1. ASSUME NEW j \in Entry, pc[t] \notin Pinning, pc'[t] \in Pinning,
             ent'[t] = j, ref_cnt' = [ref_cnt EXCEPT ![j] = @ + 1],
             \A u \in Thread \ {t} : pc'[u] = pc[u] /\ ent'[u] = ent[u]
      PROVE  RefCountExact'
  <2>1. Pinners(j)' = Pinners(j) \cup {t} /\ t \notin Pinners(j)
    BY <1>1 DEF Pinners
  <2>2. Cardinality(Pinners(j)') = Cardinality(Pinners(j)) + 1
    <3>1. IsFiniteSet(Pinners(j))
      BY PinnersFinite
    <3>2. Cardinality(Pinners(j) \cup {t}) = Cardinality(Pinners(j)) + 1
      BY <2>1, <3>1, FS_AddElement
    <3> QED
      BY <2>1, <3>2
  <2>3. \A i \in Entry \ {j} : Pinners(i)' = Pinners(i)
    BY <1>1 DEF Pinners
  <2> QED
    BY <1>1, <2>2, <2>3 DEF RefCountExact
<1>2. ASSUME NEW j \in Entry, pc[t] \in Pinning, pc'[t] \notin Pinning,
             ent[t] = j, ref_cnt' = [ref_cnt EXCEPT ![j] = @ - 1],
             \A u \in Thread \ {t} : pc'[u] = pc[u] /\ ent'[u] = ent[u]
      PROVE  RefCountExact'
  <2>1. Pinners(j)' = Pinners(j) \ {t} /\ t \in Pinners(j)
    BY <1>2 DEF Pinners
  <2>2. Cardinality(Pinners(j)') = Cardinality(Pinners(j)) - 1
    <3>1. IsFiniteSet(Pinners(j))
      BY PinnersFinite
    <3>2. Cardinality(Pinners(j) \ {t}) = Cardinality(Pinners(j)) - 1
      BY <2>1, <3>1, FS_RemoveElement
    <3> QED BY <2>1, <3>2
  <2>3. \A i \in Entry \ {j} : Pinners(i)' = Pinners(i)
    BY <1>2 DEF Pinners
  <2> QED
    BY <1>2, <2>2, <2>3 DEF RefCountExact
<1>3. ASSUME pc[t] \in Pinning <=> pc'[t] \in Pinning,
             pc[t] \in Pinning => ent'[t] = ent[t], ref_cnt' = ref_cnt,
             \A u \in Thread \ {t} : pc'[u] = pc[u] /\ ent'[u] = ent[u]
      PROVE  RefCountExact'
  <2>1. \A i \in Entry : Pinners(i)' = Pinners(i)
    BY <1>3 DEF Pinners
  <2> QED
    BY <1>3, <2>1 DEF RefCountExact
<1>4. CASE FindHit(t)
  BY <1>1, <1>4 DEF FindHit, Hits, Pinning
<1>5. CASE Claim(t)
  BY <1>1, <1>5 DEF Claim, LocalsOK, Pinning
<1>6. CASE Unpin(t)
  BY <1>2, <1>6 DEF Unpin, LocalsOK, Pinning
<1>7. CASE \/ Call(t) \/ ReadHole(t) \/ ReturnHole(t) \/ FindFree(t)
           \/ FindFull(t) \/ EvictSkip(t) \/ EvictClean(t) \/ EvictDirty(t)
           \/ WriteBack(t) \/ LockMiss(t) \/ Load(t) \/ LockHit(t)
           \/ CopyRead(t) \/ CopyWrite(t) \/ Mark(t)
  BY <1>3, <1>7
     DEF Call, ReadHole, ReturnHole, FindFree, FindFull, EvictSkip,
         EvictClean, EvictDirty, WriteBack, LockMiss, Load, LockHit,
         CopyRead, CopyWrite, Mark, Pinning
<1> QED
  BY <1>4, <1>5, <1>6, <1>7 DEF Step

\* An entry whose ref_cnt is zero is pinned by no one.
LEMMA UnpinnedEntry ==
    ASSUME TypeOK, RefCountExact, NEW i \in Entry, ref_cnt[i] = 0
    PROVE  Pinners(i) = {}
BY PinnersFinite DEF RefCountExact

-----------------------------------------------------------------------------
\* Which entry stands for which sector: only Claim makes an entry valid, for
\* a sector that no entry has, and only an unpinned entry stops being valid.
LEMMA EntriesStep ==
    ASSUME IndInv, NEW t \in Thread, Call(t) \/ Step(t)
    PROVE  /\ OneEntryPerBlock' /\ PinnedKeepsBlock' /\ InvalidEntry'
           /\ SearchOK' /\ LoadingAlone'
<1> TypeOK /\ CacheLockHeld /\ EntryLockHeld /\ LocalsOK /\ RefCountExact
    /\ OneEntryPerBlock /\ PinnedKeepsBlock /\ InvalidEntry
    /\ SearchOK /\ LoadingAlone
  BY DEF IndInv
<1> USE NoneAssumption
<1> USE DEF TypeOK, CacheLockHeld, EntryLockHeld, LocalsOK, OneEntryPerBlock,
            PinnedKeepsBlock, InvalidEntry, SearchOK, LoadingAlone, Goto,
            entVars, Searching, Locking, Pinning, Pinners, Hits
<1>1. CASE Call(t)
  BY <1>1 DEF Call
<1>2. CASE ReadHole(t)
  BY <1>2 DEF ReadHole
<1>3. CASE ReturnHole(t)
  BY <1>3 DEF ReturnHole
<1>4. CASE FindHit(t)
  BY <1>4 DEF FindHit
<1>5. CASE FindFree(t)
  BY <1>5 DEF FindFree, free_ent, Invalid
<1>6. CASE FindFull(t)
  BY <1>6 DEF FindFull, Invalid
<1>7. NextHand \in Entry
  BY CacheSizeAssumption DEF NextHand, Entry
<1>8. CASE EvictSkip(t)
  BY <1>7, <1>8 DEF EvictSkip
<1>9. CASE EvictClean(t)
  BY <1>7, <1>9, UnpinnedEntry DEF EvictClean, Evictable
<1>10. CASE EvictDirty(t)
  BY <1>7, <1>10, UnpinnedEntry DEF EvictDirty, Evictable
<1>11. CASE WriteBack(t)
  BY <1>11 DEF WriteBack
<1>12. CASE Claim(t)
  BY <1>12 DEF Claim
<1>13. CASE LockMiss(t)
  BY <1>13 DEF LockMiss
<1>14. CASE Load(t)
  BY <1>14 DEF Load
<1>15. CASE LockHit(t)
  BY <1>15 DEF LockHit
<1>16. CASE CopyRead(t)
  BY <1>16 DEF CopyRead
<1>17. CASE CopyWrite(t)
  BY <1>17 DEF CopyWrite
<1>18. CASE Mark(t)
  BY <1>18 DEF Mark
<1>19. CASE Unpin(t)
  BY <1>19 DEF Unpin
<1> QED
  BY <1>1, <1>2, <1>3, <1>4, <1>5, <1>6, <1>8, <1>9, <1>10, <1>11, <1>12,
     <1>13, <1>14, <1>15, <1>16, <1>17, <1>18, <1>19 DEF Step

-----------------------------------------------------------------------------
\* The data of an entry and the disk differ only while a bit or a pin says so.
LEMMA CleanStep ==
    ASSUME IndInv, NEW t \in Thread, Call(t) \/ Step(t)
    PROVE  CleanMatchesDisk'
<1> TypeOK /\ EntryLockHeld /\ LocalsOK /\ RefCountExact /\ OneEntryPerBlock
    /\ PinnedKeepsBlock /\ InvalidEntry /\ SearchOK /\ LoadingAlone
    /\ CleanMatchesDisk
  BY DEF IndInv
<1> USE NoneAssumption
<1> USE DEF TypeOK, EntryLockHeld, LocalsOK, PinnedKeepsBlock, InvalidEntry,
            CleanMatchesDisk, Goto, entVars, Locking, Pinning, Loading,
            Unmarked
<1>1. CASE Call(t)
  BY <1>1 DEF Call
<1>2. CASE ReadHole(t)
  BY <1>2 DEF ReadHole
<1>3. CASE ReturnHole(t)
  BY <1>3 DEF ReturnHole
<1>4. CASE FindHit(t)
  BY <1>4 DEF FindHit
<1>5. CASE FindFree(t)
  BY <1>5 DEF FindFree
<1>6. CASE FindFull(t)
  BY <1>6 DEF FindFull
<1>7. NextHand \in Entry
  BY CacheSizeAssumption DEF NextHand, Entry
<1>8. CASE EvictSkip(t)
  BY <1>7, <1>8 DEF EvictSkip
<1>9. CASE EvictClean(t)
  BY <1>7, <1>9 DEF EvictClean
<1>10. CASE EvictDirty(t)
  BY <1>7, <1>10 DEF EvictDirty
<1>11. CASE WriteBack(t)
  BY <1>11 DEF WriteBack, SearchOK, OneEntryPerBlock
<1>12. CASE Claim(t)
  BY <1>12 DEF Claim
<1>13. CASE LockMiss(t)
  BY <1>13 DEF LockMiss
<1>14. CASE Load(t)
  BY <1>14 DEF Load
<1>15. CASE LockHit(t)
  BY <1>15 DEF LockHit
<1>16. CASE CopyRead(t)
  BY <1>16 DEF CopyRead
<1>17. CASE CopyWrite(t)
  BY <1>17 DEF CopyWrite
<1>18. CASE Mark(t)
  BY <1>18 DEF Mark, ReadReq, WriteReq
<1>19. CASE Unpin(t)
  BY <1>19 DEF Unpin
<1> QED
  BY <1>1, <1>2, <1>3, <1>4, <1>5, <1>6, <1>8, <1>9, <1>10, <1>11, <1>12,
     <1>13, <1>14, <1>15, <1>16, <1>17, <1>18, <1>19 DEF Step

\* Every step of a thread keeps the inductive invariant.
LEMMA InvStep == IndInv /\ [Next]_vars => IndInv'
<1> SUFFICES ASSUME IndInv, [Next]_vars PROVE IndInv'
  OBVIOUS
<1>1. CASE Next
  <2>1. PICK t \in Thread : Call(t) \/ Step(t)
    BY <1>1 DEF Next
  <2> QED
    BY <2>1, TypeStep, HoldersStep, RefCountStep, EntriesStep, CleanStep
       DEF IndInv
<1>2. CASE UNCHANGED vars
  BY <1>2
     DEF vars, entVars, IndInv, TypeOK, CacheLockHeld, EntryLockHeld,
         LocalsOK, RefCountExact, OneEntryPerBlock, PinnedKeepsBlock,
         InvalidEntry, SearchOK, LoadingAlone, CleanMatchesDisk, Pinners,
         Hits, Loading, Unmarked
<1> QED
  BY <1>1, <1>2

\* The inductive invariant holds in every reachable state of the cache.
THEOREM CacheInvariant == Spec => []IndInv
BY InitInv, InvStep, PTL DEF Spec

\* ref_cnt counts the threads that use an entry, exactly, so the unsigned
\* counter never goes below zero and a free entry is never left pinned.
THEOREM CacheCounts == Spec => [](TypeOK /\ RefCountExact)
BY CacheInvariant, PTL DEF IndInv

\* A clean entry can be dropped: it holds what the disk holds.
THEOREM CacheClean == Spec => []CleanMatchesDisk
BY CacheInvariant, PTL DEF IndInv

\* No two entries of buff_cache ever hold the same sector, and a pinned entry
\* keeps the sector it was pinned for: the two facts doc/project3.md rests
\* the cache's synchronization on.
THEOREM CacheCoherent == Spec => [](OneEntryPerBlock /\ PinnedKeepsBlock)
BY CacheInvariant, PTL DEF IndInv

\* The lock_acquire that cache_find_ent does while it holds cache_lock never
\* waits.
THEOREM MissNeverWaits == Spec => []MissLockFree
<1>1. IndInv => MissLockFree
  BY NoneAssumption
     DEF IndInv, MissLockFree, TypeOK, EntryLockHeld, LocalsOK, LoadingAlone,
         Pinning, Locking
<1> QED
  BY <1>1, CacheInvariant, PTL

-----------------------------------------------------------------------------
(***************************************************************************)
(* Refinement.  The invariant makes Contents a function of the one entry   *)
(* of a sector, or of the disk when there is none.                         *)
(***************************************************************************)
LEMMA ContentsCached ==
    ASSUME OneEntryPerBlock, NEW b, NEW i \in Entry,
           i \in Hits(b), ~Loading(i)
    PROVE  Contents(b) = data[i]
BY DEF Contents, Hits, OneEntryPerBlock

LEMMA ContentsCachedNext ==
    ASSUME OneEntryPerBlock', NEW b, NEW i \in Entry,
           (i \in Hits(b))', ~Loading(i)'
    PROVE  Contents(b)' = data'[i]
BY DEF Contents, Hits, OneEntryPerBlock

LEMMA ContentsOnDisk ==
    ASSUME NEW b, \A i \in Hits(b) : Loading(i)
    PROVE  Contents(b) = disk[b]
BY DEF Contents

\* Nothing changes for a sector when neither its entry, its loading state nor
\* its copies do.
LEMMA ContentsKept ==
    ASSUME NEW b, disk'[b] = disk[b], Hits(b)' = Hits(b),
           \A i \in Hits(b) : data'[i] = data[i] /\ (Loading(i)' <=> Loading(i))
    PROVE  Contents(b)' = Contents(b)
<1>1. {i \in Hits(b) : ~Loading(i)}' = {i \in Hits(b) : ~Loading(i)}
  OBVIOUS
<1> DEFINE S == {i \in Hits(b) : ~Loading(i)}
<1>2. Contents(b) = IF S # {} THEN data[CHOOSE i : i \in S] ELSE disk[b]
  BY DEF Contents
<1>3. Contents(b)' = IF S # {} THEN data'[CHOOSE i : i \in S] ELSE disk'[b]
  BY <1>1 DEF Contents
<1> QED
  BY <1>2, <1>3

\* Steps that touch neither data, disk nor validity, and load nothing.
LEMMA QuietStep ==
    ASSUME IndInv, NEW t \in Thread,
           \/ Call(t) \/ ReadHole(t) \/ ReturnHole(t) \/ FindHit(t)
           \/ FindFree(t) \/ FindFull(t) \/ EvictSkip(t) \/ EvictDirty(t)
           \/ LockMiss(t) \/ LockHit(t) \/ CopyRead(t) \/ Mark(t) \/ Unpin(t),
           NEW b \in Block
    PROVE  Contents(b)' = Contents(b)
<1> TypeOK /\ LocalsOK
  BY DEF IndInv
<1> USE DEF Goto, entVars, Call, ReadHole, ReturnHole, FindHit, FindFree,
            FindFull, EvictSkip, EvictDirty, LockMiss, LockHit, CopyRead,
            Mark, Unpin
<1>1. disk' = disk /\ data' = data /\ valid' = valid /\ block' = block
  OBVIOUS
<1>2. Hits(b)' = Hits(b)
  BY <1>1 DEF Hits
<1>3. \A i \in Entry : Loading(i)' <=> Loading(i)
  BY NoneAssumption DEF Loading, TypeOK, LocalsOK, Pinning, Hits
<1> QED
  BY <1>1, <1>2, <1>3, ContentsKept DEF Hits

\* Dropping a clean victim or writing a dirty one back, taking an entry for
\* a sector and reading the sector in leave every sector's contents alone.
LEMMA MoveStep ==
    ASSUME IndInv, IndInv', NEW t \in Thread,
           EvictClean(t) \/ WriteBack(t) \/ Claim(t) \/ Load(t),
           NEW b \in Block
    PROVE  Contents(b)' = Contents(b)
<1> TypeOK /\ LocalsOK /\ RefCountExact /\ OneEntryPerBlock /\ EntryLockHeld
    /\ PinnedKeepsBlock /\ InvalidEntry /\ SearchOK /\ CleanMatchesDisk
    /\ LoadingAlone /\ OneEntryPerBlock'
  BY DEF IndInv
<1> USE NoneAssumption DEF TypeOK, Goto, entVars
<1>1. CASE EvictClean(t)
  <2> DEFINE v == NextHand
  <2>1. v \in Entry /\ Pinners(v) = {}
    BY <1>1, UnpinnedEntry, CacheSizeAssumption
       DEF EvictClean, Evictable, NextHand, Entry
  <2>2. \A i \in Entry : Loading(i)' <=> Loading(i)
    BY <1>1 DEF EvictClean, Loading
  <2>3. CASE valid[v] /\ block[v] = b
    <3>1. ~Loading(v) /\ ~Unmarked(v)
      BY <2>1 DEF Loading, Unmarked, Pinners, Pinning
    <3>2. Contents(b) = disk[b]
      BY <1>1, <2>1, <2>3, <3>1, ContentsCached
         DEF EvictClean, CleanMatchesDisk, Hits
    <3>3. Hits(b)' = {}
      BY <1>1, <2>1, <2>3 DEF EvictClean, Hits, OneEntryPerBlock
    <3>4. Contents(b)' = disk'[b]
      BY <3>3 DEF Contents
    <3> QED
      BY <1>1, <3>2, <3>4 DEF EvictClean
  <2>4. CASE ~(valid[v] /\ block[v] = b)
    <3>1. Hits(b)' = Hits(b)
      BY <1>1, <2>1, <2>4 DEF EvictClean, Hits
    <3> QED
      BY <1>1, <2>2, <3>1, ContentsKept DEF EvictClean, Hits
  <2> QED
    BY <2>3, <2>4
<1>2. CASE WriteBack(t)
  <2> DEFINE v == ent[t]
  <2>1. /\ v \in Entry /\ Pinners(v) = {} /\ valid[v]
        /\ block[v] \in Block
    BY <1>2 DEF WriteBack, LocalsOK, SearchOK, InvalidEntry
  <2>2. \A i \in Entry : Loading(i)' <=> Loading(i)
    BY <1>2 DEF WriteBack, Loading
  <2>3. CASE block[v] = b
    <3>1. ~Loading(v)
      BY <2>1 DEF Loading, Pinners, Pinning
    <3>2. Contents(b) = data[v]
      BY <2>1, <2>3, <3>1, ContentsCached DEF Hits
    <3>3. Hits(b)' = {}
      BY <1>2, <2>1, <2>3 DEF WriteBack, Hits, OneEntryPerBlock
    <3>4. Contents(b)' = disk'[b]
      BY <3>3 DEF Contents
    <3> QED
      BY <1>2, <2>1, <2>3, <3>2, <3>4 DEF WriteBack
  <2>4. CASE block[v] # b
    <3>1. Hits(b)' = Hits(b)
      BY <1>2, <2>1, <2>4 DEF WriteBack, Hits
    <3> QED
      BY <1>2, <2>1, <2>2, <2>4, <3>1, ContentsKept DEF WriteBack, Hits
  <2> QED
    BY <2>3, <2>4
<1>3. CASE Claim(t)
  <2> DEFINE v == ent[t]
  <2>1. v \in Entry /\ ~valid[v] /\ Hits(req[t].blk) = {}
    BY <1>3 DEF Claim, LocalsOK, SearchOK
  <2>2. \A i \in Entry \ {v} : Loading(i)' <=> Loading(i)
    BY <1>3 DEF Claim, Loading
  <2>3. CASE req[t].blk = b
    <3>1. Contents(b) = disk[b]
      BY <2>1, <2>3, ContentsOnDisk
    <3>2. \A i \in Hits(b)' : i = v
      BY <1>3, <2>1, <2>3 DEF Claim, Hits
    <3>3. \A i : i = v => Loading(i)'
      BY <1>3 DEF Claim, Loading
    <3>4. Contents(b)' = disk'[b]
      BY <3>2, <3>3 DEF Contents
    <3> QED
      BY <1>3, <3>1, <3>4 DEF Claim
  <2>4. CASE req[t].blk # b
    <3>1. Hits(b)' = Hits(b) /\ v \notin Hits(b)
      BY <1>3, <2>1, <2>4 DEF Claim, Hits
    <3> QED
      BY <1>3, <2>2, <3>1, ContentsKept DEF Claim, Hits
  <2> QED
    BY <2>3, <2>4
<1>4. CASE Load(t)
  <2> DEFINE v == ent[t]
  <2>1. v \in Entry /\ valid[v] /\ block[v] = req[t].blk
    BY <1>4 DEF Load, LocalsOK, PinnedKeepsBlock, Pinning
  <2>2. \A i \in Entry \ {v} : Loading(i)' <=> Loading(i)
    BY <1>4 DEF Load, Loading
  <2>3. Hits(b)' = Hits(b)
    BY <1>4 DEF Load, Hits
  <2>4. CASE req[t].blk = b
    <3>1. Loading(v)
      BY <1>4 DEF Load, Loading
    <3>2. \A i \in Hits(b) : i = v
      BY <2>1, <2>4 DEF Hits, OneEntryPerBlock
    <3>3. Contents(b) = disk[b]
      BY <3>1, <3>2, ContentsOnDisk
    <3>4. ~Loading(v)'
      BY <1>4, <2>1 DEF Load, Loading, LoadingAlone, Pinning
    <3>5. Contents(b)' = data'[v]
      <4>1. v \in Hits(b)'
        BY <2>1, <2>3, <2>4 DEF Hits
      <4>2. v' = v
        BY <1>4 DEF Load
      <4>3. \A i : i = v => ~Loading(i)'
        BY <3>4, <4>2 DEF Loading
      <4> HIDE DEF v
      <4> QED
        BY <2>1, <4>1, <4>3, ContentsCachedNext
    <3> QED
      BY <1>4, <2>1, <2>4, <3>3, <3>5 DEF Load
  <2>5. CASE req[t].blk # b
    BY <1>4, <2>1, <2>2, <2>3, <2>5, ContentsKept DEF Load, Hits
  <2> QED
    BY <2>4, <2>5
<1> QED
  BY <1>1, <1>2, <1>3, <1>4

\* At its memcpy a thread works on the current copy of its sector.
LEMMA CopyCurrent ==
    ASSUME IndInv, NEW t \in Thread, pc[t] = "copy"
    PROVE  /\ ent[t] \in Entry
           /\ req[t].blk \in Block
           /\ ent[t] \in Hits(req[t].blk)
           /\ ~Loading(ent[t])
           /\ Contents(req[t].blk) = data[ent[t]]
<1> TypeOK /\ LocalsOK /\ PinnedKeepsBlock /\ EntryLockHeld /\ LoadingAlone
    /\ OneEntryPerBlock
  BY DEF IndInv
<1>1. /\ ent[t] \in Entry /\ req[t].blk \in Block
      /\ ent[t] \in Hits(req[t].blk)
  BY DEF LocalsOK, PinnedKeepsBlock, Pinning, Hits
<1>2. ~Loading(ent[t])
  BY DEF Loading, LoadingAlone, Pinning
<1> QED
  BY <1>1, <1>2, ContentsCached

\* The memcpy of a write is the write.
LEMMA WriteStep ==
    ASSUME IndInv, IndInv', NEW t \in Thread, CopyWrite(t),
           NEW b \in Block
    PROVE  Contents(b)' =
             IF b = req[t].blk
             THEN CopyIn(Contents(b), req[t].ext, req[t].src)
             ELSE Contents(b)
<1> TypeOK /\ LocalsOK /\ OneEntryPerBlock /\ OneEntryPerBlock'
  BY DEF IndInv
<1> USE DEF TypeOK, Goto, CopyWrite
<1> DEFINE v == ent[t]
<1>1. /\ v \in Entry /\ req[t].blk \in Block /\ v \in Hits(req[t].blk)
      /\ ~Loading(v) /\ Contents(req[t].blk) = data[v]
  BY CopyCurrent
<1>2. Hits(b)' = Hits(b)
  BY DEF Hits
<1>3. \A i \in Entry : Loading(i)' <=> Loading(i)
  BY DEF Loading
<1>4. data'[v] = CopyIn(data[v], req[t].ext, req[t].src)
  BY <1>1
<1>5. CASE b = req[t].blk
  <2> HIDE DEF v
  <2>1. v \in Hits(b)' /\ \A i : i = v => ~Loading(i)'
    BY <1>1, <1>2, <1>3, <1>5
  <2>2. Contents(b)' = data'[v]
    BY <1>1, <2>1, ContentsCachedNext
  <2> QED
    BY <1>1, <1>4, <1>5, <2>2
<1>6. CASE b # req[t].blk
  <2>1. v \notin Hits(b)
    BY <1>1, <1>6 DEF Hits
  <2>2. \A i \in Hits(b) : data'[i] = data[i]
    BY <1>1, <2>1 DEF Hits
  <2> QED
    BY <1>2, <1>3, <1>6, <2>2, ContentsKept DEF Hits
<1> QED
  BY <1>5, <1>6

\* Every step of the cache is a step of the array of sectors, or none.
LEMMA StoreStep ==
    ASSUME IndInv, IndInv', NEW t \in Thread, Call(t) \/ Step(t)
    PROVE  [Store!StoreNext]_(Store!storeVars)
<1> DEFINE contents == [b \in Block |-> Contents(b)]
           phases == [u \in Thread |-> Phase(u)]
<1> TypeOK /\ LocalsOK
  BY DEF IndInv
<1>0. \A u \in Thread \ {t} : Phase(u)' = Phase(u)
  BY DEF Step, Call, ReadHole, ReturnHole, FindHit, FindFree, FindFull,
         EvictSkip, EvictClean, EvictDirty, WriteBack, Claim, LockMiss, Load,
         LockHit, CopyRead, CopyWrite, Mark, Unpin, Goto, Phase, TypeOK
<1>1. CASE Call(t)
  <2>1. contents' = contents
    BY <1>1, QuietStep
  <2>2. phases[t] = "idle" /\ phases' = [phases EXCEPT ![t] = "pending"]
    BY <1>0, <1>1 DEF Call, Goto, Phase, TypeOK
  <2>3. Store!Begin(t)
    BY <1>1, <2>1, <2>2
       DEF Call, Store!Begin, Store!ReadReq, Store!WriteReq, ReadReq, WriteReq
  <2> QED
    BY <2>3 DEF Store!StoreNext
<1>2. CASE ReadHole(t)
  <2>1. contents' = contents
    BY <1>2, QuietStep
  <2>2. phases[t] = "pending" /\ phases' = [phases EXCEPT ![t] = "done"]
    BY <1>0, <1>2 DEF ReadHole, Goto, Phase, TypeOK
  <2>3. req[t].kind = "read" /\ req[t].blk = UNALLOCATED
    BY <1>2 DEF ReadHole, Goto, LocalsOK, ReadReq
  <2>4. Store!ExecuteRead(t)
    BY <1>2, <2>1, <2>2, <2>3
       DEF ReadHole, Store!ExecuteRead, Store!CopyOut, CopyOut, Store!ZEROS,
           ZEROS
  <2> QED
    BY <2>4 DEF Store!StoreNext
<1>3. CASE CopyRead(t)
  <2>1. contents' = contents
    BY <1>3, QuietStep
  <2>2. phases[t] = "pending" /\ phases' = [phases EXCEPT ![t] = "done"]
    BY <1>0, <1>3 DEF CopyRead, Goto, Phase, TypeOK
  <2>3. req[t].blk \in Block /\ Contents(req[t].blk) = data[ent[t]]
    BY <1>3, CopyCurrent DEF CopyRead, Goto
  <2>4. Store!ExecuteRead(t)
    BY <1>3, <2>1, <2>2, <2>3, BlockAssumption
       DEF CopyRead, Store!ExecuteRead, Store!CopyOut, CopyOut
  <2> QED
    BY <2>4 DEF Store!StoreNext
<1>4. CASE CopyWrite(t)
  <2>1. phases[t] = "pending" /\ phases' = [phases EXCEPT ![t] = "done"]
    BY <1>0, <1>4 DEF CopyWrite, Goto, Phase, TypeOK
  <2>2. req[t].blk \in Block
    BY <1>4, CopyCurrent DEF CopyWrite, Goto
  <2>3. contents' = [contents EXCEPT ![req[t].blk] =
                       CopyIn(contents[req[t].blk], req[t].ext, req[t].src)]
    BY <1>4, <2>2, WriteStep
  <2>4. Store!ExecuteWrite(t)
    BY <1>4, <2>1, <2>2, <2>3
       DEF CopyWrite, Store!ExecuteWrite, Store!CopyIn, CopyIn
  <2> QED
    BY <2>4 DEF Store!StoreNext
<1>5. CASE ReturnHole(t) \/ Unpin(t)
  <2>1. contents' = contents
    BY <1>5, QuietStep
  <2>2. phases[t] = "done" /\ phases' = [phases EXCEPT ![t] = "idle"]
    BY <1>0, <1>5 DEF ReturnHole, Unpin, Goto, Phase, TypeOK
  <2>3. Store!End(t)
    BY <1>5, <2>1, <2>2
       DEF ReturnHole, Unpin, Store!End, Store!NoReq, NoReq, Store!NoBytes,
           NoBytes
  <2> QED
    BY <2>3 DEF Store!StoreNext
<1>6. CASE \/ FindHit(t) \/ FindFree(t) \/ FindFull(t) \/ EvictSkip(t)
           \/ EvictClean(t) \/ EvictDirty(t) \/ WriteBack(t) \/ Claim(t)
           \/ LockMiss(t) \/ Load(t) \/ LockHit(t) \/ Mark(t)
  <2>1. contents' = contents
    BY <1>6, QuietStep, MoveStep
  <2>2. Phase(t)' = Phase(t)
    BY <1>6
       DEF FindHit, FindFree, FindFull, EvictSkip, EvictClean, EvictDirty,
           WriteBack, Claim, LockMiss, Load, LockHit, Mark, Goto, Phase,
           TypeOK
  <2>3. phases' = phases /\ req' = req /\ buf' = buf
    BY <1>0, <1>6, <2>2
       DEF FindHit, FindFree, FindFull, EvictSkip, EvictClean, EvictDirty,
           WriteBack, Claim, LockMiss, Load, LockHit, Mark
  <2> QED
    BY <2>1, <2>3 DEF Store!storeVars
<1> QED
  BY <1>1, <1>2, <1>3, <1>4, <1>5, <1>6 DEF Step

\* The buffer cache implements the array of sectors: whatever the number of
\* threads, sectors and entries, each call takes effect at once, on the
\* latest contents of its sector.
THEOREM CacheRefinesStore == Spec => LinearizableStore
<1>1. Init => Store!StoreInit
  <2> SUFFICES ASSUME Init PROVE Store!StoreInit
    OBVIOUS
  <2>1. \A b \in Block : Contents(b) = disk[b]
    BY DEF Init, Contents, Hits
  <2>2. [b \in Block |-> Contents(b)] \in [Block -> Sector]
    BY <2>1 DEF Init
  <2>3. [u \in Thread |-> Phase(u)] = [u \in Thread |-> "idle"]
    BY DEF Init, Phase
  <2> QED
    BY <2>2, <2>3
       DEF Init, Store!StoreInit, Store!Sector, Sector, Store!NoReq, NoReq,
           Store!NoBytes, NoBytes
<1>2. IndInv /\ IndInv' /\ [Next]_vars => [Store!StoreNext]_(Store!storeVars)
  <2> SUFFICES ASSUME IndInv, IndInv', [Next]_vars
               PROVE  [Store!StoreNext]_(Store!storeVars)
    OBVIOUS
  <2>1. CASE Next
    BY <2>1, StoreStep DEF Next
  <2>2. CASE UNCHANGED vars
    BY <2>2
       DEF vars, entVars, Store!storeVars, Contents, Hits, Loading, Phase
  <2> QED
    BY <2>1, <2>2
<1> QED
  BY <1>1, <1>2, CacheInvariant, PTL DEF Spec, LinearizableStore, Store!StoreSpec

-----------------------------------------------------------------------------
(***************************************************************************)
(* Shutdown.  Until halt the cache has its invariant.  From a halt that    *)
(* finds every thread outside fs_cache.c on, and while none comes in,      *)
(* cache_flush works on a cache that stands still: a sector whose contents *)
(* are not on the disk has a dirty entry that the loop has yet to reach.   *)
(***************************************************************************)
DirtyFor(b) == {i \in Entry : valid[i] /\ dirty[i] /\ block[i] = b}

QuietFlush ==
    /\ disk \in [Block -> Sector] /\ owed \in [Block -> Sector]
    /\ flush_i \in 0 .. CACHE_SIZE
    /\ \A i \in Entry : valid[i] => block[i] \in Block
    /\ \A b \in Block : \A i \in DirtyFor(b) : owed[b] = data[i]
    /\ \A b \in Block : disk[b] = owed[b] \/ \E i \in DirtyFor(b) : flush_i <= i
    /\ stage = "write" =>
         flush_i \in Entry /\ flush_blk \in Block /\ flush_i \in DirtyFor(flush_blk)
    /\ stage = "off" => flush_i = CACHE_SIZE

ShutdownInv ==
    /\ stage \in {"up", "check", "write", "off"}
    /\ stage = "up" => IndInv
    /\ stage # "up" /\ calm => QuietFlush

\* With every thread outside fs_cache.c, a dirty entry has the contents of
\* its sector, and a sector without one is on the disk.
LEMMA HaltQuiet ==
    ASSUME IndInv, NEW t \in Thread, Halt(t)
    PROVE  ShutdownInv'
<1>1. stage' = "check" /\ flush_i' = 0 /\ owed' = [b \in Block |-> Contents(b)]
      /\ calm' = (\A u \in Thread : pc[u] = "idle") /\ UNCHANGED vars
  BY DEF Halt
<1>2. disk' = disk /\ valid' = valid /\ dirty' = dirty /\ block' = block /\ data' = data
  BY <1>1 DEF vars, entVars
<1> SUFFICES ASSUME calm' PROVE QuietFlush'
  BY <1>1 DEF ShutdownInv
<1>3. \A u \in Thread : pc[u] = "idle"
  BY <1>1
<1>4. \A i \in Entry : ~Loading(i) /\ ~Unmarked(i)
  BY <1>3 DEF Loading, Unmarked
<1>5. OneEntryPerBlock /\ CleanMatchesDisk /\ InvalidEntry /\ disk \in [Block -> Sector]
  BY DEF IndInv, TypeOK
<1>6. \A b \in Block, i \in Entry : i \in Hits(b) => Contents(b) = data[i]
  BY <1>4, <1>5, ContentsCached
<1>7. \A b \in Block : Hits(b) = {} => Contents(b) = disk[b]
  BY ContentsOnDisk
<1>8. \A b \in Block, i \in Entry : i \in Hits(b) <=> valid[i] /\ block[i] = b
  BY DEF Hits
<1>9. \A i \in Entry : valid[i] => block[i] \in Block
  BY <1>5 DEF InvalidEntry
<1>10. \A b \in Block : \A i \in DirtyFor(b) : Contents(b) = data[i]
  BY <1>6, <1>8 DEF DirtyFor
<1>11. \A b \in Block : DirtyFor(b) = {} => Contents(b) = disk[b]
  <2> SUFFICES ASSUME NEW b \in Block, DirtyFor(b) = {}
               PROVE  Contents(b) = disk[b]
    OBVIOUS
  <2>1. CASE Hits(b) = {}
    BY <1>7, <2>1
  <2>2. CASE Hits(b) # {}
    <3>1. PICK i \in Entry : i \in Hits(b)
      BY <2>2 DEF Hits
    <3>2. valid[i] /\ block[i] = b /\ ~dirty[i]
      BY <1>8, <3>1 DEF DirtyFor
    <3>3. data[i] = disk[b]
      BY <1>4, <1>5, <3>2 DEF CleanMatchesDisk
    <3> QED BY <1>6, <3>1, <3>3
  <2> QED BY <2>1, <2>2
<1>12. \A b \in Block : \A i \in DirtyFor(b) : 0 <= i
  BY DEF DirtyFor, Entry
<1>13. \A b \in Block : DirtyFor(b)' = DirtyFor(b)
  BY <1>2 DEF DirtyFor
<1>14. owed' \in [Block -> Sector] /\ \A b \in Block : owed'[b] = Contents(b)
  <2>1. \A b \in Block : Contents(b) \in Sector
    BY DEF Contents, Hits, IndInv, TypeOK
  <2> QED BY <1>1, <2>1
<1>15. 0 \in 0 .. CACHE_SIZE
  BY CacheSizeAssumption
<1> HIDE DEF DirtyFor
<1> QED
  BY <1>1, <1>2, <1>5, <1>9, <1>10, <1>11, <1>12, <1>13, <1>14, <1>15
     DEF QuietFlush

\* Each turn of cache_flush brings one more entry to the disk.
LEMMA FlushStep ==
    ASSUME QuietFlush, stage # "up",
           FlushSkip \/ FlushEntry \/ FlushWrite \/ PowerOff
    PROVE  QuietFlush'
<1> USE CacheSizeAssumption
<1>1. valid' = valid /\ dirty' = dirty /\ block' = block /\ data' = data /\ owed' = owed
  BY DEF FlushSkip, FlushEntry, FlushWrite, PowerOff, vars, entVars
<1>2. \A b : DirtyFor(b)' = DirtyFor(b)
  BY <1>1 DEF DirtyFor
<1>3. \A b, i : i \in DirtyFor(b) =>
         i \in Entry /\ i \in Int /\ valid[i] /\ dirty[i] /\ block[i] = b
  BY DEF DirtyFor, Entry
<1>4. \A i \in Int : flush_i <= i => i = flush_i \/ flush_i + 1 <= i
  BY DEF QuietFlush
<1>5. CASE FlushSkip
  <2>1. disk' = disk /\ stage' = "check" /\ flush_i' = flush_i + 1 /\ flush_i < CACHE_SIZE
        /\ ~ (valid[flush_i] /\ dirty[flush_i])
    BY <1>5 DEF FlushSkip, vars
  <2>2. flush_i' \in 0 .. CACHE_SIZE
    BY <2>1 DEF QuietFlush
  <2>3. \A b, i : i \in DirtyFor(b) /\ flush_i <= i => flush_i' <= i
    BY <1>3, <1>4, <2>1
  <2> QED
    BY <1>1, <1>2, <2>1, <2>2, <2>3 DEF QuietFlush
<1>6. CASE FlushEntry
  <2>1. disk' = disk /\ stage' = "write" /\ flush_i' = flush_i /\ flush_i < CACHE_SIZE
        /\ valid[flush_i] /\ dirty[flush_i] /\ flush_blk' = block[flush_i]
    BY <1>6 DEF FlushEntry, vars
  <2>2. flush_i \in Entry
    BY <2>1 DEF QuietFlush, Entry
  <2>3. flush_blk' \in Block /\ flush_i \in DirtyFor(flush_blk')
    BY <2>1, <2>2 DEF QuietFlush, DirtyFor
  <2> QED
    BY <1>1, <1>2, <2>1, <2>2, <2>3 DEF QuietFlush
<1>7. CASE FlushWrite
  <2>1. stage = "write" /\ stage' = "check" /\ flush_i' = flush_i + 1
        /\ disk' = [disk EXCEPT ![flush_blk] = data[flush_i]]
    BY <1>7 DEF FlushWrite
  <2>2. flush_i \in Entry /\ flush_blk \in Block /\ flush_i \in DirtyFor(flush_blk)
    BY <2>1 DEF QuietFlush
  <2>3. flush_i' \in 0 .. CACHE_SIZE
    BY <2>1, <2>2 DEF Entry
  <2>4. data[flush_i] = owed[flush_blk] /\ block[flush_i] = flush_blk
    BY <1>3, <2>2 DEF QuietFlush
  <2>5. ASSUME NEW b \in Block
        PROVE  disk'[b] = owed[b] \/ \E i \in DirtyFor(b) : flush_i' <= i
    <3>1. CASE b = flush_blk
      BY <2>1, <2>2, <2>4, <3>1 DEF QuietFlush
    <3>2. CASE b # flush_blk
      <4>1. disk'[b] = disk[b]
        BY <2>1, <3>2 DEF QuietFlush
      <4>2. \A i \in DirtyFor(b) : i # flush_i
        BY <1>3, <2>4, <3>2
      <4>3. \A i \in DirtyFor(b) : flush_i <= i => flush_i' <= i
        BY <1>3, <1>4, <2>1, <4>2
      <4> QED BY <4>1, <4>3 DEF QuietFlush
    <3> QED BY <3>1, <3>2
  <2>6. disk' \in [Block -> Sector]
    BY <2>1, <2>2, <2>4 DEF QuietFlush
  <2> QED
    BY <1>1, <1>2, <2>1, <2>3, <2>5, <2>6 DEF QuietFlush
<1>8. CASE PowerOff
  <2>1. disk' = disk /\ stage' = "off" /\ flush_i' = flush_i /\ flush_i = CACHE_SIZE
    BY <1>8 DEF PowerOff, vars
  <2> QED
    BY <1>1, <1>2, <2>1 DEF QuietFlush
<1> QED
  BY <1>5, <1>6, <1>7, <1>8

\* A halt while no other thread is in the file system loses nothing: when the
\* power goes off the disk has every sector as it was when halt was called,
\* for any number of sectors and of entries.
THEOREM ShutdownPersists == ShutdownSpec => []QuietShutdownPersists
<1>1. ShutdownInit => ShutdownInv
  BY InitInv DEF ShutdownInit, ShutdownInv
<1>2. ShutdownInv /\ [ShutdownNext]_shutdownVars => ShutdownInv'
  <2> SUFFICES ASSUME ShutdownInv, [ShutdownNext]_shutdownVars PROVE ShutdownInv'
    OBVIOUS
  <2>1. CASE \E t \in Thread : Halt(t)
    <3>1. PICK t \in Thread : Halt(t)
      BY <2>1
    <3>2. IndInv
      BY <3>1 DEF Halt, ShutdownInv
    <3> QED BY <3>1, <3>2, HaltQuiet
  <2>2. CASE FlushSkip \/ FlushEntry \/ FlushWrite \/ PowerOff
    <3>1. stage # "up" /\ stage' \in {"check", "write", "off"} /\ calm' = calm
      BY <2>2 DEF FlushSkip, FlushEntry, FlushWrite, PowerOff
    <3> QED BY <2>2, <3>1, FlushStep DEF ShutdownInv
  <2>3. CASE Others
    <3>1. stage' = stage /\ calm' = (calm /\ stage = "up") /\ Next
      BY <2>3 DEF Others, haltVars, Next
    <3>2. CASE stage = "up"
      BY <3>1, <3>2, InvStep DEF ShutdownInv
    <3>3. CASE stage # "up"
      BY <3>1, <3>3 DEF ShutdownInv
    <3> QED BY <3>2, <3>3
  <2>4. CASE UNCHANGED shutdownVars
    <3>1. stage' = stage /\ calm' = calm /\ UNCHANGED vars /\ UNCHANGED haltVars
      BY <2>4 DEF shutdownVars, haltVars
    <3>2. IndInv => IndInv'
      BY <3>1, InvStep
    <3>3. QuietFlush => QuietFlush'
      BY <3>1 DEF vars, entVars, haltVars, QuietFlush, DirtyFor
    <3> QED BY <3>1, <3>2, <3>3 DEF ShutdownInv
  <2> QED
    BY <2>1, <2>2, <2>3, <2>4 DEF ShutdownNext
<1>3. ShutdownInv => QuietShutdownPersists
  <2> SUFFICES ASSUME ShutdownInv, stage = "off", calm PROVE disk = owed
    BY DEF QuietShutdownPersists
  <2>1. QuietFlush
    BY DEF ShutdownInv
  <2>2. \A b \in Block : \A i \in DirtyFor(b) : ~ (CACHE_SIZE <= i)
    BY CacheSizeAssumption DEF DirtyFor, Entry
  <2>3. \A b \in Block : disk[b] = owed[b]
    BY <2>1, <2>2 DEF QuietFlush
  <2> QED BY <2>1, <2>3 DEF QuietFlush
<1> QED
  BY <1>1, <1>2, <1>3, PTL DEF ShutdownSpec
=============================================================================
