------------------------------- MODULE Inode --------------------------------
(***************************************************************************)
(* The free map, inodes and their blocks, after filesys/free-map.c and     *)
(* filesys/inode.c of "group projects".  The state of the disk and of the  *)
(* open inodes is one record fs, which every operator takes and returns:   *)
(*   fs.map    the sectors marked in the free map                          *)
(*   fs.disk   by sector, what was last written there through the cache:   *)
(*             a block of data, a block of pointers, or an on-disk inode   *)
(*   fs.open   by sector, the struct inode on open_inodes (cnt = 0: none)  *)
(*   fs.panic  why the kernel has stopped: "" while it runs, "assert" for  *)
(*             a failed ASSERT, "stack" for a recursion that does not end, *)
(*             "null" for a null dereference                               *)
(* Sizes count units, BlockUnits to a block: a unit is a directory entry   *)
(* of a directory and a byte of a file.  An entry does not straddle two    *)
(* blocks here (20 does not divide 512 in the code); inode_write_at        *)
(* extends before it writes, so a straddling entry is written whole too.   *)
(* The lock of an inode is held for the whole of an operation; operations  *)
(* are taken one at a time.                                                *)
(***************************************************************************)
EXTENDS Integers, FiniteSets, Sequences, SequencesExt

CONSTANTS
    NSectors,     \* size of the file system device
    BlockUnits,   \* BLOCK_SECTOR_SIZE
    Direct,       \* DIRECT_POINTER_COUNT
    PerBlock      \* pointers in a block of pointers (128)

ASSUME InodeSizes ==
    /\ NSectors \in Nat /\ NSectors > 3
    /\ BlockUnits \in Nat \ {0} /\ Direct \in Nat \ {0} /\ PerBlock \in Nat \ {0}

Sector == 0 .. NSectors - 1
FREE_MAP_SECTOR == 0
ROOT_DIR_SECTOR == 1
UNALLOCATED == -1
Pointer == Sector \cup {UNALLOCATED}
DirectUnits == Direct * BlockUnits
MaxUnits == DirectUnits + PerBlock * PerBlock * BlockUnits

\* A directory entry; a byte of a file has the same shape.
Entry(name, sector) == [used |-> TRUE, name |-> name, sector |-> sector]
Zero == [used |-> FALSE, name |-> "", sector |-> 0]
Byte == Entry("byte", 0)

NoPointers == [i \in 0 .. PerBlock - 1 |-> UNALLOCATED]
DataBlock(units) == [kind |-> "data", units |-> units]
ZEROS_BLOCK == DataBlock([i \in 0 .. BlockUnits - 1 |-> Zero])
PointerBlock(ptrs) == [kind |-> "ptrs", ptrs |-> ptrs]
InodeBlock(ino) == [kind |-> "inode", ino |-> ino]

Closed == [cnt |-> 0, removed |-> FALSE, deny |-> 0, ino |-> ZEROS_BLOCK]

\* block_sector_t inode_fetch_block: the sector that holds a position.
inode_fetch_block(fs, ino, pos) ==
    LET rest == pos - DirectUnits
        span == PerBlock * BlockUnits
        indirect == fs.disk[ino.dbl].ptrs[rest \div span]
    IN  IF pos < DirectUnits THEN ino.ptr[pos \div BlockUnits]
        ELSE IF pos >= MaxUnits \/ ino.dbl = UNALLOCATED THEN UNALLOCATED
        ELSE IF indirect = UNALLOCATED THEN UNALLOCATED
        ELSE fs.disk[indirect].ptrs[(rest % span) \div BlockUnits]

-----------------------------------------------------------------------------
\* bitmap_scan_and_flip from sector 0, for one sector.
FreeSectors(fs) == Sector \ fs.map
FirstFree(fs) == CHOOSE s \in FreeSectors(fs) : \A t \in FreeSectors(fs) : s <= t

Panic(fs, why) == [fs EXCEPT !.panic = IF @ = "" THEN why ELSE @]
cache_write(fs, s, block) == [fs EXCEPT !.disk[s] = block]

\* free_map_allocate(1, &sector) and the cache_write that fills the block:
\* the caller tests FreeSectors first.
free_map_allocate(fs, block) ==
    [fs EXCEPT !.map = @ \cup {FirstFree(fs)}, !.disk[FirstFree(fs)] = block]

\* free_map_release(sector, 1), with its ASSERT (bitmap_all (...)).
free_map_release(fs, s) ==
    IF s \in fs.map THEN [fs EXCEPT !.map = @ \ {s}] ELSE Panic(fs, "assert")

(***************************************************************************)
(* inode_extend.  A pass over pointers carries r = [ok, fs, ino, dib, ib]: *)
(* dib and ib are doubly_indirect_buffer and indirect_buffer, which reach  *)
(* the disk only at the end of a pass that did not fail.                   *)
(***************************************************************************)

\* Mutant of ExtendDirect: the pointer to a released block stays.
ExtendDirectStale(r, i, size) ==
    LET p == r.ino.ptr[i]
    IN  IF ~r.ok THEN r
        ELSE IF size <= BlockUnits * i /\ p # UNALLOCATED
             THEN [r EXCEPT !.fs = free_map_release(@, p)]
        ELSE IF size > BlockUnits * i /\ p = UNALLOCATED
             THEN IF FreeSectors(r.fs) = {} THEN [r EXCEPT !.ok = FALSE]
                  ELSE [r EXCEPT !.fs = free_map_allocate(@, ZEROS_BLOCK),
                                 !.ino.ptr[i] = FirstFree(r.fs)]
        ELSE r

\* One direct pointer: released beyond the size, allocated below it.
ExtendDirect(r, i, size) ==
    LET p == r.ino.ptr[i]
    IN  IF ~r.ok THEN r
        ELSE IF size <= BlockUnits * i /\ p # UNALLOCATED
             THEN [r EXCEPT !.fs = free_map_release(@, p), !.ino.ptr[i] = UNALLOCATED]
        ELSE IF size > BlockUnits * i /\ p = UNALLOCATED
             THEN IF FreeSectors(r.fs) = {} THEN [r EXCEPT !.ok = FALSE]
                  ELSE [r EXCEPT !.fs = free_map_allocate(@, ZEROS_BLOCK),
                                 !.ino.ptr[i] = FirstFree(r.fs)]
        ELSE r

\* One pointer of indirect block i.
ExtendIndirect(r, i, j, size) ==
    LET p == r.ib[j]
        from == (i * PerBlock + j) * BlockUnits
    IN  IF ~r.ok THEN r
        ELSE IF size <= from /\ p # UNALLOCATED
             THEN [r EXCEPT !.fs = free_map_release(@, p), !.ib[j] = UNALLOCATED]
        ELSE IF size > from /\ p = UNALLOCATED
             THEN IF FreeSectors(r.fs) = {} THEN [r EXCEPT !.ok = FALSE]
                  ELSE [r EXCEPT !.fs = free_map_allocate(@, ZEROS_BLOCK),
                                 !.ib[j] = FirstFree(r.fs)]
        ELSE r

Indices(n) == [k \in 1 .. n |-> k - 1]

\* One pointer of the doubly indirect block: the indirect block is released
\* or allocated,
IndirectBlock(r, i, size) ==
    LET from == i * PerBlock * BlockUnits
        p == r.dib[i]
    IN  IF size <= from /\ p # UNALLOCATED
        THEN [r EXCEPT !.fs = free_map_release(@, p), !.dib[i] = UNALLOCATED]
        ELSE IF size > from /\ p = UNALLOCATED
        THEN IF FreeSectors(r.fs) = {} THEN [r EXCEPT !.ok = FALSE]
             ELSE [r EXCEPT !.fs = free_map_allocate(@, PointerBlock(NoPointers)),
                            !.dib[i] = FirstFree(r.fs)]
        ELSE r

\* then its pointers, and it is written back.  A missing indirect block ends
\* the loop (break).
StoreIndirect(r, i) ==
    IF ~r.ok THEN r
    ELSE [r EXCEPT !.fs = cache_write(@, r.dib[i], PointerBlock(r.ib))]
FillIndirect(r, i, size) ==
    IF ~r.ok THEN r
    ELSE IF r.dib[i] = UNALLOCATED THEN [r EXCEPT !.broke = TRUE]
    ELSE StoreIndirect(FoldLeft(LAMBDA s, j : ExtendIndirect(s, i, j, size),
                                [r EXCEPT !.ib = r.fs.disk[r.dib[i]].ptrs],
                                Indices(PerBlock)), i)
ExtendDoubly(r, i, size) ==
    IF ~r.ok \/ r.broke THEN r ELSE FillIndirect(IndirectBlock(r, i, size), i, size)

\* The part of inode_extend beyond the direct pointers.
DoublyBlock(r) ==
    IF r.ino.dbl # UNALLOCATED THEN [r EXCEPT !.dib = r.fs.disk[r.ino.dbl].ptrs]
    ELSE IF FreeSectors(r.fs) = {} THEN [r EXCEPT !.ok = FALSE]
    ELSE [r EXCEPT !.fs = free_map_allocate(@, PointerBlock(NoPointers)),
                   !.ino.dbl = FirstFree(r.fs), !.dib = NoPointers]
StoreDoubly(r) ==
    IF ~r.ok THEN r
    ELSE [r EXCEPT !.fs = cache_write(@, r.ino.dbl, PointerBlock(r.dib))]
ExtendBeyond(r, size) ==
    IF ~r.ok \/ (r.ino.dbl = UNALLOCATED /\ size <= DirectUnits) THEN r
    ELSE StoreDoubly(FoldLeft(LAMBDA s, i : ExtendDoubly(s, i, size - DirectUnits),
                              DoublyBlock(r), Indices(PerBlock)))

\* The new length, written with the inode.
StoreInode(fs, s, ino) == [ok |-> TRUE, fs |-> cache_write(fs, s, InodeBlock(ino)), ino |-> ino]
Extended(r, s, size) ==
    IF r.ok THEN StoreInode(r.fs, s, [r.ino EXCEPT !.length = size])
    ELSE [ok |-> FALSE, fs |-> r.fs, ino |-> r.ino]

\* One call of inode_extend up to the point where an allocation fails.
ExtendOnce(fs, s, ino, size) ==
    LET r0 == [ok |-> TRUE, broke |-> FALSE, fs |-> fs, ino |-> ino,
               dib |-> NoPointers, ib |-> NoPointers]
    IN  Extended(ExtendBeyond(FoldLeft(LAMBDA r, i : ExtendDirect(r, i, size),
                                       r0, Indices(Direct)), size), s, size)

\* bool inode_extend: on failure it calls itself with the length the inode
\* has, to give back what was allocated.  When that fails as well, so does
\* every call it makes in turn: the recursion never ends.
Unwound(back) ==
    [ok |-> FALSE, ino |-> back.ino,
     fs |-> IF back.ok THEN back.fs ELSE Panic(back.fs, "stack")]
RollBack(try, s, length) ==
    IF try.ok THEN try ELSE Unwound(ExtendOnce(try.fs, s, try.ino, length))
inode_extend(fs, s, ino, size) == RollBack(ExtendOnce(fs, s, ino, size), s, ino.length)

-----------------------------------------------------------------------------
\* inode_create: a dummy inode of the wanted length, written before any
\* block is allocated, then extended; the result of inode_extend is ignored.
NewInode(length) ==
    [ptr |-> [i \in 0 .. Direct - 1 |-> UNALLOCATED], dbl |-> UNALLOCATED,
     is_dir |-> TRUE, length |-> length, children |-> 0]

inode_create(fs, s, length) ==
    inode_extend(cache_write(fs, s, InodeBlock(NewInode(length))),
                 s, NewInode(length), length).fs

\* inode_open and inode_reopen.
IsOpen(fs, s) == fs.open[s].cnt > 0
inode_open(fs, s) ==
    IF IsOpen(fs, s) THEN [fs EXCEPT !.open[s].cnt = @ + 1]
    ELSE [fs EXCEPT !.open[s] = [cnt |-> 1, removed |-> FALSE, deny |-> 0,
                                 ino |-> fs.disk[s].ino]]

\* inode_close: the last close of a removed inode frees its sector and its
\* blocks; the inode is written to its sector in any case.
WrittenBack(r, s) == [cache_write(r.fs, s, InodeBlock(r.ino)) EXCEPT !.open[s] = Closed]
inode_close(fs, s) ==
    LET o == fs.open[s]
    IN  IF o.cnt > 1 THEN [fs EXCEPT !.open[s].cnt = @ - 1]
        ELSE WrittenBack(IF o.removed
                         THEN inode_extend(free_map_release(fs, s), s, o.ino, 0)
                         ELSE [fs |-> fs, ino |-> o.ino], s)

inode_remove(fs, s) == [fs EXCEPT !.open[s].removed = TRUE]

\* The data of an inode in memory when it is open, on disk when it is not.
Data(fs, s) == IF IsOpen(fs, s) THEN fs.open[s].ino ELSE fs.disk[s].ino

\* inode_read_at for one unit: the unit at a position below the length.
ReadUnit(fs, ino, pos) ==
    fs.disk[inode_fetch_block(fs, ino, pos)].units[pos % BlockUnits]
Readable(fs, ino, pos) ==
    inode_fetch_block(fs, ino, pos) # UNALLOCATED /\ pos < ino.length

\* The number of units inode_read_at returns.
inode_read_at(fs, s, size, offset) ==
    LET ino == Data(fs, s)
        short == {n \in 0 .. size - 1 : ~Readable(fs, ino, offset + n)}
    IN  IF short = {} THEN size ELSE CHOOSE n \in short : \A m \in short : n <= m

\* The loop of inode_write_at, over blocks that are all there.
WriteUnits(fs, ino, unit, size, offset) ==
    [fs EXCEPT !.disk = [t \in Sector |->
        LET here == {p \in offset .. offset + size - 1 : inode_fetch_block(fs, ino, p) = t}
        IN  IF here = {} THEN @[t]
            ELSE DataBlock([k \in 0 .. BlockUnits - 1 |->
                     IF \E p \in here : p % BlockUnits = k THEN unit ELSE @[t].units[k]])]]

\* What follows when inode_write_at has tried to extend the file.
WriteGrown(fs, ext, s, unit, size, offset) ==
    IF ext.ok THEN [n |-> size, fs |-> WriteUnits(fs, ext.ino, unit, size, offset)]
    ELSE [n |-> 0, fs |-> fs]
Grown(ext, s, unit, size, offset) ==
    WriteGrown([ext.fs EXCEPT !.open[s].ino = ext.ino], ext, s, unit, size, offset)

\* Mutant of inode_write_at: deny_write_cnt is not looked at.
inode_write_atAnyway(fs, s, unit, size, offset) ==
    LET ino == fs.open[s].ino
    IN  IF offset + size <= ino.length
          THEN [n |-> size, fs |-> WriteUnits(fs, ino, unit, size, offset)]
        ELSE Grown(inode_extend(fs, s, ino, offset + size), s, unit, size, offset)

\* inode_write_at of size copies of a unit: how many it writes, and fs.
inode_write_at(fs, s, unit, size, offset) ==
    LET o == fs.open[s]
    IN  IF o.deny > 0 THEN [n |-> 0, fs |-> fs]
        ELSE IF offset + size <= o.ino.length
          THEN [n |-> size, fs |-> WriteUnits(fs, o.ino, unit, size, offset)]
        ELSE Grown(inode_extend(fs, s, o.ino, offset + size), s, unit, size, offset)

\* inode_deny_write and inode_allow_write, with their ASSERTs.
inode_deny_write(fs, s) ==
    IF fs.open[s].deny < fs.open[s].cnt THEN [fs EXCEPT !.open[s].deny = @ + 1]
    ELSE Panic(fs, "assert")
inode_allow_write(fs, s) ==
    IF fs.open[s].deny \in 1 .. fs.open[s].cnt THEN [fs EXCEPT !.open[s].deny = @ - 1]
    ELSE Panic(fs, "assert")
=============================================================================
