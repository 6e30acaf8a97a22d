------------------------------- MODULE StockFs ------------------------------
(***************************************************************************)
(* The file system of group_proj1: files of a fixed size in consecutive    *)
(* sectors (inode.c), the free map (free-map.c), one directory with room   *)
(* for a fixed number of entries (directory.c, filesys.c), and open files  *)
(* (file.c).                                                               *)
(*                                                                         *)
(* Calls come one at a time (nothing here takes a lock), but a crash may   *)
(* come between two writes to the disk: filesys_create and the last close  *)
(* of a removed file take several steps.  Blocks written before anything   *)
(* refers to them go with one step.  The sectors after the two inodes of   *)
(* the file system itself hold their data.                                 *)
(***************************************************************************)
EXTENDS Integers, FiniteSets

CONSTANTS
    Sectors,    \* size of the device
    BlockBytes, \* BLOCK_SECTOR_SIZE
    Slots,      \* entries of the directory
    FsName, FsSize, FsValue,   \* names, sizes in bytes, values of bytes
    FsFile,     \* struct files
    NoEntry,    \* a directory entry not in use
    MaxFsOps    \* bound on calls

FREE_MAP_SECTOR == 0
ROOT_DIR_SECTOR == 1
System == 0 .. 3        \* the two inodes and one sector of data for each

ASSUME SectorsAssumption == Sectors \in Nat /\ Sectors > 4 /\ Slots \in Nat \ {0}
ASSUME FsSizeAssumption == FsSize \subseteq Nat /\ BlockBytes \in Nat \ {0}
ASSUME NoEntryAssumption ==
    \A n \in FsName, s \in 0 .. Sectors - 1 : [name |-> n, sector |-> s] # NoEntry

VARIABLES
    free_map,   \* sectors in use, in memory
    disk_map,   \* and in the free map file
    entry,      \* by slot: [name, sector] or NoEntry, on disk
    inode_disk, \* by sector: [start, length] of the inode there
    block,      \* by sector: bytes of data
    open_inodes,\* by sector: open_cnt, removed, deny_write_cnt, data
    file,       \* by struct file: [sector, pos, deny], sector 0 when closed
    fscall,     \* the call in progress: [stage, name, size, sector,
                \* start, data]
    lost,       \* history: sectors in use that nothing refers to
    wrote,      \* history: by sector of an inode, the bytes its file has
    fsops

fsVars == <<free_map, disk_map, entry, inode_disk, block, open_inodes, file,
            fscall, lost, wrote, fsops>>

Device == 0 .. Sectors - 1
Idle == [stage |-> "none", name |-> NoEntry, size |-> 0, sector |-> 0, start |-> 0, data |-> {}]
Shut == [sector |-> 0, pos |-> 0, deny |-> FALSE]
NotOpen == [open_cnt |-> 0, removed |-> FALSE, deny |-> 0, start |-> 0, length |-> 0]

bytes_to_sectors(size) == (size + BlockBytes - 1) \div BlockBytes
Extent(ino) == ino.start .. ino.start + bytes_to_sectors(ino.length) - 1

\* do_format and free_map_open.
FsInit ==
    /\ free_map = System /\ disk_map = System
    /\ entry = [s \in 1 .. Slots |-> NoEntry]
    /\ inode_disk = [s \in Device |-> [start |-> 0, length |-> 0]]
    /\ block = [s \in Device |-> [b \in 0 .. BlockBytes - 1 |-> 0]]
    /\ open_inodes = [s \in Device |-> NotOpen]
    /\ file = [f \in FsFile |-> Shut]
    /\ fscall = Idle /\ lost = {}
    /\ wrote = [s \in Device |-> [b \in {} |-> 0]]
    /\ fsops = 0

\* The first run of cnt free sectors, or none: bitmap_scan_and_flip.
free_map_scan(cnt) ==
    LET fits == {s \in 0 .. Sectors - cnt : free_map \cap (s .. s + cnt - 1) = {}}
    IN  {s \in fits : \A t \in fits : s <= t}

\* free_map_allocate, free_map_release: the map is written out each time.
Map(m) == free_map' = m /\ disk_map' = m

Count == fsops < MaxFsOps /\ fsops' = fsops + 1

lookup(name) == {s \in 1 .. Slots : entry[s] # NoEntry /\ entry[s].name = name}
FreeSlots == {s \in 1 .. Slots : entry[s] = NoEntry}

-----------------------------------------------------------------------------
\* filesys_create: free_map_allocate for the inode.
CreateSector(name, size) ==
    /\ Count /\ fscall.stage = "none"
    /\ \E s \in free_map_scan(1) :
         /\ Map(free_map \cup {s})
         /\ fscall' = [Idle EXCEPT !.stage = "inode", !.name = name, !.size = size, !.sector = s]
    /\ UNCHANGED <<entry, inode_disk, block, open_inodes, file, lost, wrote>>

\* inode_create: free_map_allocate of the data's sectors (from sector 0 if
\* there are none).  Without room filesys_create releases the inode's sector.
CreateData ==
    LET cnt == bytes_to_sectors(fscall.size) IN
    /\ fscall.stage = "inode"
    /\ IF free_map_scan(cnt) = {}
       THEN Map(free_map \ {fscall.sector}) /\ fscall' = Idle
       ELSE \E start \in free_map_scan(cnt) :
            /\ Map(free_map \cup (start .. start + cnt - 1))
            /\ fscall' = [fscall EXCEPT !.stage = "write", !.start = start, !.data = start .. start + cnt - 1]
    /\ UNCHANGED <<entry, inode_disk, block, open_inodes, file, lost, wrote, fsops>>

\* inode_create: the inode and the zeros are written.
CreateInode ==
    /\ fscall.stage = "write"
    /\ inode_disk' = [inode_disk EXCEPT ![fscall.sector] = [start |-> fscall.start, length |-> fscall.size]]
    /\ block' = [s \in Device |-> IF s \in fscall.data THEN [b \in 0 .. BlockBytes - 1 |-> 0] ELSE block[s]]
    /\ fscall' = [fscall EXCEPT !.stage = "add"]
    /\ wrote' = [wrote EXCEPT ![fscall.sector] = [b \in 0 .. fscall.size - 1 |-> 0]]
    /\ UNCHANGED <<free_map, disk_map, entry, open_inodes, file, lost, fsops>>

\* Mutant of CreateAdd: the sector is released after success too.
CreateAddFree ==
    /\ fscall.stage = "add" /\ fscall' = Idle
    /\ \E s \in FreeSlots : entry' = [entry EXCEPT ![s] = [name |-> fscall.name, sector |-> fscall.sector]]
    /\ Map(free_map \ {fscall.sector})
    /\ UNCHANGED <<inode_disk, block, open_inodes, file, lost, wrote, fsops>>

\* dir_add: an existing name (or one too long, left out), or no slot (a write
\* at the end of the directory is cut off), fails; filesys_create then
\* releases the inode's sector, and the sectors of its data stay in use.
CreateAdd ==
    /\ fscall.stage = "add" /\ fscall' = Idle
    /\ IF lookup(fscall.name) # {} \/ FreeSlots = {}
       THEN /\ Map(free_map \ {fscall.sector})
            /\ lost' = lost \cup fscall.data
            /\ UNCHANGED entry
       ELSE /\ \E s \in FreeSlots : /\ \A t \in FreeSlots : s <= t
                                    /\ entry' = [entry EXCEPT ![s] = [name |-> fscall.name, sector |-> fscall.sector]]
            /\ UNCHANGED <<free_map, disk_map, lost>>
    /\ UNCHANGED <<inode_disk, block, open_inodes, file, wrote, fsops>>

\* inode_open of what is in a sector: the one struct there is for it.
inode_open(s) ==
    IF open_inodes[s].open_cnt > 0 THEN [open_inodes[s] EXCEPT !.open_cnt = @ + 1]
    ELSE [NotOpen EXCEPT !.open_cnt = 1, !.start = inode_disk[s].start, !.length = inode_disk[s].length]

\* filesys_open.
Open(f, name) ==
    /\ Count /\ fscall.stage = "none" /\ file[f] = Shut
    /\ \E e \in lookup(name) : LET s == entry[e].sector IN
         /\ open_inodes' = [open_inodes EXCEPT ![s] = inode_open(s)]
         /\ file' = [file EXCEPT ![f] = [sector |-> s, pos |-> 0, deny |-> FALSE]]
    /\ UNCHANGED <<free_map, disk_map, entry, inode_disk, block, fscall, lost, wrote>>

\* inode_close of a removed inode by the last opener: two free_map_release.
Freeing(s, ino) == fscall' = [Idle EXCEPT !.stage = "free", !.sector = s, !.data = Extent(ino)]
FreeInode ==
    /\ fscall.stage = "free" /\ fscall' = [fscall EXCEPT !.stage = "free data"]
    /\ Map(free_map \ {fscall.sector})
    /\ UNCHANGED <<entry, inode_disk, block, open_inodes, file, lost, wrote, fsops>>
FreeData ==
    /\ fscall.stage = "free data" /\ fscall' = Idle
    /\ Map(free_map \ fscall.data)
    /\ UNCHANGED <<entry, inode_disk, block, open_inodes, file, lost, wrote, fsops>>

\* file_close: file_allow_write, inode_close.
Close(f) ==
    LET s == file[f].sector
        ino == open_inodes[s]
    IN
    /\ Count /\ fscall.stage = "none" /\ file[f] # Shut
    /\ file' = [file EXCEPT ![f] = Shut]
    /\ open_inodes' = [open_inodes EXCEPT ![s] =
                         IF ino.open_cnt = 1 THEN NotOpen
                         ELSE [ino EXCEPT !.open_cnt = @ - 1, !.deny = @ - (IF file[f].deny THEN 1 ELSE 0)]]
    /\ IF ino.open_cnt = 1 /\ ino.removed THEN Freeing(s, ino) ELSE UNCHANGED fscall
    /\ UNCHANGED <<free_map, disk_map, entry, inode_disk, block, lost, wrote>>

\* filesys_remove: the entry goes, the inode is removed when it is closed,
\* which is at once if no file is open on it.
FsRemove(name) ==
    /\ Count /\ fscall.stage = "none"
    /\ \E e \in lookup(name) : LET s == entry[e].sector IN
         /\ entry' = [entry EXCEPT ![e] = NoEntry]
         /\ IF open_inodes[s].open_cnt > 0
            THEN open_inodes' = [open_inodes EXCEPT ![s].removed = TRUE] /\ UNCHANGED fscall
            ELSE Freeing(s, inode_disk[s]) /\ UNCHANGED open_inodes
    /\ UNCHANGED <<free_map, disk_map, inode_disk, block, file, lost, wrote>>

\* A sector after inode_write_at put n bytes at ofs, through a bounce buffer
\* that is read in first unless the chunk fills the sector.
Chunk(old, ofs, n, v) ==
    [b \in 0 .. BlockBytes - 1 |->
       IF b \in ofs .. ofs + n - 1 THEN v
       ELSE IF ofs > 0 \/ n < BlockBytes - ofs THEN old[b] ELSE 0]

\* file_write of size bytes v: inode_write_at, which stops at the end of the
\* file and does nothing while writes are denied.
Write(f, size, v) ==
    LET s == file[f].sector
        ino == open_inodes[s]
        from == file[f].pos
        to == IF from + size < ino.length THEN from + size ELSE ino.length
        part(k) == LET lo == k * BlockBytes
                       hi == lo + BlockBytes
                       a == IF from > lo THEN from ELSE lo
                       z == IF to < hi THEN to ELSE hi
                   IN  [ofs |-> a - lo, n |-> z - a]
    IN
    /\ Count /\ fscall.stage = "none" /\ file[f] # Shut
    /\ IF ino.deny > 0 \/ to <= from THEN UNCHANGED <<block, file, wrote>>
       ELSE /\ block' = [d \in Device |->
                 LET p == part(d - ino.start)
                 IN  IF d \in Extent(ino) /\ p.n > 0 THEN Chunk(block[d], p.ofs, p.n, v) ELSE block[d]]
            /\ file' = [file EXCEPT ![f].pos = to]
            /\ wrote' = [wrote EXCEPT ![s] = [b \in DOMAIN @ |-> IF b \in from .. to - 1 THEN v ELSE @[b]]]
    /\ UNCHANGED <<free_map, disk_map, entry, inode_disk, open_inodes, fscall, lost>>

\* file_seek, file_deny_write and file_allow_write.
Seek(f, pos) ==
    /\ Count /\ fscall.stage = "none" /\ file[f] # Shut
    /\ file' = [file EXCEPT ![f].pos = pos]
    /\ UNCHANGED <<free_map, disk_map, entry, inode_disk, block, open_inodes, fscall, lost, wrote>>
Deny(f, on) ==
    /\ Count /\ fscall.stage = "none" /\ file[f] # Shut /\ file[f].deny # on
    /\ file' = [file EXCEPT ![f].deny = on]
    /\ open_inodes' = [open_inodes EXCEPT ![file[f].sector].deny = @ + (IF on THEN 1 ELSE -1)]
    /\ UNCHANGED <<free_map, disk_map, entry, inode_disk, block, fscall, lost, wrote>>

\* The sectors in use that only the call in progress knows of.
InCall == IF fscall.stage = "none" THEN {}
          ELSE (IF fscall.stage = "free data" THEN {} ELSE {fscall.sector}) \cup fscall.data

\* Power fails, or the machine is shut down with files open: filesys_init
\* without format starts from the disk.
Crash ==
    /\ free_map' = disk_map /\ fscall' = Idle
    /\ open_inodes' = [s \in Device |-> NotOpen] /\ file' = [f \in FsFile |-> Shut]
    /\ lost' = lost \cup InCall
          \cup (UNION {{s} \cup Extent(open_inodes[s]) : s \in {t \in Device : open_inodes[t].removed}})
    /\ UNCHANGED <<disk_map, entry, inode_disk, block, wrote, fsops>>

FsNext ==
    \/ CreateData \/ CreateInode \/ CreateAdd \/ FreeInode \/ FreeData \/ Crash
    \/ \E n \in FsName : FsRemove(n) \/ \E z \in FsSize : CreateSector(n, z)
    \/ \E f \in FsFile :
         \/ Close(f) \/ \E n \in FsName : Open(f, n)
         \/ \E b \in BOOLEAN : Deny(f, b)
         \/ \E z \in FsSize \ {0} : Seek(f, z) \/ \E v \in FsValue : Write(f, z, v)

FsSpec == FsInit /\ [][FsNext]_fsVars

-----------------------------------------------------------------------------
\* The inodes that can still be reached: listed, open, or being created.
Listed == {entry[s].sector : s \in {t \in 1 .. Slots : entry[t] # NoEntry}}
Live == Listed \cup {s \in Device : open_inodes[s].open_cnt > 0}
          \cup (IF fscall.stage = "add" THEN {fscall.sector} ELSE {})

\* Wherever a crash comes, the free map on the disk has every sector of every
\* file that is left marked, and no sector serves two files: what is
\* allocated next never overwrites a file.
MapCovers ==
    /\ \A s \in Live : {s} \cup Extent(inode_disk[s]) \subseteq disk_map \ System
    /\ \A s, t \in Live : s # t =>
         ({s} \cup Extent(inode_disk[s])) \cap ({t} \cup Extent(inode_disk[t])) = {}
    /\ \A s \in Live : ({s} \cup Extent(inode_disk[s])) \cap lost = {}

\* Sectors are lost only by a crash within filesys_create or within the last
\* close of a removed file, by a crash while a removed file is open, and by
\* filesys_create when dir_add fails after the data was allocated (filesys.c
\* releases only the inode's sector).
Accounted ==
    free_map = System \cup lost \cup (UNION {{s} \cup Extent(inode_disk[s]) : s \in Live}) \cup InCall

\* Every byte a file has is the last one written there, or zero, whichever
\* struct file wrote it, across sector boundaries and restarts.
BytesKept ==
    \A s \in Live : \A b \in DOMAIN wrote[s] :
        block[inode_disk[s].start + (b \div BlockBytes)][b % BlockBytes] = wrote[s][b]

\* The assertions of inode_deny_write and inode_allow_write hold, and writes
\* are denied exactly as long as an open file asks for it.
DenyCounts ==
    \A s \in Device :
        /\ open_inodes[s].deny = Cardinality({f \in FsFile : file[f].sector = s /\ file[f].deny})
        /\ open_inodes[s].open_cnt = Cardinality({f \in FsFile : file[f] # Shut /\ file[f].sector = s})

\* The file system of group_proj1 with a crash between any two writes: what
\* the directory reaches is marked in the free map, sectors are lost only in
\* the ways named, bytes outside a write are kept, and writes are denied as
\* long as an opener asks for it.
StockSound == MapCovers /\ Accounted /\ BytesKept /\ DenyCounts
=============================================================================
