----------------------------- MODULE FileSystem -----------------------------
(***************************************************************************)
(* Directories, path names and the system calls of one process on files,   *)
(* after filesys/directory.c, filesys/filesys.c, filesys/file.c, the       *)
(* descriptor table of threads/thread.c and userprog/syscall.c of "group   *)
(* projects", on the inodes of module Inode.                               *)
(*                                                                         *)
(* A path is [abs |-> it starts with a slash, parts |-> its components].   *)
(* The component LongName is longer than NAME_MAX.  A handler is one       *)
(* action: it runs without another process in the file system.             *)
(***************************************************************************)
EXTENDS Inode

CONSTANTS
    Path,         \* the paths handed to the system calls
    Size,         \* initial sizes handed to create
    FdLimit,      \* entries of fd_map (128)
    LongName,     \* a component longer than NAME_MAX
    MaxCalls      \* bound: calls that take a path name

VARIABLES
    fs,           \* see module Inode
    cwd,          \* sector of the current directory; UNALLOCATED: null
    fd_map, next_fd,
    exe,          \* the file the process was loaded from
    orphaned,     \* history: a directory was removed with entries in it
    calls         \* the calls counted against MaxCalls

vars == <<fs, cwd, fd_map, next_fd, exe, orphaned, calls>>

Fd == 2 .. FdLimit - 1
NoFile == [sector |-> UNALLOCATED, pos |-> 0, deny |-> FALSE]
DotNames == {".", ".."}

-----------------------------------------------------------------------------
\* static bool lookup: the positions of the entries with a name, and the
\* sector the first of them leads to.
Named(u, name) == u.used /\ u.name = name
Matches(f, d, name) ==
    LET ino == Data(f, d)
    IN  {p \in 0 .. ino.length - 1 :
           Readable(f, ino, p) /\ Named(ReadUnit(f, ino, p), name)}
Lowest(S) == CHOOSE p \in S : \A q \in S : p <= q
SectorAt(f, d, S) == IF S = {} THEN UNALLOCATED ELSE ReadUnit(f, Data(f, d), Lowest(S)).sector
lookup(f, d, name) == SectorAt(f, d, Matches(f, d, name))

\* dir_lookup's inode_open.  An entry that leads to a sector that is no
\* longer an inode leaves nothing to model.
OpenEntry(f, s) == IF s \in f.map THEN inode_open(f, s) ELSE Panic(f, "stray")

\* The first slot that is not in use, or the end of the directory.
FreeSlot(f, d) ==
    LET ino == Data(f, d)
        unused == {p \in 0 .. ino.length - 1 : ~ReadUnit(f, ino, p).used}
    IN  IF unused = {} THEN ino.length ELSE Lowest(unused)

\* inode_open, inode_add_child, inode_close at the end of dir_add: the
\* counter is the one of the inode that is added, not of the directory.
AddChild(f, s) ==
    inode_close([inode_open(f, s) EXCEPT !.open[s].ino.children = @ + 1], s)
Added(w, s) ==
    IF w.n # 1 THEN [ok |-> FALSE, fs |-> w.fs] ELSE [ok |-> TRUE, fs |-> AddChild(w.fs, s)]

\* Mutant of dir_add: the name may be in use.
dir_addTwice(f, d, name, s) ==
    IF name = "" THEN [ok |-> FALSE, fs |-> f]
    ELSE Added(inode_write_at(f, d, Entry(name, s), 1, FreeSlot(f, d)), s)

\* bool dir_add, in a directory d that is open.
dir_add(f, d, name, s) ==
    IF name = "" \/ lookup(f, d, name) # UNALLOCATED THEN [ok |-> FALSE, fs |-> f]
    ELSE Added(inode_write_at(f, d, Entry(name, s), 1, FreeSlot(f, d)), s)

\* bool dir_remove, in a directory d that is open: the entry is found, its
\* inode opened, and unless that has children the entry is erased and the
\* inode marked.
EraseEntry(f, d, name, s) ==
    inode_write_at(f, d, [Entry(name, s) EXCEPT !.used = FALSE], 1, Lowest(Matches(f, d, name))).fs
RemoveOpened(f, d, name, s) ==
    IF f.panic # "" THEN [ok |-> FALSE, fs |-> f]
    ELSE IF f.open[s].ino.children > 2 THEN [ok |-> FALSE, fs |-> inode_close(f, s)]
    ELSE [ok |-> TRUE,
          fs |-> inode_close([inode_remove(EraseEntry(f, d, name, s), s) EXCEPT
                                !.open[d].ino.children = @ - 1], s)]
RemoveFound(f, d, name, s) ==
    IF s = UNALLOCATED THEN [ok |-> FALSE, fs |-> f]
    ELSE RemoveOpened(OpenEntry(f, s), d, name, s)
dir_remove(f, d, name) == RemoveFound(f, d, name, lookup(f, d, name))

-----------------------------------------------------------------------------
(***************************************************************************)
(* output_follow_file_path.  w.cur is cur_inode, which w keeps open;       *)
(* w.temp a file found on the way (temp_inode), open as well; w.left       *)
(* counts the components that were never taken.                            *)
(***************************************************************************)
WalkInto(w, name, s, f) ==
    IF f.panic # "" THEN [w EXCEPT !.found = FALSE, !.fs = f, !.left = 1]
    ELSE IF f.open[s].ino.is_dir
         THEN [w EXCEPT !.fs = inode_close(f, w.cur), !.cur = s,
                        !.is_dir = TRUE, !.part = name]
    ELSE [w EXCEPT !.fs = f, !.temp = s, !.found = FALSE,
                   !.is_dir = FALSE, !.part = name]
WalkTo(w, name, s) ==
    IF s = UNALLOCATED THEN [w EXCEPT !.found = FALSE, !.is_dir = FALSE, !.part = name]
    ELSE WalkInto(w, name, s, OpenEntry(w.fs, s))
WalkPart(w, name) ==
    IF ~w.found THEN [w EXCEPT !.left = @ + 1]
    ELSE IF name = LongName
         THEN [w EXCEPT !.found = FALSE, !.is_dir = FALSE, !.left = 1]
    ELSE WalkTo(w, name, lookup(w.fs, w.cur, name))

\* junk is what the caller's part buffer holds when no component is copied.
Walk(path, junk) ==
    LET start == IF path.abs THEN ROOT_DIR_SECTOR ELSE cwd
        w0 == [fs |-> inode_open(fs, start), cur |-> start, temp |-> UNALLOCATED,
               found |-> TRUE, is_dir |-> TRUE, part |-> junk, left |-> 0]
    IN  FoldLeft(WalkPart, w0, path.parts)

Followed(w) ==
    IF w.left > 0 THEN [ok |-> FALSE, fs |-> w.fs]
    ELSE [ok |-> TRUE, dir |-> w.cur, part |-> w.part, is_dir |-> w.is_dir,
          fs |-> IF w.temp = UNALLOCATED THEN w.fs ELSE inode_close(w.fs, w.temp)]
output_follow_file_path(path, junk) == Followed(Walk(path, junk))

\* inode_reopen of a null cwd.
NullCwd(path) == ~path.abs /\ cwd = UNALLOCATED

Stopped == fs.panic # "" \/ orphaned
Call == ~Stopped /\ calls < MaxCalls /\ calls' = calls + 1

-----------------------------------------------------------------------------
\* filesys_create.  A failure releases the inode's sector alone.
PlainFile(added, s) ==
    IF added.ok THEN inode_close([inode_open(added.fs, s) EXCEPT !.open[s].ino.is_dir = FALSE], s)
    ELSE free_map_release(added.fs, s)
CreateIn(w, s, made) ==
    IF made.panic # "" THEN made
    ELSE inode_close(PlainFile(dir_add(made, w.dir, w.part, s), s), w.dir)
NewSector(f, s, size) == inode_create(free_map_allocate(f, f.disk[s]), s, size)
Create(path, size) ==
    /\ Call /\ ~NullCwd(path)
    /\ \E w \in {output_follow_file_path(path, "")} :
         fs' = IF ~w.ok \/ w.is_dir THEN w.fs
               ELSE IF FreeSectors(w.fs) = {} THEN inode_close(w.fs, w.dir)
               ELSE CreateIn(w, FirstFree(w.fs), NewSector(w.fs, FirstFree(w.fs), size))
    /\ UNCHANGED <<cwd, fd_map, next_fd, exe, orphaned>>

\* mkdir.  The results of the last two dir_add are not looked at.
WithDots(f, d, s) ==
    dir_add(dir_add([inode_open(f, s) EXCEPT !.open[s].ino.is_dir = TRUE], s, ".", s).fs,
            s, "..", d).fs
MkdirIn(w, s, added) ==
    IF added.ok THEN inode_close(inode_close(WithDots(added.fs, w.dir, s), w.dir), s)
    ELSE inode_close(added.fs, w.dir)
Mkdir(path) ==
    /\ Call
    /\ IF NullCwd(path) THEN fs' = Panic(fs, "null")
       ELSE \E junk \in IF path.parts = <<>> THEN {"", "a"} ELSE {""} :
            \E w \in {output_follow_file_path(path, junk)} :
              fs' = IF ~w.ok \/ FreeSectors(w.fs) = {} THEN w.fs
                    ELSE MkdirIn(w, FirstFree(w.fs),
                                 dir_add(NewSector(w.fs, FirstFree(w.fs), 0), w.dir,
                                         w.part, FirstFree(w.fs)))
    /\ UNCHANGED <<cwd, fd_map, next_fd, exe, orphaned>>

\* chdir.
Chdir(path) ==
    /\ Call
    /\ IF NullCwd(path) THEN fs' = Panic(fs, "null") /\ UNCHANGED cwd
       ELSE \E w \in {output_follow_file_path(path, "")} :
            IF ~w.ok \/ ~w.is_dir THEN fs' = w.fs /\ UNCHANGED cwd
            ELSE \* the reopen and dir_close cancel out
                 /\ fs' = IF cwd = UNALLOCATED THEN w.fs ELSE inode_close(w.fs, cwd)
                 /\ cwd' = w.dir
    /\ UNCHANGED <<fd_map, next_fd, exe, orphaned>>

\* The directory the last component is looked up in, by filesys_open and
\* filesys_remove: w.dir, or its parent when w.dir is the directory named.
ParentAt(w, s) ==
    IF s = UNALLOCATED THEN [dir |-> UNALLOCATED, fs |-> inode_close(w.fs, w.dir)]
    ELSE [dir |-> s, fs |-> inode_close(OpenEntry(w.fs, s), w.dir)]
Parent(w) == ParentAt(w, lookup(w.fs, w.dir, ".."))
InDir(w) == [dir |-> w.dir, fs |-> w.fs]

\* filesys_open: fs with the file's inode opened, and its sector.
OpenFound(p, s) ==
    IF s = UNALLOCATED THEN [sector |-> UNALLOCATED, fs |-> inode_close(p.fs, p.dir)]
    ELSE [sector |-> s, fs |-> inode_close(OpenEntry(p.fs, s), p.dir)]
OpenIn(p, name) ==
    IF p.dir = UNALLOCATED \/ p.fs.panic # "" THEN [sector |-> UNALLOCATED, fs |-> p.fs]
    ELSE OpenFound(p, lookup(p.fs, p.dir, name))
OpenFollowed(w) ==
    IF ~w.ok THEN [sector |-> UNALLOCATED, fs |-> w.fs]
    ELSE OpenIn(IF w.is_dir /\ w.part # "." THEN Parent(w) ELSE InDir(w), w.part)
filesys_open(path) ==
    IF path.abs /\ path.parts = <<>>
      THEN [sector |-> ROOT_DIR_SECTOR, fs |-> inode_open(fs, ROOT_DIR_SECTOR)]
    ELSE IF NullCwd(path) THEN [sector |-> UNALLOCATED, fs |-> fs]
    ELSE OpenFollowed(output_follow_file_path(path, ""))

\* Mutant of thread_assign_fd: it starts again at 2.
thread_assign_fdWrap == IF next_fd < FdLimit THEN next_fd ELSE 2

\* thread_assign_fd: next_fd counts up to the end of fd_map; after that the
\* first entry that is null is taken, and FdLimit when none is.
thread_assign_fd ==
    LET holes == {d \in Fd : fd_map[d] = NoFile}
    IN  IF next_fd < FdLimit THEN next_fd
        ELSE IF holes = {} THEN FdLimit ELSE Lowest(holes)

\* open.
Open(path) ==
    /\ Call
    /\ \E o \in {filesys_open(path)}, d \in {thread_assign_fd} :
         IF o.sector = UNALLOCATED THEN fs' = o.fs /\ UNCHANGED <<fd_map, next_fd>>
         ELSE IF d = FdLimit     \* fd_map[128] = f overwrites next_fd
           THEN fs' = Panic(o.fs, "overrun") /\ UNCHANGED <<fd_map, next_fd>>
         ELSE /\ fs' = o.fs
              /\ fd_map' = [fd_map EXCEPT ![d] = [NoFile EXCEPT !.sector = o.sector]]
              /\ next_fd' = IF next_fd < FdLimit THEN next_fd + 1 ELSE next_fd
    /\ UNCHANGED <<cwd, exe, orphaned>>

\* file_close, of a file record.
file_close(f, file) ==
    inode_close(IF file.deny THEN inode_allow_write(f, file.sector) ELSE f, file.sector)

\* close.
Close(d) ==
    /\ ~Stopped /\ fd_map[d] # NoFile
    /\ fs' = file_close(fs, fd_map[d])
    /\ fd_map' = [fd_map EXCEPT ![d] = NoFile]
    /\ UNCHANGED <<cwd, next_fd, exe, orphaned, calls>>

\* read: file_read moves the position by what it read.
Read(d, n) ==
    /\ ~Stopped /\ fd_map[d] # NoFile
    /\ fd_map' = [fd_map EXCEPT ![d].pos =
                     @ + inode_read_at(fs, fd_map[d].sector, n, @)]
    /\ UNCHANGED <<fs, cwd, next_fd, exe, orphaned, calls>>

\* write: file_write refuses a directory.
Write(d, n) ==
    /\ ~Stopped /\ fd_map[d] # NoFile
    /\ ~fs.open[fd_map[d].sector].ino.is_dir
    /\ fd_map[d].pos + n <= MaxUnits
    /\ \E w \in {inode_write_at(fs, fd_map[d].sector, Byte, n, fd_map[d].pos)} :
         /\ fs' = w.fs
         /\ fd_map' = [fd_map EXCEPT ![d].pos = @ + w.n]
    /\ UNCHANGED <<cwd, next_fd, exe, orphaned, calls>>

\* seek.
Seek(d, pos) ==
    /\ ~Stopped /\ fd_map[d] # NoFile
    /\ fd_map' = [fd_map EXCEPT ![d].pos = pos]
    /\ UNCHANGED <<fs, cwd, next_fd, exe, orphaned, calls>>

\* readdir: the next entry in use other than "." and "..".
Readdir(d) ==
    LET ino == Data(fs, fd_map[d].sector)
        names == {p \in fd_map[d].pos .. ino.length - 1 :
                    LET u == ReadUnit(fs, ino, p) IN u.used /\ u.name \notin DotNames}
    IN  /\ ~Stopped /\ fd_map[d] # NoFile /\ ino.is_dir
        /\ names # {}
        /\ fd_map' = [fd_map EXCEPT ![d].pos = Lowest(names) + 1]
        /\ UNCHANGED <<fs, cwd, next_fd, exe, orphaned, calls>>

\* filesys_remove.  Removing the current directory forgets cwd, whether or
\* not dir_remove then succeeds.  A directory with entries of its own that
\* goes is noted.
Populated(f, s) ==
    Data(f, s).is_dir /\ \E q \in 0 .. Data(f, s).length - 1 :
        LET u == ReadUnit(f, Data(f, s), q) IN u.used /\ u.name \notin DotNames
UnlinkIn(p, name) ==
    IF p.dir = UNALLOCATED \/ p.fs.panic # "" THEN fs' = p.fs /\ UNCHANGED orphaned
    ELSE \E r \in {dir_remove(p.fs, p.dir, name)} :
         /\ fs' = inode_close(r.fs, p.dir)
         /\ orphaned' = (r.ok /\ Populated(p.fs, lookup(p.fs, p.dir, name)))
UnlinkFollowed(w) ==
    IF ~w.ok THEN fs' = w.fs /\ UNCHANGED <<cwd, orphaned>>
    ELSE IF w.is_dir /\ w.dir = ROOT_DIR_SECTOR
      THEN fs' = inode_close(w.fs, w.dir) /\ UNCHANGED <<cwd, orphaned>>
    ELSE IF w.is_dir /\ cwd = UNALLOCATED
      THEN fs' = Panic(w.fs, "null") /\ UNCHANGED <<cwd, orphaned>>
    ELSE /\ cwd' = IF w.is_dir /\ w.dir = cwd THEN UNALLOCATED ELSE cwd
         /\ \E p \in {IF w.is_dir THEN Parent(w) ELSE InDir(w)} : UnlinkIn(p, w.part)
Unlink(path) ==
    /\ Call
    /\ IF NullCwd(path) THEN fs' = Panic(fs, "null") /\ UNCHANGED <<cwd, orphaned>>
       ELSE \E w \in {output_follow_file_path(path, "")} : UnlinkFollowed(w)
    /\ UNCHANGED <<fd_map, next_fd, exe>>

\* load of a program: the file stays open and denied to writers until the
\* process exits.
Load(path) ==
    /\ Call /\ exe = NoFile
    /\ \E o \in {filesys_open(path)} :
         /\ o.sector # UNALLOCATED /\ ~o.fs.open[o.sector].ino.is_dir
         /\ fs' = inode_deny_write(o.fs, o.sector)
         /\ exe' = [NoFile EXCEPT !.sector = o.sector, !.deny = TRUE]
    /\ UNCHANGED <<cwd, fd_map, next_fd, orphaned>>

\* process_exit closes the executable.
Unload ==
    /\ ~Stopped /\ exe # NoFile
    /\ fs' = file_close(fs, exe)
    /\ exe' = NoFile
    /\ UNCHANGED <<cwd, fd_map, next_fd, orphaned, calls>>

-----------------------------------------------------------------------------
NoOpen == [s \in Sector |-> Closed]
Blank == [map |-> {FREE_MAP_SECTOR, ROOT_DIR_SECTOR},
          disk |-> [s \in Sector |-> ZEROS_BLOCK], open |-> NoOpen, panic |-> ""]

\* do_format: free_map_create gives the free map file a block of its own,
\* besides the one inode_create allocated; the root has no entries.
MapWritten(f) ==
    cache_write(free_map_allocate(f, ZEROS_BLOCK), FREE_MAP_SECTOR,
                InodeBlock([f.disk[FREE_MAP_SECTOR].ino EXCEPT
                              !.ptr[0] = FirstFree(f), !.length = BlockUnits]))
Formatted ==
    inode_create(MapWritten(inode_create(Blank, FREE_MAP_SECTOR, 1)), ROOT_DIR_SECTOR, 0)

\* filesys_init without formatting: the free map file and the root are open.
Started(f) ==
    inode_open(inode_open([f EXCEPT !.open = NoOpen], FREE_MAP_SECTOR), ROOT_DIR_SECTOR)

\* A halt with files open, filesys_done, and the next boot.  What an open
\* inode holds in memory only (its children) is lost.
Reboot ==
    /\ ~Stopped
    /\ fs' = Started(fs)
    /\ cwd' = ROOT_DIR_SECTOR
    /\ fd_map' = [d \in Fd |-> NoFile] /\ next_fd' = 2 /\ exe' = NoFile
    /\ UNCHANGED <<orphaned, calls>>

Init ==
    /\ fs = Started(Formatted)
    /\ cwd = ROOT_DIR_SECTOR
    /\ fd_map = [d \in Fd |-> NoFile] /\ next_fd = 2 /\ exe = NoFile
    /\ orphaned = FALSE /\ calls = 0

Next ==
    \/ \E path \in Path, n \in Size : Create(path, n)
    \/ \E path \in Path :
         Mkdir(path) \/ Chdir(path) \/ Open(path) \/ Unlink(path) \/ Load(path)
    \/ \E d \in Fd : Close(d) \/ Readdir(d)
    \/ \E d \in Fd, n \in Size : Read(d, n) \/ Write(d, n) \/ Seek(d, n)
    \/ Unload \/ Reboot

Spec == Init /\ [][Next]_vars

-----------------------------------------------------------------------------
\* The contents of an inode, read through its pointers.
Contents(f, s) ==
    LET ino == Data(f, s)
    IN  [p \in 0 .. ino.length - 1 |-> ReadUnit(f, ino, p)]

\* The entries of a directory other than "." and "..".
Entries(f, d) ==
    LET ino == Data(f, d)
    IN  {u \in {ReadUnit(f, ino, p) : p \in 0 .. ino.length - 1} :
           u.used /\ u.name \notin DotNames}

\* The inodes named in the tree, level by level from the root.
Below(f, S) ==
    UNION {{u.sector : u \in Entries(f, d)} : d \in {s \in S : Data(f, s).is_dir}}
Deeper(f, t) ==
    LET all == t.all \cup t.level IN [all |-> all, level |-> Below(f, t.level) \ all]
Tree(f) ==
    FoldLeft(LAMBDA t, i : Deeper(f, t), [all |-> {}, level |-> {ROOT_DIR_SECTOR}],
             Indices(NSectors)).all
Live(f) == {FREE_MAP_SECTOR} \cup Tree(f) \cup {s \in Sector : IsOpen(f, s)}

\* The sectors an inode occupies, one tuple per pointer that leads there.
PointersIn(f, s) == {i \in DOMAIN f.disk[s].ptrs : f.disk[s].ptrs[i] # UNALLOCATED}
Occupied(f, s) ==
    LET ino == Data(f, s)
        indirect == IF ino.dbl = UNALLOCATED THEN {}
                    ELSE {<<"ind", i, f.disk[ino.dbl].ptrs[i]>> : i \in PointersIn(f, ino.dbl)}
    IN  {<<"ino", 0, s>>}
        \cup {<<"ptr", i, ino.ptr[i]>> : i \in {j \in DOMAIN ino.ptr : ino.ptr[j] # UNALLOCATED}}
        \cup (IF ino.dbl = UNALLOCATED THEN {} ELSE {<<"dbl", 0, ino.dbl>>})
        \cup indirect
        \cup UNION {{<<"data", b[2] * PerBlock + i, f.disk[b[3]].ptrs[i]>> :
                        i \in PointersIn(f, b[3])} : b \in indirect}
Claims(f) == UNION {{<<s, o>> : o \in Occupied(f, s)} : s \in Live(f)}

Running == fs.panic = "" /\ ~orphaned

\* Types of the disk, of the open inodes and of the descriptor table.
TypeOK ==
    /\ fs.map \subseteq Sector
    /\ \A s \in Sector : fs.open[s].cnt \in 0 .. 2 * MaxCalls + 1
    /\ cwd \in Pointer /\ next_fd \in 2 .. FdLimit
    /\ fs.panic \in {"", "assert", "stack", "null", "overrun", "stray"}
    /\ \A d \in Fd : fd_map[d].sector \in Pointer /\ fd_map[d].pos \in Nat

\* A sector belongs to one inode and one place in it, and is marked in the
\* free map as long as the inode is in the tree or open: neither the way
\* inode_extend rolls back nor the last close of a removed file hands out
\* a sector that is in use.
SectorsExclusive ==
    Running =>
      LET claims == Claims(fs)
          taken == {c[2][3] : c \in claims}
      IN  taken \subseteq fs.map /\ Cardinality(taken) = Cardinality(claims)

\* Every position below the length of an inode has a block.
LengthCovered ==
    Running => \A s \in Live(fs) : \A p \in 0 .. Data(fs, s).length - 1 :
                  inode_fetch_block(fs, Data(fs, s), p) # UNALLOCATED

\* The tree is a tree: the entries of a directory have different names, and
\* two entries anywhere lead to two inodes, none of them removed.
TreeSound ==
    Running =>
      LET all == UNION {{<<d, u>> : u \in Entries(fs, d)} :
                          d \in {s \in Tree(fs) : Data(fs, s).is_dir}}
      IN  \A a, b \in all :
            /\ ~fs.open[a[2].sector].removed
            /\ a[2].sector = b[2].sector \/ (a[1] = b[1] /\ a[2].name = b[2].name) => a = b

Users(s) == {d \in Fd : fd_map[d].sector = s}

\* open_cnt covers every descriptor, the executable and cwd, so none of
\* them is left with an inode that was freed; deny_write_cnt counts the
\* executable and nothing else.
RefsCovered ==
    Running => \A s \in Sector :
      /\ fs.open[s].cnt >= Cardinality(Users(s)) + (IF exe.sector = s THEN 1 ELSE 0)
                            + (IF cwd = s THEN 1 ELSE 0)
      /\ fs.open[s].deny = IF exe.sector = s THEN 1 ELSE 0

\* No ASSERT of free_map_release, inode_deny_write or inode_allow_write
\* fails, and no entry is followed to a sector that was freed.
NoDoubleFree == fs.panic \notin {"assert", "stray"}

\* A step changes the contents of at most one plain file, one that a
\* descriptor is open on and that is not being executed, and only from the
\* descriptor's position on; what lies between the old end and that
\* position is zero.  A failed extension changes nothing.
WritesInPlace ==
    [][fs'.disk # fs.disk => \A s \in Live(fs) \cap Live(fs') :
         LET old == Contents(fs, s)
             new == Contents(fs', s)
         IN  (~Data(fs, s).is_dir /\ fs'.panic = "" /\ old # new) =>
               \E d \in Fd :
                 /\ fd_map[d].sector = s /\ exe.sector # s
                 /\ \A p \in DOMAIN old : p < fd_map[d].pos => new[p] = old[p]
                 /\ \A p \in DOMAIN new :
                      p >= Cardinality(DOMAIN old) /\ p < fd_map[d].pos => new[p] = Zero
      ]_vars

\* An open never takes over a descriptor that is in use.
DescriptorsKept ==
    [][\A d \in Fd : fd_map[d] # NoFile /\ fd_map'[d] # NoFile =>
                       fd_map'[d].sector = fd_map[d].sector]_vars

\* Disk, open inodes and descriptors agree after any sequence of calls, also
\* on a full disk and after a restart: a sector has one owner and is marked, a
\* file has blocks up to its length, the tree is a tree, and no inode is freed
\* under something that refers to it.
FilesSound ==
    /\ TypeOK
    /\ SectorsExclusive
    /\ LengthCovered
    /\ TreeSound
    /\ RefsCovered
    /\ NoDoubleFree

\* A call changes only what it is asked to: contents of a file change from the
\* position of a descriptor on and never while it is being executed, and a
\* descriptor in use is not given to another file.
CallsInPlace == WritesInPlace /\ DescriptorsKept

-----------------------------------------------------------------------------
\* The paths of the configuration reach every branch of
\* output_follow_file_path: names at the root and one level down, relative
\* and absolute, "." and "..", and a name too long.
PathName(abs, parts) == [abs |-> abs, parts |-> parts]
SomePaths ==
    {PathName(TRUE, <<>>), PathName(TRUE, <<"a">>), PathName(FALSE, <<"b">>),
     PathName(TRUE, <<"a", "b">>), PathName(FALSE, <<".">>), PathName(FALSE, <<"..">>),
     PathName(FALSE, <<LongName>>)}
=============================================================================
