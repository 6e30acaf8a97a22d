-------------------------------- MODULE Load --------------------------------
(***************************************************************************)
(* Starting a user program: load of userprog/process.c (headers, segments, *)
(* stack page) and the part of start_process that pushes the arguments.    *)
(*                                                                         *)
(* Addresses are numbers modulo Wrap, of which those below PhysBase are    *)
(* the user's.  The byte of a file at offset o is FileByte(o); a word is   *)
(* stored as its value and three zero bytes.  An executable is a record    *)
(*   [ok, size, phdrs]: is its header right, length of the file, program   *)
(*   headers [type, offset, vaddr, filesz, memsz, w]                       *)
(* and a command line the lengths of its words, the program's name first.  *)
(***************************************************************************)
EXTENDS Integers, Sequences, FiniteSets

CONSTANTS
    Wrap,       \* 2^32
    PhysBase,   \* PHYS_BASE
    PGSIZE,
    UserPages,  \* pages in the user pool
    ArgvSize,   \* elements of the array argv in start_process
    Programs    \* pairs of an executable and a command line

ASSUME PageAssumption ==
    PGSIZE \in Nat \ {0} /\ PhysBase % PGSIZE = 0 /\ Wrap % PGSIZE = 0 /\ PhysBase < Wrap

VARIABLES
    stage,      \* "idle", "headers", "segment", "stack", "args", "ready",
                \* "failed", "panic" or "overrun"
    exe, words, \* the executable and the command line
    next,       \* number of the program header load looks at
    seg,        \* arguments of load_segment that change: where it is
    image,        \* memory of the process: by user page, its bytes
    writable,   \* pages the process may write
    esp

loadVars == <<stage, exe, words, next, seg, image, writable, esp>>

FileByte(o) == 1000 + o
ArgByte(i, j) == 500 + 20 * i + j
RetAddr == 314                      \* the fake return address, 0x314
pg_no(a) == a \div PGSIZE
pg_ofs(a) == a % PGSIZE
ROUND_UP(n) == (((n + PGSIZE - 1) % Wrap) \div PGSIZE) * PGSIZE
Lesser(a, b) == IF a < b THEN a ELSE b
is_user_vaddr(a) == a < PhysBase
StackPage == pg_no(PhysBase) - 1
NoSeg == [page |-> 0, pos |-> 0, read |-> 0, zero |-> 0, w |-> FALSE]

\* The byte at a user address; m with one more page.
ByteAt(a) == image[pg_no(a)][pg_ofs(a)]
WithPage(m, page, bytes) ==
    [p \in DOMAIN m \cup {page} |-> IF p = page THEN bytes ELSE m[p]]

LoadInit ==
    /\ stage = "idle" /\ exe = [ok |-> FALSE, size |-> 0, phdrs |-> <<>>]
    /\ words = <<>> /\ next = 1 /\ seg = NoSeg
    /\ image = [p \in {} |-> <<>>] /\ writable = {} /\ esp = 0

\* process_execute and load up to the program headers.
LoadHeader(e, line) ==
    /\ stage = "idle" /\ exe' = e /\ words' = line
    /\ stage' = IF e.ok THEN "headers" ELSE "failed"
    /\ UNCHANGED <<next, seg, image, writable, esp>>

validate_segment(p, size) ==
    /\ pg_ofs(p.offset) = pg_ofs(p.vaddr)
    /\ p.offset <= size /\ p.memsz >= p.filesz /\ p.memsz # 0
    /\ is_user_vaddr(p.vaddr) /\ is_user_vaddr((p.vaddr + p.memsz) % Wrap)
    /\ (p.vaddr + p.memsz) % Wrap >= p.vaddr
    /\ p.vaddr >= PGSIZE

\* Mutant of SegmentOf: the offset in the page is not counted.
SegmentShort(p) ==
    LET read == IF p.filesz > 0 THEN p.filesz ELSE 0
    IN  [page |-> pg_no(p.vaddr), pos |-> p.offset - pg_ofs(p.offset), read |-> read,
         zero |-> ROUND_UP(pg_ofs(p.vaddr) + p.memsz) - read, w |-> p.w]

\* What load asks load_segment for.
SegmentOf(p) ==
    LET read == IF p.filesz > 0 THEN pg_ofs(p.vaddr) + p.filesz ELSE 0
    IN  [page |-> pg_no(p.vaddr), pos |-> p.offset - pg_ofs(p.offset), read |-> read,
         zero |-> ROUND_UP(pg_ofs(p.vaddr) + p.memsz) - read, w |-> p.w]

\* One program header.  Its place was checked by file_length and file_read.
ProgramHeader ==
    /\ stage = "headers" /\ next <= Len(exe.phdrs)
    /\ next' = next + 1
    /\ LET p == exe.phdrs[next] IN
       \/ p.type = "skip" /\ UNCHANGED <<stage, seg>>
       \/ p.type = "refuse" /\ stage' = "failed" /\ UNCHANGED seg
       \/ /\ p.type = "load"
          /\ IF validate_segment(p, exe.size)
             THEN stage' = "segment" /\ seg' = SegmentOf(p)
             ELSE stage' = "failed" /\ UNCHANGED seg
    /\ UNCHANGED <<exe, words, image, writable, esp>>

\* One turn of the loop of load_segment: a page from the user pool, its
\* bytes, install_page.  The file's position moves with what is read.
LoadPage ==
    LET n == Lesser(seg.read, PGSIZE)
        bytes == [o \in 0 .. PGSIZE - 1 |-> IF o < n THEN FileByte(seg.pos + o) ELSE 0]
    IN
    /\ stage = "segment"
    /\ IF seg.read = 0 /\ seg.zero = 0
       THEN stage' = "headers" /\ UNCHANGED <<seg, image, writable>>
       ELSE IF ~is_user_vaddr(seg.page * PGSIZE)
       THEN stage' = "panic" /\ UNCHANGED <<seg, image, writable>>
       ELSE IF \/ Cardinality(DOMAIN image) = UserPages
               \/ seg.pos + n > exe.size /\ n > 0
               \/ seg.page \in DOMAIN image
       THEN stage' = "failed" /\ UNCHANGED <<seg, image, writable>>
       ELSE /\ image' = WithPage(image, seg.page, bytes)
            /\ writable' = IF seg.w THEN writable \cup {seg.page} ELSE writable
            /\ seg' = [seg EXCEPT !.page = @ + 1, !.pos = @ + n, !.read = @ - n,
                                  !.zero = @ - (PGSIZE - n)]
            /\ UNCHANGED stage
    /\ UNCHANGED <<exe, words, next, esp>>

\* setup_stack, after the last program header.
SetupStack ==
    /\ stage = "headers" /\ next > Len(exe.phdrs)
    /\ IF Cardinality(DOMAIN image) = UserPages \/ StackPage \in DOMAIN image
       THEN stage' = "failed" /\ UNCHANGED <<image, writable, esp>>
       ELSE /\ image' = WithPage(image, StackPage, [o \in 0 .. PGSIZE - 1 |-> 0])
            /\ writable' = writable \cup {StackPage}
            /\ esp' = PhysBase /\ stage' = "args"
    /\ UNCHANGED <<exe, words, next, seg>>

\* Where the i-th word of the command line is pushed: under the ones before.
ArgAt[i \in Nat] == IF i = 0 THEN PhysBase ELSE ArgAt[i - 1] - (words[i] + 1)

\* The stores of start_process, as pairs of an address and a byte: the
\* words, argv and the null after it, argv itself, argc, a return address.
Word(a, v) == {<<a, v>>, <<a + 1, 0>>, <<a + 2, 0>>, <<a + 3, 0>>}
ArgStores(argv) ==
    LET argc == Len(words) IN
    UNION {{<<ArgAt[i] + j - 1, IF j <= words[i] THEN ArgByte(i, j) ELSE 0>> :
              j \in 1 .. words[i] + 1} : i \in 1 .. argc}
    \cup UNION {Word(argv + 4 * (i - 1), ArgAt[i]) : i \in 1 .. argc}
    \cup Word(argv + 4 * argc, 0) \cup Word(argv - 4, argv)
    \cup Word(argv - 8, argc) \cup Word(argv - 12, RetAddr)

\* Where argv begins: word aligned, under the words.
ArgvAt == (ArgAt[Len(words)] \div 4) * 4 - 4 * (Len(words) + 1)

\* The rest of start_process.  argv has ArgvSize elements, one for the null.
\* A store to a page that is not there, or not writable, is a page fault in
\* the kernel.
PushArguments ==
    LET stores == ArgStores(ArgvAt) IN
    /\ stage = "args"
    /\ IF Len(words) >= ArgvSize
       THEN stage' = "overrun" /\ UNCHANGED <<image, esp>>
       ELSE IF \E s \in stores : pg_no(s[1]) \notin writable
       THEN stage' = "panic" /\ UNCHANGED <<image, esp>>
       ELSE /\ image' = [p \in DOMAIN image |-> [o \in 0 .. PGSIZE - 1 |->
                        IF \E s \in stores : s[1] = p * PGSIZE + o
                        THEN (CHOOSE s \in stores : s[1] = p * PGSIZE + o)[2]
                        ELSE image[p][o]]]
            /\ esp' = ArgvAt - 12 /\ stage' = "ready"
    /\ UNCHANGED <<exe, words, next, seg, writable>>

LoadNext ==
    \/ \E x \in Programs : LoadHeader(x[1], x[2])
    \/ ProgramHeader \/ LoadPage \/ SetupStack \/ PushArguments

-----------------------------------------------------------------------------
\* A program that runs has every byte of every segment where its header says,
\* from the file or zero, on pages with the right to write it asked for, and
\* nothing else: page 0 is not mapped and neither is a kernel address.
ImageRight ==
    stage = "ready" =>
        LET segs == {i \in DOMAIN exe.phdrs : exe.phdrs[i].type = "load"} IN
        /\ \A i \in segs : LET p == exe.phdrs[i] IN
             \A k \in 0 .. p.memsz - 1 :
               LET a == p.vaddr + k IN
               /\ pg_no(a) \in DOMAIN image
               /\ ByteAt(a) = IF k < p.filesz THEN FileByte(p.offset + k) ELSE 0
               /\ (pg_no(a) \in writable) = p.w
        /\ 0 \notin DOMAIN image
        /\ \A q \in DOMAIN image \ {StackPage} :
             is_user_vaddr(q * PGSIZE) /\ \E i \in segs :
               q \in pg_no(exe.phdrs[i].vaddr) ..
                     pg_no(exe.phdrs[i].vaddr + exe.phdrs[i].memsz - 1)

\* What the 80x86 calling convention and main promise each other: at esp a
\* return address, argc and argv, whose elements point to the words of the
\* command line in order, each ended by a null byte, and argv[argc] is null.
ArgumentsRight ==
    stage = "ready" =>
        LET argc == Len(words)
            argv == ByteAt(esp + 8)
            arg(i) == ByteAt(argv + 4 * i)
        IN /\ esp % 4 = 0 /\ ByteAt(esp) = RetAddr /\ ByteAt(esp + 4) = argc
           /\ arg(argc) = 0
           /\ \A i \in 1 .. argc :
                /\ \A j \in 1 .. words[i] : ByteAt(arg(i - 1) + j - 1) = ArgByte(i, j)
                /\ ByteAt(arg(i - 1) + words[i]) = 0

\* Whatever the headers say, and however long the command line is that one
\* stack page can hold, loading never reaches a failing assertion of
\* pagedir.c or a page fault in the kernel.
NoLoadPanic == stage # "panic"

\* load: memory holds the image the headers describe, the stack the arguments,
\* and no assertion fails whatever the headers say.
LoadRight == ImageRight /\ ArgumentsRight /\ NoLoadPanic
=============================================================================
