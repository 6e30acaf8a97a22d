------------------------------ MODULE MCParts -------------------------------
(***************************************************************************)
(* The parts of the system that keep their state to themselves, checked   *)
(* together: a behaviour is one of one part, the others stay where they   *)
(* start.  The definitions give the constants of the parts small values.  *)
(***************************************************************************)
EXTENDS List, HashTable, Bitmap, Strings, Format, Numbers, Keyboard,
        Vga, Archive, PageTable, Load, SyscallArgs, Shell, StockFs,
        MmAlloc, HttpReply, Interrupts

VARIABLE part

partsVars ==
    <<part, listVars, hashVars, bmVars, strVars, fmtVars, ustarVars,
      numVars, kbdVars, vgaVars, arcVars, ptVars, loadVars, sysVars,
      tokVars, shVars, fsVars, mmVars, replyVars, intrVars>>

Parts ==
    {"list", "hash", "bitmap", "string", "stdio", "ustar", "numbers",
     "kbd", "vga", "fsutil", "pagedir", "load", "syscall", "tokenizer",
     "shell", "stockfs", "mm_alloc", "reply", "interrupt"}

\* A part whose first state is a choice makes it only when it is its turn.
Init ==
    /\ part \in Parts
    /\ ListInit
    /\ HashInit
    /\ BmInit
    /\ StrInit
    /\ FmtInit
    /\ UstarInit
    /\ NumInit
    /\ KbdInit
    /\ VgaInit /\ (part # "vga" => cursor = 0)
    /\ ArcInit /\ (part # "fsutil" => \A s \in DOMAIN scratch : scratch[s] = Junk)
    /\ PtInit /\ (part # "pagedir" => running = CHOOSE s \in Space : TRUE)
    /\ LoadInit
    /\ SysInit
    /\ TokInit
    /\ ShInit
    /\ FsInit
    /\ MmInit
    /\ ReplyInit /\ (part # "reply" => request = <<>> /\ path = CHOOSE p \in [kind : {"missing"}, size : FileSizes] : TRUE)
    /\ IntrInit

Parked ==
    /\ UNCHANGED part
    /\ part # "list" => UNCHANGED listVars
    /\ part # "hash" => UNCHANGED hashVars
    /\ part # "bitmap" => UNCHANGED bmVars
    /\ part # "string" => UNCHANGED strVars
    /\ part # "stdio" => UNCHANGED fmtVars
    /\ part # "ustar" => UNCHANGED ustarVars
    /\ part # "numbers" => UNCHANGED numVars
    /\ part # "kbd" => UNCHANGED kbdVars
    /\ part # "vga" => UNCHANGED vgaVars
    /\ part # "fsutil" => UNCHANGED arcVars
    /\ part # "pagedir" => UNCHANGED ptVars
    /\ part # "load" => UNCHANGED loadVars
    /\ part # "syscall" => UNCHANGED sysVars
    /\ part # "tokenizer" => UNCHANGED tokVars
    /\ part # "shell" => UNCHANGED shVars
    /\ part # "stockfs" => UNCHANGED fsVars
    /\ part # "mm_alloc" => UNCHANGED mmVars
    /\ part # "reply" => UNCHANGED replyVars
    /\ part # "interrupt" => UNCHANGED intrVars

Next ==
    \/ part = "list" /\ ListNext /\ Parked
    \/ part = "hash" /\ HashNext /\ Parked
    \/ part = "bitmap" /\ BmNext /\ Parked
    \/ part = "string" /\ StrNext /\ Parked
    \/ part = "stdio" /\ FmtNext /\ Parked
    \/ part = "ustar" /\ UstarNext /\ Parked
    \/ part = "numbers" /\ NumNext /\ Parked
    \/ part = "kbd" /\ KbdNext /\ Parked
    \/ part = "vga" /\ VgaNext /\ Parked
    \/ part = "fsutil" /\ ArcNext /\ Parked
    \/ part = "pagedir" /\ PtNext /\ Parked
    \/ part = "load" /\ LoadNext /\ Parked
    \/ part = "syscall" /\ SysNext /\ Parked
    \/ part = "tokenizer" /\ TokNext /\ Parked
    \/ part = "shell" /\ ShNext /\ Parked
    \/ part = "stockfs" /\ FsNext /\ Parked
    \/ part = "mm_alloc" /\ MmNext /\ Parked
    \/ part = "reply" /\ ReplyNext /\ Parked
    \/ part = "interrupt" /\ IntrNext /\ Parked

Spec == Init /\ [][Next]_partsVars

-----------------------------------------------------------------------------
\* List.
MCKey == <<1, 2, 2, 3, 1>>

\* HashTable.
MCHash == <<5, 0, 2, 7>>

\* Format.
MCPrec == {-2, -1, 0, 2}
MCValues == {-12, 0, 7, 1000}
MCWidths == {-6, 0, 6}

\* Archive: headers.
MCNames == {<<12>>, <<12, 16>>, <<11, 12>>, <<10, 10, 11, 11, 12>>, <<10, 11, 10, 10>>, <<10, 10, 12>>}
MCForeign == {<<12, 16>>, <<10, 11, 10, 10>>}

\* Numbers.
MCMinInt == -128

\* Archive: file actions.
Pad(a) == [k \in 1 .. ScratchSize |-> IF k <= Len(a) THEN a[k] ELSE Junk]
MCArchives == {
  Pad(<<Header("f", 2), Data("f", 1), Data("f", 2), Header("g", 1), Data("g", 1), Zeros, Zeros>>),
  Pad(<<DirHeader("d"), Header("g", 0), Zeros, Zeros>>),
  Pad(<<Header("f", 1), Data("f", 1), Header("f", 1), Data("f", 1), Zeros, Zeros>>),
  Pad(<<Header("g", 1), Data("g", 1), Zeros>>),
  Pad(<<>>)}

\* Load.
Phdr(t, o, v, f, m, w) ==
    [type |-> t, offset |-> o, vaddr |-> v, filesz |-> f, memsz |-> m, w |-> w]
Exe(size, phdrs) == [ok |-> TRUE, size |-> size, phdrs |-> phdrs]
\* One segment at every kind of place; two segments that may share a page;
\* the headers load skips and refuses; command lines up to the limit.
One == {Exe(size, <<Phdr("load", o, v, f, m, TRUE)>>) :
          size \in {40, 80}, o \in {0, 8, 30, 32, 40, 120}, v \in {8, 32, 40, 62, 94, 96, 128},
          f \in {0, 1, 8, 30}, m \in {0, 1, 8, 34, 88, 200}}
Two == {Exe(80, <<Phdr("load", 8, 40, 8, m, FALSE), Phdr(t, o, v, 4, 40, TRUE)>>) :
          m \in {8, 24, 25}, t \in {"skip", "refuse", "load"}, o \in {0, 8}, v \in {40, 64}}
PlainExe == Exe(80, <<Phdr("load", 8, 40, 8, 20, TRUE)>>)
MCPrograms ==
    {<<e, <<1>>>> : e \in One \cup Two \cup {[PlainExe EXCEPT !.ok = FALSE]}}
      \cup {<<PlainExe, l>> : l \in {<<a>> : a \in 1 .. 4} \cup ((1 .. 3) \X (1 .. 2)) \cup {<<1, 1, 1>>}}

\* SyscallArgs.
MCLayouts == {[mapped |-> {1, 2, 4, 7}, writable |-> {2, 7}], [mapped |-> {1, 3, 7}, writable |-> {1, 3, 7}]}

\* Interrupts.
MCRegistrations ==
    {[ext |-> TRUE, vec |-> v, dpl |-> 0, level |-> "off"] : v \in {32, 46}} \cup
    {[ext |-> FALSE, vec |-> 14, dpl |-> 0, level |-> "off"],
     [ext |-> FALSE, vec |-> 48, dpl |-> 3, level |-> "on"]}

\* The containers of lib/kernel hold the sequence, table or set they stand for
\* after any sequence of operations.
ContainersMatch == ListRight /\ HashRight /\ BitmapRight

\* Text is moved, cut, formatted and tokenized as the definitions say, and
\* never past the end of a buffer (string.c, stdio.c, tokenizer.c).
TextRight == StringsRight /\ [](FormatRight /\ TokensRight)

\* What comes into the system from outside: archive headers that are accepted
\* are true ones, files go to the scratch device and back whole, in order and
\* once, across restarts, and a program that starts finds in memory the image
\* its headers describe and the arguments of its command line.
ImportsTrue == HeadersRight /\ ActionsRight /\ LoadRight

\* Keys, screen and jobs: what is typed is what the modifiers say and reaches
\* the foreground job, the screen shows the end of what was printed, and the
\* shell has the terminal and no unreaped job when it prompts.
TerminalRight == KeyboardRight /\ []ScreenRight /\ JobsRight
=============================================================================
