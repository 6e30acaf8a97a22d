------------------------------ MODULE Archive ------------------------------
(***************************************************************************)
(* The kernel's file actions, after filesys/fsutil.c of "group projects":  *)
(* extract a ustar archive from the scratch device into the file system,   *)
(* append files to it, and list, print and delete files.  The actions run  *)
(* one after another in the main thread; a restart forgets the positions   *)
(* of extract and append and keeps both disks.  A PANIC ends the model.    *)
(*                                                                         *)
(* A sector of the scratch device is a header (of a regular file of some   *)
(* sectors, or of a directory), a sector of data, zeros, or junk.  The     *)
(* headers themselves, byte by byte, are the second part of the module.    *)
(***************************************************************************)
EXTENDS Integers, Sequences, FiniteSets, SequencesExt

CONSTANTS ArcName,      \* file names
    NoName,
    ScratchSize,        \* sectors of the scratch device
    Archives,           \* what the host may have put there: sequences of sectors
    MaxActions          \* bound: actions

ASSUME ArchiveAssumption ==
    /\ NoName \notin ArcName /\ ScratchSize \in Nat \ {0, 1} /\ MaxActions \in Nat
    /\ \A a \in Archives : Len(a) = ScratchSize

VARIABLES scratch, files,       \* the scratch device; files by name
    exSector, apSector,         \* the static variables sector
    doing,                      \* "idle", "extract"
    appended,                   \* history: files appended since the restart
    erasedLate,                       \* history: an archive appended to was erased by extract
    clean,                      \* the byte after the buffer in fsutil_append was 0
    acts, arcPanic

arcVars == <<scratch, files, exSector, apSector, doing, appended, erasedLate, clean, acts, arcPanic>>

NoFileHere == <<[kind |-> "none", name |-> NoName, size |-> 0]>>   \* a name without a file
Zeros == [kind |-> "zero", name |-> NoName, size |-> 0]
Junk == [kind |-> "junk", name |-> NoName, size |-> 0]
Header(name, size) == [kind |-> "header", name |-> name, size |-> size]
DirHeader(name) == [kind |-> "dir", name |-> name, size |-> 0]
Data(name, i) == [kind |-> "data", name |-> name, size |-> i]
Existing == {n \in ArcName : files[n] # NoFileHere}

ArcInit ==
    /\ \E a \in Archives : scratch = [s \in 0 .. ScratchSize - 1 |-> a[s + 1]]
    /\ files = [n \in ArcName |-> NoFileHere]
    /\ exSector = 0 /\ apSector = 0 /\ doing = "idle"
    /\ appended = <<>> /\ erasedLate = FALSE /\ clean = TRUE /\ acts = 0 /\ arcPanic = FALSE

ArcIdle == ~arcPanic /\ doing = "idle" /\ acts < MaxActions
ArcPanics == arcPanic' = TRUE /\ UNCHANGED <<scratch, files, exSector, apSector, doing, appended, erasedLate, clean>>

ExtractStart ==
    /\ ArcIdle /\ acts' = acts + 1 /\ doing' = "extract"
    /\ UNCHANGED <<scratch, files, exSector, apSector, appended, erasedLate, clean, arcPanic>>

\* The data of a file from sector s on.
DataFrom(dev, s, size) == [i \in 1 .. size |-> dev[s + i - 1]]

\* One turn of the loop in fsutil_extract.  At the end of the archive the
\* first two sectors are erased.  Reading past the end of the device, a bad
\* header and a file that exists are PANICs.
ExtractStep ==
    /\ ~arcPanic /\ doing = "extract" /\ UNCHANGED acts
    /\ IF exSector >= ScratchSize THEN ArcPanics
       ELSE LET h == scratch[exSector]
            IN  CASE h.kind = "zero" ->
                       /\ doing' = "idle" /\ exSector' = exSector + 1
                       /\ scratch' = [scratch EXCEPT ![0] = Zeros, ![1] = Zeros]
                       /\ erasedLate' = (apSector > 0)
                       /\ UNCHANGED <<files, apSector, appended, clean, arcPanic>>
                  [] h.kind = "dir" ->
                       /\ exSector' = exSector + 1
                       /\ UNCHANGED <<scratch, files, apSector, doing, appended, erasedLate, clean, arcPanic>>
                  [] h.kind = "header" /\ h.name \notin Existing /\ exSector + h.size < ScratchSize ->
                       /\ files' = [files EXCEPT ![h.name] = DataFrom(scratch, exSector + 1, h.size)]
                       /\ exSector' = exSector + 1 + h.size
                       /\ UNCHANGED <<scratch, apSector, doing, appended, erasedLate, clean, arcPanic>>
                  [] OTHER -> ArcPanics

\* Mutant of FsutilAppend: the position moves past the end marker.
FsutilAppendPast(n, zeroByte) ==
    /\ ArcIdle /\ acts' = acts + 1
    /\ n \in Existing /\ apSector + Len(files[n]) + 1 < ScratchSize
    /\ LET len == Len(files[n])
       IN  /\ scratch' = [s \in DOMAIN scratch |->
                  IF s = apSector THEN Header(n, len)
                  ELSE IF s \in apSector + 1 .. apSector + len THEN files[n][s - apSector]
                  ELSE IF s = apSector + len + 1 THEN Zeros ELSE scratch[s]]
           /\ apSector' = apSector + len + 2
    /\ clean' = TRUE /\ appended' = Append(appended, n)
    /\ UNCHANGED <<files, exSector, doing, erasedLate, arcPanic>>

\* fsutil_append: header, data and one sector of end marker, written twice to
\* the same place, the second time from the buffer shifted by one byte: its
\* last byte is whatever follows the buffer in memory.  The position is not
\* moved past it.  A sector that does not exist is a PANIC, the marker's too.
FsutilAppend(n, zeroByte) ==
    /\ ArcIdle /\ acts' = acts + 1
    /\ LET len == Len(files[n])
       IN  IF n \notin Existing \/ apSector + len + 1 >= ScratchSize THEN ArcPanics
           ELSE /\ scratch' = [s \in DOMAIN scratch |->
                     IF s = apSector THEN Header(n, len)
                     ELSE IF s \in apSector + 1 .. apSector + len THEN files[n][s - apSector]
                     ELSE IF s = apSector + len + 1 THEN IF zeroByte THEN Zeros ELSE Junk
                     ELSE scratch[s]]
                /\ apSector' = apSector + len + 1
                /\ clean' = zeroByte
                /\ appended' = Append(appended, n)
                /\ UNCHANGED <<files, exSector, doing, erasedLate, arcPanic>>

\* fsutil_rm; fsutil_cat and fsutil_ls change nothing.
FsutilRm(n) ==
    /\ ArcIdle /\ acts' = acts + 1
    /\ IF n \notin Existing THEN ArcPanics
       ELSE /\ files' = [files EXCEPT ![n] = NoFileHere]
            /\ UNCHANGED <<scratch, exSector, apSector, doing, appended, erasedLate, clean, arcPanic>>
FsutilCat(n) ==
    /\ ArcIdle /\ acts' = acts + 1
    /\ IF n \notin Existing THEN ArcPanics
       ELSE UNCHANGED <<scratch, files, exSector, apSector, doing, appended, erasedLate, clean, arcPanic>>

\* The machine is powered off after its actions and started again.
ArcRestart ==
    /\ ArcIdle /\ acts' = acts + 1
    /\ exSector' = 0 /\ apSector' = 0 /\ appended' = <<>> /\ erasedLate' = FALSE
    /\ UNCHANGED <<scratch, files, doing, clean, arcPanic>>

ArcNext ==
    \/ ExtractStart \/ ExtractStep \/ ArcRestart
    \/ \E n \in ArcName : FsutilRm(n) \/ FsutilCat(n) \/ \E z \in BOOLEAN : FsutilAppend(n, z)

-----------------------------------------------------------------------------
\* The names an extractor started at sector s of the device would create: it
\* stops at zeros ("end") and at anything else it cannot read ("bad").
Listing(dev) ==
    LET from[s \in 0 .. 2 * ScratchSize] ==
          IF s >= ScratchSize THEN <<"bad">>
          ELSE CASE dev[s].kind = "zero" -> <<"end">>
                 [] dev[s].kind = "dir" -> from[s + 1]
                 [] dev[s].kind = "header" -> <<dev[s].name>> \o from[s + 1 + dev[s].size]
                 [] OTHER -> <<"bad">>
    IN  from[0]

\* What has been appended since the restart is on the device in order and
\* ends there, provided the byte after the buffer was zero and extract came
\* before the appends, as fsutil_append's comment asks: a later append
\* goes over the earlier one's end marker, leftovers of a longer archive stay
\* behind the new marker.
AppendedInOrder ==
    ~arcPanic /\ doing = "idle" /\ appended # <<>> /\ clean /\ ~erasedLate =>
      Listing(scratch) = appended \o <<"end">>

\* The extraction is idempotent: after it the device holds an empty archive,
\* until something is appended.  With the machine started again it finds no
\* file, creates none and does not fail on the ones that exist.
ExtractedOnce ==
    ~arcPanic /\ doing = "idle" /\ exSector > 0 /\ appended = <<>> => Listing(scratch) = <<"end">>

\* A file has the sectors the archive has for it, each in its place.
ContentsKept ==
    \A n \in Existing : \A i \in DOMAIN files[n] : files[n][i] = Data(n, i)

\* fsutil.c: files are appended one behind the other, an archive is extracted
\* once, and contents survive.
ActionsRight == AppendedInOrder /\ ExtractedOnce /\ ContentsKept

-----------------------------------------------------------------------------
(***************************************************************************)
(* The archive headers of lib/ustar.c: ustar_make_header on one machine,   *)
(* one byte damaged on the way or a header from another program, and       *)
(* ustar_parse_header.  A byte is a number: Nul, the octal digits 1 .. 8,  *)
(* Sp, and letters.  A header is its fields, each a sequence of bytes; the *)
(* fields nobody looks at are left out.                                    *)
(***************************************************************************)
CONSTANTS FileNames,        \* names to archive
    ForeignNames,           \* contents of the name field of other programs
    Sizes, ULONG_MAX, INT_MAX,
    FieldLen                \* bytes of an octal field

VARIABLES header, made, ustarStage
ustarVars == <<header, made, ustarStage>>

Nul == 0
Sp == 9
Dot == 10
Slash == 11
Magic == 13
REGULAR == 14
DIRECTORY == 15
Bytes16 == 0 .. 16

ASSUME UstarAssumption == INT_MAX \in Nat /\ ULONG_MAX \in Nat /\ FieldLen \in Nat \ {0}

Sum(s) == FoldSeq(LAMBDA x, y : x + y, 0, s)
RECURSIVE Octal(_, _)        \* "%0<n>o"
Octal(v, n) == IF n = 0 THEN <<>> ELSE Octal(v \div 8, n - 1) \o <<(v % 8) + 1>>

\* calculate_chksum: the chksum field counts as spaces.
calculate_chksum(h) == Sum(h.name) + Sum(h.size) + h.typeflag + h.magic + FieldLen * Sp

Starts(s, prefix) == Len(s) >= Len(prefix) /\ SubSeq(s, 1, Len(prefix)) = prefix

RECURSIVE strip_antisocial_prefixes(_)
strip_antisocial_prefixes(name) ==
    IF \E p \in {<<Slash>>, <<Dot, Slash>>, <<Dot, Dot, Slash>>} : Starts(name, p)
      THEN LET at == CHOOSE i \in DOMAIN name : name[i] = Slash /\ \A j \in 1 .. i - 1 : name[j] # Slash
           IN  strip_antisocial_prefixes(SubSeq(name, at + 1, Len(name)))
    ELSE IF name \in {<<>>, <<Dot, Dot>>} THEN <<Dot>> ELSE name

WithChecksum(h) == [h EXCEPT !.chksum = Octal(calculate_chksum(h), FieldLen - 1) \o <<Nul>>]

ustar_make_header(name, type, size) ==
    WithChecksum([name |-> strip_antisocial_prefixes(name) \o <<Nul>>,
                  size |-> Octal(size, FieldLen - 1) \o <<Nul>>,
                  typeflag |-> type, magic |-> Magic, chksum |-> <<>>])

\* parse_octal_field, -1 for failure; v is the value of what was read.
RECURSIVE parse_octal_field(_, _)
parse_octal_field(s, v) ==
    IF s = <<>> THEN -1
    ELSE IF Head(s) \in 1 .. 8
      THEN IF v > ULONG_MAX \div 8 THEN -1 ELSE parse_octal_field(Tail(s), Head(s) - 1 + v * 8)
    ELSE IF Head(s) \in {Sp, Nul} THEN v ELSE -1
Field0(s) == IF s[1] \in {Sp, Nul} THEN -1 ELSE parse_octal_field(s, 0)

Refused == [name |-> <<>>, type |-> 0, size |-> 0]
Name(h) == SubSeq(h.name, 1, (CHOOSE i \in DOMAIN h.name : h.name[i] = Nul /\ \A j \in 1 .. i - 1 : h.name[j] # Nul) - 1)

\* Mutant of ustar_parse_header: the checksum is not compared.
ParseTrusting(h) ==
    LET size == IF h.typeflag = REGULAR THEN Field0(h.size) ELSE 0
    IN  IF h.magic # Magic \/ Field0(h.chksum) < 0 \/ Last(h.name) # Nul
           \/ h.typeflag \notin {REGULAR, DIRECTORY} \/ size < 0 \/ size > INT_MAX
          THEN Refused
        ELSE [name |-> strip_antisocial_prefixes(Name(h)), type |-> h.typeflag, size |-> size]

ustar_parse_header(h) ==
    LET size == IF h.typeflag = REGULAR THEN Field0(h.size) ELSE 0
    IN  IF h.magic # Magic \/ Field0(h.chksum) < 0 \/ Field0(h.chksum) # calculate_chksum(h) \/ Last(h.name) # Nul
           \/ h.typeflag \notin {REGULAR, DIRECTORY} \/ size < 0 \/ size > INT_MAX
          THEN Refused
        ELSE [name |-> strip_antisocial_prefixes(Name(h)), type |-> h.typeflag, size |-> size]

-----------------------------------------------------------------------------
UstarInit == /\ header = ustar_make_header(<<12>>, DIRECTORY, 0)
             /\ made = [name |-> <<12>>, type |-> DIRECTORY, size |-> 0] /\ ustarStage = "new"

Make(name, type, size) ==
    /\ ustarStage = "new" /\ ustarStage' = "made" /\ header' = ustar_make_header(name, type, size)
    /\ made' = [name |-> strip_antisocial_prefixes(name), type |-> type,
                size |-> IF type = REGULAR THEN size ELSE 0]

\* One byte of the header changes.
Damage(f, i, b) ==
    /\ ustarStage = "made" /\ ustarStage' = "damaged" /\ UNCHANGED made
    /\ CASE f \in {"typeflag", "magic"} -> header' = [header EXCEPT ![f] = b]
         [] f \in {"name", "size", "chksum"} -> i \in DOMAIN header[f] /\ header' = [header EXCEPT ![f][i] = b]

\* A header of another program, with a correct checksum.
Foreign(name, digits) ==
    /\ ustarStage = "new" /\ ustarStage' = "foreign" /\ UNCHANGED made
    /\ header' = WithChecksum([name |-> name \o <<Nul>>, size |-> digits, typeflag |-> REGULAR,
                               magic |-> Magic, chksum |-> <<>>])

UstarNext ==
    \/ \E name \in FileNames, type \in {REGULAR, DIRECTORY}, size \in Sizes : Make(name, type, size)
    \/ \E f \in {"name", "size", "chksum", "typeflag", "magic"}, i \in 1 .. 8, b \in Bytes16 : Damage(f, i, b)
    \/ \E name \in ForeignNames, digits \in [1 .. FieldLen -> {0, 1, 2, 5, 8, 9, 12}] : Foreign(name, digits)

-----------------------------------------------------------------------------
\* What was archived comes back, and a header with one damaged byte is
\* refused or still says the same: never another name, type or size.
HeaderTrue ==
    /\ ustarStage = "made" => ustar_parse_header(header) = made
    /\ ustarStage = "damaged" => ustar_parse_header(header) \in {Refused, made}

\* No header, whoever made it, names a file outside of the directory that is
\* extracted to at its front.
NoEscape ==
    LET n == ustar_parse_header(header).name
    IN  n # <<Dot, Dot>> /\ ~Starts(n, <<Slash>>) /\ ~Starts(n, <<Dot, Dot, Slash>>)

\* A size that is accepted is the number in the field, however the field is
\* filled and even when it is too large for an unsigned long.
SizeExact ==
    ustarStage = "foreign" /\ ustar_parse_header(header) # Refused =>
      LET s == header.size
          n == CHOOSE k \in 1 .. FieldLen : s[k] \in {Sp, Nul} /\ \A j \in 1 .. k - 1 : s[j] \in 1 .. 8
          RECURSIVE Val(_)
          Val(k) == IF k = 0 THEN 0 ELSE Val(k - 1) * 8 + s[k] - 1
      IN  n > 1 /\ ustar_parse_header(header).size = Val(n - 1) /\ Val(n - 1) <= INT_MAX

\* ustar.c: a header that is accepted says what was written, names nothing
\* outside the directory, and a size no number can hold is refused.
HeadersRight == HeaderTrue /\ NoEscape /\ SizeExact
=============================================================================
