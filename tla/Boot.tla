-------------------------------- MODULE Boot --------------------------------
(***************************************************************************)
(* From the kernel command line to the shutdown, after threads/init.c,     *)
(* the detection of disks of devices/ide.c, devices/partition.c, the       *)
(* registry of devices/block.c and devices/shutdown.c of "group projects". *)
(*                                                                         *)
(* The phases of main are "options", "drives", "scan" (partition_scan of   *)
(* the drive just identified), "filesys", "actions" and, at the end,       *)
(* "off" (powered off), "reset", "exit" (the main thread has ended) or     *)
(* "panic".                                                                *)
(* A word of the command line is a record [word, value].  A drive is the   *)
(* contents of its registers after a reset, its capacity and its partition *)
(* table.  Sector numbers are unsigned numbers below Wrap (2^32).          *)
(***************************************************************************)
EXTENDS Integers, Sequences, SequencesExt

CONSTANTS Wrap, MaxCapacity,   \* 2^32; 1 GB in sectors
    BootInputs,                \* sets of [argv, drives]: the machines to boot
    MaxFrames                  \* bound: the kernel stack holds so many frames

ASSUME BootAssumption == Wrap \in Nat \ {0} /\ MaxFrames \in Nat \ {0}

VARIABLES machine, phase, argv, opts,
    drive, part_nr,   \* the drive looked at, the partitions seen on it
    blocks,           \* all_blocks
    frames,           \* the calls of read_partition_table under way
    role, ran         \* block_by_role; the actions run

bootVars == <<machine, phase, argv, opts, drive, part_nr, blocks, frames, role, ran>>

NoOpts == [how |-> "none", format |-> FALSE, filesys |-> <<>>, scratch |-> <<>>]
ExtendedTypes == {"extended", "linux-extended"}
RoleTypes == {"filesys", "scratch"}

BootInit ==
    /\ machine \in BootInputs
    /\ phase = "options" /\ argv = machine.argv /\ opts = NoOpts
    /\ drive = 1 /\ part_nr = 0 /\ blocks = <<>> /\ frames = <<>>
    /\ role = [r \in RoleTypes |-> <<>>]
    /\ ran = <<>>

\* read_command_line and one turn of parse_options.
OptionEffect(o) ==
    CASE o.word = "-q" -> [opts EXCEPT !.how = "off"]
      [] o.word = "-r" -> [opts EXCEPT !.how = "reset"]
      [] o.word = "-f" -> [opts EXCEPT !.format = TRUE]
      [] o.word = "-filesys" -> [opts EXCEPT !.filesys = o.value]
      [] o.word = "-scratch" -> [opts EXCEPT !.scratch = o.value]
      [] OTHER -> opts
KnownOptions == {"-h", "-q", "-r", "-f", "-filesys", "-scratch", "-rs", "-mlfqs", "-ul"}
AllOptions == KnownOptions \cup {"-x"}     \* -x: any other word that starts with -
AtOption == argv # <<>> /\ Head(argv).word \in AllOptions

\* Mutant of ParseOption: the loop does not go on to the next word.
ParseOptionStuck ==
    /\ phase = "options" /\ AtOption
    /\ opts' = OptionEffect(Head(argv))
    /\ UNCHANGED <<machine, phase, argv, drive, part_nr, blocks, frames, role, ran>>

ParseOption ==
    /\ phase = "options" /\ AtOption
    /\ argv' = Tail(argv)
    /\ opts' = OptionEffect(Head(argv))
    /\ phase' = CASE Head(argv).word = "-h" -> "off"      \* usage
                  [] Head(argv).word = "-x" -> "panic"
                  [] OTHER -> "options"
    /\ UNCHANGED <<machine, drive, part_nr, blocks, frames, role, ran>>

EndOptions ==
    /\ phase = "options" /\ ~AtOption
    /\ phase' = "drives"
    /\ UNCHANGED <<machine, argv, opts, drive, part_nr, blocks, frames, role, ran>>

-----------------------------------------------------------------------------
\* check_device_type: is_ata of a drive, and whether a slave may exist.
Absent(d, no) ==
    \/ d.error # 1 /\ (d.error # 129 \/ no = 2)
    \/ ~d.ready
is_ata(d, no) == ~Absent(d, no) /\ d.signature = "ata"
SlavePossible(d) == Absent(d, 1) => d.error # 129

\* ide_init for one drive of the channel: check_device_type (the slave is
\* looked at only if the master allows one) and identify_ata_device, which
\* ignores a disk of a gigabyte or more.
DriveName(no) == IF no = 1 THEN "hda" ELSE "hdb"   \* and the number: hda1 is <<"hda", 1>>
Usable(no) ==
    LET d == machine.drives[no]
    IN  /\ is_ata(d, no)
        /\ no = 2 => SlavePossible(machine.drives[1])
        /\ d.identifies /\ d.capacity < MaxCapacity

block_register(name, type, start, size) ==
    Append(blocks, [name |-> name, type |-> type, drive |-> drive, start |-> start, size |-> size])

\* A frame of read_partition_table: its arguments and the loop's index.  The
\* call returns at once past the end of the device or without a signature.
Frame(sector, primary) == [sector |-> sector, primary |-> primary, i |-> 1]
Enter(sector, primary) ==
    LET d == machine.drives[drive]
    IN  IF sector >= d.capacity \/ ~d.signed THEN <<>> ELSE <<Frame(sector, primary)>>

IdentifyDrive ==
    /\ phase = "drives" /\ drive <= Len(machine.drives)
    /\ IF Usable(drive)
         THEN /\ blocks' = block_register(<<DriveName(drive), 0>>, "raw", 0,
                                          machine.drives[drive].capacity)
              /\ frames' = Enter(0, 0) /\ part_nr' = 0
              /\ phase' = "scan" /\ UNCHANGED drive
       ELSE drive' = drive + 1 /\ UNCHANGED <<blocks, part_nr, frames, phase>>
    /\ UNCHANGED <<machine, argv, opts, role, ran>>

\* Mutant of found_partition: the end is not checked for wrapping around.
found_partitionWrap(e, start, nr) ==
    LET size == machine.drives[drive].capacity
        end == (start + e.size) % Wrap
    IN  IF start >= size \/ end > size THEN blocks
        ELSE block_register(<<DriveName(drive), nr>>,
                            IF e.type \in {"kernel", "filesys", "scratch", "swap"} THEN e.type ELSE "foreign",
                            start, e.size)

\* found_partition: a partition inside the device is registered.
found_partition(e, start, nr) ==
    LET size == machine.drives[drive].capacity
        end == (start + e.size) % Wrap
    IN  IF start >= size \/ end < start \/ end > size THEN blocks
        ELSE block_register(<<DriveName(drive), nr>>,
                            IF e.type \in {"kernel", "filesys", "scratch", "swap"} THEN e.type ELSE "foreign",
                            start, e.size)

\* One turn of the loop in read_partition_table.  Every call reads sector 0
\* of the device, whatever sector it was called for.
ScanEntry ==
    LET top == frames[Len(frames)]
        table == machine.drives[drive].table
        e == table[top.i]
        stepped == [frames EXCEPT ![Len(frames)].i = @ + 1]
        down == IF top.sector = 0 THEN Enter(e.offset, e.offset)
                ELSE Enter((e.offset + top.primary) % Wrap, top.primary)
    IN  /\ phase = "scan" /\ frames # <<>> /\ top.i <= Len(table)
        /\ IF e.size = 0 \/ e.type = "empty"
             THEN frames' = stepped /\ UNCHANGED <<blocks, part_nr, phase>>
           ELSE IF e.type \in ExtendedTypes
             THEN /\ frames' = stepped \o down
                  /\ phase' = IF Len(frames') > MaxFrames THEN "panic" ELSE phase
                  /\ UNCHANGED <<blocks, part_nr>>
           ELSE /\ frames' = stepped
                /\ part_nr' = part_nr + 1
                /\ blocks' = found_partition(e, (e.offset + top.sector) % Wrap, part_nr')
                /\ UNCHANGED phase
        /\ UNCHANGED <<machine, argv, opts, drive, role, ran>>

\* read_partition_table returns; after the outermost call, the next drive.
ScanReturn ==
    /\ phase = "scan"
    /\ frames # <<>> => frames[Len(frames)].i > Len(machine.drives[drive].table)
    /\ IF Len(frames) > 1 THEN frames' = Front(frames) /\ UNCHANGED <<phase, drive>>
       ELSE frames' = <<>> /\ phase' = "drives" /\ drive' = drive + 1
    /\ UNCHANGED <<machine, argv, opts, part_nr, blocks, role, ran>>

\* check_sector panics unless this holds; partition_read and partition_write
\* pass the request on to the disk.
check_sector(b, sector) == sector < b.size
partition_sector(b, sector) == (b.start + sector) % Wrap

-----------------------------------------------------------------------------
\* locate_block_device: by name (block_get_by_name), or the first of the
\* type in probe order.
locate_block_device(r, name) ==
    LET fits == {k \in DOMAIN blocks : IF name = <<>> THEN blocks[k].type = r
                                       ELSE blocks[k].name = name}
    IN  IF fits = {} THEN <<>> ELSE blocks[CHOOSE k \in fits : \A j \in fits : k <= j].name

\* locate_block_devices: a name that is not registered is a PANIC.
LocateBlockDevices ==
    LET named == [filesys |-> opts.filesys, scratch |-> opts.scratch]
    IN  /\ phase = "drives" /\ drive > Len(machine.drives)
        /\ role' = [r \in RoleTypes |-> locate_block_device(r, named[r])]
        /\ phase' = IF \E r \in RoleTypes : named[r] # <<>> /\ role'[r] = <<>>
                    THEN "panic" ELSE "filesys"
        /\ UNCHANGED <<machine, argv, opts, drive, part_nr, blocks, frames, ran>>

\* filesys_init.
FilesysInit ==
    /\ phase = "filesys"
    /\ phase' = IF role["filesys"] = <<>> THEN "panic" ELSE "actions"
    /\ UNCHANGED <<machine, argv, opts, drive, part_nr, blocks, frames, role, ran>>

\* The words each action of the table takes, its own name included.
ActionArgc == [run |-> 2, ls |-> 1, cat |-> 2, rm |-> 2, extract |-> 1, append |-> 2]

\* One turn of run_actions.  The action itself is other modules' subject.
RunAction ==
    /\ phase = "actions" /\ argv # <<>>
    /\ LET a == Head(argv).word
           ok == a \in DOMAIN ActionArgc /\ (a \in DOMAIN ActionArgc => Len(argv) >= ActionArgc[a])
       IN  /\ phase' = IF ok THEN phase ELSE "panic"
           /\ ran' = IF ok THEN Append(ran, a) ELSE ran
           /\ argv' = IF ok THEN SubSeq(argv, 1 + ActionArgc[a], Len(argv)) ELSE argv
    /\ UNCHANGED <<machine, opts, drive, part_nr, blocks, frames, role>>

\* shutdown: power_off runs filesys_done, reboot does not, and without -q or
\* -r the main thread merely ends.
Shutdown ==
    /\ phase = "actions" /\ argv = <<>>
    /\ phase' = IF opts.how = "none" THEN "exit" ELSE opts.how
    /\ UNCHANGED <<machine, argv, opts, drive, part_nr, blocks, frames, role, ran>>

BootEnd == {"off", "reset", "exit", "panic"}
BootDone == phase \in BootEnd /\ UNCHANGED bootVars

BootNext ==
    \/ ParseOption \/ EndOptions \/ IdentifyDrive \/ ScanEntry \/ ScanReturn
    \/ LocateBlockDevices \/ FilesysInit \/ RunAction \/ Shutdown \/ BootDone

-----------------------------------------------------------------------------
\* Types of the boot's state; the recursion of read_partition_table is cut
\* off at MaxFrames, and the drives of ide.c are each looked at once.
BootTypeOK ==
    /\ phase \in {"options", "drives", "scan", "filesys", "actions"} \cup BootEnd
    /\ drive \in 1 .. Len(machine.drives) + 1 /\ Len(frames) <= MaxFrames + 1
    /\ \A k \in DOMAIN blocks : blocks[k].start \in 0 .. Wrap - 1

\* The sectors a device answers to, whatever the table says, are sectors of
\* the disk it lies on: a sector that check_sector lets through is never
\* translated past the end of the disk, and the sum of start and size that
\* wraps around in 32 bits is noticed.
PartitionsFit ==
    \A k \in DOMAIN blocks : \A s \in 0 .. Wrap - 1 :
      check_sector(blocks[k], s) =>
        partition_sector(blocks[k], s) \in blocks[k].start .. machine.drives[blocks[k].drive].capacity - 1

\* A role is played by the device the option names, and without the option
\* by a device of the role's type, before which no other has that type; a
\* foreign partition is used only when it is named.  A booted system has a
\* file system device.
RolesFit ==
    phase \in {"filesys", "actions"} =>
      \A r \in RoleTypes :
        LET name == IF r = "filesys" THEN opts.filesys ELSE opts.scratch
        IN  IF name # <<>> THEN role[r] = name
            ELSE \/ role[r] = <<>> /\ \A k \in DOMAIN blocks : blocks[k].type # r
                 \/ \E k \in DOMAIN blocks :
                      /\ blocks[k].name = role[r] /\ blocks[k].type = r
                      /\ \A j \in 1 .. k - 1 : blocks[j].type # r

\* Two devices never answer to one name.
NamesDiffer ==
    \A j, k \in DOMAIN blocks : blocks[j].name = blocks[k].name => j = k

\* An action runs once all options are read, in the order of the command
\* line, with all its arguments there: what has run is always the names of
\* whole actions at the start of the words after the options.
RanWords ==
    LET words == SelectSeq(machine.argv, LAMBDA w : w.word \notin AllOptions)
        upTo[k \in Nat] == IF k = 0 THEN 0 ELSE upTo[k - 1] + ActionArgc[ran[k]]
    IN  /\ upTo[Len(ran)] <= Len(words)
        /\ \A k \in DOMAIN ran : words[upTo[k - 1] + 1].word = ran[k]

\* The scan of a drive runs out of stack only on a table with an extended
\* entry that leads to another whose sector number is still on the device:
\* every call reads sector 0 again and finds the same entries.
OverflowCause ==
    Len(frames) > MaxFrames =>
      LET d == machine.drives[drive]
          Extended == {i \in DOMAIN d.table : d.table[i].type \in ExtendedTypes /\ d.table[i].size > 0}
      IN  \E i, j \in Extended :
            /\ d.table[i].offset < d.capacity
            /\ (d.table[i].offset + d.table[j].offset) % Wrap < d.capacity

\* The boot comes to an end: the machine stops, or its main thread does.
BootEnds == <>(phase \in BootEnd)
BootSpec == BootInit /\ [][BootNext]_bootVars /\ WF_bootVars(BootNext)

\* The boot, over damaged partition tables and any order of options and
\* actions: partitions lie on their disk, roles go to the devices named or
\* first of their type, names differ, every action runs with its own words,
\* and only an extended partition makes read_partition_table recurse.
BootSound ==
    /\ BootTypeOK
    /\ PartitionsFit
    /\ RolesFit
    /\ NamesDiffer
    /\ RanWords
    /\ OverflowCause
=============================================================================
