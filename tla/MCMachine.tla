----------------------------- MODULE MCMachine -------------------------------
(***************************************************************************)
(* The disk, the boot, the console and the memory allocators, checked      *)
(* together: a behaviour is one of one part, the others stay where they    *)
(* start.                                                                  *)
(***************************************************************************)
EXTENDS Disk, Boot, Console, Memory

VARIABLE part

machVars == <<part, diskVars, bootVars, conVars, memVars>>

Parts == {"disk", "boot", "console", "memory"}

\* A part whose first state is a choice makes it only when it is its turn.
MachInit ==
    /\ part \in Parts
    /\ DiskInit /\ (part # "disk" => ~slow)
    /\ BootInit /\ (part # "boot" => machine = CHOOSE m \in BootInputs : m.argv = <<>>)
    /\ ConInit
    /\ MemInit /\ (part # "memory" => DOMAIN used = 0 .. (CHOOSE n \in RamPages : TRUE) - 1)

Parked ==
    /\ UNCHANGED part
    /\ part # "disk" => UNCHANGED diskVars
    /\ part # "boot" => UNCHANGED bootVars
    /\ part # "console" => UNCHANGED conVars
    /\ part # "memory" => UNCHANGED memVars

MachNext ==
    \/ part = "disk" /\ DiskNext /\ Parked
    \/ part = "boot" /\ BootNext /\ Parked
    \/ part = "console" /\ ConNext /\ Parked
    \/ part = "memory" /\ MemNext /\ Parked

\* The processor runs the threads that are ready, devices finish what they
\* were asked to do, and an interrupt that is pending is taken.
MachFairness ==
    /\ \A t \in DiskThread : WF_diskVars(part = "disk" /\ DiskThreadStep(t))
    /\ WF_diskVars(part = "disk" /\ ControllerReady)
    /\ WF_diskVars(part = "disk" /\ InterruptHandler)
    /\ WF_bootVars(part = "boot" /\ BootNext)
    /\ \A w \in Writer : WF_conVars(part = "console" /\ WriterStep(w))
    /\ WF_conVars(part = "console" /\ UartReady)
    /\ WF_conVars(part = "console" /\ SerialInterrupt)
    /\ \A t \in MemThread : WF_memVars(part = "memory" /\ MemStep(t))

MachSpec == MachInit /\ [][MachNext]_machVars /\ MachFairness

\* A machine that boots comes to an end: BootEnds of the part that runs.
MachineBoots == part = "boot" => BootEnds

-----------------------------------------------------------------------------
\* Boot.
W(w) == [word |-> w, value |-> <<>>]
WV(w, v) == [word |-> w, value |-> v]
E(t, o, n) == [type |-> t, offset |-> o, size |-> n]
D(err, ready, sig, idn, cap, signed, table) ==
  [error |-> err, ready |-> ready, signature |-> sig, identifies |-> idn,
   capacity |-> cap, signed |-> signed, table |-> table]
Good(table) == D(1, TRUE, "ata", TRUE, 5, TRUE, table)
Fs == <<E("filesys", 1, 2), E("scratch", 3, 2)>>
EntrySet == [type : {"empty", "extended", "filesys", "other"}, offset : {0, 1, 2, 4, 7}, size : {0, 2, 4, 7}]
MCInputs ==
  {[argv |-> <<W("-q")>>, drives |-> <<Good(<<a, b>>)>>] : a \in EntrySet, b \in {E("filesys", 1, 2), E("extended", 2, 1), E("linux-extended", 3, 1)}}
  \cup {[argv |-> <<>>, drives |-> <<D(er, rd, sg, idn, cap, sd, Fs), D(er2, TRUE, "ata", TRUE, 5, TRUE, Fs)>>] :
        er \in {1, 129, 0}, rd \in BOOLEAN, sg \in {"ata", "atapi"}, idn \in BOOLEAN, cap \in {5, 6}, sd \in BOOLEAN, er2 \in {1, 129}}
  \cup {[argv |-> a \o b \o c, drives |-> <<Good(Fs), Good(Fs)>>] :
        a \in {<<>>, <<W("-f"), W("-r")>>, <<WV("-filesys", <<"hdb", 1>>)>>, <<WV("-scratch", <<"hda", 9>>)>>, <<W("-h")>>, <<W("-x")>>},
        b \in {<<>>, <<W("ls")>>, <<W("run"), W("ls")>>, <<W("extract"), W("cat")>>},
        c \in {<<>>, <<W("rm"), W("a")>>, <<W("what")>>, <<W("append")>>}}

\* What is asked of the machine is done: a request to the disk, a line that is
\* printed, an allocation, and the boot itself come to an end.
MachineAnswers ==
    /\ DiskAnswers
    /\ OutputFlows
    /\ LinesEnd
    /\ MemAnswers
    /\ MachineBoots
=============================================================================
