----------------------------- MODULE SyscallArgs ----------------------------
(***************************************************************************)
(* syscall_handler of userprog/syscall.c: which user memory it looks at    *)
(* before and after it has validated it, and what exception.c does with a  *)
(* page fault: kill the process, or panic when it was the kernel's.        *)
(*                                                                         *)
(* The process's memory is a set of mapped pages, some writable; what is   *)
(* in it is up to the process, so the words the handler reads, and where a *)
(* string ends, are chosen freely.  Addresses are modulo AddrWrap.         *)
(***************************************************************************)
EXTENDS Integers, FiniteSets

CONSTANTS
    AddrWrap,   \* 2^32
    KernelBase, \* PHYS_BASE
    PageBytes,  \* PGSIZE
    MaxStr,     \* max_len of validate_str
    Layouts,    \* address spaces: [mapped, writable] sets of page numbers
    Pointers, Lengths, Stacks,   \* what user code passes
    OpenFds     \* descriptors with an open file

ASSUME AddrAssumption ==
    /\ {AddrWrap, KernelBase, PageBytes, MaxStr} \subseteq Nat /\ PageBytes >= 4
    /\ KernelBase < AddrWrap /\ AddrWrap % PageBytes = 0 /\ KernelBase % PageBytes = 0
    /\ Pointers \cup Lengths \cup Stacks \subseteq 0 .. AddrWrap - 1
    /\ OpenFds \subseteq Nat

VARIABLES
    space,      \* address space of the process
    step,       \* how far the handler is
    num, esp_, arg, nul,  \* number, stack pointer, arguments, end of string
    outcome     \* "user", "running", "returned", "exit", "halt" or "panic"

sysVars == <<space, step, num, esp_, arg, nul, outcome>>

NoArgs == {"SYS_HALT", "SYS_HIT_CNT", "SYS_RESET_CNT", "SYS_READ_CNT", "SYS_WRITE_CNT"}
OnStrings == {"SYS_EXEC", "SYS_OPEN", "SYS_REMOVE", "SYS_CHDIR", "SYS_MKDIR"}
OneArg == OnStrings \cup {"SYS_PRACTICE", "SYS_EXIT", "SYS_WAIT", "SYS_ISDIR", "SYS_INUMBER"}
OnFiles == {"SYS_FILESIZE", "SYS_TELL", "SYS_CLOSE"}
TwoArgs == {"SYS_SEEK", "SYS_CREATE", "SYS_READDIR"}
ThreeArgs == {"SYS_READ", "SYS_WRITE"}
\* A number the handler does not know: it validates three arguments and returns.
Unserved == {"SYS_MMAP"}
Calls == NoArgs \cup OneArg \cup OnFiles \cup TwoArgs \cup ThreeArgs \cup Unserved

Add(a, n) == (a + n) % AddrWrap
PageOf(a) == a \div PageBytes
Readable(a) == a < KernelBase /\ PageOf(a) \in space.mapped

is_valid_ptr(a) == a # 0 /\ a < KernelBase /\ PageOf(a) \in space.mapped
\* Mutant of validate_arg: only the first byte is looked at.
ValidateFirst(a) == is_valid_ptr(a)
validate_arg(a) == is_valid_ptr(a) /\ is_valid_ptr(Add(a, 3))
validate_str_with_len(a, n) == is_valid_ptr(a) /\ is_valid_ptr(Add(a, n - 1))
\* validate_str, of a string whose null byte is end bytes on.
validate_str(a, end) == end < MaxStr /\ \A i \in 0 .. end : is_valid_ptr(Add(a, i))

SysInit ==
    /\ space = [mapped |-> {}, writable |-> {}]
    /\ step = 0 /\ num = "SYS_HALT" /\ esp_ = 0 /\ arg = <<0, 0, 0>>
    /\ nul = 0 /\ outcome = "user"

\* How many arguments a call has.
ArgCount(call) ==
    CASE call \in NoArgs -> 0 [] call \in OneArg \cup OnFiles -> 1
      [] call \in TwoArgs -> 2 [] call \in ThreeArgs \cup Unserved -> 3

\* The process executes int $0x30.  The handler keeps nothing from one call
\* to the next, so one call is enough.
Trap(call, l, sp, a, n) ==
    /\ space' = l /\ num' = call /\ esp_' = sp /\ arg' = a /\ nul' = n
    /\ outcome' = "running" /\ UNCHANGED step

\* kill: a page fault of the kernel is a panic, an invalid pointer is the end
\* of the process.
page_fault == outcome' = "panic"
exit == outcome' = "exit"
Returns == outcome' = "returned" /\ UNCHANGED step
Stop == UNCHANGED step

\* The handler reads word k of the arguments: every byte must be there.
WordReadable(k) == \A b \in 0 .. 3 : Readable(Add(esp_, 4 * k + b))

\* What a call does with a string, once validated: the kernel reads it.
UseString ==
    IF ~validate_str(arg[1], nul) THEN exit /\ Stop
    ELSE IF \E i \in 0 .. nul : ~Readable(Add(arg[1], i)) THEN page_fault /\ Stop
    ELSE Returns

\* A call on a descriptor that looks into the file without asking whether
\* there is one: an assertion of file.c fails, or the kernel reads page 0.
NeedsFile == IF arg[1] \in OpenFds THEN Returns ELSE page_fault /\ Stop

\* readdir: neither the descriptor nor the buffer is validated.
Readdir ==
    IF arg[1] \in OpenFds /\ Readable(arg[2]) /\ PageOf(arg[2]) \in space.writable
    THEN Returns ELSE page_fault /\ Stop

\* The bytes of the buffer that read and write go through: all for the
\* console, those the file has for a file, whose size is signed, none
\* without a file or for the keyboard.
Used ==
    LET len == arg[3] IN
    IF num = "SYS_WRITE" /\ arg[1] = 1 THEN {len}
    ELSE IF arg[1] \in OpenFds /\ len < AddrWrap \div 2 THEN {0, len} ELSE {0}

Buffer ==
    IF ~validate_str_with_len(arg[2], arg[3]) THEN exit /\ Stop
    ELSE \E n \in Used :
           IF \E i \in 0 .. n - 1 : LET a == Add(arg[2], i) IN
                ~Readable(a) \/ (num = "SYS_READ" /\ PageOf(a) \notin space.writable)
           THEN page_fault /\ Stop ELSE Returns

\* The calls that need no more than the first k arguments.
Served(k) ==
    CASE k = 0 -> num \in NoArgs /\ (IF num = "SYS_HALT" THEN outcome' = "halt" /\ Stop ELSE Returns)
      [] k = 1 -> \/ num = "SYS_EXIT" /\ exit /\ Stop
                  \/ num \in OnStrings /\ UseString
                  \/ num \in {"SYS_PRACTICE", "SYS_WAIT", "SYS_CLOSE"} /\ Returns
                  \/ num \in {"SYS_ISDIR", "SYS_INUMBER", "SYS_FILESIZE", "SYS_TELL"} /\ NeedsFile
      [] k = 2 -> \/ num = "SYS_SEEK" /\ NeedsFile
                  \/ num = "SYS_CREATE" /\ UseString
                  \/ num = "SYS_READDIR" /\ Readdir
      [] k = 3 -> \/ num \in ThreeArgs /\ Buffer
                  \/ num \in Unserved /\ Returns

\* syscall_handler: validate_arg(args + step), the word, the calls that need
\* no more; the others go on to the next argument.
Handler ==
    /\ outcome = "running"
    /\ IF ~validate_arg(Add(esp_, 4 * step)) THEN exit /\ Stop
       ELSE IF ~WordReadable(step) THEN page_fault /\ Stop
       ELSE \/ Served(step)
            \/ ArgCount(num) > step /\ step' = step + 1 /\ UNCHANGED outcome
    /\ UNCHANGED <<space, num, esp_, arg, nul>>

SysNext ==
    \/ Handler
    \/ outcome = "user" /\ \E call \in Calls, l \in Layouts, sp \in Stacks, n \in 0 .. MaxStr,
          fd \in {0, 1} \cup OpenFds, p \in Pointers, len \in Lengths :
         /\ n > 0 => call \in OnStrings \cup {"SYS_CREATE"}
         /\ len = 0 \/ call \in ThreeArgs
         /\ call \in OnStrings \cup {"SYS_CREATE"} => fd = 0
         /\ Trap(call, l, sp,
                 <<IF call \in OnStrings \cup {"SYS_CREATE"} THEN p ELSE fd, p, len>>, n)

SysSpec == SysInit /\ [][SysNext]_sysVars

-----------------------------------------------------------------------------
\* "Validate the entire 4 bytes the args points to" and validate_str: bad
\* arguments end the process and not the kernel, wherever in the address
\* space stack, strings and buffers lie.  The calls that do panic are those
\* on a descriptor with no file, readdir, read into a page that is not
\* writable, and a buffer long enough to have a whole page between its ends.
FaultCause ==
    outcome = "panic" =>
        \/ num \in {"SYS_ISDIR", "SYS_INUMBER", "SYS_FILESIZE", "SYS_TELL",
                    "SYS_SEEK", "SYS_READDIR"} /\ arg[1] \notin OpenFds
        \/ num = "SYS_READDIR"
        \/ num \in ThreeArgs /\ arg[3] >= PageBytes + 2
        \/ num = "SYS_READ" /\ \E i \in 0 .. arg[3] - 1 :
               PageOf(Add(arg[2], i)) \notin space.writable

\* A process is ended by a call only for a reason: a word of its arguments,
\* a byte of its string, or the buffer's first or last byte is not its own,
\* or the string is too long.  (An empty buffer is asked for the byte before
\* it.)
KilledForCause ==
    outcome = "exit" /\ num # "SYS_EXIT" =>
        \/ \E k \in 0 .. ArgCount(num) : ~WordReadable(k) \/ Add(esp_, 4 * k) = 0
        \/ num \in OnStrings \cup {"SYS_CREATE"}
             /\ (nul >= MaxStr \/ \E i \in 0 .. nul : ~is_valid_ptr(Add(arg[1], i)))
        \/ num \in ThreeArgs /\ \E i \in {0, arg[3] - 1} : ~is_valid_ptr(Add(arg[2], i))

\* Every pointer, length and stack a program can pass to syscall_handler, at
\* the edges of pages and of the address space: the kernel faults only behind
\* the checks the code leaves out, and a process is killed only for a bad
\* argument.
ArgumentsChecked == FaultCause /\ KilledForCause
=============================================================================
