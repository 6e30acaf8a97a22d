-------------------------------- MODULE Shell -------------------------------
(***************************************************************************)
(* The shell of homeworks/hw1: main of shell.c and the processes it forks, *)
(* with their process groups and the terminal's foreground group; then the *)
(* tokenizer of its lines.                                                 *)
(*                                                                         *)
(* The shell is interactive.  It is at one of these places:                *)
(*   "prompt"   reads a line                                               *)
(*   "forked"   fork has returned, before setpgid                          *)
(*   "grouped"  before tcsetpgrp                                           *)
(*   "waiting"  in waitpid for the foreground job, or past it for a        *)
(*              background one                                             *)
(*   "restore"  before it takes the terminal back                          *)
(*   "waitall"  in cmd_wait                                                *)
(*   "exited", "crashed"                                                   *)
(* A child is "forked" (SIGINT and SIGTSTP still ignored), "reset" (no     *)
(* longer, before execv), "running" (past it), "stopped", "zombie" or      *)
(* "reaped".                                                               *)
(***************************************************************************)
EXTENDS Integers, Sequences, FiniteSets, SequencesExt

CONSTANTS
    Job,        \* children, each forked once
    NoJob,      \* no child; as a process group, the shell's own
    Words,      \* words of a command line, "<", ">", "&" and commands
    MaxWords,   \* longest command line
    MaxKeyStrokes   \* interrupt and suspend keys typed

ASSUME NoJobAssumption == NoJob \notin Job

VARIABLES
    sh,         \* where the shell is
    cur,        \* pid, the child just forked
    background,
    child,      \* by job: its state
    group,      \* by job: NoJob for the shell's group, else its own
    execd,      \* jobs that have done execv
    late,       \* history: jobs that took signals before setpgid
    named,      \* jobs with a program name, temp[0]
    foreground, \* the terminal's foreground group
    hit,        \* history: jobs that got a signal from the keyboard
    wasFg,      \* history: jobs that were in the foreground at that time
    strokes

shVars == <<sh, cur, background, child, group, execd, late, named, foreground,
            hit, wasFg, strokes>>

ShInit ==
    /\ sh = "prompt" /\ cur = NoJob /\ background = FALSE
    /\ child = [j \in Job |-> "none"] /\ group = [j \in Job |-> NoJob]
    /\ execd = {} /\ late = {} /\ named = {}
    /\ foreground = NoJob /\ hit = {} /\ wasFg = {} /\ strokes = 0

\* index_redirect, 0 for none.
index_redirect(t) ==
    LET at == {k \in DOMAIN t : t[k] \in {"<", ">"}}
    IN  IF at = {} THEN 0 ELSE CHOOSE k \in at : \A l \in at : k <= l

\* The array temp: the words before a redirection, or all but the last &.
Arguments(t) ==
    IF index_redirect(t) # 0 THEN SubSeq(t, 1, index_redirect(t) - 1)
    ELSE IF t[Len(t)] = "&" THEN SubSeq(t, 1, Len(t) - 1) ELSE t

-----------------------------------------------------------------------------
\* A line with no word: strcat and strcmp are given a null pointer.
EmptyLine ==
    /\ sh = "prompt" /\ sh' = "crashed"
    /\ UNCHANGED <<cur, background, child, group, execd, late, named, foreground, hit, wasFg, strokes>>

\* cmd_exit; cmd_help, cmd_pwd and cmd_cd change nothing here.
CmdExit ==
    /\ sh = "prompt" /\ sh' = "exited"
    /\ UNCHANGED <<cur, background, child, group, execd, late, named, foreground, hit, wasFg, strokes>>

\* A command that is not built in: main up to fork.
Fork(j, t) ==
    /\ sh = "prompt" /\ sh' = "forked" /\ child[j] = "none"
    /\ cur' = j /\ background' = (t[Len(t)] = "&")
    /\ child' = [child EXCEPT ![j] = "forked"]
    /\ named' = IF Arguments(t) = <<>> THEN named ELSE named \cup {j}
    /\ UNCHANGED <<group, execd, late, foreground, hit, wasFg, strokes>>

\* The child: signals back to their defaults,
Reset(j) ==
    /\ child[j] = "forked" /\ child' = [child EXCEPT ![j] = "reset"]
    /\ late' = IF cur = j /\ sh = "forked" THEN late \cup {j} ELSE late
    /\ UNCHANGED <<sh, cur, background, group, execd, named, foreground, hit, wasFg, strokes>>

\* redirections and execv,
Exec(j) ==
    /\ child[j] = "reset" /\ j \in named
    /\ child' = [child EXCEPT ![j] = "running"] /\ execd' = execd \cup {j}
    /\ UNCHANGED <<sh, cur, background, group, late, named, foreground, hit, wasFg, strokes>>

\* which fails always when there is no program name: the child exits.
ExecFails(j) ==
    /\ child[j] = "reset" /\ child' = [child EXCEPT ![j] = "zombie"]
    /\ UNCHANGED <<sh, cur, background, group, execd, late, named, foreground, hit, wasFg, strokes>>

\* setpgid(pid, pid), which fails when the child has done execv.
Setpgid ==
    /\ sh = "forked" /\ sh' = "grouped"
    /\ group' = IF cur \in execd THEN group ELSE [group EXCEPT ![cur] = cur]
    /\ UNCHANGED <<cur, background, child, execd, late, named, foreground, hit, wasFg, strokes>>

\* tcsetpgrp(shell_terminal, pid), which fails when there is no such group.
GiveTerminal ==
    /\ sh = "grouped" /\ sh' = IF background THEN "restore" ELSE "waiting"
    /\ foreground' = IF group[cur] = cur THEN cur ELSE foreground
    /\ UNCHANGED <<cur, background, child, group, execd, late, named, hit, wasFg, strokes>>

\* waitpid(pid, &child_stat, 0): a stopped child does not end it.
WaitChild ==
    /\ sh = "waiting" /\ child[cur] = "zombie" /\ sh' = "restore"
    /\ child' = [child EXCEPT ![cur] = "reaped"]
    /\ UNCHANGED <<cur, background, group, execd, late, named, foreground, hit, wasFg, strokes>>

\* Mutant of TakeTerminal: only after a foreground job.
TakeTerminalFg ==
    /\ sh = "restore" /\ sh' = "prompt"
    /\ foreground' = IF background THEN foreground ELSE NoJob
    /\ UNCHANGED <<cur, background, child, group, execd, late, named, hit, wasFg, strokes>>

\* tcsetpgrp(shell_terminal, shell_pgid), and the next line.
TakeTerminal ==
    /\ sh = "restore" /\ sh' = "prompt" /\ foreground' = NoJob
    /\ UNCHANGED <<cur, background, child, group, execd, late, named, hit, wasFg, strokes>>

\* cmd_wait: waitpid(-1) until there is no child.
CmdWait ==
    /\ sh = "prompt" /\ sh' = "waitall"
    /\ UNCHANGED <<cur, background, child, group, execd, late, named, foreground, hit, wasFg, strokes>>

ReapAny ==
    /\ sh = "waitall"
    /\ \/ /\ \E j \in Job : child[j] = "zombie" /\ child' = [child EXCEPT ![j] = "reaped"]
          /\ UNCHANGED sh
       \/ /\ \A j \in Job : child[j] \in {"none", "reaped"}
          /\ sh' = "prompt" /\ UNCHANGED child
    /\ UNCHANGED <<cur, background, group, execd, late, named, foreground, hit, wasFg, strokes>>

\* A program (external) ends; reads the terminal, which stops it when its
\* group is not in the foreground; is continued by someone, where it was.
ChildEnds(j) ==
    /\ child[j] = "running" /\ child' = [child EXCEPT ![j] = "zombie"]
    /\ UNCHANGED <<sh, cur, background, group, execd, late, named, foreground, hit, wasFg, strokes>>
ChildReads(j) ==
    /\ child[j] = "running" /\ group[j] # foreground
    /\ child' = [child EXCEPT ![j] = "stopped"]
    /\ UNCHANGED <<sh, cur, background, group, execd, late, named, foreground, hit, wasFg, strokes>>
Continued(j) ==
    /\ child[j] = "stopped"
    /\ child' = [child EXCEPT ![j] = IF j \in execd THEN "running" ELSE "reset"]
    /\ UNCHANGED <<sh, cur, background, group, execd, late, named, foreground, hit, wasFg, strokes>>

\* The interrupt or suspend key: a signal to the foreground group, ignored by
\* the shell and by children that have not called signal yet.
Keystroke(effect) ==
    LET victims == {j \in Job : child[j] \in {"reset", "running"} /\ group[j] = foreground} IN
    /\ strokes < MaxKeyStrokes /\ strokes' = strokes + 1
    /\ child' = [j \in Job |-> IF j \in victims THEN effect ELSE child[j]]
    /\ hit' = hit \cup victims
    /\ wasFg' = IF sh = "restore" \/ (~background /\ sh \in {"forked", "grouped", "waiting"})
                THEN wasFg \cup {cur} ELSE wasFg
    /\ UNCHANGED <<sh, cur, background, group, execd, late, named, foreground>>

ShNext ==
    \/ EmptyLine \/ CmdExit \/ CmdWait \/ ReapAny
    \/ Setpgid \/ GiveTerminal \/ WaitChild \/ TakeTerminal
    \/ sh = "prompt" /\ \E j \in Job, n \in 1 .. MaxWords : \E t \in [1 .. n -> Words] : Fork(j, t)
    \/ \E j \in Job : \/ Reset(j) \/ Exec(j) \/ ExecFails(j) \/ ChildEnds(j)
                      \/ ChildReads(j) \/ Continued(j)
    \/ \E e \in {"zombie", "stopped"} : Keystroke(e)

-----------------------------------------------------------------------------
\* When the shell reads a line the terminal is its own (otherwise SIGTTIN,
\* which it does not ignore, would stop it).
PromptOwnsTerminal == sh = "prompt" => foreground = NoJob

\* The keys reach the foreground job and no other, except a background job
\* in the moment main has given it the terminal, or one that had its signals
\* back before the shell's setpgid, in the shell's group.
KeysReachForeground == hit \subseteq wasFg \cup late

\* "wait until all background jobs are done": none is left, running, stopped
\* or not yet reaped.
WaitReapsAll ==
    [][sh = "waitall" /\ sh' = "prompt" => \A j \in Job : child'[j] \in {"none", "reaped"}]_shVars

\* The shell forgets no foreground job: at the prompt every one has been
\* reaped, however the signals, exits and setpgid were interleaved.
ForegroundReaped ==
    sh = "prompt" /\ cur # NoJob /\ ~background => child[cur] = "reaped"

\* shell.c: at the prompt the shell owns the terminal and has reaped every
\* foreground job, keys reach the foreground job and nobody else, and wait
\* reaps all.
JobsRight ==
    /\ [](PromptOwnsTerminal /\ KeysReachForeground /\ ForegroundReaped)
    /\ WaitReapsAll

-----------------------------------------------------------------------------
(***************************************************************************)
(* tokenize of homeworks/hw1/tokenizer.c: a line is split into words at    *)
(* white space that is neither quoted nor escaped; quotes and the escaping *)
(* backslashes go.  One step per turn of the loop over the characters.     *)
(***************************************************************************)
CONSTANTS
    LineChars,  \* a letter, Separator, the quotes and the backslash
    MaxLine,    \* longest line
    NMax        \* n_max, the size of the buffer token

VARIABLES line, i, mode, token, tokens, done

tokVars == <<line, i, mode, token, tokens, done>>

Separator == " "
SQuote == "'"
DQuote == "dq"
Backslash == "bs"

TokInit ==
    /\ line = <<>> /\ i = 1 /\ mode = "NORMAL" /\ token = <<>> /\ tokens = <<>>
    /\ done = "no line"

\* Each call has its own copy of n; the buffer is kept but not its content.
StartLine ==
    /\ done = "no line" /\ done' = "no"
    /\ line' \in SeqOf(LineChars, MaxLine)
    /\ UNCHANGED <<i, mode, token, tokens>>

\* copy_word and vector_push, if there is a word.
PushWord == /\ tokens' = IF token # <<>> THEN Append(tokens, token) ELSE tokens
            /\ token' = <<>>

\* What a character that is no quote of the mode does: a backslash takes the
\* next character as it is, if there is one.
Take ==
    IF line[i] # Backslash THEN token' = Append(token, line[i]) /\ i' = i + 1
    ELSE IF i < Len(line) THEN token' = Append(token, line[i + 1]) /\ i' = i + 2
    ELSE i' = i + 1 /\ UNCHANGED token

\* Mutant of Ends: white space ends the word in double quotes too.
EndsQuoted(c) == mode \in {"NORMAL", DQuote} /\ c = Separator
Ends(c) == mode = "NORMAL" /\ c = Separator
Full(n) == n + 1 >= NMax

\* One turn of the loop.
CharStep ==
    /\ done = "no" /\ i <= Len(line)
    /\ LET c == line[i] IN
       \/ Ends(c) /\ PushWord /\ i' = i + 1 /\ UNCHANGED mode
       \/ /\ mode = "NORMAL" /\ c \in {SQuote, DQuote}
          /\ mode' = c /\ i' = i + 1 /\ UNCHANGED <<token, tokens>>
       \/ /\ mode # "NORMAL" /\ c = mode
          /\ mode' = "NORMAL" /\ i' = i + 1 /\ UNCHANGED <<token, tokens>>
       \/ /\ ~Ends(c) /\ c \notin IF mode = "NORMAL" THEN {SQuote, DQuote} ELSE {mode}
          /\ Take /\ UNCHANGED <<mode, tokens>>
    /\ done' = IF Full(Len(token')) THEN "abort" ELSE "no"
    /\ UNCHANGED line

\* The last word.
Finish == done = "no" /\ i > Len(line) /\ done' = "yes" /\ PushWord /\ UNCHANGED <<line, i, mode>>

TokNext == StartLine \/ CharStep \/ Finish

-----------------------------------------------------------------------------
\* Reference: how a character of the line is meant, from the ones before it.
\* A character is escaped when an unescaped backslash stands before it; a
\* quote counts when it is not escaped and not within the other quotes.
Escaped[k \in 0 .. MaxLine] == k > 1 /\ line[k - 1] = Backslash /\ ~Escaped[k - 1]
QuoteAfter[k \in 0 .. MaxLine] ==
    IF k = 0 THEN "NORMAL"
    ELSE LET m == QuoteAfter[k - 1] IN
         IF Escaped[k] \/ line[k] \notin {SQuote, DQuote} THEN m
         ELSE IF m = "NORMAL" THEN line[k] ELSE IF m = line[k] THEN "NORMAL" ELSE m
IsText(k) ==
    \/ Escaped[k]
    \/ /\ line[k] # Backslash
       /\ IF line[k] = Separator THEN QuoteAfter[k - 1] # "NORMAL"
          ELSE line[k] \in {SQuote, DQuote} => QuoteAfter[k] = QuoteAfter[k - 1]
Breaks(k) == line[k] = Separator /\ ~IsText(k)

\* The words of a line are its characters that count as text, in order, cut
\* exactly where white space stands unquoted and unescaped between them, and
\* no word is empty; escapes at the end of the line and quotes left open
\* included.
WordsRight ==
    done = "yes" =>
        LET text == {k \in DOMAIN line : IsText(k)}
            kept == SelectSeq([k \in DOMAIN line |-> k], LAMBDA k : k \in text)
            cut(k, l) == \E b \in k .. l : Breaks(b)
        IN /\ FlattenSeq(tokens) = [n \in DOMAIN kept |-> line[kept[n]]]
           /\ \A n \in DOMAIN tokens : tokens[n] # <<>>
           /\ Len(tokens) = IF kept = <<>> THEN 0
                            ELSE 1 + Cardinality({n \in 1 .. Len(kept) - 1 : cut(kept[n], kept[n + 1])})
           /\ \A n \in 1 .. Len(tokens) - 1 :
                LET e == Len(FlattenSeq(SubSeq(tokens, 1, n))) IN cut(kept[e], kept[e + 1])

\* A word and its null byte fit into the buffer, or the shell has stopped.
BufferHolds == done \in {"no", "yes"} => Len(token) < NMax - 1

\* tokenize: the words are those between unquoted white space, and fit the
\* buffer.
TokensRight == WordsRight /\ BufferHolds
=============================================================================
