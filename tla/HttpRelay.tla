----------------------------- MODULE HttpRelay ------------------------------
(***************************************************************************)
(* The relay of handle_proxy_request in homeworks/hw2: forward_data1 and   *)
(* forward_data2, two threads that share `stop', copy what one side sends  *)
(* to the other.  The thread that reads from side s is called s; it is at  *)
(*   "check"  the test of stop       "read"  the read                      *)
(*   "write"  the loop of http_send_data, over what is left in rest        *)
(*   "done"   returned                                                     *)
(* The bytes a side sends are numbered, or Nul.  A connection is "open",   *)
(* "closed" by its peer (a read returns 0), "reset" (the next read or      *)
(* write fails) or "dead" (after that: a read returns 0, a write raises    *)
(* SIGPIPE).                                                               *)
(***************************************************************************)
EXTENDS Integers, Sequences, SequencesExt, FiniteSets

CONSTANTS
    BuffSize,   \* sizeof temp_buff
    ClientSends, TargetSends    \* bytes a side sends

ASSUME RelayAssumption ==
    BuffSize \in Nat \ {0} /\ {ClientSends, TargetSends} \subseteq Nat

VARIABLES
    link,       \* by side, the state of its connection
    inbox,      \* by side, bytes sent and not yet read
    sends,      \* by side, bytes sent so far
    outbox,     \* by side, bytes written to it
    at,         \* by thread
    temp_buff,  \* by thread, its buffer
    rest,       \* by thread, what http_send_data has yet to write
    stop,       \* args -> stop
    failed,     \* sides of which a read has failed
    killed      \* SIGPIPE has ended the process

peerVars == <<link, inbox, sends>>
relayVars == <<peerVars, outbox, at, temp_buff, rest, stop, failed, killed>>

Side == {"client", "target"}
Nul == 0       \* the byte 0
Junk == -1     \* a byte the stack held
MaxSend(s) == IF s = "client" THEN ClientSends ELSE TargetSends
Other(s) == IF s = "client" THEN "target" ELSE "client"

\* The threads start; temp_buff holds whatever the stack held.
RelayInit ==
    /\ link = [s \in Side |-> "open"]
    /\ inbox = [s \in Side |-> <<>>]
    /\ sends = [s \in Side |-> <<>>]
    /\ outbox = [s \in Side |-> <<>>]
    /\ at = [s \in Side |-> "check"]
    /\ temp_buff \in [Side -> {[i \in 1 .. BuffSize |-> c] : c \in {Nul, Junk}}]
    /\ rest = [s \in Side |-> <<>>]
    /\ stop = 0 /\ failed = {} /\ killed = FALSE

-----------------------------------------------------------------------------
\* A peer sends its next byte, which may be a nul.
PeerSends(s) ==
    /\ link[s] = "open" /\ Len(sends[s]) < MaxSend(s) /\ ~killed
    /\ \E c \in {Len(sends[s]) + 1, Nul} :
         /\ sends' = [sends EXCEPT ![s] = Append(@, c)]
         /\ inbox' = [inbox EXCEPT ![s] = Append(@, c)]
    /\ UNCHANGED <<link, outbox, at, temp_buff, rest, stop, failed, killed>>

\* A peer closes its connection, or breaks it: what was not read may be lost.
PeerLeaves(s) ==
    /\ link[s] = "open" /\ ~killed
    /\ \/ link' = [link EXCEPT ![s] = "closed"] /\ UNCHANGED inbox
       \/ /\ link' = [link EXCEPT ![s] = "reset"]
          /\ \E kept \in {<<>>, inbox[s]} : inbox' = [inbox EXCEPT ![s] = kept]
    /\ UNCHANGED <<sends, outbox, at, temp_buff, rest, stop, failed, killed>>

Move(s, from, to) == ~killed /\ at[s] = from /\ at' = [at EXCEPT ![s] = to]

\* if (args -> stop == 1) return.
TestStop(s) ==
    /\ Move(s, "check", IF stop = 1 THEN "done" ELSE "read")
    /\ UNCHANGED <<peerVars, outbox, temp_buff, rest, stop, failed, killed>>

\* strlen: up to the first nul, or the end of the buffer, where the model's
\* stack has one.
Terminated(b) ==
    LET nuls == {i \in DOMAIN b : b[i] = Nul} IN
    IF nuls = {} THEN b ELSE SubSeq(b, 1, (CHOOSE i \in nuls : \A j \in nuls : i <= j) - 1)

\* read returns some of what has come, over the start of the buffer, which
\* http_send_string then takes for a string.
Read(s) ==
    /\ inbox[s] # <<>>
    /\ Move(s, "read", "write")
    /\ \E n \in 1 .. BuffSize :
         /\ n <= Len(inbox[s])
         /\ temp_buff' = [temp_buff EXCEPT ![s] = [i \in 1 .. BuffSize |->
                IF i <= n THEN inbox[s][i] ELSE @[i]]]
         /\ inbox' = [inbox EXCEPT ![s] = SubSeq(@, n + 1, Len(@))]
    /\ rest' = [rest EXCEPT ![s] = Terminated(temp_buff'[s])]
    /\ UNCHANGED <<link, sends, outbox, stop, failed, killed>>

\* read returns 0 at the end of file: nothing is done.
ReadEnd(s) ==
    /\ inbox[s] = <<>> /\ link[s] \in {"closed", "dead"}
    /\ Move(s, "read", "check")
    /\ UNCHANGED <<peerVars, outbox, temp_buff, rest, stop, failed, killed>>

\* read fails: both threads are to stop.
ReadFails(s) ==
    /\ inbox[s] = <<>> /\ link[s] = "reset"
    /\ Move(s, "read", "check")
    /\ link' = [link EXCEPT ![s] = "dead"]
    /\ stop' = 1
    /\ failed' = failed \cup {s}
    /\ UNCHANGED <<inbox, sends, outbox, temp_buff, rest, killed>>

\* Mutant of SendData: a short write ends the loop.
SendDataOnce(s) ==
    /\ at[s] = "write" /\ rest[s] # <<>> /\ ~killed /\ link[Other(s)] = "open"
    /\ \E n \in 1 .. Len(rest[s]) :
         /\ outbox' = [outbox EXCEPT ![Other(s)] = @ \o SubSeq(rest[s], 1, n)]
         /\ rest' = [rest EXCEPT ![s] = <<>>]
    /\ UNCHANGED <<peerVars, at, temp_buff, stop, failed, killed>>

\* One write of http_send_data.  To a peer that has closed, the first goes
\* through and is answered by a reset; a write that fails ends the loop.
SendData(s) ==
    LET to == Other(s) IN
    /\ at[s] = "write" /\ rest[s] # <<>> /\ ~killed
    /\ \/ /\ link[to] = "open"
          /\ \E n \in 1 .. Len(rest[s]) :
               /\ outbox' = [outbox EXCEPT ![to] = @ \o SubSeq(rest[s], 1, n)]
               /\ rest' = [rest EXCEPT ![s] = SubSeq(@, n + 1, Len(@))]
          /\ UNCHANGED <<link, inbox, killed>>
       \/ /\ link[to] = "closed"
          /\ link' = [link EXCEPT ![to] = "reset"]
          /\ inbox' = [inbox EXCEPT ![to] = <<>>]
          /\ rest' = [rest EXCEPT ![s] = <<>>]
          /\ UNCHANGED <<outbox, killed>>
       \/ /\ link[to] = "reset"
          /\ link' = [link EXCEPT ![to] = "dead"]
          /\ rest' = [rest EXCEPT ![s] = <<>>]
          /\ UNCHANGED <<inbox, outbox, killed>>
       \/ /\ link[to] = "dead"
          /\ killed' = TRUE
          /\ UNCHANGED <<link, inbox, outbox, rest>>
    /\ UNCHANGED <<sends, at, temp_buff, stop, failed>>

\* http_send_data has nothing left.
Sent(s) ==
    /\ rest[s] = <<>>
    /\ Move(s, "write", "check")
    /\ UNCHANGED <<peerVars, outbox, temp_buff, rest, stop, failed, killed>>

RelayStep(s) ==
    \/ TestStop(s) \/ Read(s) \/ ReadEnd(s) \/ ReadFails(s)
    \/ SendData(s) \/ Sent(s)

RelayNext == \E s \in Side : PeerSends(s) \/ PeerLeaves(s) \/ RelayStep(s)

-----------------------------------------------------------------------------
\* The bytes of a string in the order they are first seen.
FirstSeen(b) ==
    LET first == {i \in DOMAIN b : b[i] # Junk /\ \A j \in DOMAIN b : b[j] = b[i] => i <= j}
    IN  [k \in 1 .. Cardinality(first) |->
           b[CHOOSE i \in first : Cardinality({j \in first : j < i}) = k - 1]]

\* Between two sides that are there, the relay loses and reorders nothing
\* that was read, over every split of the stream into reads and writes: the
\* far side sees each byte once in order, however many stale bytes of the
\* buffer http_send_string adds, as long as no nul has been sent.
ReadIsForwarded ==
    \A s \in Side :
        LET n == Len(sends[s]) - Len(inbox[s])
            seen == FirstSeen(outbox[Other(s)])
        IN  (link[s] \in {"open", "closed"} /\ link[Other(s)] = "open" /\ Nul \notin ToSet(sends[s]))
              => /\ \E k \in 0 .. n : seen = SubSeq(sends[s], 1, k)
                 /\ at[s] \in {"check", "read"} => Len(seen) = n

\* handle_proxy_request returns only after a read has failed: an end of file
\* on both sides keeps both threads, and the thread of the pool, for ever.
ReturnsOnFailure == (\E s \in Side : at[s] = "done") => failed # {}

\* Once a read has failed and the other side has gone too, both threads
\* return: the one at the end of file comes past the test of stop.
RelayEnds ==
    (stop = 1 /\ \A s \in Side : link[s] # "open")
        ~> (killed \/ \A s \in Side : at[s] = "done")

\* While the relay runs, what a side sends is read, also after the other side
\* has closed its direction.
DataMoves ==
    \A s \in Side : inbox[s] # <<>> ~> (inbox[s] = <<>> \/ stop = 1 \/ killed)

\* The relay of handle_proxy_request over every split of the streams, ends and
\* resets: nothing is lost or reordered on the way, it returns only after a
\* failure, it does return once both sides are gone and one has failed, and
\* until then it goes on moving data.
RelayKeeps ==
    /\ [](ReadIsForwarded /\ ReturnsOnFailure)
    /\ RelayEnds
    /\ DataMoves
=============================================================================
