----------------------------- MODULE HttpServer -----------------------------
(***************************************************************************)
(* The server of homeworks/hw2: the accept loop, the work queue of wq.c    *)
(* and the threads of the pool, with the descriptors they share.           *)
(*                                                                         *)
(* wq_push and wq_pop hold the queue's mutex from end to end, except that  *)
(* pthread_cond_wait gives it up: each stretch under the mutex is a step.  *)
(* A thread of the pool is at                                              *)
(*   "pop"      the start of wq_pop, or woken in it and about to take the  *)
(*              mutex and look at size again                               *)
(*   "waiting"  blocked in pthread_cond_wait                               *)
(*   "handle"   at the call of request_handler with the popped descriptor  *)
(*   "finish"   in the handler, the request parsed or the relay under way  *)
(*   "close"    at the close that follows the handler                      *)
(* or "none" if the pool has not got it.  Main is at "accept", at "push",  *)
(* or, with no pool, at "handle", "finish" or "close".                     *)
(*                                                                         *)
(* Clients send well-formed requests: on any other request the handlers    *)
(* use the NULL that http_request_parse returns.                           *)
(***************************************************************************)
EXTENDS Integers, Sequences, FiniteSets

CONSTANTS
    Worker,         \* the threads of the pool, if num_threads is not 0
    Main,
    Conn,           \* connections clients make, each once
    MaxFd,          \* descriptors 1 .. MaxFd serve for connections
    Command,        \* command lines: is there a pool, is it a proxy?
    Target,         \* what is behind a descriptor of the proxy's own
    None

ASSUME WorkerAssumption == IsFiniteSet(Worker) /\ Main \notin Worker
ASSUME MaxFdAssumption == MaxFd \in Nat
ASSUME CommandAssumption == Command \subseteq [pool : BOOLEAN, proxy : BOOLEAN]
ASSUME NoneAssumption == None \notin Conn /\ Target \notin Conn \cup {None}

VARIABLES
    pool,      \* the threads init_thread_pool made
    proxy,     \* is request_handler handle_proxy_request?
    pc,        \* by thread
    fd,        \* by thread, its descriptor, 0 if it has none
    wq,        \* the queue of descriptors
    open,      \* by descriptor, what is behind it, or None
    arrived,   \* connections made so far
    handled,   \* connections whose request a handler has turned to
    closed,    \* connections closed by the server
    down       \* the process has exited or crashed

mode == <<pool, proxy>>
vars == <<mode, pc, fd, wq, open, arrived, handled, closed, down>>

Thread == Worker \cup {Main}
FD == 1 .. MaxFd

\* wq_init and init_thread_pool.
Init ==
    /\ \E c \in Command : /\ pool = IF c.pool THEN Worker ELSE {}
                          /\ proxy = c.proxy
    /\ pc = [t \in Thread |-> IF t = Main THEN "accept"
                              ELSE IF t \in pool THEN "pop" ELSE "none"]
    /\ fd = [t \in Thread |-> 0]
    /\ wq = <<>>
    /\ open = [d \in FD |-> None]
    /\ arrived = {} /\ handled = {} /\ closed = {}
    /\ down = FALSE

Goto(t, from, to) == ~down /\ pc[t] = from /\ pc' = [pc EXCEPT ![t] = to]

\* The descriptor accept and socket return: the lowest that is free.
Free(d) == open[d] = None /\ \A e \in FD : open[e] = None => d <= e

-----------------------------------------------------------------------------
\* accept.  Without a free descriptor it fails and is called again.
Accept ==
    /\ Goto(Main, "accept", IF pool = {} THEN "handle" ELSE "push")
    /\ \E c \in Conn \ arrived, d \in FD :
         /\ Free(d)
         /\ open' = [open EXCEPT ![d] = c]
         /\ arrived' = arrived \cup {c}
         /\ fd' = [fd EXCEPT ![Main] = d]
    /\ UNCHANGED <<mode, wq, handled, closed, down>>

\* Mutant of wq_push: no signal.
wq_push_silent ==
    /\ Goto(Main, "push", "accept")
    /\ wq' = Append(wq, fd[Main])
    /\ fd' = [fd EXCEPT ![Main] = 0]
    /\ UNCHANGED <<mode, open, arrived, handled, closed, down>>

\* Mutant of wq_push: the signal is only for the first item.
wq_push_first ==
    LET waiting == {w \in Worker : pc[w] = "waiting"} IN
    /\ ~down /\ pc[Main] = "push"
    /\ wq' = Append(wq, fd[Main])
    /\ fd' = [fd EXCEPT ![Main] = 0]
    /\ IF waiting = {} \/ wq # <<>> THEN pc' = [pc EXCEPT ![Main] = "accept"]
       ELSE \E w \in waiting :
              pc' = [pc EXCEPT ![Main] = "accept", ![w] = "pop"]
    /\ UNCHANGED <<mode, open, arrived, handled, closed, down>>

\* wq_push: append, and signal one waiting thread if there is one.
wq_push ==
    LET waiting == {w \in Worker : pc[w] = "waiting"} IN
    /\ ~down /\ pc[Main] = "push"
    /\ wq' = Append(wq, fd[Main])
    /\ fd' = [fd EXCEPT ![Main] = 0]
    /\ IF waiting = {} THEN pc' = [pc EXCEPT ![Main] = "accept"]
       ELSE \E w \in waiting :
              pc' = [pc EXCEPT ![Main] = "accept", ![w] = "pop"]
    /\ UNCHANGED <<mode, open, arrived, handled, closed, down>>

\* Mutant of wq_pop: the item is not taken off the queue.
wq_pop_keep(w) ==
    /\ Goto(w, "pop", "handle")
    /\ wq # <<>>
    /\ fd' = [fd EXCEPT ![w] = Head(wq)]
    /\ UNCHANGED <<mode, wq, open, arrived, handled, closed, down>>

\* wq_pop with an item on the queue.
wq_pop(w) ==
    /\ Goto(w, "pop", "handle")
    /\ wq # <<>>
    /\ fd' = [fd EXCEPT ![w] = Head(wq)]
    /\ wq' = Tail(wq)
    /\ UNCHANGED <<mode, open, arrived, handled, closed, down>>

\* wq_pop with an empty queue: pthread_cond_wait.
wq_pop_wait(w) ==
    /\ Goto(w, "pop", "waiting")
    /\ wq = <<>>
    /\ UNCHANGED <<mode, fd, wq, open, arrived, handled, closed, down>>

\* pthread_cond_wait may return without a signal.
SpuriousWakeup(w) ==
    /\ Goto(w, "waiting", "pop")
    /\ UNCHANGED <<mode, fd, wq, open, arrived, handled, closed, down>>

\* handle_files_request up to http_request_parse: of a closed descriptor the
\* read fails and the handler uses the NULL request.
HandleFiles(t) ==
    /\ ~proxy
    /\ Goto(t, "handle", "finish")
    /\ LET c == open[fd[t]] IN
         /\ down' = (c = None)
         /\ handled' = handled \cup ({c} \ {None})
    /\ UNCHANGED <<mode, fd, wq, open, arrived, closed>>

\* handle_proxy_request opens a descriptor of its own, which nothing closes;
\* without a free one, or if the target's name is not found, it exits.
HandleProxy(t) ==
    /\ proxy
    /\ Goto(t, "handle", "finish")
    /\ handled' = handled \cup {open[fd[t]]}
    /\ down' \in {TRUE, \A d \in FD : open[d] # None}
    /\ open' = [d \in FD |-> IF Free(d) THEN Target ELSE open[d]]
    /\ UNCHANGED <<mode, fd, wq, arrived, closed>>

\* close of a descriptor, whatever is behind it by now.
Close(d) ==
    /\ closed' = closed \cup ({open[d]} \ {None})
    /\ open' = [open EXCEPT ![d] = None]

\* The response of handle_files_request: each of its paths ends in close.
FinishFiles(t) ==
    /\ ~proxy
    /\ Goto(t, "finish", "close")
    /\ Close(fd[t])
    /\ UNCHANGED <<mode, fd, wq, arrived, handled, down>>

\* handle_proxy_request returns: no target to relay to, or both relay threads
\* stopped by a failing read.
FinishProxy(t) ==
    /\ proxy
    /\ Goto(t, "finish", "close")
    /\ UNCHANGED <<mode, fd, wq, open, arrived, handled, closed, down>>

\* The close in req_thread, and in serve_forever without a pool.
CloseAfter(t) ==
    /\ Goto(t, "close", IF t = Main THEN "accept" ELSE "pop")
    /\ Close(fd[t])
    /\ fd' = [fd EXCEPT ![t] = 0]
    /\ UNCHANGED <<mode, wq, arrived, handled, down>>

Next ==
    \/ Accept \/ wq_push
    \/ \E w \in Worker : wq_pop(w) \/ wq_pop_wait(w) \/ SpuriousWakeup(w)
    \/ \E t \in Thread :
         \/ HandleFiles(t) \/ FinishFiles(t)
         \/ HandleProxy(t) \/ FinishProxy(t)
         \/ CloseAfter(t)

Spec == Init /\ [][Next]_vars

\* The system runs every thread that can run: only wq_pop is asked for, no
\* handler and no client is assumed to get anywhere.
FairSpec == Spec /\ \A w \in Worker : WF_vars(wq_pop(w) \/ wq_pop_wait(w))

-----------------------------------------------------------------------------
\* Types of the work queue, of the pool and of the descriptors.
TypeOK ==
    /\ pool \subseteq Worker /\ proxy \in BOOLEAN
    /\ pc \in [Thread -> {"none", "accept", "push", "pop", "waiting", "handle",
                          "finish", "close"}]
    /\ fd \in [Thread -> FD \cup {0}]
    /\ wq \in Seq(FD)
    /\ open \in [FD -> Conn \cup {Target, None}]
    /\ arrived \subseteq Conn /\ handled \subseteq Conn /\ closed \subseteq Conn
    /\ down \in BOOLEAN

\* handle_files_request closes the descriptor, and req_thread closes the
\* number again.
FilesPool == pool # {} /\ ~proxy

\* Descriptors change hands through accept, the queue, wq_pop and close, and
\* each is in one hand at a time: what a thread or the queue has is an open
\* client connection, nobody else has it, and no connection is left open that
\* nobody has.  A thread back from handle_files_request has let go of its own.
\* Not so in a pool that serves files, whose threads close a descriptor twice.
FdOwned == ~FilesPool =>
    LET Users(d) == {t \in Thread : fd[t] = d /\ (pc[t] = "close" => proxy)}
        Slots(d) == {i \in DOMAIN wq : wq[i] = d}
    IN  \A d \in FD : Cardinality(Users(d)) + Cardinality(Slots(d)) =
                         IF open[d] \in Conn THEN 1 ELSE 0

\* "For each accepted connection, calls request_handler with the accepted fd
\* number" (serve_forever): the server closes no connection before its
\* request was handled, whichever descriptors are reused meanwhile.  The second
\* close of a pool that serves files may.
ServedBeforeClosed == FilesPool \/ closed \subseteq handled

\* A signal for every item: while a thread of the pool is asleep, there are
\* at least as many threads about to pop as there are items.
NoSleeperWithWork ==
    (\E w \in Worker : pc[w] = "waiting") =>
        Len(wq) <= Cardinality({w \in Worker : pc[w] = "pop"})

\* The first item of the queue is taken if any thread of the pool is not busy
\* with a handler, even if no handler ever returns.
HeadPopped ==
    \A d \in FD :
        (wq # <<>> /\ Head(wq) = d
            /\ \E w \in Worker : pc[w] \in {"pop", "waiting"})
        ~> (wq = <<>> \/ Head(wq) # d \/ down
            \/ \A w \in Worker : pc[w] \notin {"pop", "waiting"})

\* A client's descriptor goes from accept through wq to one worker and is
\* closed once, after it was served; a number that was closed and given to
\* another client is not closed for the first one (a pool serving files apart).
DescriptorsOwned == TypeOK /\ FdOwned /\ ServedBeforeClosed
=============================================================================
