----------------------------- MODULE MCHttp ----------------------------------
(***************************************************************************)
(* The thread pool of the HTTP server and one relay of its proxy, checked  *)
(* together: a behaviour is one of one part, the other stays where it      *)
(* starts.                                                                 *)
(***************************************************************************)
EXTENDS HttpServer, HttpRelay

VARIABLE part

httpVars == <<part, vars, relayVars>>

Parts == {"server", "relay"}

\* A part whose first state is a choice makes it only when it is its turn.
HttpInit ==
    /\ part \in Parts
    /\ Init /\ (part # "server" => pool = {} /\ ~proxy)
    /\ RelayInit /\ (part # "relay" => temp_buff = [s \in Side |-> [i \in 1 .. BuffSize |-> Nul]])

Parked ==
    /\ UNCHANGED part
    /\ part # "server" => UNCHANGED vars
    /\ part # "relay" => UNCHANGED relayVars

HttpNext ==
    \/ part = "server" /\ Next /\ Parked
    \/ part = "relay" /\ RelayNext /\ Parked

\* Threads that can run do: the pool's between two items, the relay's always.
HttpFairness ==
    /\ \A w \in Worker : WF_vars(part = "server" /\ (wq_pop(w) \/ wq_pop_wait(w)))
    /\ \A s \in Side : WF_relayVars(part = "relay" /\ RelayStep(s))

HttpSpec == HttpInit /\ [][HttpNext]_httpVars /\ HttpFairness

-----------------------------------------------------------------------------
\* HttpServer.
AnyCommand == [pool : BOOLEAN, proxy : BOOLEAN]
=============================================================================
