--------------------------- MODULE CacheShutdown ----------------------------
(***************************************************************************)
(* Shutting down: one thread calls halt, whose filesys_done runs           *)
(* cache_flush over buff_cache and then powers the machine off.            *)
(* cache_flush takes no lock, and the other threads go on running until    *)
(* the power is off.  A thread in cache_flush may lose the processor, or   *)
(* wait for the IDE channel, between reading e->valid, e->dirty and        *)
(* e->block and the transfer of e->data.                                   *)
(***************************************************************************)
EXTENDS BufferCache

VARIABLES
    halter,     \* the thread that called halt, or None
    stage,      \* "up", "check", "write" or "off"
    flush_i,    \* i of cache_flush
    flush_blk,  \* e->block as evaluated for block_write
    owed,       \* history: the contents of every sector when halt was called
    calm        \* history: no thread has been inside fs_cache.c since halt

haltVars == <<halter, stage, flush_i, flush_blk, owed>>
shutdownVars == <<vars, haltVars, calm>>

ShutdownInit ==
    /\ Init
    /\ halter = None
    /\ stage = "up"
    /\ flush_i = 0
    /\ flush_blk = None
    /\ owed = disk
    /\ calm = TRUE

\* halt: shutdown_power_off calls filesys_done, which calls cache_flush.
Halt(t) ==
    /\ stage = "up"
    /\ pc[t] = "idle"
    /\ halter' = t
    /\ stage' = "check"
    /\ flush_i' = 0
    /\ owed' = [b \in Block |-> Contents(b)]
    /\ calm' = \A u \in Thread : pc[u] = "idle"
    /\ UNCHANGED <<vars, flush_blk>>

\* Mutant of FlushSkip: the loop ends one entry early.
FlushSkipLast ==
    /\ stage = "check"
    /\ flush_i < CACHE_SIZE
    /\ \/ ~(valid[flush_i] /\ dirty[flush_i])
       \/ flush_i = CACHE_SIZE - 1
    /\ flush_i' = flush_i + 1
    /\ UNCHANGED <<vars, halter, stage, flush_blk, owed, calm>>

\* A turn of the loop that finds nothing to write.
FlushSkip ==
    /\ stage = "check"
    /\ flush_i < CACHE_SIZE
    /\ ~(valid[flush_i] /\ dirty[flush_i])
    /\ flush_i' = flush_i + 1
    /\ UNCHANGED <<vars, halter, stage, flush_blk, owed, calm>>

\* A turn that finds a dirty entry and calls block_write.
FlushEntry ==
    /\ stage = "check"
    /\ flush_i < CACHE_SIZE
    /\ valid[flush_i] /\ dirty[flush_i]
    /\ stage' = "write"
    /\ flush_blk' = block[flush_i]
    /\ UNCHANGED <<vars, halter, flush_i, owed, calm>>

\* The transfer of block_write; the dirty bit stays as it is.
FlushWrite ==
    /\ stage = "write"
    /\ disk' = [disk EXCEPT ![flush_blk] = data[flush_i]]
    /\ stage' = "check"
    /\ flush_i' = flush_i + 1
    /\ flush_blk' = None
    /\ UNCHANGED <<clk_hand, cache_lock, entVars, pc, req, ent, buf, halter,
                   owed, calm>>

PowerOff ==
    /\ stage = "check"
    /\ flush_i = CACHE_SIZE
    /\ stage' = "off"
    /\ UNCHANGED <<vars, halter, flush_i, flush_blk, owed, calm>>

\* The other threads, until the power is off.
Others ==
    /\ stage # "off"
    /\ \E t \in Thread \ {halter} : Call(t) \/ Step(t)
    /\ calm' = (calm /\ stage = "up")
    /\ UNCHANGED haltVars

ShutdownNext ==
    \/ \E t \in Thread : Halt(t)
    \/ FlushSkip \/ FlushEntry \/ FlushWrite \/ PowerOff
    \/ Others

ShutdownSpec == ShutdownInit /\ [][ShutdownNext]_shutdownVars
-----------------------------------------------------------------------------
\* cache_flush of a cache nobody else uses leaves on disk everything that was
\* ever written, the sectors evicted before and the sectors still in memory.
QuietShutdownPersists ==
    stage = "off" /\ calm => disk = owed
=============================================================================
