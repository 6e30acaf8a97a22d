----------------------------- MODULE BlockStore -----------------------------
(***************************************************************************)
(* What the buffer cache of filesys/fs_cache.c promises its callers (the   *)
(* inode layer): every cache_read_len and cache_write_len behaves as one   *)
(* indivisible access to an array of sectors, somewhere between its call   *)
(* and its return.  Which sectors are in memory, and which copy of a       *)
(* sector is the current one, cannot be told from outside.                 *)
(***************************************************************************)
CONSTANTS
    Thread,        \* kernel threads that use the file system
    Block,         \* sectors of fs_device (block_sector_t)
    UNALLOCATED,   \* the sector number of a hole in a file
    Cell,          \* byte positions of a sector, 0 .. BLOCK_SECTOR_SIZE - 1
    Value,         \* contents of one byte
    Zero,          \* the byte 0
    Extent,        \* the byte ranges [offset, offset + len) a caller may name
    Buffer         \* the caller buffers that may be written

VARIABLES
    store,   \* current contents of every sector
    phase,   \* per thread: outside ("idle"), called ("pending"), done ("done")
    req,     \* per thread: the arguments of the call
    buf      \* per thread: what the call copied out to its caller

storeVars == <<store, phase, req, buf>>

Sector == [Cell -> Value]

ZEROS == [c \in Cell |-> Zero]

NoReq == [kind |-> "none"]

\* cache_read_len (block, buffer, offset, len)
ReadReq == [kind : {"read"}, blk : Block \cup {UNALLOCATED}, ext : Extent]

\* cache_write_len (block, buffer, offset, len)
WriteReq == [kind : {"write"}, blk : Block, ext : Extent, src : Buffer]

\* memcpy of the bytes ext of sector s to the caller's buffer
CopyOut(s, ext) == [c \in ext |-> s[c]]

\* memcpy of the bytes ext of the caller's buffer src into sector s
CopyIn(s, ext, src) == [c \in Cell |-> IF c \in ext THEN src[c] ELSE s[c]]

NoBytes == [c \in {} |-> Zero]

StoreInit ==
    /\ store \in [Block -> Sector]
    /\ phase = [t \in Thread |-> "idle"]
    /\ req = [t \in Thread |-> NoReq]
    /\ buf = [t \in Thread |-> NoBytes]

Begin(t) ==
    /\ phase[t] = "idle"
    /\ \E r \in ReadReq \cup WriteReq : req' = [req EXCEPT ![t] = r]
    /\ phase' = [phase EXCEPT ![t] = "pending"]
    /\ UNCHANGED <<store, buf>>

\* A hole reads as zeros.
ExecuteRead(t) ==
    /\ phase[t] = "pending"
    /\ req[t].kind = "read"
    /\ buf' = [buf EXCEPT ![t] =
                 CopyOut(IF req[t].blk = UNALLOCATED THEN ZEROS
                                                     ELSE store[req[t].blk],
                         req[t].ext)]
    /\ phase' = [phase EXCEPT ![t] = "done"]
    /\ UNCHANGED <<store, req>>

ExecuteWrite(t) ==
    /\ phase[t] = "pending"
    /\ req[t].kind = "write"
    /\ store' = [store EXCEPT ![req[t].blk] =
                   CopyIn(store[req[t].blk], req[t].ext, req[t].src)]
    /\ phase' = [phase EXCEPT ![t] = "done"]
    /\ UNCHANGED <<req, buf>>

End(t) ==
    /\ phase[t] = "done"
    /\ phase' = [phase EXCEPT ![t] = "idle"]
    /\ req' = [req EXCEPT ![t] = NoReq]
    /\ buf' = [buf EXCEPT ![t] = NoBytes]
    /\ UNCHANGED store

StoreNext ==
    \E t \in Thread : Begin(t) \/ ExecuteRead(t) \/ ExecuteWrite(t) \/ End(t)

StoreSpec == StoreInit /\ [][StoreNext]_storeVars
=============================================================================
