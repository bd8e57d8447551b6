-------------------------------- MODULE Disk --------------------------------
(***************************************************************************)
(* What the file system relies on when it works through the block cache: a *)
(* disk whose blocks read as they were last written, which may write any   *)
(* of them back at any time, and of which a crash leaves what was written  *)
(* back.                                                                   *)
(***************************************************************************)
CONSTANTS Blocks, Contents

VARIABLES content,   \* what a read of a block returns
          durable,   \* what it returns after a crash
          synced     \* block_cache_sync_all has returned since the last write

vars == <<content, durable, synced>>

Init ==
    /\ content \in [Blocks -> Contents]
    /\ durable = content
    /\ synced = TRUE

Write(b, c) ==
    /\ content' = [content EXCEPT ![b] = c]
    /\ synced' = FALSE
    /\ UNCHANGED durable

WriteBack(b) ==
    /\ durable' = [durable EXCEPT ![b] = content[b]]
    /\ UNCHANGED <<content, synced>>

Sync ==
    /\ durable = content
    /\ synced' = TRUE
    /\ UNCHANGED <<content, durable>>

Crash ==
    /\ content' = durable
    /\ synced' = TRUE
    /\ UNCHANGED durable

Next ==
    \/ \E b \in Blocks : WriteBack(b) \/ \E c \in Contents : Write(b, c)
    \/ Sync
    \/ Crash

Spec == Init /\ [][Next]_vars
=============================================================================
