---------------------------- MODULE ByteChannel ----------------------------
(***************************************************************************)
(* What a pipe promises: bytes come out once, in the order they went in;   *)
(* no more than Size are under way; and end of file is announced only when *)
(* no write end is left, nothing is under way, and nothing ever will be.   *)
(***************************************************************************)
EXTENDS Naturals, Sequences

CONSTANTS Bytes, Size

VARIABLES chan,   \* the bytes under way
          open,   \* there is a write end
          eof     \* some reader has been told that there is nothing to come

channelVars == <<chan, open, eof>>

Init == chan = <<>> /\ open = TRUE /\ eof = FALSE

Put(b) ==
    /\ open
    /\ Len(chan) < Size
    /\ chan' = Append(chan, b)
    /\ UNCHANGED <<open, eof>>

Get ==
    /\ chan # <<>>
    /\ chan' = Tail(chan)
    /\ UNCHANGED <<open, eof>>

Close == open /\ open' = FALSE /\ UNCHANGED <<chan, eof>>

\* The last byte of a write that lets the last write end go as it returns: another
\* thread has closed the descriptor meanwhile.
PutAndClose(b) ==
    /\ open
    /\ Len(chan) < Size
    /\ chan' = Append(chan, b)
    /\ open' = FALSE
    /\ UNCHANGED eof

EndOfFile ==
    /\ ~open
    /\ chan = <<>>
    /\ eof' = TRUE
    /\ UNCHANGED <<chan, open>>

Next == Get \/ Close \/ EndOfFile \/ \E b \in Bytes : Put(b) \/ PutAndClose(b)

Spec == Init /\ [][Next]_channelVars
=============================================================================
