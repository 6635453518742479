----------------------------- MODULE ReplyStream -----------------------------
(***************************************************************************)
(* How GetCommitLog, GetCommitAncestors, GetDiff and GetBlob answer: the    *)
(* handler has the whole answer, and a task of its own sends it through a   *)
(* bounded channel to a client that reads at its own pace, or goes away.    *)
(***************************************************************************)
EXTENDS Naturals, Sequences, SequencesExt

CONSTANTS
    Lengths,  \* how many records a list may have
    Sizes,    \* how many bytes a blob may have
    Chunk,    \* bytes of a chunk (64 KB)
    Capacity  \* what the channel holds (32)

ASSUME ReplyAssumption ==
    /\ Lengths \subseteq Nat /\ Sizes \subseteq Nat
    /\ Chunk \in Nat \ {0} /\ Capacity \in Nat \ {0}

Records(n) == [i \in 1 .. n |-> [from |-> i - 1, upto |-> i, last |-> FALSE]]

\* Mutant of Chunks: the mark of the last chunk is off by one.
ChunksMarkedEarly(n) ==
    LET total == (n + Chunk - 1) \div Chunk IN
    [i \in 1 .. total |-> [from |-> (i - 1) * Chunk, upto |-> IF i = total THEN n ELSE i * Chunk,
                           last |-> i >= total - 1]]

\* data.chunks(CHUNK_SIZE); an empty blob has none.
Chunks(n) ==
    LET total == (n + Chunk - 1) \div Chunk IN
    [i \in 1 .. total |-> [from |-> (i - 1) * Chunk, upto |-> IF i = total THEN n ELSE i * Chunk,
                           last |-> i = total]]

VARIABLES
    reply,   \* the whole answer, and the size of the blob if it is one
    sent,    \* how much of it the task has sent
    task,    \* "on" or "off"
    chan,    \* the channel
    reader   \* what the client has got, and whether it is "reading", "done" or "gone"

replyVars == <<reply, sent, task, chan, reader>>

ReplyInit ==
    /\ reply \in {[list |-> Records(n), size |-> 0] : n \in Lengths}
                 \cup {[list |-> Chunks(n), size |-> n] : n \in Sizes}
    /\ sent = 0 /\ task = "on" /\ chan = <<>>
    /\ reader = [got |-> <<>>, state |-> "reading"]

\* Mutant of Send: that the receiver is gone goes unnoticed.
SendRegardless ==
    /\ task = "on" /\ sent < Len(reply.list) /\ Len(chan) < Capacity
    /\ chan' = Append(chan, reply.list[sent + 1]) /\ sent' = sent + 1
    /\ UNCHANGED <<reply, task, reader>>

\* tx.send waits for room, and fails when the receiver was dropped.
Send ==
    /\ task = "on" /\ sent < Len(reply.list)
    /\ IF reader.state = "gone" THEN task' = "off" /\ UNCHANGED <<chan, sent>>
       ELSE /\ Len(chan) < Capacity
            /\ chan' = Append(chan, reply.list[sent + 1]) /\ sent' = sent + 1
            /\ UNCHANGED task
    /\ UNCHANGED <<reply, reader>>

\* Mutant of SendEnds: the task ends with the channel's first overflow.
SendEndsWhenFull ==
    /\ task = "on" /\ (sent = Len(reply.list) \/ Len(chan) = Capacity)
    /\ task' = "off"
    /\ UNCHANGED <<reply, sent, chan, reader>>

\* The task ends and drops its sender.
SendEnds ==
    /\ task = "on" /\ sent = Len(reply.list)
    /\ task' = "off"
    /\ UNCHANGED <<reply, sent, chan, reader>>

TakeItem ==
    /\ reader.state = "reading" /\ chan # <<>>
    /\ reader' = [reader EXCEPT !.got = Append(@, Head(chan))] /\ chan' = Tail(chan)
    /\ UNCHANGED <<reply, sent, task>>

TakeLast ==
    /\ reader.state = "reading" /\ chan = <<>> /\ task = "off"
    /\ reader' = [reader EXCEPT !.state = "done"]
    /\ UNCHANGED <<reply, sent, task, chan>>

\* The client cancels, or its connection breaks: the receiver is dropped.
Leave ==
    /\ reader.state = "reading"
    /\ reader' = [reader EXCEPT !.state = "gone"] /\ chan' = <<>>
    /\ UNCHANGED <<reply, sent, task>>

ReplyNext == Send \/ SendEnds \/ TakeItem \/ TakeLast \/ Leave

\* tokio runs the task whenever it can go on.  The client may stop reading for ever.
ReplySpec == ReplyInit /\ [][ReplyNext]_replyVars /\ WF_replyVars(Send \/ SendEnds)
-----------------------------------------------------------------------------
\* A stream that ends without an error was the whole answer, in order; at every time
\* what is there is a prefix of it (service.rs:725-735).
EndMeansAll ==
    /\ IsPrefix(reader.got \o chan, reply.list)
    /\ reader.state = "done" => reader.got = reply.list

\* A client may stop at the chunk that is marked as the last one: it then has every
\* byte of the blob.  A blob that is not empty has such a chunk (service.rs:855-872).
LastMarkIsTrue ==
    LET marked == {i \in DOMAIN reader.got : reader.got[i].last} IN
    /\ \A i \in marked : reader.got[i].upto = reply.size
    /\ \A i \in 1 .. Len(reader.got) - 1 : reader.got[i].upto = reader.got[i + 1].from
    /\ reader.state = "done" /\ reply.size > 0 => marked # {}

\* The task does not outlive a client that goes away, or has everything: it lets go
\* of the answer it holds (service.rs:727-733).
TaskIsReleased == reader.state # "reading" ~> task = "off"
=============================================================================
