------------------------------ MODULE PackStream ------------------------------
(***************************************************************************)
(* The transport of UploadPack and ReceivePack: one call of spawn_and_stream *)
(* and the handler around it.  Three tasks (the feeder of the handler, the  *)
(* writer of git's stdin and the pump of its stdout) connect the client and *)
(* the git process through bounded channels and pipes; git is single-       *)
(* threaded and blocks on a full or an empty pipe.                          *)
(***************************************************************************)
EXTENDS Naturals, Sequences, SequencesExt

CONSTANTS
    Request,   \* how many data messages the client has to send
    OutMax,    \* git writes up to this many chunks to stdout...
    ErrMax,    \* ...and up to this many to stderr
    Window,    \* capacities: the gRPC stream,
    Channel,   \*   the mpsc channels (16 in the code),
    Pipe,      \*   the stdin and stdout pipes,
    ErrPipe    \*   the stderr pipe, which nobody reads before git has exited

ASSUME StreamAssumption ==
    /\ {Request, OutMax, ErrMax} \subseteq Nat
    /\ {Window, Channel, Pipe, ErrPipe} \subseteq Nat \ {0}

Failure == 0  \* Err(status) on the out channel; chunks are numbered from 1

VARIABLES
    client,   \* what it has sent and received
    wire,     \* messages on their way to the feeder
    inChan,   \* the channel from the feeder to the writer
    inPipe,   \* git's stdin
    tasks,    \* the state of the feeder, the writer and the pump
    git,      \* the process: what it is to do, and what it has done
    outPipe,  \* git's stdout
    outChan   \* the channel from the pump to the client

streamVars == <<client, wire, inChan, inPipe, tasks, git, outPipe, outChan>>
inVars  == <<wire, inChan, inPipe>>
outVars == <<outPipe, outChan>>

\* git's plan: how much it writes, and the status it exits with.  Only a failure
\* exits before the end of the input.
Plans == [out : 0 .. OutMax, err : 0 .. ErrMax, status : {"ok", "failed"}]

StreamInit ==
    /\ client = [sent |-> 0, state |-> "sending", got |-> <<>>, ended |-> "no"]
    /\ wire = <<>> /\ inChan = <<>> /\ inPipe = <<>> /\ outPipe = <<>> /\ outChan = <<>>
    /\ tasks = [feeder |-> "on", writer |-> "on", pump |-> "on"]
    /\ git \in [plan : Plans, doing : {"think"}, read : {<<>>}, wrote : {0}, erred : {0},
                exit : {"running"}]

Upto(n) == [i \in 1 .. n |-> i]
Here == client.state # "gone"
Running == git.exit = "running"
TaskTo(t, s) == tasks' = [tasks EXCEPT ![t] = s]
-----------------------------------------------------------------------------
\* The client sends the next message...
SendChunk ==
    /\ client.state = "sending" /\ client.sent < Request
    /\ IF tasks.feeder = "on"
       THEN Len(wire) < Window /\ wire' = Append(wire, client.sent + 1) ELSE UNCHANGED wire
    /\ client' = [client EXCEPT !.sent = @ + 1]
    /\ UNCHANGED <<inChan, inPipe, tasks, git, outVars>>

\* ...and closes its side when it has sent everything.
FinishRequest ==
    /\ client.state = "sending" /\ client.sent = Request
    /\ client' = [client EXCEPT !.state = "listening"]
    /\ UNCHANGED <<inVars, tasks, git, outVars>>

\* It takes the response as it comes, while it is still sending, too.
TakeChunk ==
    /\ Here /\ client.ended = "no" /\ outChan # <<>>
    /\ client' = IF Head(outChan) = Failure
                 THEN [client EXCEPT !.ended = "failed"]
                 ELSE [client EXCEPT !.got = Append(@, Head(outChan))]
    /\ outChan' = Tail(outChan)
    /\ UNCHANGED <<inVars, tasks, git, outPipe>>

TakeEnd ==
    /\ Here /\ client.ended = "no" /\ outChan = <<>> /\ tasks.pump = "off"
    /\ client' = [client EXCEPT !.ended = "ok"]
    /\ UNCHANGED <<inVars, tasks, git, outVars>>

\* It goes away: the request stream breaks and the response is dropped.
LeaveStream ==
    /\ Here /\ client.ended = "no"
    /\ client' = [client EXCEPT !.state = "gone"]
    /\ outChan' = <<>>
    /\ UNCHANGED <<inVars, tasks, git, outPipe>>
-----------------------------------------------------------------------------
\* Mutant of Feed: a full channel drops the message.
FeedOrDrop ==
    /\ tasks.feeder = "on" /\ wire # <<>>
    /\ wire' = Tail(wire)
    /\ inChan' = IF Len(inChan) < Channel THEN Append(inChan, Head(wire)) ELSE inChan
    /\ UNCHANGED <<client, inPipe, tasks, git, outVars>>

\* The handler's task: messages into the channel, until the writer is gone...
Feed ==
    /\ tasks.feeder = "on" /\ wire # <<>>
    /\ wire' = Tail(wire)
    /\ IF tasks.writer = "on"
       THEN Len(inChan) < Channel /\ inChan' = Append(inChan, Head(wire)) /\ UNCHANGED tasks
       ELSE TaskTo("feeder", "off") /\ UNCHANGED inChan
    /\ UNCHANGED <<client, inPipe, git, outVars>>

\* ...or until the request stream ends or breaks, which look the same here.
FeedEnds ==
    /\ tasks.feeder = "on"
    /\ client.state = "gone" \/ (client.state = "listening" /\ wire = <<>>)
    /\ TaskTo("feeder", "off") /\ wire' = <<>>
    /\ UNCHANGED <<client, inChan, inPipe, git, outVars>>

\* The writer: write_all, which fails once git has exited...
WriteChunk ==
    /\ tasks.writer = "on" /\ inChan # <<>>
    /\ inChan' = Tail(inChan)
    /\ IF Running
       THEN Len(inPipe) < Pipe /\ inPipe' = Append(inPipe, Head(inChan)) /\ UNCHANGED tasks
       ELSE TaskTo("writer", "off") /\ UNCHANGED inPipe
    /\ UNCHANGED <<client, wire, git, outVars>>

\* Mutant of CloseStdin: an empty channel is taken for the end of the request.
CloseStdinWhenIdle ==
    /\ tasks.writer = "on" /\ inChan = <<>>
    /\ TaskTo("writer", "off")
    /\ UNCHANGED <<client, inVars, git, outVars>>

\* ...and EOF when the feeder is done.
CloseStdin ==
    /\ tasks.writer = "on" /\ inChan = <<>> /\ tasks.feeder = "off"
    /\ TaskTo("writer", "off")
    /\ UNCHANGED <<client, inVars, git, outVars>>

\* Mutant of PumpChunk: git's exit is awaited first.
PumpAfterExit ==
    /\ tasks.pump = "on" /\ outPipe # <<>> /\ ~Running
    /\ Len(outChan) < Channel
    /\ outChan' = Append(outChan, Head(outPipe)) /\ outPipe' = Tail(outPipe)
    /\ UNCHANGED <<client, inVars, git, tasks>>

\* The pump: stdout into the channel.  When the client is gone it stops, and the
\* pipes' reading ends close.
PumpChunk ==
    /\ tasks.pump = "on" /\ outPipe # <<>>
    /\ IF Here
       THEN /\ Len(outChan) < Channel
            /\ outChan' = Append(outChan, Head(outPipe)) /\ outPipe' = Tail(outPipe)
            /\ UNCHANGED tasks
       ELSE TaskTo("pump", "off") /\ outPipe' = <<>> /\ UNCHANGED outChan
    /\ UNCHANGED <<client, inVars, git>>

\* Mutant of PumpEnds: the exit status is not looked at.
PumpEndsQuietly ==
    /\ tasks.pump = "on" /\ outPipe = <<>> /\ ~Running
    /\ TaskTo("pump", "off")
    /\ UNCHANGED <<client, inVars, git, outVars>>

\* EOF of stdout, wait, and a failure goes to the client after the output.
PumpEnds ==
    /\ tasks.pump = "on" /\ outPipe = <<>> /\ ~Running
    /\ IF git.exit = "ok" \/ ~Here THEN UNCHANGED outChan
       ELSE Len(outChan) < Channel /\ outChan' = Append(outChan, Failure)
    /\ TaskTo("pump", "off")
    /\ UNCHANGED <<client, inVars, git, outPipe>>
-----------------------------------------------------------------------------
\* git makes up its mind what to do next, and then blocks on it.
Decide ==
    /\ Running /\ git.doing = "think"
    /\ \E next \in {"read", "write", "err", "exit"} :
         /\ next = "write" => git.wrote < git.plan.out
         /\ next = "err" => git.erred < git.plan.err
         /\ next = "exit" => git.wrote = git.plan.out /\ git.erred = git.plan.err
         /\ git' = [git EXCEPT !.doing = next]
    /\ UNCHANGED <<client, inVars, tasks, outVars>>

Exits(status) == [git EXCEPT !.exit = status]

\* read(0): a chunk, or the end of the input, after which git answers and exits.
ReadStdin ==
    /\ Running /\ git.doing = "read"
    /\ \/ /\ inPipe # <<>>
          /\ git' = [git EXCEPT !.doing = "think", !.read = Append(@, Head(inPipe))]
          /\ inPipe' = Tail(inPipe)
       \/ /\ inPipe = <<>> /\ tasks.writer = "off"
          /\ git' = [git EXCEPT !.doing = IF git.wrote < git.plan.out THEN "write"
                                          ELSE IF git.erred < git.plan.err THEN "err" ELSE "exit"]
          /\ UNCHANGED inPipe
    /\ UNCHANGED <<client, wire, inChan, tasks, outVars>>

\* write(1) and write(2); SIGPIPE when the pump is gone.
WriteStdout ==
    /\ Running /\ git.doing = "write"
    /\ IF tasks.pump = "on"
       THEN /\ Len(outPipe) < Pipe
            /\ outPipe' = Append(outPipe, git.wrote + 1)
            /\ git' = [git EXCEPT !.doing = "think", !.wrote = @ + 1]
       ELSE git' = Exits("failed") /\ UNCHANGED outPipe
    /\ UNCHANGED <<client, inVars, tasks, outChan>>

WriteStderr ==
    /\ Running /\ git.doing = "err"
    /\ IF tasks.pump = "on"
       THEN git.erred < ErrPipe /\ git' = [git EXCEPT !.doing = "think", !.erred = @ + 1]
       ELSE git' = Exits("failed")
    /\ UNCHANGED <<client, inVars, tasks, outVars>>

\* exit(): with success only after the end of the input.
Exit ==
    /\ Running /\ git.doing = "exit"
    /\ IF git.plan.status = "failed" THEN git' = Exits("failed") /\ UNCHANGED inPipe
       ELSE \/ inPipe = <<>> /\ tasks.writer = "off" /\ git' = Exits("ok") /\ UNCHANGED inPipe
            \/ /\ inPipe # <<>>
               /\ git' = [git EXCEPT !.read = Append(@, Head(inPipe))] /\ inPipe' = Tail(inPipe)
    /\ UNCHANGED <<client, wire, inChan, tasks, outVars>>

\* It is killed.
Die ==
    /\ Running /\ git' = Exits("failed")
    /\ UNCHANGED <<client, inVars, tasks, outVars>>

GitProcess == Decide \/ ReadStdin \/ WriteStdout \/ WriteStderr \/ Exit
StreamNext ==
    \/ SendChunk \/ FinishRequest \/ TakeChunk \/ TakeEnd \/ LeaveStream
    \/ Feed \/ FeedEnds \/ WriteChunk \/ CloseStdin \/ PumpChunk \/ PumpEnds
    \/ GitProcess \/ Die

\* tokio runs every task that can go on, the system runs git, and the client
\* keeps sending and receiving for as long as it stays.
StreamSpec ==
    /\ StreamInit /\ [][StreamNext]_streamVars
    /\ WF_streamVars(SendChunk \/ FinishRequest) /\ WF_streamVars(TakeChunk \/ TakeEnd)
    /\ WF_streamVars(Feed \/ FeedEnds) /\ WF_streamVars(WriteChunk \/ CloseStdin)
    /\ WF_streamVars(PumpChunk \/ PumpEnds) /\ WF_streamVars(GitProcess)
-----------------------------------------------------------------------------
\* git is never told that its input has ended while a part of a request that the
\* client completed is missing, and reads it in order, although feeder and writer
\* stop on their own account (service.rs:158-165, service.rs:1313-1322).
InputIsWhole ==
    /\ IsPrefix(git.read \o inPipe, Upto(client.sent))
    /\ Running /\ tasks.writer = "off" /\ client.state = "listening" =>
           git.read \o inPipe = Upto(Request)

\* A response that ends without an error is all that a successful git wrote; one
\* that ends with an error has everything git wrote before it failed
\* (service.rs:171-204).
ErrorsSurface ==
    /\ client.ended = "ok" => git.exit = "ok"
    /\ client.ended # "no" => client.got = Upto(git.wrote)

Over ==
    /\ ~Running /\ \A t \in DOMAIN tasks : tasks[t] = "off"
    /\ client.state = "gone" \/ client.ended # "no"

\* No task waits for another for ever: every call comes to its end, git with it, as
\* long as what git prints to stderr fits into that pipe (service.rs:169-170).
CallsEnd == ErrMax <= ErrPipe => <>Over
=============================================================================
