------------------------------- MODULE GitCall -------------------------------
(***************************************************************************)
(* What the pack transport promises, with no task, channel or pipe in       *)
(* sight: a caller talks to a git process as if it ran on the spot.        *)
(***************************************************************************)
EXTENDS Naturals, Sequences

CONSTANT Request  \* how many messages a complete request has

VARIABLES
    offered,  \* messages the caller has sent
    received, \* those that git has read
    written,  \* chunks that git has written
    got,      \* those that the caller has
    exit,     \* "running", "ok" or "failed"
    answer,   \* how the response ended for the caller: "no", "ok" or "failed"
    left      \* the caller has gone away

vars == <<offered, received, written, got, exit, answer, left>>

Init ==
    /\ offered = 0 /\ received = <<>> /\ written = 0 /\ got = <<>>
    /\ exit = "running" /\ answer = "no" /\ left = FALSE

Offer ==
    /\ ~left /\ offered < Request /\ offered' = offered + 1
    /\ UNCHANGED <<received, written, got, exit, answer, left>>

\* In order, and nothing that was not sent.
Receive ==
    /\ exit = "running" /\ Len(received) < offered
    /\ received' = Append(received, Len(received) + 1)
    /\ UNCHANGED <<offered, written, got, exit, answer, left>>

Write ==
    /\ exit = "running" /\ written' = written + 1
    /\ UNCHANGED <<offered, received, got, exit, answer, left>>

\* git succeeds only after the end of its input, which is that of the request
\* unless the caller has gone away.
Succeed ==
    /\ exit = "running" /\ exit' = "ok"
    /\ Len(received) = Request \/ left
    /\ UNCHANGED <<offered, received, written, got, answer, left>>

Fail ==
    /\ exit = "running" /\ exit' = "failed"
    /\ UNCHANGED <<offered, received, written, got, answer, left>>

Get ==
    /\ ~left /\ answer = "no" /\ Len(got) < written
    /\ got' = Append(got, Len(got) + 1)
    /\ UNCHANGED <<offered, received, written, exit, answer, left>>

\* The response ends with git's exit status, after all of its output.
Answer ==
    /\ ~left /\ answer = "no" /\ exit # "running" /\ Len(got) = written
    /\ answer' = exit
    /\ UNCHANGED <<offered, received, written, got, exit, left>>

Leave ==
    /\ ~left /\ answer = "no" /\ left' = TRUE
    /\ UNCHANGED <<offered, received, written, got, exit, answer>>

Next == Offer \/ Receive \/ Write \/ Succeed \/ Fail \/ Get \/ Answer \/ Leave

Spec == Init /\ [][Next]_vars
=============================================================================
