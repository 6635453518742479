--------------------------- MODULE StreamRefinement ---------------------------
(* The tasks, channels and pipes of a call seen as none: what counts is what  *)
(* the client has sent and got and what git has read and written.            *)
EXTENDS PackStream

Call == INSTANCE GitCall WITH
    offered <- client.sent, received <- git.read, written <- git.wrote, got <- client.got,
    exit <- git.exit, answer <- client.ended, left <- (client.state = "gone")

\* The transport implements GitCall: a client that gets the end of a response has git's
\* whole output and its exit status, and git takes the input for complete only if it
\* is, or the client has left (service.rs:130-208, 1233-1349).
CallIsTransparent == Call!Spec
=============================================================================
