---------------------------- MODULE MCRepository ----------------------------
(* Three RPCs on two names of one owner, the first of them taken. *)
EXTENDS Repository, TLC

CONSTANTS c1, c2, c3, d1, d2, d3, d4, d5

MCDirs == {d1, d2, d3, d4, d5}
MCCallers == {c1, c2, c3}
MCInitAt == "a" :> d1 @@ "b" :> NoDir

Inits   == [op : {"init"}, name : {"a", "b"}, branch : {"trunk"}]
Renames == [op : {"rename"}, name : {"a", "b"}, to : {"a", "b"}]
Deletes == [op : {"delete"}, name : {"a", "b"}]
MCLifeAsk == c1 :> Inits \cup Deletes @@ c2 :> Renames @@ c3 :> Deletes

\* No directory but d1 is told from another.
MCSymmetry == Permutations({d2, d3, d4, d5})
=============================================================================
