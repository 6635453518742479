----------------------------- MODULE MCLandFair -----------------------------
(* Three callers, each asking for its own change until it has landed. *)
EXTENDS MergeChange, MCGraph

CONSTANTS l1, l2, l3

Ids == Order({Root, Tip, ChgA, ChgB} \cup Landings({Tip}, {Fwd, ChgA, ChgB}, {"m"}, 3))
N(c) == NumberIn(Ids, c)

Setup == [
    graph   |-> GraphOf(Ids),
    objs    |-> NumbersOf(Ids, {Root, Tip, ChgA, ChgB, Fwd}),
    refs    |-> "main" :> N(Tip),
    nameLen |-> "main" :> 16,
    ask     |-> l1 :> {<<"main", N(ChgA)>>} @@ l2 :> {<<"main", N(ChgB)>>}
             @@ l3 :> {<<"main", N(Fwd)>>}]

MCLanders    == {l1, l2, l3}
MCCommits    == Setup.graph.ids
MCParents    == Setup.graph.parents
MCAnc        == Setup.graph.anc
MCTreeOf     == Setup.graph.tree
MCNameLen    == Setup.nameLen
MCInitObjs   == Setup.objs
MCInitRefs   == Setup.refs
MCAsk        == Setup.ask
=============================================================================
