------------------------------- MODULE MCLand -------------------------------
(* MergeChange calls racing on one target branch. *)
EXTENDS LandingRefinement, MCGraph

CONSTANTS l1, l2

Tips == Landings({Tip}, {Fwd, ChgA}, {"m1", "m2"}, 2)
\* Merges of ChgA into tips that contain it: NoDoubleMerge says that none is made.
Again == {<<"m1", <<t, ChgA>>>> : t \in {s \in Tips : ChgA \in AncOf(s)}}
Ids == Order({Root, Tip, ChgA, Gone} \cup Tips \cup Again)
N(c) == NumberIn(Ids, c)

\* Both landers can land the change that diverged; l1 also has one that
\* fast-forwards and a branch that does not exist, l2 two ids of no stored commit.
Setup == [
    graph   |-> GraphOf(Ids),
    tree    |-> Len(Ids) + 1,
    objs    |-> NumbersOf(Ids, {Root, Tip, ChgA, Fwd}) \cup {Len(Ids) + 1},
    refs    |-> "main" :> N(Tip) @@ "rel" :> 0,
    nameLen |-> "main" :> 16 @@ "rel" :> 15,
    ask     |-> l1 :> {<<"main", N(Fwd)>>, <<"main", N(ChgA)>>, <<"rel", N(ChgA)>>}
             @@ l2 :> {"main"} \X {N(ChgA), N(Gone), Len(Ids) + 1}]

MCLanders    == {l1, l2}
MCCommits    == Setup.graph.ids
MCNonCommits == {Setup.tree}
MCParents    == Setup.graph.parents
MCAnc        == Setup.graph.anc
MCTreeOf     == Setup.graph.tree
MCNameLen    == Setup.nameLen
MCInitObjs   == Setup.objs
MCInitRefs   == Setup.refs
MCAsk        == Setup.ask

\* Bound: at most this many merge commits get written, landed or abandoned.
MergeBudget == 3
FewMerges == Cardinality(objs \ InitObjs) <= MergeBudget
=============================================================================
