------------------------------- MODULE MCMoved -------------------------------
(* Two landings, and a second repository that is a fork of the first. *)
EXTENDS MovedRepository, MCGraph

CONSTANTS l1, l2

Tips == Landings({Tip, ChgA}, {Fwd, ChgA}, {"m1"}, 2)
Ids == Order({Root, Fwd} \cup Tips)
N(c) == NumberIn(Ids, c)

\* The first has the tip, the fork has diverged, a third has the tip but no changes.
Holding(commits, tip) ==
    [objs |-> NumbersOf(Ids, commits), refs |-> "main" :> N(tip), head |-> [ref |-> "main", len |-> 16]]

Setup == [
    graph   |-> GraphOf(Ids),
    objs    |-> NumbersOf(Ids, {Root, Tip, ChgA, Fwd}),
    refs    |-> "main" :> N(Tip),
    nameLen |-> "main" :> 16,
    others  |-> "fork" :> Holding({Root, Tip, ChgA, Fwd}, ChgA) @@ "old" :> Holding({Root, Tip}, Tip)
                @@ "free" :> NoRepository,
    ask     |-> l1 :> {"main"} \X {N(Fwd), N(ChgA)} @@ l2 :> {<<"main", N(ChgA)>>}]

MCLanders    == {l1, l2}
MCCommits    == Setup.graph.ids
MCNonCommits == {}
MCParents    == Setup.graph.parents
MCAnc        == Setup.graph.anc
MCTreeOf     == Setup.graph.tree
MCNameLen    == Setup.nameLen
MCInitObjs   == Setup.objs
MCInitRefs   == Setup.refs
MCAsk        == Setup.ask
MCOthers     == Setup.others

\* Bound: at most this many merge commits get written in one repository.
MergeBudget == 1
FewMerges == Cardinality(objs \ InitObjs) <= MergeBudget
=============================================================================
