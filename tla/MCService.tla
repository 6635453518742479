------------------------------ MODULE MCService ------------------------------
(* A landing, a push and a ref RPC at a time, on main and a second branch. *)
EXTENDS GitService, MCGraph

CONSTANTS l1, p1, k1

\* Merges of ChgA into any tip, also into one that contains it already.
Again(tip) == <<"m", <<tip, ChgA>>>>
Tips == {Tip, Fwd, ChgA, Again(Tip), Again(Fwd)}
Ids == Order({Root, ChgA} \cup Tips \cup {Again(t) : t \in Tips})
N(c) == IF c = "" THEN 0 ELSE NumberIn(Ids, c)
Tree == Len(Ids) + 1

Cmd1(ref, old, new) == [ref |-> ref, old |-> N(old), new |-> N(new)]
Pushed(cmds, pack) == [cmds |-> cmds, pack |-> NumbersOf(Ids, pack), confined |-> {},
                       refsIn |-> {}, pathsIn |-> {}, protected |-> {"main"}]

Asked(op, name, start, oid, force) ==
    [op |-> op, name |-> name, start |-> start, oid |-> oid, force |-> force]

Setup == [
    graph   |-> GraphOf(Ids),
    objs    |-> NumbersOf(Ids, {Root, Tip, ChgA}) \cup {Tree},
    refs    |-> "main" :> N(Tip) @@ "work" :> N(ChgA),
    nameLen |-> "main" :> 16 @@ "work" :> 16,
    changed |-> [i \in DOMAIN Ids |-> {}] @@ <<>>,
    land    |-> l1 :> {<<"main", N(ChgA)>>},
    send    |-> p1 :> {Pushed(<<Cmd1("main", Tip, Fwd)>>, {Fwd}),
                       Pushed(<<Cmd1("main", "", ChgA), Cmd1("work", ChgA, "")>>, {})},
    ask     |-> k1 :> {Asked("setDefault", "work", "none", 0, FALSE),
                       Asked("deleteBranch", "main", "none", 0, FALSE),
                       Asked("deleteBranch", "work", "none", 0, TRUE),
                       Asked("createBranch", "main", "none", N(Tip), FALSE),
                       Asked("deleteTag", "main", "none", 0, FALSE)}]

MCLanders    == {l1}
MCPushers    == {p1}
MCClients    == {k1}
MCCommits    == Setup.graph.ids
MCNonCommits == {Tree}
MCParents    == Setup.graph.parents
MCAnc        == Setup.graph.anc
MCTreeOf     == Setup.graph.tree
MCNameLen    == Setup.nameLen
MCInitObjs   == Setup.objs
MCInitRefs   == Setup.refs
MCChanged    == Setup.changed
MCAsk        == Setup.land
MCSend       == Setup.send
MCRefAsk     == Setup.ask

\* Bound: at most this many merge commits get written.
MergeBudget == 1
FewMerges == Cardinality({m \in objs \ InitObjs : Len(Parents[m]) = 2}) <= MergeBudget
=============================================================================
