------------------------------- MODULE MCRefs -------------------------------
(* Ref RPCs on a repository with a short and a long branch name. *)
EXTENDS RefService, MCGraph

CONSTANTS k1, k2

Ids == Order({Root, Tip, Gone})
N(c) == NumberIn(Ids, c)
Tree == Len(Ids) + 1

Ask(op, name) == [op |-> op, name |-> name, start |-> "main", oid |-> 0, force |-> FALSE]

Setup == [
    graph   |-> GraphOf(Ids),
    objs    |-> NumbersOf(Ids, {Root, Tip}) \cup {Tree},
    refs    |-> "main" :> N(Tip) @@ "release" :> N(Root) @@ "v1" :> 0,
    nameLen |-> "main" :> 16 @@ "release" :> 19,
    ask     |-> [op : {"deleteBranch", "setDefault"}, name : {"main", "release"},
                 start : {"main"}, oid : {0}, force : {FALSE}]
                \cup {Ask("createBranch", "main"), Ask("createTag", "v1"), Ask("deleteTag", "v1"),
                      [Ask("createBranch", "main") EXCEPT !.start = "none", !.oid = Tree]}]

MCClients    == {k1, k2}
MCCommits    == Setup.graph.ids
MCNonCommits == {Tree}
MCParents    == Setup.graph.parents
MCAnc        == Setup.graph.anc
MCTreeOf     == Setup.graph.tree
MCNameLen    == Setup.nameLen
MCInitObjs   == Setup.objs
MCInitRefs   == Setup.refs
MCRefAsk     == k1 :> Setup.ask @@ k2 :> Setup.ask
=============================================================================
