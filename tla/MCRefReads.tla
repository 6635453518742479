----------------------------- MODULE MCRefReads -----------------------------
(* A reader and a writer on two branches and a tag that has a branch's name. *)
EXTENDS RefReads, MCGraph

CONSTANTS k1, q1

Ids == Order({Root, Tip})
N(c) == NumberIn(Ids, c)
Note == Len(Ids) + 1  \* an annotated tag of Tip
Tree == Len(Ids) + 2  \* a tree, which no branch is meant to hold

Ask(op, name, oid) == [op |-> op, name |-> name, start |-> "none", oid |-> oid, force |-> TRUE]
List(dirs, matching) == [op |-> "list", dirs |-> dirs, matching |-> matching]

Setup == [
    graph    |-> GraphOf(Ids),
    objs     |-> NumbersOf(Ids, {Root, Tip}) \cup {Note, Tree},
    refs     |-> "main" :> N(Tip) @@ "work" :> N(Root) @@ "tags/main" :> 0,
    nameLen  |-> "main" :> 16 @@ "work" :> 16,
    short    |-> "main" :> "main" @@ "work" :> "work" @@ "tags/main" :> "main",
    peeled   |-> [o \in DOMAIN Ids \cup {Note, Tree} |-> IF o = Note THEN N(Tip) ELSE o],
    ask      |-> {Ask("createTag", "tags/main", Note), Ask("deleteTag", "tags/main", 0),
                  Ask("deleteBranch", "main", 0), Ask("createBranch", "main", Tree),
                  Ask("setDefault", "work", 0)},
    read     |-> {List(<<{"main", "work"}, {"tags/main"}>>, {"main", "tags/main"}),
                  List(<<{"main", "work"}>>, {"main", "work"}), List(<<{"tags/main"}>>, {"tags/main"}),
                  [op |-> "resolve", tries |-> <<"tags/main", "main">>],
                  [op |-> "resolve", tries |-> <<"work">>], [op |-> "info"]}]

MCClients    == {k1}
MCReaders    == {q1}
MCCommits    == Setup.graph.ids
MCNonCommits == {Note, Tree}
MCParents    == Setup.graph.parents
MCAnc        == Setup.graph.anc
MCTreeOf     == Setup.graph.tree
MCNameLen    == Setup.nameLen
MCInitObjs   == Setup.objs
MCInitRefs   == Setup.refs
MCShortName  == Setup.short
MCPeeled     == Setup.peeled
MCRefAsk     == k1 :> Setup.ask
MCReadAsk    == q1 :> Setup.read

\* Nothing is explored after an answer, since the next request starts afresh; a file
\* only comes or goes while the repository's files are gone through, as nothing else
\* looks at it; and while GetRepositoryInfo runs, refs that go are branches.
InfoRuns == Running(q1) /\ read[q1].req.op = "info"
OneCall ==
    /\ read[q1].pc # "answered"
    /\ temps' # temps => read[q1].pc = "size"
    /\ InfoRuns /\ refs["tags/main"] # NoOid => refs'["tags/main"] # NoOid
=============================================================================
