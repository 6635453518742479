------------------------------- MODULE MCPush -------------------------------
(* Pushes racing on a protected branch, an agent's branch and a tag. *)
EXTENDS ReceivePack, MCGraph

CONSTANTS w, m

\* On top of Tip: a commit outside the writer's paths and one that builds on it.
Docs  == <<"docs", <<Tip>>>>
Fixed == <<"fixed", <<Docs>>>>
Both  == <<"both", <<Fwd, Docs>>>>
\* The same twice, but nobody may bring in the first one.
Notes == <<"notes", <<Tip>>>>
Draft == <<"draft", <<Notes>>>>

Ids == Order({Root, Tip, Fwd, ChgA, Docs, Fixed, Both, Notes, Draft, Gone})
N(c) == IF c = "" THEN 0 ELSE NumberIn(Ids, c)
Tree == Len(Ids) + 1

Main(old, new) == [ref |-> "main", old |-> N(old), new |-> N(new)]
Agent(old, new) == [ref |-> "agent", old |-> N(old), new |-> N(new)]
Tag(new) == [ref |-> "v1", old |-> 0, new |-> new]

\* The writer is confined to its branch, main, and the source files; the
\* maintainer is not, but main is protected from both.
Writer(cmds, pack) == [cmds |-> cmds, pack |-> NumbersOf(Ids, pack), confined |-> {"refs", "paths"},
                       refsIn |-> {"main", "agent"}, pathsIn |-> {"src"}, protected |-> {"main"}]
Maintainer(cmds, pack) == [cmds |-> cmds, pack |-> NumbersOf(Ids, pack), confined |-> {},
                           refsIn |-> {}, pathsIn |-> {}, protected |-> {"main"}]
Unprotected(cmds, pack) == [Maintainer(cmds, pack) EXCEPT !.protected = {}]

Setup == [
    graph   |-> GraphOf(Ids),
    objs    |-> NumbersOf(Ids, {Root, Tip}) \cup {Tree},
    refs    |-> "main" :> N(Tip) @@ "agent" :> 0 @@ "v1" :> 0,
    nameLen |-> "main" :> 16 @@ "agent" :> 17,
    changed |-> [i \in DOMAIN Ids |->
                   IF Ids[i] \in {Docs, Notes} THEN {"docs"} ELSE IF Ids[i] = Both THEN {} ELSE {"src"}] @@ <<>>,
    send    |-> w :> {Writer(<<Main(Tip, Fwd), Agent("", Fixed)>>, {Fwd, Docs, Fixed}),
                      Writer(<<Main(Tip, Fwd), Agent("", Fwd)>>, {Fwd}),
                      Writer(<<Agent("", Fixed)>>, {Fixed}),
                      Writer(<<Agent("", Draft)>>, {Notes, Draft}),
                      Writer(<<Main(Fwd, Both), Agent(Docs, "")>>, {Both}),
                      Writer(<<Agent(Docs, Fixed), Tag(Tree)>>, {Fixed})}
             @@ m :> {Maintainer(<<Main(Tip, ChgA)>>, {ChgA}),
                      Maintainer(<<Main("", ChgA)>>, {ChgA}),
                      Maintainer(<<Main(Tip, Docs), Agent("", Docs)>>, {Docs}),
                      Maintainer(<<Agent(Docs, ""), Agent("", Fixed)>>, {Fixed}),
                      Unprotected(<<Tag(N(Tip)), Main(Gone, "")>>, {}),
                      Unprotected(<<Tag(Tree), Agent("", "")>>, {})}]

MCPushers  == {w, m}
MCCommits  == Setup.graph.ids
MCParents  == Setup.graph.parents
MCAnc      == Setup.graph.anc
MCTreeOf   == Setup.graph.tree
MCNonCommits == {Tree}
MCNameLen  == Setup.nameLen
MCInitObjs == Setup.objs
MCInitRefs == Setup.refs
MCChanged  == Setup.changed
MCSend     == Setup.send
=============================================================================
