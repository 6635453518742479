------------------------------- MODULE MCReads -------------------------------
(***************************************************************************)
(* Tree listings and diffs of small trees, for MCAlgorithms: each tree, or  *)
(* pair of trees, is asked for everything about it in one step.            *)
(***************************************************************************)
EXTENDS TreeReads, FiniteSets, TLC

CONSTANTS
    Paths,       \* where a tree may have a leaf
    ReadLeaves,  \* leaves of the trees that are listed,
    DiffLeaves,  \*   and of those that are compared
    Filters      \* path filters of a diff

\* No two names sort alike, as files or as directories.
ASSUME ReadsAssumption ==
    /\ IsFiniteSet(Paths) /\ Paths \subseteq Seq(DOMAIN NameRank) \ {<<>>}
    /\ NameRank \in [DOMAIN NameRank -> Nat] /\ DirRank \in [DOMAIN NameRank -> Nat]
    /\ \A n, m \in DOMAIN NameRank :
          n # m => {NameRank[n], DirRank[n]} \cap {NameRank[m], DirRank[m]} = {}
    /\ MaxDepth \in Nat
    /\ \A leaf \in ReadLeaves \cup DiffLeaves : leaf.kind \in {"file", "exec", "link", "submodule"}
    /\ \A name \in DOMAIN NameRank : name \in Starts[name]
    /\ <<>> \in Filters

VARIABLES
    input,  \* what the service is asked about
    output  \* <<>>, or <<its answers>>

vars == <<input, output>>

MCNameRank == "a" :> 1 @@ "a.b" :> 2 @@ "b" :> 5 @@ "c" :> 7
MCDirRank  == "a" :> 4 @@ "a.b" :> 3 @@ "b" :> 6 @@ "c" :> 8
MCStarts   == "a" :> {"a", "a.b"} @@ "a.b" :> {"a.b"} @@ "b" :> {"b"} @@ "c" :> {"c"}
              @@ "" :> {"a", "a.b", "b", "c"}

\* The file a, or the directory a with up to two files, one of them deeper down;
\* and a.b, which sorts between the two.
MCPaths == {<<"a">>, <<"a", "b">>, <<"a", "c", "b">>, <<"a.b">>}

\* A text, a binary short of Sniff, of its length, and one with a late zero.
Contents == {<<1>>, <<0>>, <<1, 0>>, <<1, 1, 0>>}
MCReadLeaves == {Leaf("file", c) : c \in Contents}
                \cup {Leaf("exec", <<1>>), Leaf("link", <<1>>), Leaf("submodule", <<>>)}
MCDiffLeaves == {Leaf("file", <<1>>), Leaf("file", <<0>>), Leaf("exec", <<1>>), Leaf("link", <<1>>)}
MCFilters == {<<>>, <<"a">>, <<"a", "">>, <<"a.b">>, <<"a", "b">>}

\* No leaf is below another.
TreesOf(leaves) ==
    UNION {[ps -> leaves] : ps \in {qs \in SUBSET Paths : \A p, q \in qs : ~IsStrictPrefix(p, q)}}

ReadInputs ==
    [kind : {"read"}, tree : TreesOf(ReadLeaves)]
    \cup [kind : {"treediff"}, base : TreesOf(DiffLeaves), head : TreesOf(DiffLeaves)]

Root == <<>>
NoTree == [p \in {} |-> Missing]
Directories(tree) == {p \in Nodes(tree) : Node(tree, p).kind = "tree"} \cup {Root}

ReadTree ==
    /\ input.kind = "read" /\ output = <<>>
    /\ output' = <<[level |-> [p \in Paths \cup Directories(input.tree) |-> GetTree(input.tree, p, FALSE)],
                    whole |-> GetTree(input.tree, Root, TRUE),
                    info  |-> [p \in Paths |-> GetBlobInfo(input.tree, p)]]>>
    /\ UNCHANGED input

DiffOfTrees ==
    /\ input.kind = "treediff" /\ output = <<>>
    /\ \E renames \in RenameSets(TreeChanges(input.base, input.head)) :
         output' = <<[diff |-> [f \in Filters |-> GetDiff(<<input.base>>, input.head, f, renames)],
                      root |-> [f \in Filters |-> GetDiff(<<>>, input.head, f, {})],
                      file |-> [p \in Paths |-> GetFileDiff(<<input.base>>, input.head, p, renames)],
                      renames |-> renames]>>
    /\ UNCHANGED input

-----------------------------------------------------------------------------
Done(kind) == input.kind = kind /\ output # <<>>

Count(seq, test(_)) == Cardinality({i \in DOMAIN seq : test(seq[i])})

\* The three ways to look at a tree agree: GetTree of a directory lists what is in it
\* once, directories first, and refuses anything else; the recursive listing holds
\* each entry of each directory down to its depth; and GetBlobInfo answers for what
\* is listed with a size, with that size (trees.rs:53-345, service.rs:785-905).
ListingsAgree ==
    Done("read") =>
        LET tree == input.tree
            down(n) == {p \in Nodes(tree) : Len(p) <= n}
            asListed(p, e) == e.name = Last(p) /\ e.node = Node(tree, p)
            isDir(e) == e.node.kind = "tree"
            whole == output[1].whole.entries
        IN /\ \A dir \in DOMAIN output[1].level :
                LET answer == output[1].level[dir]
                    children == {p \in Nodes(tree) : Len(p) = Len(dir) + 1 /\ IsStrictPrefix(dir, p)}
                IN /\ answer.ok <=> dir \in Directories(tree)
                   /\ answer.ok =>
                        /\ Len(answer.entries) = Cardinality(children)
                        /\ \A p \in children : \E i \in DOMAIN answer.entries : asListed(p, answer.entries[i])
                        /\ \A i, j \in DOMAIN answer.entries :
                             i < j => isDir(answer.entries[i]) \/ ~isDir(answer.entries[j])
           /\ \A p \in down(MaxDepth + 1) :
                Count(whole, LAMBDA e : asListed(p, e))
                    = Cardinality({q \in down(MaxDepth + 1) : Last(q) = Last(p) /\ Node(tree, q) = Node(tree, p)})
           /\ Len(whole) = Cardinality(down(MaxDepth + 1))
           /\ \A p \in Paths :
                LET info == output[1].info[p] IN
                /\ info.ok <=> p \in Nodes(tree) /\ IsBlob(Node(tree, p))
                /\ info.ok => info.size = Len(tree[p].content)

\* A diff is a patch: taking out what it says was there and putting in what it says
\* came turns the base tree into the head tree, but for what was renamed, of which it
\* names neither end; a path whose mode changes is named too, and GetFileDiff knows
\* the same paths; under a filter the same holds of the paths that start with it
\* (diff.rs:180-318).
DiffIsAPatch ==
    Done("treediff") => \A f \in Filters :
        LET diff == output[1].diff[f]
            passing(changes) == {c \in changes : PassesFilter(c.path, f)}
            movedFrom == passing({r[1] : r \in output[1].renames})
            movedTo   == passing({r[2] : r \in output[1].renames})
            seen(tree) == {<<p, Id(Node(tree, p))>> : p \in {q \in Nodes(tree) : PassesFilter(q, f)}}
            went == {<<e.path, e.old>> : e \in {d \in diff : d.status # "Added"}}
            came == {<<e.path, e.new>> : e \in {d \in diff : d.status # "Deleted"}}
            lost == {<<c.path, Id(c.old)>> : c \in movedFrom}
            won  == {<<c.path, Id(c.new)>> : c \in movedTo}
            both == Nodes(input.base) \cup Nodes(input.head)
        IN /\ went \cup lost \subseteq seen(input.base) /\ went \cap lost = {}
           /\ (seen(input.base) \ (went \cup lost)) \cup came \cup won = seen(input.head)
           /\ {e.path : e \in diff \cup movedFrom \cup movedTo} =
                  {p \in both : PassesFilter(p, f) /\ Node(input.base, p) # Node(input.head, p)}
           /\ \A p \in Paths : output[1].file[p] # {} <=> \E e \in output[1].diff[<<>>] : e.path = p

\* The diff against the empty tree and the diff against a commit without files are
\* different code, and list the same files (diff.rs:320-416).
InitialDiffAgrees ==
    Done("treediff") /\ input.base = NoTree =>
        \A f \in Filters : output[1].root[f] = {e \in output[1].diff[f] : IsBlob(Node(input.head, e.path))}
=============================================================================
