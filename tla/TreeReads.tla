------------------------------ MODULE TreeReads ------------------------------
(***************************************************************************)
(* What GetTree, GetBlobInfo, GetDiff and GetFileDiff read from the trees   *)
(* of commits.  A tree maps the path of each leaf, a sequence of names, to  *)
(* its node; directories are there by what is below them.  The id of an     *)
(* object is what is in it: a blob's content, or all that a directory holds.*)
(***************************************************************************)
EXTENDS Naturals, Sequences, FiniteSets, SequencesExt

CONSTANTS
    NameRank,  \* name -> its place among names, compared by bytes
    DirRank,   \* name -> its place when it ends in "/", as directories do in a tree
    Starts,    \* what a filter may end in -> the names that begin with it
    MaxDepth,  \* how deep the recursive listing goes (10)
    Sniff      \* how much of a blob is searched for a zero byte (8192)

Leaf(kind, content) == [kind |-> kind, content |-> content, below |-> {}]

Missing == Leaf("none", <<>>)

LeavesBelow(tree, dir) == {p \in DOMAIN tree : IsStrictPrefix(dir, p)}

Nodes(tree) == UNION {{SubSeq(p, 1, n) : n \in 1 .. Len(p)} : p \in DOMAIN tree}

Node(tree, path) ==
    IF path \in DOMAIN tree THEN tree[path]
    ELSE IF LeavesBelow(tree, path) = {} THEN Missing
    ELSE [kind |-> "tree", content |-> <<>>, below |-> {<<p, tree[p]>> : p \in LeavesBelow(tree, path)}]

Id(node) == <<node.content, node.below>>

IsBlob(node) == node.kind \in {"file", "exec"}
-----------------------------------------------------------------------------
\* The elements of a set, one before the other.
InOrder(S, Before(_, _)) ==
    CHOOSE s \in [1 .. Cardinality(S) -> S] : \A i, j \in DOMAIN s : i < j => Before(s[i], s[j])

ChildrenOf(tree, dir) == {SubSeq(p, 1, Len(dir) + 1) : p \in LeavesBelow(tree, dir)}

\* The entries of one tree object, in the order git keeps them.
Entries(tree, dir) ==
    LET place(p) == IF Node(tree, p).kind = "tree" THEN DirRank[Last(p)] ELSE NameRank[Last(p)]
    IN InOrder(ChildrenOf(tree, dir), LAMBDA p, q : place(p) < place(q))

\* Mutant of GetLevel: directories are not moved to the front.
GetLevelUnsorted(tree, dir) ==
    InOrder(Range(Entries(tree, dir)), LAMBDA p, q : NameRank[Last(p)] < NameRank[Last(q)])

\* get_tree: one level, directories first, then by name.
GetLevel(tree, dir) ==
    LET isTree(p) == Node(tree, p).kind = "tree" IN
    InOrder(Range(Entries(tree, dir)),
            LAMBDA p, q : IF isTree(p) = isTree(q) THEN NameRank[Last(p)] < NameRank[Last(q)]
                          ELSE isTree(p))

\* collect_tree_entries: each directory is followed by what is in it.
Collect(tree, path) ==
    LET goesInto(p) == Node(tree, p).kind = "tree" /\ Len(p) <= Len(path) + MaxDepth
        collect[dir \in Nodes(tree) \cup {path}] ==
          LET entries == Entries(tree, dir) IN
          FlattenSeq([i \in DOMAIN entries |->
              <<entries[i]>> \o IF goesInto(entries[i]) THEN collect[entries[i]] ELSE <<>>])
    IN collect[path]

\* GetTree; an empty path is the root.  Only the name of an entry is answered.
GetTree(tree, path, recursive) ==
    LET list == IF recursive THEN Collect(tree, path) ELSE GetLevel(tree, path) IN
    [ok |-> path = <<>> \/ Node(tree, path).kind = "tree",
     entries |-> [i \in DOMAIN list |->
                    [name |-> Last(list[i]), node |-> Node(tree, list[i]),
                     sized |-> IsBlob(Node(tree, list[i]))]]]
-----------------------------------------------------------------------------
HasZero(content, n) == 0 \in Range(SubSeq(content, 1, n))

\* is_binary_content, and the same again in is_file_binary.
IsBinaryContent(content) == HasZero(content, IF Len(content) < Sniff THEN Len(content) ELSE Sniff)

\* get_blob_by_path: <<>>, or <<the content>>; a link or a submodule is no file.
GetBlobByPath(tree, path) == IF IsBlob(Node(tree, path)) THEN <<Node(tree, path).content>> ELSE <<>>

\* GetBlobInfo; get(..8192) is None for a shorter blob.
GetBlobInfo(tree, path) ==
    LET blob == GetBlobByPath(tree, path) IN
    IF blob = <<>> THEN [ok |-> FALSE, size |-> 0, isBinary |-> FALSE]
    ELSE [ok |-> TRUE, size |-> Len(blob[1]),
          isBinary |-> Len(blob[1]) >= Sniff /\ HasZero(blob[1], Sniff)]
-----------------------------------------------------------------------------
\* What gitoxide finds between two nodes of one path: where one is a directory and
\* the other is not, the first goes and the second comes.
NodeChanges(path, old, new) ==
    LET replaced == (old.kind = "tree") # (new.kind = "tree")
        change(from, to) == [path |-> path, old |-> from, new |-> to]
    IN IF old = new THEN {}
       ELSE IF replaced THEN {c \in {change(old, Missing), change(Missing, new)} : c.old # c.new}
       ELSE {change(old, new)}

TreeChanges(old, new) ==
    UNION {NodeChanges(p, Node(old, p), Node(new, p)) : p \in Nodes(old) \cup Nodes(new)}

\* A leaf that went and one that came with the same content are a rename; which
\* of several is not told.  (Blobs are similar only if equal, and none is empty.)
RenamePairs(changes) ==
    LET leaf(n) == n.kind \notin {"none", "tree", "submodule"}
        gone == {c \in changes : leaf(c.old) /\ c.new = Missing}
        come == {c \in changes : leaf(c.new) /\ c.old = Missing}
    IN {r \in gone \X come : /\ r[1].old.content = r[2].new.content
                             /\ IsBlob(r[1].old) <=> IsBlob(r[2].new)}

RenameSets(changes) ==
    LET disjoint(rs) == \A r, s \in rs : r # s => r[1] # s[1] /\ r[2] # s[2]
        all == {rs \in SUBSET RenamePairs(changes) : disjoint(rs)}
    IN {rs \in all : \A more \in all : rs \subseteq more => more = rs}

\* path.starts_with(filter); without a filter, <<>>, everything does.
PassesFilter(path, filter) ==
    \/ filter = <<>>
    \/ /\ Len(path) >= Len(filter)
       /\ SubSeq(path, 1, Len(filter) - 1) = Front(filter)
       /\ path[Len(filter)] \in Starts[Last(filter)]

Status(change) ==
    CASE change.old = Missing -> "Added"
      [] change.new = Missing -> "Deleted"
      [] change.old.kind = change.new.kind -> "Modified"
      [] OTHER -> "TypeChanged"

DiffEntry(change) ==
    [path |-> change.path, status |-> Status(change), old |-> Id(change.old), new |-> Id(change.new),
     isBinary |-> \E n \in {change.old, change.new} :
                      n.kind \in {"file", "exec", "link"} /\ IsBinaryContent(n.content)]

\* Mutant of DiffTrees: what was deleted is passed over like a rewrite.
DiffTreesWithoutDeletions(old, new, filter, renames) ==
    {DiffEntry(c) : c \in {d \in TreeChanges(old, new) : d.new # Missing /\ PassesFilter(d.path, filter)}}

\* diff_trees: the callback drops both ends of a rename.
DiffTrees(old, new, filter, renames) ==
    LET kept == {c \in TreeChanges(old, new) : \A r \in renames : c \notin {r[1], r[2]}} IN
    {DiffEntry(c) : c \in {d \in kept : PassesFilter(d.path, filter)}}

\* Mutant of InitialEntries: the walk does not go into directories.
InitialEntriesOfTopLevel(tree) == {p \in DOMAIN tree : Len(p) = 1 /\ IsBlob(tree[p])}

\* collect_initial_entries goes into every directory and stops at nothing but blobs.
InitialEntries(tree) == {p \in DOMAIN tree : IsBlob(tree[p])}

DiffInitialCommit(tree, filter) ==
    {DiffEntry([path |-> p, old |-> Missing, new |-> tree[p]]) :
        p \in {q \in InitialEntries(tree) : PassesFilter(q, filter)}}

\* GetDiff; base is <<>> for an empty base_ref, else <<its tree>>.
GetDiff(base, head, filter, renames) ==
    IF base = <<>> THEN DiffInitialCommit(head, filter)
    ELSE DiffTrees(base[1], head, filter, renames)

\* GetFileDiff: the entries it may answer with; with none, "File not in diff".
GetFileDiff(base, head, path, renames) ==
    {e \in GetDiff(base, head, path, renames) : e.path = path}
=============================================================================
