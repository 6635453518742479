----------------------------- MODULE MCAlgorithms -----------------------------
(***************************************************************************)
(* The pure algorithms against what they are to compute: TLC takes each     *)
(* input in turn and runs the algorithm on it, in one step.                *)
(***************************************************************************)
EXTENDS MCReads, ScopeMatch, DiffHunks, TreeMerge, CommitLog

CONSTANTS
    Chars, PatternLen, ValueLen,  \* of patterns, that have stars too, and of values
    Lines, FileLen, Contexts,     \* of files, and the lines of context
    LogLen, Limits,               \* of histories, and page sizes
    MergePaths, MergeLeaves,      \* of the trees of a preview
    PickedPaths, PickedLeaves,    \* of the trees of a series of picks,
    SeriesLen                     \*   and how long it may be

ASSUME InputAssumption ==
    /\ PatternLen \in Nat /\ ValueLen \in Nat /\ FileLen \in Nat /\ LogLen \in Nat
    /\ SeriesLen \in Nat
    /\ Contexts \subseteq Nat /\ Limits \subseteq Nat /\ AncestorLimit \in Nat
    /\ PickedLeaves \subseteq MergeLeaves
    /\ \A leaf \in MergeLeaves : leaf.kind \in {"file", "exec", "link", "submodule"}

Patterns == BoundedSeq(Chars \cup {"*"}, PatternLen)
Values   == BoundedSeq(Chars, ValueLen)
Texts    == BoundedSeq(Lines, FileLen)

\* All histories of LogLen commits with up to two parents each; commit 1 is a root.
ParentSeqs(n) == {<<>>} \cup {<<p>> : p \in 1 .. n - 1}
                 \cup {s \in (1 .. n - 1) \X (1 .. n - 1) : s[1] # s[2]}
Histories == {h \in [1 .. LogLen -> UNION {ParentSeqs(n) : n \in 1 .. LogLen}] :
                  \A n \in 1 .. LogLen : h[n] \in ParentSeqs(n)}

\* The path is in every commit, in every second one, or cannot be looked up in commit 2.
Lookups == {[n \in 1 .. LogLen |-> "found"],
            [n \in 1 .. LogLen |-> IF n % 2 = 0 THEN "absent" ELSE "found"],
            [n \in 1 .. LogLen |-> IF n = 2 THEN "error" ELSE "found"]}

MCMergePaths == {<<"a">>, <<"a", "b">>, <<"a", "c", "b">>}
MCPickedPaths == {<<"a", "b">>, <<"a.b">>}
MCPickedLeaves == {Leaf("file", <<1>>), Leaf("file", <<0>>)}
MCMergeLeaves == MCPickedLeaves \cup {Leaf("exec", <<1>>)}

PreviewTrees == {t \in TreesOf(MergeLeaves) : DOMAIN t \subseteq MergePaths}
SmallTrees == {t \in TreesOf(PickedLeaves) : DOMAIN t \subseteq PickedPaths}
Picks == [parent : SmallTrees, tree : SmallTrees]
Series == BoundedSeq(Picks, SeriesLen)

Pending == <<>>

Inputs ==
    [kind : {"glob"}, pattern : Patterns, value : Values]
    \cup [kind : {"refglob"}, pattern : Patterns \ {<<>>}, value : Values]
    \cup [kind : {"diff"}, old : Texts, new : Texts, context : Contexts]
    \cup [kind : {"merge", "pick"}, from : PreviewTrees, ours : PreviewTrees, theirs : PreviewTrees]
    \cup [kind : {"series"}, picks : Series, onto : SmallTrees]
    \cup [kind : {"log"}, parents : Histories, start : 1 .. LogLen, limit : Limits, lookup : Lookups]
    \cup [kind : {"ancestors"}, parents : Histories, start : 1 .. LogLen, limit : Limits]
    \cup [kind : {"rebase"}, parents : Histories, branch : 1 .. LogLen, onto : 1 .. LogLen]
    \cup ReadInputs

Init == input \in Inputs /\ output = Pending

Glob ==
    /\ input.kind = "glob" /\ output = Pending
    /\ output' = <<GlobMatch(input.pattern, input.value)>>
    /\ UNCHANGED input

RefGlob ==
    /\ input.kind = "refglob" /\ output = Pending
    /\ output' = <<RefGlobMatch(input.value, input.pattern)>>
    /\ UNCHANGED input

Diff ==
    /\ input.kind = "diff" /\ output = Pending
    /\ output' = <<ComputeDiffHunks(input.old, input.new, input.context)>>
    /\ UNCHANGED input

\* The renames gitoxide may find between two trees, and the maps merge_trees may make.
Renames(old, new) == RenameSets(TreeChanges(old, new))
Maps(old, new) == UNION {ChangeMaps(TreeChanges(old, new), rs) : rs \in Renames(old, new)}

\* The two commits diverged from a third, or one of them is below the other.
PreviewMerge ==
    /\ input.kind = "merge" /\ output = Pending
    /\ \E rs \in Renames(input.from, input.ours), ss \in Renames(input.from, input.theirs) :
       \E ours \in ChangeMaps(TreeChanges(input.from, input.ours), rs),
          theirs \in ChangeMaps(TreeChanges(input.from, input.theirs), ss) :
       \E mergeBase \in {"third", "base", "head"} :
         /\ mergeBase = "base" => input.from = input.ours
         /\ mergeBase = "head" => input.from = input.theirs
         /\ output' = <<Merge("base", "head", mergeBase, ours, theirs), rs, ss>>
    /\ UNCHANGED input

PreviewPick ==
    /\ input.kind = "pick" /\ output = Pending
    /\ \E rs \in Renames(input.from, input.ours), ss \in Renames(input.from, input.theirs) :
       \E ours \in ChangeMaps(TreeChanges(input.from, input.ours), rs),
          theirs \in ChangeMaps(TreeChanges(input.from, input.theirs), ss) :
         output' = <<CherryPick(ours, theirs), rs, ss>>
    /\ UNCHANGED input

SeriesMaps(pick) ==
    [onto : Maps(pick.parent, input.onto), pick : Maps(pick.parent, pick.tree)]

PreviewSeries ==
    /\ input.kind = "series" /\ output = Pending
    /\ \E maps \in [DOMAIN input.picks -> UNION {SeriesMaps(p) : p \in Range(input.picks)}] :
         /\ \A i \in DOMAIN maps : maps[i] \in SeriesMaps(input.picks[i])
         /\ output' = <<PickSeries(maps)>>
    /\ UNCHANGED input

ReadAncestors ==
    /\ input.kind = "ancestors" /\ output = Pending
    /\ output' = <<GetAncestors(input.parents, input.start, input.limit)>>
    /\ UNCHANGED input

\* A client reads the log page by page: pages of limit commits, or all at once.
ReadLog ==
    /\ input.kind = "log" /\ output = Pending
    /\ output' = <<[i \in 1 .. IF input.limit = 0 THEN 1 ELSE LogLen |->
                      GetLog(input.parents, input.start, input.limit, (i - 1) * input.limit,
                             input.lookup)]>>
    /\ UNCHANGED input

PreviewRebase ==
    /\ input.kind = "rebase" /\ output = Pending
    /\ \E base \in MergeBases(input.parents, input.branch, input.onto) :
         output' = <<Rebase(input.parents, input.branch, base)>>
    /\ UNCHANGED input

Next == \/ Glob \/ RefGlob \/ Diff \/ PreviewMerge \/ PreviewPick \/ PreviewSeries
        \/ ReadLog \/ ReadAncestors \/ PreviewRebase \/ ReadTree \/ DiffOfTrees

Spec == Init /\ [][Next]_vars
-----------------------------------------------------------------------------
\* A pattern matches exactly the values that can be cut into pieces for its
\* characters: the order in which the matcher tries the runs of a star, and that it
\* sees `**` before `*`, never change the verdict (scope_match.rs:25-57).
GlobMatchesItsMeaning ==
    Done("glob") => (output[1] <=> GlobMeans(input.pattern, input.value))

\* A pattern for ref names without a star, or with one star at one end, matches
\* the names it stands for (refs.rs:324-340).
RefGlobMatchesItsMeaning ==
    Done("refglob") =>
        LET p == input.pattern
            stars == {i \in DOMAIN p : p[i] = "*"}
        IN Cardinality(stars) <= 1 /\ stars \subseteq {1, Len(p)} =>
               (output[1] <=> StarsMean(p, input.value))

\* The hunks are a patch: the lines they delete and add are each listed once, in
\* order and with the right text, and what they leave of the old file is what they
\* leave of the new one (diff.rs:469-653).
HunksRebuildTheFile ==
    Done("diff") =>
        LET hunks == output[1]
            no(a, op) == IF op = "delete" THEN At(hunks, a).oldNo ELSE At(hunks, a).newNo
        IN /\ \A op \in {"delete", "insert"} : \A a, b \in Shown(hunks, op) :
                Earlier(a, b) => no(a, op) < no(b, op)
           /\ Deleted(hunks) \subseteq DOMAIN input.old /\ Added(hunks) \subseteq DOMAIN input.new
           /\ Left(input.old, Deleted(hunks)) = Left(input.new, Added(hunks))

\* Each hunk is a window on both files: it starts at the lines its header says and
\* shows all of the lines from there on, without a gap (diff.rs:545-594).
HunksAreWindows ==
    Done("diff") => \A h \in Range(output[1]) : \A x \in DOMAIN h.lines :
        LET before(op) == Cardinality({y \in 1 .. x - 1 : h.lines[y].op # op})
            line == h.lines[x]
        IN /\ line.op # "insert" => /\ line.oldNo = h.oldStart + before("insert")
                                   /\ line.text = input.old[line.oldNo]
           /\ line.op # "delete" => /\ line.newNo = h.newStart + before("delete")
                                   /\ line.text = input.new[line.newNo]

\* No shorter edit script exists, unless the files were too large to look for one:
\* what stays is a longest common subsequence (diff.rs:476-514).
DiffIsMinimal ==
    Done("diff") /\ ~TooLarge(input.old, input.new) =>
        \A s \in Subsequences(input.old) \cap Subsequences(input.new) :
            Len(s) <= Len(Left(input.old, Deleted(output[1])))

\* The entries of the three trees, directories too, and those that a side changed.
MergeEntries == Nodes(input.from) \cup Nodes(input.ours) \cup Nodes(input.theirs)
Changed(tree) == {p \in MergeEntries : Node(tree, p) # Node(input.from, p)}

\* Those that a side changed from a directory to something else, or to one.
Replaced(tree) ==
    {p \in Nodes(input.from) \cap Nodes(tree) :
        (Node(input.from, p).kind = "tree") # (Node(tree, p).kind = "tree")}

Ends(renames) == {r[1].path : r \in renames} \cup {r[2].path : r \in renames}

\* A preview of a merge or a cherry-pick has a conflict at each entry that both sides
\* changed and that now has another object on each; everything else that a side
\* changed is merged; it succeeds only without a conflict.  Files are not merged:
\* an entry changed in two places is a conflict, so is each directory in which both
\* sides changed something, and a mode counts as a change but not as a difference.
\* Both ends of a rename are left out on the side that has it, and an entry that a
\* side made a directory of, or a file of a directory, is only known not to be a
\* conflict unless both changed it (operations.rs:350-470).
PreviewsAreExact ==
    (Done("merge") \/ Done("pick")) /\ output[1].status # "FastForward" =>
        LET answer == output[1]
            ours == Changed(input.ours) \ Ends(output[2])
            theirs == Changed(input.theirs) \ Ends(output[3])
            apart == {p \in ours \cap theirs : Oid(Node(input.ours, p)) # Oid(Node(input.theirs, p))}
            either == Replaced(input.ours) \cup Replaced(input.theirs)
        IN /\ answer.result.conflicts \ either = apart \ either
           /\ answer.result.merged \ either = (ours \cup theirs) \ (apart \cup either)
           /\ answer.result.conflicts \subseteq Changed(input.ours) \cap Changed(input.theirs)
           /\ answer.result.merged \subseteq Changed(input.ours) \cup Changed(input.theirs)
           /\ answer.status \in {"Success", "EmptyCommit"} => apart \subseteq either

\* What a pick touches, directories too; the tree that it turns another one into, and
\* those on the way when a series is applied pick by pick.
Touched(pick) == {c.path : c \in TreeChanges(pick.parent, pick.tree)}

Apply(pick, tree) ==
    [p \in (DOMAIN tree \ Touched(pick)) \cup (DOMAIN pick.tree \cap Touched(pick)) |->
        IF p \in Touched(pick) THEN pick.tree[p] ELSE tree[p]]

Targets(picks, onto) ==
    LET after[n \in 0 .. Len(picks)] ==
          IF n = 0 THEN onto ELSE Apply(picks[n], after[n - 1])
    IN after

\* Nothing is renamed, and no file becomes a directory or the other way round.
Plain(changes) ==
    RenamePairs(changes) = {} /\ \A c, d \in changes : c.path = d.path => c = d

\* Though CherryPick compares each commit with the target branch as it is, the
\* preview of a series is that of picking one after the other, each onto what the picks
\* before it left, for picks that keep out of each other's way: no file or directory is
\* changed by two of them, nothing is renamed, and no file becomes a directory or the
\* other way round.  It then succeeds, or ends at the first pick that clashes
\* (service.rs:1168-1204).
SeriesIsSequential ==
    Done("series") =>
        LET picks == input.picks
            after == Targets(picks, input.onto)
            apart == \A i, j \in DOMAIN picks : i # j => Touched(picks[i]) \cap Touched(picks[j]) = {}
            kept == \A i \in DOMAIN picks : \A t \in {input.onto, after[i - 1], picks[i].tree} :
                          Plain(TreeChanges(picks[i].parent, t))
            clashing == {i \in DOMAIN picks :
                CherryPick(TreeChanges(picks[i].parent, after[i - 1]),
                           TreeChanges(picks[i].parent, picks[i].tree)).status = "Conflict"}
        IN apart /\ kept =>
               output[1] = IF clashing = {} THEN [tried |-> Len(picks), success |-> TRUE]
                           ELSE [tried |-> CHOOSE i \in clashing : \A j \in clashing : i <= j,
                                 success |-> FALSE]

\* For each n, the commits at most n steps below one.
Within(parents, c) ==
    LET within[n \in 0 .. LogLen] ==
          IF n = 0 THEN {c}
          ELSE within[n - 1] \cup UNION {Range(parents[p]) : p \in within[n - 1]}
    IN within

\* The ancestors listed are those of the commit, without itself, each once, as many
\* as asked for, and the nearest ones: none is left out for one that is farther away
\* (commits.rs:101-129).
AncestorsAreNearest ==
    Done("ancestors") =>
        LET list == output[1]
            own == Below(input.parents, input.start) \ {input.start}
            room == IF input.limit = 0 THEN AncestorLimit ELSE input.limit
        IN /\ IsInjective(list) /\ Range(list) \subseteq own
           /\ Len(list) = IF room < Cardinality(own) THEN room ELSE Cardinality(own)
           /\ \A n \in 1 .. LogLen :
                LET near == Within(input.parents, input.start)[n] IN
                near \cap own \subseteq Range(list) \/ Range(list) \subseteq near

\* The pages of a log, read one after the other, hold every commit of the history
\* once, whatever the page size, and without a limit one page has them all; under a
\* path filter none is missing that has the path (commits.rs:50-97).
LogPagesComplete ==
    Done("log") =>
        LET page == output[1]
            own == Below(input.parents, input.start)
            entries == UNION {{i} \X DOMAIN page[i] : i \in DOMAIN page}
            listed == {page[e[1]][e[2]] : e \in entries}
        IN /\ \A d, e \in entries : page[d[1]][d[2]] = page[e[1]][e[2]] => d = e
           /\ listed \subseteq own
           /\ {c \in own : input.lookup[c] = "found"} \subseteq listed

\* A branch without merges is rebased whole, each commit after its parent: the walk
\* stops at the merge base and at nothing before it (operations.rs:291-303).
RebaseListsBranch ==
    Done("rebase") =>
        LET own == Below(input.parents, input.branch) \ Below(input.parents, input.onto)
            list == output[1]
        IN (\A c \in own : Len(input.parents[c]) <= 1) =>
               /\ Range(list) = own /\ IsInjective(list)
               /\ \A i, j \in DOMAIN list : list[i] \in Range(input.parents[list[j]]) => i < j
=============================================================================
