------------------------------ MODULE TreeMerge ------------------------------
(***************************************************************************)
(* The previews that Merge and CherryPick make of what gitoxide reports     *)
(* two trees to differ in (TreeChanges).  They write nothing: no commit is  *)
(* created and no ref moves.                                               *)
(***************************************************************************)
EXTENDS TreeReads

\* The new_oid of a change; there is none of what went.
Oid(node) == IF node = Missing THEN <<>> ELSE <<Id(node)>>

\* Mutant of ChangeMaps: a rename is taken for the addition of its new path.
ChangeMapsWithRewrites(changes, renames) ==
    LET kept == {c \in changes : \A r \in renames : c # r[1]}
    IN {map \in SUBSET kept : /\ {c.path : c \in map} = {c.path : c \in kept}
                              /\ \A c, d \in map : c.path = d.path => c = d}

\* The map that a callback of merge_trees fills: it passes over a rename, and of two
\* changes of one path, a file that became a directory or the other way round, the
\* last one stays.  Which is last, gitoxide decides by their ids.
ChangeMaps(changes, renames) ==
    LET kept == {c \in changes : \A r \in renames : c \notin {r[1], r[2]}}
    IN {map \in SUBSET kept : /\ {c.path : c \in map} = {c.path : c \in kept}
                              /\ \A c, d \in map : c.path = d.path => c = d}

\* merge_trees, of the two maps: a path in both is a conflict unless it is now the same.
MergeTrees(ours, theirs) ==
    LET clashing == {c \in ours : \E d \in theirs : d.path = c.path /\ Oid(d.new) # Oid(c.new)}
        conflicts == {c.path : c \in clashing}
    IN [conflicts |-> conflicts, merged |-> {c.path : c \in ours \cup theirs} \ conflicts]

\* merge, of the ids of three commits and the changes from the merge base.
Merge(base, head, mergeBase, baseChanges, headChanges) ==
    LET result == MergeTrees(baseChanges, headChanges)
        none == [conflicts |-> {}, merged |-> {}]
    IN IF base = head THEN [status |-> "AlreadyUpToDate", result |-> none]
       ELSE IF mergeBase = base THEN [status |-> "FastForward", result |-> none]
       ELSE [status |-> IF result.conflicts = {} THEN "Success" ELSE "Conflict",
             result |-> result]

\* cherry_pick: the changes from the commit's first parent to the branch and to it.
CherryPick(ontoChanges, pickChanges) ==
    LET result == MergeTrees(ontoChanges, pickChanges) IN
    [status |-> IF result.conflicts # {} THEN "Conflict"
                ELSE IF result.merged = {} THEN "EmptyCommit" ELSE "Success",
     result |-> result]

\* Mutant of PickSeries: it goes on after a conflict, and the last pick decides.
PickSeriesGoesOn(maps) ==
    LET status(i) == CherryPick(maps[i].onto, maps[i].pick).status
    IN [tried |-> Len(maps), success |-> maps = <<>> \/ status(Len(maps)) # "Conflict"]

\* The CherryPick handler: each commit is previewed on the target branch, and the
\* first conflict ends the series.
PickSeries(maps) ==
    LET status(i) == CherryPick(maps[i].onto, maps[i].pick).status
        clashing == {i \in DOMAIN maps : status(i) = "Conflict"}
    IN IF clashing = {} THEN [tried |-> Len(maps), success |-> TRUE]
       ELSE [tried |-> CHOOSE i \in clashing : \A j \in clashing : i <= j, success |-> FALSE]
=============================================================================
