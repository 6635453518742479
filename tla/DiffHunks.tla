------------------------------ MODULE DiffHunks ------------------------------
(***************************************************************************)
(* The line diff behind GetDiff and GetFileDiff: a longest-common-          *)
(* subsequence table, the walk back through it, and the grouping of the    *)
(* edits into hunks.  Files are sequences of lines.  Positions in edits    *)
(* count from 0, as in the code; line numbers count from 1.                *)
(***************************************************************************)
EXTENDS Naturals, Sequences, SequencesExt, FiniteSets

CONSTANT LcsLimit  \* the largest table that is computed (10,000,000 in the code)

ASSUME LimitAssumption == LcsLimit \in Nat

\* Mutant of Larger: the smaller neighbour is taken.
Smaller(x, y) == IF x >= y THEN y ELSE x

Larger(x, y) == IF x >= y THEN x ELSE y

\* dp: lengths of the longest common subsequences of all prefixes.
LcsTable(old, new) ==
    LET dp[s \in (0 .. Len(old)) \X (0 .. Len(new))] ==
          LET i == s[1]
              j == s[2]
          IN IF i = 0 \/ j = 0 THEN 0
             ELSE IF old[i] = new[j] THEN dp[<<i - 1, j - 1>>] + 1
             ELSE Larger(dp[<<i - 1, j>>], dp[<<i, j - 1>>])
    IN dp

Edit(op, o, n) == [op |-> op, old |-> o, new |-> n]

\* The walk back to (0, 0), as the edits from there to each (i, j): equal lines first,
\* then insertions.
Edits(dp, old, new) ==
    LET edits[s \in (0 .. Len(old)) \X (0 .. Len(new))] ==
          LET i == s[1]
              j == s[2]
          IN IF i = 0 /\ j = 0 THEN <<>>
             ELSE IF i > 0 /\ j > 0 /\ old[i] = new[j]
             THEN Append(edits[<<i - 1, j - 1>>], Edit("equal", i - 1, j - 1))
             ELSE IF j > 0 /\ (i = 0 \/ dp[<<i, j - 1>>] >= dp[<<i - 1, j>>])
             THEN Append(edits[<<i, j - 1>>], Edit("insert", i, j - 1))
             ELSE Append(edits[<<i - 1, j>>], Edit("delete", i - 1, j))
    IN edits

\* The line of an edit, with its numbers; 0 where it has none.
LineOf(e, old, new) ==
    [op   |-> e.op,
     text |-> IF e.op = "insert" THEN new[e.new + 1] ELSE old[e.old + 1],
     oldNo |-> IF e.op = "insert" THEN 0 ELSE e.old + 1,
     newNo |-> IF e.op = "delete" THEN 0 ELSE e.new + 1]

NoHunk == [oldStart |-> 0, newStart |-> 0, lines |-> <<>>]

\* Mutant of OpenHunk: the hunk starts at the change, whatever context it shows.
OpenAtChange(edits, idx, old, new, context) ==
    LET start == IF idx > context THEN idx - context ELSE 1 IN
    [oldStart |-> edits[idx].old + 1, newStart |-> edits[idx].new + 1,
     lines |-> [i \in 1 .. idx - start |-> LineOf(edits[start + i - 1], old, new)]]

\* A hunk for the change at idx starts `context` edits before it; the edits there
\* are equal lines, since the last hunk ended more than `context` after its last
\* change (HunksAreWindows would fail otherwise).
OpenHunk(edits, idx, old, new, context) ==
    LET start == IF idx > context THEN idx - context ELSE 1 IN
    [oldStart |-> edits[start].old + 1, newStart |-> edits[start].new + 1,
     lines |-> [i \in 1 .. idx - start |-> LineOf(edits[start + i - 1], old, new)]]

\* One round of the loop: st holds the finished hunks, the current one and where
\* the last change was.
AddEdit(st, edits, idx, old, new, context) ==
    LET e == edits[idx]
        change == e.op # "equal"
        last == IF change THEN idx ELSE st.last
        cur == IF change /\ st.cur = NoHunk THEN OpenHunk(edits, idx, old, new, context) ELSE st.cur
    IN IF cur = NoHunk THEN st
       ELSE IF idx <= last + context
       THEN [st EXCEPT !.last = last, !.cur = [cur EXCEPT !.lines = Append(@, LineOf(e, old, new))]]
       ELSE [st EXCEPT !.last = last, !.hunks = Append(@, cur), !.cur = NoHunk]

\* The loop, n rounds on.
Rounds(edits, old, new, context) ==
    LET after[n \in 0 .. Len(edits)] ==
          IF n = 0 THEN [hunks |-> <<>>, cur |-> NoHunk, last |-> 0]
          ELSE AddEdit(after[n - 1], edits, n, old, new, context)
    IN after

\* Mutant of GroupEdits: the hunk that is open at the end is forgotten.
GroupClosed(edits, old, new, context) ==
    Rounds(edits, old, new, context)[Len(edits)].hunks

GroupEdits(edits, old, new, context) ==
    LET end == Rounds(edits, old, new, context)[Len(edits)] IN
    IF end.cur = NoHunk THEN end.hunks ELSE Append(end.hunks, end.cur)

\* Too large for the table: everything goes, everything comes.
SimpleDiffHunks(old, new) ==
    <<[oldStart |-> 1, newStart |-> 1,
       lines |-> [i \in 1 .. Len(old) |-> LineOf(Edit("delete", i - 1, 0), old, new)]
              \o [j \in 1 .. Len(new) |-> LineOf(Edit("insert", 0, j - 1), old, new)]]>>

TooLarge(old, new) == Len(old) * Len(new) > LcsLimit

ComputeDiffHunks(old, new, context) ==
    IF Len(old) = 0 /\ Len(new) = 0 THEN <<>>
    ELSE IF TooLarge(old, new) THEN SimpleDiffHunks(old, new)
    ELSE GroupEdits(Edits(LcsTable(old, new), old, new)[<<Len(old), Len(new)>>], old, new, context)
-----------------------------------------------------------------------------
\* Where lines with this op are shown: the hunk, and the line in it.
Shown(hunks, op) ==
    UNION {{<<h, x>> : x \in {y \in DOMAIN hunks[h].lines : hunks[h].lines[y].op = op}} :
              h \in DOMAIN hunks}

At(hunks, place) == hunks[place[1]].lines[place[2]]

Earlier(a, b) == a[1] < b[1] \/ (a[1] = b[1] /\ a[2] < b[2])

Deleted(hunks) == {At(hunks, a).oldNo : a \in Shown(hunks, "delete")}
Added(hunks)   == {At(hunks, a).newNo : a \in Shown(hunks, "insert")}

\* What is left of the first n lines of a file, for each n, without those numbered.
Without(file, numbers) ==
    LET rest[n \in 0 .. Len(file)] ==
          IF n = 0 THEN <<>>
          ELSE IF n \in numbers THEN rest[n - 1] ELSE Append(rest[n - 1], file[n])
    IN rest

Left(file, numbers) == Without(file, numbers)[Len(file)]

\* All subsequences of a file.
Subsequences(file) == {Left(file, gone) : gone \in SUBSET DOMAIN file}
=============================================================================
