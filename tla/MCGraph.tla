------------------------------- MODULE MCGraph -------------------------------
(***************************************************************************)
(* Small commit graphs for the model checker.  A commit is described by a  *)
(* label and the sequence of its parents' descriptions, so equal content   *)
(* is equal description; the checker then works with its number in Order,  *)
(* and 0 is the zero id.                                                   *)
(***************************************************************************)
EXTENDS Sequences, FiniteSets, Naturals, TLC

\* The ancestors of such a commit, itself included.
RECURSIVE AncOf(_)
AncOf(c) == {c} \cup UNION {AncOf(c[2][i]) : i \in DOMAIN c[2]}

Unrelated(a, b) == a \notin AncOf(b) /\ b \notin AncOf(a)

\* Merges of any of `changes` into any of `tips` that are needed, per stamp.
MergesOnto(tips, changes, stamps) ==
    {<<s, p>> : s \in stamps, p \in {q \in tips \X changes : Unrelated(q[1], q[2])}}

\* `tips` and every tip that up to `depth` landings of `changes` can make of them.
RECURSIVE Landings(_, _, _, _)
Landings(tips, changes, stamps, depth) ==
    IF depth = 0 THEN tips
    ELSE Landings(tips \cup {c \in changes : \E t \in tips : t \in AncOf(c)}
                       \cup MergesOnto(tips, changes, stamps),
                  changes, stamps, depth - 1)

Root == <<"root", <<>>>>
Tip  == <<"tip", <<Root>>>>     \* main when the service starts
Fwd  == <<"fwd", <<Tip>>>>      \* a change that fast-forwards main
ChgA == <<"a", <<Root>>>>       \* a change that diverged from main
ChgB == <<"b", <<ChgA>>>>       \* a change stacked on ChgA
Gone == <<"gone", <<Root>>>>    \* a commit that was never pushed

\* Numbering: SetToSeq would search all permutations, so one order is built.
RECURSIVE Order(_)
Order(set) ==
    IF set = {} THEN <<>>
    ELSE LET c == CHOOSE x \in set : TRUE IN <<c>> \o Order(set \ {c})

NumberIn(order, c) == CHOOSE i \in DOMAIN order : order[i] = c
NumbersOf(order, set) == {NumberIn(order, c) : c \in set}

\* The tables of a graph.  They are the fields of one record, which TLC
\* evaluates once, and `@@ <<>>` tabulates each of them; TLC would otherwise
\* evaluate a table again at each of its uses.
GraphOf(order) ==
    [ids     |-> DOMAIN order,
     parents |-> [i \in DOMAIN order |->
                    [j \in DOMAIN order[i][2] |-> NumberIn(order, order[i][2][j])]] @@ <<>>,
     anc     |-> [i \in DOMAIN order |-> NumbersOf(order, AncOf(order[i]))] @@ <<>>,
     \* a merge takes the tree of the change, its second parent
     tree    |-> [i \in DOMAIN order |->
                    IF Len(order[i][2]) = 2 THEN order[i][2][2][1] ELSE order[i][1]] @@ <<>>]
=============================================================================
