------------------------------ MODULE ScopeMatch ------------------------------
(***************************************************************************)
(* The glob matchers: of the push boundary and of branch protection, and    *)
(* the one that ListRefs filters names with.  Patterns and values are       *)
(* sequences of characters; only "*" and "/" are special.                  *)
(***************************************************************************)
EXTENDS Naturals, Sequences, SequencesExt

Rest(s, k) == SubSeq(s, k + 1, Len(s))

\* For each i, the places of v from which all that is left of p, from its i-th
\* character on, matches: `**` is seen first, then `*`, then a literal.  With nothing
\* left, it is at one of `ends`.
Places(p, v, ends) ==
    LET places[i \in 1 .. Len(p) + 1] ==
          LET many == i < Len(p) /\ p[i] = "*" /\ p[i + 1] = "*"
              next == places[IF many THEN i + 2 ELSE i + 1]
          IN IF i > Len(p) THEN ends
             ELSE IF many THEN {j \in 1 .. Len(v) + 1 : \E k \in next : j <= k}
             ELSE IF p[i] = "*"
             THEN {j \in 1 .. Len(v) + 1 :
                      \E k \in next : j <= k /\ \A x \in j .. k - 1 : v[x] # "/"}
             ELSE {j \in 1 .. Len(v) : v[j] = p[i] /\ j + 1 \in next}
    IN places

\* Mutant of GlobMatch: a pattern need not match to the value's end.
GlobUnanchored(p, v) == 1 \in Places(p, v, 1 .. Len(v) + 1)[1]

\* glob_match of scope_match.rs: a pattern that is used up matches the value's end.
GlobMatch(p, v) == 1 \in Places(p, v, {Len(v) + 1})[1]

\* What a pattern means: the value can be cut into one piece for each character of
\* the pattern.  A literal's piece is that character; the pieces of the stars in
\* `confined` stay in a segment.
Splits(p, v, confined) ==
    \E inner \in [1 .. Len(p) - 1 -> 0 .. Len(v)] :
        LET cut(i) == IF i = 0 THEN 0 ELSE IF i = Len(p) THEN Len(v) ELSE inner[i] IN
        \A i \in 1 .. Len(p) :
            /\ cut(i - 1) <= cut(i)
            /\ p[i] # "*" => cut(i) = cut(i - 1) + 1 /\ v[cut(i)] = p[i]
            /\ i \in confined => \A j \in cut(i - 1) + 1 .. cut(i) : v[j] # "/"

\* A star with no other beside it is confined.
LoneStars(p) ==
    {i \in 1 .. Len(p) : /\ p[i] = "*"
                         /\ i > 1 => p[i - 1] # "*"
                         /\ i < Len(p) => p[i + 1] # "*"}

GlobMeans(p, v) == IF p = <<>> THEN v = <<>> ELSE Splits(p, v, LoneStars(p))
-----------------------------------------------------------------------------
\* Mutant of RefGlobMatch: a leading star asks for the rest anywhere.
RefGlobContains(s, p) ==
    \/ p = <<"*">>
    \/ IsSuffix(<<"*">>, p) /\ IsPrefix(Front(p), s)
    \/ /\ IsPrefix(<<"*">>, p) /\ ~IsSuffix(<<"*">>, p)
       /\ \E k \in 0 .. Len(s) : IsPrefix(Tail(p), Rest(s, k))
    \/ s = p

\* glob_match of refs.rs: the first of these that applies decides.
RefGlobMatch(s, p) ==
    IF IsSuffix(<<"*">>, p) THEN IsPrefix(Front(p), s)
    ELSE IF IsPrefix(<<"*">>, p) THEN IsSuffix(Tail(p), s)
    ELSE s = p

\* A star stands for any characters, here, "/" among them.
StarsMean(p, s) == IF p = <<>> THEN s = <<>> ELSE Splits(p, s, {})
=============================================================================
