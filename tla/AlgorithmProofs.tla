---------------------------- MODULE AlgorithmProofs ----------------------------
(***************************************************************************)
(* Proofs about the algorithms that MCAlgorithms runs, for inputs of any    *)
(* size.                                                                    *)
(***************************************************************************)
EXTENDS MCAlgorithms, SequenceTheorems, FiniteSetTheorems, WellFoundedInduction, TLAPS

(***************************************************************************)
(* Induction and recursion over data.  The library's theorems take an      *)
(* operator as a parameter, which no prover here can instantiate; these    *)
(* take sets and functions.                                                *)
(***************************************************************************)

\* A set of naturals that has 0 and each successor has them all.
LEMMA NatSetInduction ==
    ASSUME NEW S, 0 \in S, \A n \in Nat : n \in S => n + 1 \in S
    PROVE  Nat \subseteq S
<1> DEFINE R == {s \in Nat \X Nat : s[1] < s[2]}
           T == Nat \ S
<1>1. IsWellFoundedOn(R, Nat)
  BY NatLessThanWellFounded DEF OpToRel
<1> SUFFICES ASSUME T # {} PROVE FALSE
  OBVIOUS
<1>2. PICK m \in T : \A y \in T : <<y, m>> \notin R
  <2>1. T \subseteq Nat
    OBVIOUS
  <2> HIDE DEF R, T
  <2> QED
    BY <1>1, <2>1, WFMin
<1>3. m \in Nat /\ m # 0 /\ m - 1 \in Nat /\ m - 1 < m /\ m - 1 + 1 = m
  OBVIOUS
<1>4. m - 1 \notin T
  BY <1>2, <1>3
<1> QED
  BY <1>3, <1>4

\* The ways to make a function of its values at arguments of a smaller rank, and the
\* functions that are so made.
Local(D, V, rank) ==
    {G \in [[D -> V] \X D -> V] : \A f, g \in [D -> V] : \A x \in D :
        (\A y \in D : rank[y] < rank[x] => f[y] = g[y]) => G[<<f, x>>] = G[<<g, x>>]}

\* The functions that solve a recursive equation.
Solutions(D, V, G) == {f \in [D -> V] : f = [x \in D |-> G[<<f, x>>]]}

\* There is such a function, if the ranks are bounded.
LEMMA RecursionHasSolution ==
    ASSUME NEW D, NEW V, V # {}, NEW top \in Nat, NEW rank \in [D -> 0 .. top],
           NEW G \in Local(D, V, rank)
    PROVE  Solutions(D, V, G) # {}
<1> PICK v0 \in V : TRUE
  OBVIOUS
<1>0. /\ G \in [[D -> V] \X D -> V]
      /\ \A f, g \in [D -> V] : \A x \in D :
           (\A y \in D : rank[y] < rank[x] => f[y] = g[y]) => G[<<f, x>>] = G[<<g, x>>]
  BY DEF Local
<1> DEFINE Upto(n) == \E f \in [D -> V] : \A x \in D : rank[x] < n => f[x] = G[<<f, x>>]
           S == {n \in Nat : Upto(n)}
<1>1. 0 \in S
  <2>1. [x \in D |-> v0] \in [D -> V] /\ \A x \in D : ~(rank[x] < 0)
    OBVIOUS
  <2> QED
    BY <2>1
<1>2. ASSUME NEW n \in Nat, n \in S
      PROVE  n + 1 \in S
  <2>1. PICK f \in [D -> V] : \A x \in D : rank[x] < n => f[x] = G[<<f, x>>]
    BY <1>2
  <2> DEFINE g == [x \in D |-> IF rank[x] = n THEN G[<<f, x>>] ELSE f[x]]
  <2>2. g \in [D -> V]
    BY <1>0
  <2>3. ASSUME NEW x \in D, rank[x] < n + 1
        PROVE  g[x] = G[<<g, x>>]
    <3>1. rank[x] \in Nat /\ \A y \in D : rank[y] < rank[x] => f[y] = g[y]
      BY <2>3
    <3>2. G[<<f, x>>] = G[<<g, x>>]
      BY <1>0, <2>2, <3>1
    <3>3. g[x] = G[<<f, x>>]
      <4>1. CASE rank[x] = n
        BY <4>1
      <4>2. CASE rank[x] < n
        BY <2>1, <4>2
      <4> QED
        BY <2>3, <3>1, <4>1, <4>2
    <3> QED
      BY <3>2, <3>3
  <2>4. Upto(n + 1)
    <3> HIDE DEF g
    <3> QED
      BY <2>2, <2>3
  <2> QED
    BY <2>4
<1>3. top + 1 \in S
  <2> HIDE DEF S
  <2>1. Nat \subseteq S
    BY <1>1, <1>2, NatSetInduction
  <2> QED
    BY <2>1
<1>4. PICK f \in [D -> V] : \A x \in D : rank[x] < top + 1 => f[x] = G[<<f, x>>]
  BY <1>3
<1>5. f = [x \in D |-> G[<<f, x>>]]
  BY <1>4
<1> QED
  BY <1>5 DEF Solutions

\* So does one that makes each value of the one before it.
Chains(V, first, top, Step) ==
    {f \in [0 .. top -> V] :
        f = [n \in 0 .. top |-> IF n = 0 THEN first ELSE Step[<<n, f[n - 1]>>]]}

\* A value given for 0, and from each number to the next, gives a function.
LEMMA NatRecursion ==
    ASSUME NEW V, NEW first \in V, NEW top \in Nat, NEW Step \in [(1 .. top) \X V -> V]
    PROVE  Chains(V, first, top, Step) # {}
<1> DEFINE D == 0 .. top
           value(f, n) == IF n = 0 THEN first ELSE Step[<<n, f[n - 1]>>]
           rank == [n \in D |-> n]
           G == [a \in [D -> V] \X D |-> value(a[1], a[2])]
<1>1. rank \in [D -> 0 .. top] /\ V # {}
  OBVIOUS
<1>2. \A f \in [D -> V], n \in D : value(f, n) \in V
  OBVIOUS
<1>3. ASSUME NEW f \in [D -> V], NEW g \in [D -> V], NEW n \in D,
             \A m \in D : rank[m] < rank[n] => f[m] = g[m]
      PROVE  value(f, n) = value(g, n)
  <2>1. CASE n # 0
    <3>1. n - 1 \in D /\ rank[n - 1] < rank[n]
      BY <2>1
    <3> QED
      BY <1>3, <3>1
  <2> QED
    BY <2>1
<1> HIDE DEF value, rank, D
<1>4. G \in [[D -> V] \X D -> V] /\ \A f \in [D -> V], n \in D : G[<<f, n>>] = value(f, n)
  BY <1>2
<1> HIDE DEF G
<1>5. G \in Local(D, V, rank)
  <2>1. ASSUME NEW f \in [D -> V], NEW g \in [D -> V], NEW n \in D,
               \A m \in D : rank[m] < rank[n] => f[m] = g[m]
        PROVE  G[<<f, n>>] = G[<<g, n>>]
    <3>1. value(f, n) = value(g, n)
      BY <1>3, <2>1
    <3> QED
      BY <1>4, <3>1
  <2> QED
    BY <1>4, <2>1 DEF Local
<1>6. Solutions(D, V, G) # {}
  BY <1>1, <1>5, RecursionHasSolution
<1>7. PICK f \in [D -> V] : f = [n \in D |-> G[<<f, n>>]]
  BY <1>6 DEF Solutions
<1>8. f = [n \in D |-> value(f, n)]
  BY <1>4, <1>7
<1> QED
  BY <1>8 DEF D, value, Chains

(***************************************************************************)
(* Every behaviour takes one input, and runs one algorithm on it.          *)
(***************************************************************************)
LEMMA InputStays == Spec => [](input \in Inputs)
<1>1. Init => input \in Inputs
  BY DEF Init
<1>2. input \in Inputs /\ [Next]_vars => (input \in Inputs)'
  BY DEF Next, vars, Glob, RefGlob, Diff, PreviewMerge, PreviewPick, PreviewSeries, ReadLog,
         ReadAncestors, PreviewRebase, ReadTree, DiffOfTrees
<1> QED
  BY <1>1, <1>2, PTL DEF Spec

\* The answer to a preview is set by the preview alone.
LEMMA MergeRuns ==
    ASSUME [Next]_vars, Done("merge")' \/ Done("pick")'
    PROVE  \/ (Done("merge") \/ Done("pick")) /\ UNCHANGED vars
           \/ PreviewMerge \/ PreviewPick
BY DEF Next, vars, Done, Glob, RefGlob, Diff, PreviewMerge, PreviewPick, PreviewSeries, ReadLog,
       ReadAncestors, PreviewRebase, ReadTree, DiffOfTrees

(***************************************************************************)
(* ScopeMatch: globs.                                                      *)
(***************************************************************************)

\* What the table has for a character of the pattern, from what it has further on.
CellIs(p, v, places, i) ==
    IF i < Len(p) /\ p[i] = "*" /\ p[i + 1] = "*"
    THEN places[i] = {j \in 1 .. Len(v) + 1 : \E k \in places[i + 2] : j <= k}
    ELSE IF p[i] = "*"
    THEN places[i] = {j \in 1 .. Len(v) + 1 :
                        \E k \in places[i + 1] : j <= k /\ \A x \in j .. k - 1 : v[x] # "/"}
    ELSE places[i] = {j \in 1 .. Len(v) : v[j] = p[i] /\ j + 1 \in places[i + 1]}

\* The table is what its definition says, with a set of places for each position.
LEMMA PlacesAre ==
    ASSUME NEW C, NEW p \in Seq(C), NEW v \in Seq(C), NEW ends \in SUBSET (1 .. Len(v) + 1)
    PROVE  LET places == Places(p, v, ends) IN
           /\ places \in [1 .. Len(p) + 1 -> SUBSET (1 .. Len(v) + 1)]
           /\ places[Len(p) + 1] = ends
           /\ \A i \in 1 .. Len(p) : CellIs(p, v, places, i)
<1> DEFINE D == 1 .. Len(p) + 1
           V == SUBSET (1 .. Len(v) + 1)
           next(h, i) == h[IF i < Len(p) /\ p[i] = "*" /\ p[i + 1] = "*" THEN i + 2 ELSE i + 1]
           value(h, i) ==
             IF i > Len(p) THEN ends
             ELSE IF i < Len(p) /\ p[i] = "*" /\ p[i + 1] = "*"
             THEN {j \in 1 .. Len(v) + 1 : \E k \in next(h, i) : j <= k}
             ELSE IF p[i] = "*"
             THEN {j \in 1 .. Len(v) + 1 :
                      \E k \in next(h, i) : j <= k /\ \A x \in j .. k - 1 : v[x] # "/"}
             ELSE {j \in 1 .. Len(v) : v[j] = p[i] /\ j + 1 \in next(h, i)}
           rank == [i \in D |-> Len(p) + 1 - i]
           G == [a \in [D -> V] \X D |-> value(a[1], a[2])]
           places == Places(p, v, ends)
<1>1. Len(p) \in Nat /\ Len(v) \in Nat
  OBVIOUS
<1>2. places = CHOOSE h : h = [i \in D |-> value(h, i)]
  BY DEF Places
<1>3. \A h, i : i \in D => value(h, i) \in V
  BY <1>1
<1>4. ASSUME NEW f, NEW g, NEW i \in D, \A j \in D : rank[j] < rank[i] => f[j] = g[j]
      PROVE  value(f, i) = value(g, i)
  <2>1. CASE i > Len(p)
    BY <2>1
  <2>2. CASE i <= Len(p)
    <3>1. /\ i + 1 \in D /\ rank[i + 1] < rank[i]
          /\ i < Len(p) => i + 2 \in D /\ rank[i + 2] < rank[i]
      BY <1>1, <2>2
    <3>2. next(f, i) = next(g, i)
      BY <1>4, <3>1
    <3> QED
      BY <3>2
  <2> QED
    BY <1>1, <2>1, <2>2
<1>5. \E f \in [D -> V] : f = [i \in D |-> value(f, i)]
  <2>1. rank \in [D -> 0 .. Len(p)] /\ {} \in V
    BY <1>1
  <2> HIDE DEF value, rank, D, V
  <2>2. G \in [[D -> V] \X D -> V] /\ \A f \in [D -> V], i \in D : G[<<f, i>>] = value(f, i)
    BY <1>3
  <2> HIDE DEF G
  <2>3. \E f \in [D -> V] : f = [x \in D |-> G[<<f, x>>]]
    <3>1. \A f, g \in [D -> V] : \A x \in D :
            (\A y \in D : rank[y] < rank[x] => f[y] = g[y]) => G[<<f, x>>] = G[<<g, x>>]
      <4> SUFFICES ASSUME NEW f \in [D -> V], NEW g \in [D -> V], NEW x \in D,
                          \A y \in D : rank[y] < rank[x] => f[y] = g[y]
                   PROVE  G[<<f, x>>] = G[<<g, x>>]
        OBVIOUS
      <4>1. value(f, x) = value(g, x)
        BY <1>4
      <4> QED
        BY <2>2, <4>1
    <3>2. Len(p) \in Nat
      BY <1>1
    <3> QED
      <4>1. G \in Local(D, V, rank)
        BY <2>2, <3>1 DEF Local
      <4>2. V # {}
        BY <2>1
      <4>3. Solutions(D, V, G) # {}
        BY <2>1, <3>2, <4>1, <4>2, RecursionHasSolution
      <4> QED
        BY <4>3 DEF Solutions
  <2> QED
    BY <2>2, <2>3
<1>6. PICK f \in [D -> V] : f = [i \in D |-> value(f, i)]
  BY <1>5
<1>7. places = [i \in D |-> value(places, i)]
  <2> HIDE DEF value, D, V
  <2> QED
    BY <1>2, <1>6
<1>8. places \in [D -> V] /\ \A i \in D : places[i] = value(places, i)
  <2> HIDE DEF value, D, V, places
  <2> QED
    BY <1>3, <1>7
<1>9. places[Len(p) + 1] = ends
  BY <1>1, <1>8
<1>10. ASSUME NEW i \in 1 .. Len(p)
       PROVE  CellIs(p, v, places, i)
  <2>1. i \in D /\ ~(i > Len(p)) /\ places[i] = value(places, i)
    <3>1. i \in D /\ ~(i > Len(p))
      BY <1>1
    <3> HIDE DEF value, D, V, places
    <3> QED
      BY <1>8, <3>1
  <2>2. CASE i < Len(p) /\ p[i] = "*" /\ p[i + 1] = "*"
    BY <2>1, <2>2 DEF CellIs
  <2>3. CASE ~(i < Len(p) /\ p[i] = "*" /\ p[i + 1] = "*") /\ p[i] = "*"
    BY <2>1, <2>3 DEF CellIs
  <2>4. CASE p[i] # "*"
    BY <2>1, <2>4 DEF CellIs
  <2> QED
    BY <2>2, <2>3, <2>4
<1> QED
  BY <1>8, <1>9, <1>10

\* The cuts for what is left of p from its i-th character on, from place j of v on:
\* cut[x] is where the piece of the x-th character ends.
Piece(p, v, confined, cut, x) ==
    /\ cut[x - 1] <= cut[x]
    /\ p[x] # "*" => cut[x] = cut[x - 1] + 1 /\ v[cut[x]] = p[x]
    /\ x \in confined => \A y \in cut[x - 1] + 1 .. cut[x] : v[y] # "/"

\* The stars that stand alone in the rest of a pattern.
LoneFrom(p, i) ==
    {x \in i .. Len(p) : /\ p[x] = "*"
                         /\ x > i => p[x - 1] # "*"
                         /\ x < Len(p) => p[x + 1] # "*"}

\* The ways to cut the rest of a value along the rest of a pattern.
Cuts(p, v, i, j) ==
    {cut \in [0 .. Len(p) -> 0 .. Len(v)] :
        /\ cut[i - 1] = j - 1 /\ cut[Len(p)] = Len(v)
        /\ \A x \in i .. Len(p) : Piece(p, v, LoneFrom(p, i), cut, x)}

\* With nothing left of the pattern, nothing may be left of the value.
LEMMA CutsAtEnd ==
    ASSUME NEW C, NEW p \in Seq(C), NEW v \in Seq(C), NEW j \in 1 .. Len(v) + 1
    PROVE  Cuts(p, v, Len(p) + 1, j) # {} <=> j = Len(v) + 1
<1>1. Len(p) \in Nat /\ Len(v) \in Nat
  OBVIOUS
<1>2. CASE j = Len(v) + 1
  <2> DEFINE cut == [x \in 0 .. Len(p) |-> Len(v)]
  <2>1. cut \in Cuts(p, v, Len(p) + 1, j)
    BY <1>1, <1>2 DEF Cuts
  <2> QED
    BY <1>2, <2>1
<1>3. CASE j # Len(v) + 1
  BY <1>1, <1>3 DEF Cuts
<1> QED
  BY <1>2, <1>3

\* A literal takes one character, and it.
LEMMA CutsAtLiteral ==
    ASSUME NEW C, NEW p \in Seq(C), NEW v \in Seq(C), NEW i \in 1 .. Len(p) + 1,
           i \in 1 .. Len(p), p[i] # "*"
    PROVE  \A j \in 1 .. Len(v) + 1 :
              Cuts(p, v, i, j) # {} <=>
                 (j <= Len(v) /\ v[j] = p[i] /\ Cuts(p, v, i + 1, j + 1) # {})
<1> SUFFICES ASSUME NEW j \in 1 .. Len(v) + 1
             PROVE  Cuts(p, v, i, j) # {} <=>
                       (j <= Len(v) /\ v[j] = p[i] /\ Cuts(p, v, i + 1, j + 1) # {})
  OBVIOUS
<1>1. Len(p) \in Nat /\ Len(v) \in Nat
  OBVIOUS
<1>2. LoneFrom(p, i) = LoneFrom(p, i + 1)
  BY <1>1 DEF LoneFrom
<1>3. ASSUME NEW cut \in Cuts(p, v, i, j)
      PROVE  j <= Len(v) /\ v[j] = p[i] /\ cut \in Cuts(p, v, i + 1, j + 1)
  BY <1>1, <1>2 DEF Cuts, Piece
<1>4. ASSUME j <= Len(v), v[j] = p[i], NEW old \in Cuts(p, v, i + 1, j + 1)
      PROVE  \E cut : cut \in Cuts(p, v, i, j)
  <2> DEFINE cut == [old EXCEPT ![i - 1] = j - 1]
  <2>1. cut \in [0 .. Len(p) -> 0 .. Len(v)] /\ cut[i - 1] = j - 1 /\ cut[Len(p)] = Len(v)
    BY <1>1 DEF Cuts
  <2>2. \A x \in i .. Len(p) : cut[x] = old[x]
    BY <1>1 DEF Cuts
  <2>3. i \notin LoneFrom(p, i)
    BY DEF LoneFrom
  <2>4. ASSUME NEW x \in i .. Len(p) PROVE Piece(p, v, LoneFrom(p, i), cut, x)
    <3> HIDE DEF cut
    <3>1. CASE x = i
      BY <1>1, <1>4, <2>1, <2>2, <2>3, <3>1 DEF Cuts, Piece
    <3>2. CASE x \in i + 1 .. Len(p)
      <4>1. Piece(p, v, LoneFrom(p, i + 1), old, x) /\ x - 1 \in i .. Len(p)
        BY <1>1, <3>2 DEF Cuts
      <4> QED
        BY <1>1, <1>2, <2>2, <3>2, <4>1 DEF Piece
    <3> QED
      BY <3>1, <3>2
  <2> QED
    BY <2>1, <2>4 DEF Cuts
<1> QED
  BY <1>3, <1>4

\* A star by itself takes characters up to the next slash.
LEMMA CutsAtStar ==
    ASSUME NEW C, NEW p \in Seq(C), NEW v \in Seq(C), NEW i \in 1 .. Len(p), p[i] = "*",
           i < Len(p) => p[i + 1] # "*", NEW j \in 1 .. Len(v) + 1
    PROVE  Cuts(p, v, i, j) # {} <=>
              \E k \in 1 .. Len(v) + 1 : /\ j <= k /\ \A y \in j .. k - 1 : v[y] # "/"
                                        /\ Cuts(p, v, i + 1, k) # {}
<1>1. Len(p) \in Nat /\ Len(v) \in Nat
  OBVIOUS
<1>2. LoneFrom(p, i) = {i} \cup LoneFrom(p, i + 1) /\ i \notin LoneFrom(p, i + 1)
  BY <1>1 DEF LoneFrom
<1>3. ASSUME NEW cut \in Cuts(p, v, i, j)
      PROVE  \E k \in 1 .. Len(v) + 1 : /\ j <= k /\ \A y \in j .. k - 1 : v[y] # "/"
                                        /\ Cuts(p, v, i + 1, k) # {}
  <2>1. cut \in Cuts(p, v, i + 1, cut[i] + 1)
    BY <1>1, <1>2, SMTT(30) DEF Cuts, Piece
  <2>2. Piece(p, v, LoneFrom(p, i), cut, i) /\ cut[i] \in 0 .. Len(v) /\ cut[i - 1] = j - 1
    BY <1>1 DEF Cuts
  <2>3. /\ cut[i] + 1 \in 1 .. Len(v) + 1 /\ j <= cut[i] + 1
        /\ \A y \in j .. (cut[i] + 1) - 1 : v[y] # "/"
    BY <1>1, <1>2, <2>2 DEF Piece
  <2> QED
    BY <2>1, <2>3
<1>4. ASSUME NEW k \in 1 .. Len(v) + 1, j <= k, \A y \in j .. k - 1 : v[y] # "/",
             NEW old \in Cuts(p, v, i + 1, k)
      PROVE  \E cut : cut \in Cuts(p, v, i, j)
  <2> DEFINE cut == [old EXCEPT ![i - 1] = j - 1]
  <2>1. cut \in [0 .. Len(p) -> 0 .. Len(v)] /\ cut[i - 1] = j - 1 /\ cut[Len(p)] = Len(v)
    BY <1>1 DEF Cuts
  <2>2. /\ \A x \in i .. Len(p) : cut[x] = old[x]
        /\ old[i] = k - 1
    BY <1>1 DEF Cuts
  <2>4. ASSUME NEW x \in i .. Len(p) PROVE Piece(p, v, LoneFrom(p, i), cut, x)
    <3> HIDE DEF cut
    <3>1. CASE x = i
      BY <1>1, <1>4, <2>1, <2>2, <3>1, SMTT(40) DEF Cuts, Piece
    <3>2. CASE x \in i + 1 .. Len(p)
      <4>1. Piece(p, v, LoneFrom(p, i + 1), old, x) /\ x - 1 \in i .. Len(p)
        BY <1>1, <3>2 DEF Cuts
      <4> QED
        BY <1>1, <1>2, <2>2, <3>2, <4>1, SMTT(40) DEF Piece
    <3> QED
      BY <3>1, <3>2
  <2> QED
    BY <2>1, <2>4 DEF Cuts
<1> QED
  BY <1>3, <1>4

\* Two stars take any characters; so one more after them may as well take none.
LEMMA CutsAtStars ==
    ASSUME NEW C, NEW p \in Seq(C), NEW v \in Seq(C), NEW i \in 1 .. Len(p), i < Len(p),
           p[i] = "*", p[i + 1] = "*", NEW j \in 1 .. Len(v) + 1
    PROVE  Cuts(p, v, i, j) # {} <=>
              \E k \in 1 .. Len(v) + 1 : j <= k /\ Cuts(p, v, i + 2, k) # {}
<1>1. Len(p) \in Nat /\ Len(v) \in Nat
  OBVIOUS
<1>2. LoneFrom(p, i) = LoneFrom(p, i + 2) \ {i + 2}
  BY <1>1 DEF LoneFrom
<1>3. ASSUME NEW old \in Cuts(p, v, i, j)
      PROVE  \E k \in 1 .. Len(v) + 1 : j <= k /\ Cuts(p, v, i + 2, k) # {}
  <2>1. /\ old \in [0 .. Len(p) -> 0 .. Len(v)] /\ old[i - 1] = j - 1 /\ old[Len(p)] = Len(v)
        /\ old[i - 1] <= old[i] /\ old[i] <= old[i + 1]
        /\ \A x \in i .. Len(p) : Piece(p, v, LoneFrom(p, i), old, x)
    <3>1. \A x \in i .. Len(p) : Piece(p, v, LoneFrom(p, i), old, x)
      BY DEF Cuts
    <3>2. i \in i .. Len(p) /\ i + 1 \in i .. Len(p) /\ i + 1 - 1 = i
      BY <1>1
    <3> QED
      BY <3>1, <3>2 DEF Cuts, Piece
  <2>4. /\ i + 1 \in 0 .. Len(p)
        /\ old[i - 1] \in 0 .. Len(v) /\ old[i] \in 0 .. Len(v) /\ old[i + 1] \in 0 .. Len(v)
    BY <1>1, <2>1, SMTT(40)
  <2>5. old[i + 1] + 1 \in 1 .. Len(v) + 1 /\ j <= old[i + 1] + 1
    BY <1>1, <2>1, <2>4
  <2>2. CASE i + 2 \notin LoneFrom(p, i + 2)
    <3>1. \A x \in i + 2 .. Len(p) : Piece(p, v, LoneFrom(p, i + 2), old, x)
      <4>1. LoneFrom(p, i) = LoneFrom(p, i + 2) /\ i + 2 .. Len(p) \subseteq i .. Len(p)
        BY <1>1, <1>2, <2>2
      <4> QED
        BY <2>1, <4>1
    <3>2. i + 2 - 1 = i + 1 /\ (old[i + 1] + 1) - 1 = old[i + 1]
      BY <1>1, <2>4
    <3>3. old \in Cuts(p, v, i + 2, old[i + 1] + 1)
      BY <2>1, <3>1, <3>2 DEF Cuts
    <3> QED
      BY <2>5, <3>3
  <2>3. CASE i + 2 \in LoneFrom(p, i + 2)
    <3>1. i + 2 \in i .. Len(p) /\ p[i + 2] = "*" /\ i + 2 - 1 = i + 1
      BY <1>1, <2>3 DEF LoneFrom
    <3>2. Piece(p, v, LoneFrom(p, i), old, i + 2) /\ old[i + 2] \in 0 .. Len(v) /\ old[i + 1] <= old[i + 2]
      <4>1. Piece(p, v, LoneFrom(p, i), old, i + 2)
        BY <2>1, <3>1
      <4>2. old[i + 2] \in 0 .. Len(v)
        BY <1>1, <2>1, <3>1
      <4> QED
        BY <3>1, <4>1, <4>2 DEF Piece
    <3> DEFINE cut == [old EXCEPT ![i + 1] = old[i + 2]]
    <3>3. cut \in [0 .. Len(p) -> 0 .. Len(v)] /\ cut[i + 1] = old[i + 2]
          /\ \A x \in i + 2 .. Len(p) : cut[x] = old[x]
      BY <1>1, <2>1, <3>1, <3>2
    <3>4. ASSUME NEW x \in i + 2 .. Len(p) PROVE Piece(p, v, LoneFrom(p, i + 2), cut, x)
      <4> HIDE DEF cut
      <4>1. CASE x = i + 2
        <5>1. cut[x - 1] = old[i + 2] /\ cut[x] = old[i + 2] /\ p[x] = "*"
          BY <3>1, <3>3, <4>1
        <5> QED
          BY <3>2, <5>1 DEF Piece
      <4>2. CASE x \in i + 3 .. Len(p)
        <5>1. Piece(p, v, LoneFrom(p, i), old, x) /\ x - 1 \in i + 2 .. Len(p)
          BY <1>1, <2>1, <4>2
        <5>2. cut[x] = old[x] /\ cut[x - 1] = old[x - 1]
          BY <3>3, <5>1
        <5>3. x \in LoneFrom(p, i) <=> x \in LoneFrom(p, i + 2)
          BY <1>1, <1>2, <4>2
        <5> QED
          BY <5>1, <5>2, <5>3 DEF Piece
      <4> QED
        BY <4>1, <4>2
    <3>5. cut[Len(p)] = Len(v)
      BY <1>1, <2>1, <3>1, <3>3
    <3> HIDE DEF cut
    <3>6. old[i + 2] + 1 \in 1 .. Len(v) + 1 /\ j <= old[i + 2] + 1
          /\ i + 2 - 1 = i + 1 /\ (old[i + 2] + 1) - 1 = old[i + 2]
      <4> DEFINE a == old[i + 1]
                 b == old[i + 2]
      <4>1. a \in 0 .. Len(v) /\ b \in 0 .. Len(v) /\ a <= b /\ j <= a + 1
        BY <2>4, <2>5, <3>2
      <4> HIDE DEF a, b
      <4>2. b + 1 \in 1 .. Len(v) + 1 /\ j <= b + 1 /\ i + 2 - 1 = i + 1 /\ (b + 1) - 1 = b
        BY <1>1, <4>1
      <4> QED
        BY <4>2 DEF b
    <3>7. cut \in Cuts(p, v, i + 2, old[i + 2] + 1)
      BY <3>3, <3>4, <3>5, <3>6 DEF Cuts
    <3> QED
      BY <3>6, <3>7
  <2> QED
    BY <2>2, <2>3
<1>4. ASSUME NEW k \in 1 .. Len(v) + 1, j <= k, NEW old \in Cuts(p, v, i + 2, k)
      PROVE  \E cut : cut \in Cuts(p, v, i, j)
  <2> DEFINE cut == [x \in 0 .. Len(p) |-> IF x = i - 1 \/ x = i THEN j - 1 ELSE old[x]]
  <2>1. /\ old \in [0 .. Len(p) -> 0 .. Len(v)] /\ old[i + 1] = k - 1 /\ old[Len(p)] = Len(v)
        /\ \A x \in i + 2 .. Len(p) : Piece(p, v, LoneFrom(p, i + 2), old, x)
    BY <1>1 DEF Cuts
  <2>2. /\ cut \in [0 .. Len(p) -> 0 .. Len(v)]
        /\ cut[i - 1] = j - 1 /\ cut[i] = j - 1 /\ cut[i + 1] = k - 1 /\ cut[Len(p)] = Len(v)
        /\ \A x \in i + 1 .. Len(p) : cut[x] = old[x]
    <3>1. j - 1 \in 0 .. Len(v) /\ i \in 0 .. Len(p) /\ i - 1 \in 0 .. Len(p) /\ i + 1 \in 0 .. Len(p)
      BY <1>1, <1>4
    <3>2. cut \in [0 .. Len(p) -> 0 .. Len(v)]
      BY <2>1, <3>1
    <3>3. cut[i - 1] = j - 1 /\ cut[i] = j - 1
      BY <3>1
    <3>4. \A x \in i + 1 .. Len(p) : cut[x] = old[x]
      BY <3>1
    <3>5. i + 1 \in i + 1 .. Len(p) /\ Len(p) \in i + 1 .. Len(p)
      BY <1>1
    <3> HIDE DEF cut
    <3> QED
      BY <2>1, <3>2, <3>3, <3>4, <3>5
  <2> HIDE DEF cut
  <2>3. ASSUME NEW x \in i .. Len(p) PROVE Piece(p, v, LoneFrom(p, i), cut, x)
    <3>1. CASE x \in {i, i + 1}
      <4>1. x \notin LoneFrom(p, i)
        BY <1>1, <3>1 DEF LoneFrom
      <4>2. cut[x - 1] <= cut[x] /\ p[x] = "*"
        BY <1>1, <1>4, <2>2, <3>1
      <4> QED
        BY <4>1, <4>2 DEF Piece
    <3>2. CASE x \in i + 2 .. Len(p)
      <4>1. Piece(p, v, LoneFrom(p, i + 2), old, x) /\ x - 1 \in i + 1 .. Len(p)
        BY <1>1, <2>1, <3>2
      <4>2. cut[x] = old[x] /\ cut[x - 1] = old[x - 1]
        BY <1>1, <2>2, <3>2, <4>1
      <4>3. x \in LoneFrom(p, i) => x \in LoneFrom(p, i + 2)
        BY <1>2
      <4> QED
        BY <4>1, <4>2, <4>3 DEF Piece
    <3> QED
      BY <1>1, <3>1, <3>2
  <2> QED
    BY <2>2, <2>3 DEF Cuts
<1> QED
  BY <1>3, <1>4

\* So at each position the table has the places where what is left can be cut.
LEMMA PlacesAreCuts ==
    ASSUME NEW C, NEW p \in Seq(C), NEW v \in Seq(C),
           NEW i \in 1 .. Len(p) + 1, NEW j \in 1 .. Len(v) + 1
    PROVE  j \in Places(p, v, {Len(v) + 1})[i] <=> Cuts(p, v, i, j) # {}
<1>1. Len(p) \in Nat /\ Len(v) \in Nat
  OBVIOUS
<1> DEFINE places == Places(p, v, {Len(v) + 1})
           Right(k) == \A l \in 1 .. Len(v) + 1 : l \in places[k] <=> Cuts(p, v, k, l) # {}
           S == {n \in Nat : \A k \in 1 .. Len(p) + 1 : k + n >= Len(p) + 1 => Right(k)}
<1>2. /\ places \in [1 .. Len(p) + 1 -> SUBSET (1 .. Len(v) + 1)]
      /\ places[Len(p) + 1] = {Len(v) + 1}
      /\ \A k \in 1 .. Len(p) : CellIs(p, v, places, k)
  <2>1. {Len(v) + 1} \in SUBSET (1 .. Len(v) + 1)
    BY <1>1
  <2> QED
    BY <2>1, PlacesAre
<1> HIDE DEF places
<1>3. 0 \in S
  <2> SUFFICES ASSUME NEW k \in 1 .. Len(p) + 1, k >= Len(p) + 1, NEW l \in 1 .. Len(v) + 1
               PROVE  l \in places[k] <=> Cuts(p, v, k, l) # {}
    BY <1>1
  <2>1. k = Len(p) + 1 /\ places[k] = {Len(v) + 1}
    BY <1>1, <1>2
  <2>2. Cuts(p, v, Len(p) + 1, l) # {} <=> l = Len(v) + 1
    BY CutsAtEnd
  <2> QED
    BY <2>1, <2>2
<1>4. ASSUME NEW n \in Nat, n \in S
      PROVE  n + 1 \in S
  <2> SUFFICES ASSUME NEW k \in 1 .. Len(p) + 1, k + (n + 1) >= Len(p) + 1, k <= Len(p)
               PROVE  Right(k)
    BY <1>1, <1>4
  <2> DEFINE many == k < Len(p) /\ p[k] = "*" /\ p[k + 1] = "*"
  <2>5. \A m \in 1 .. Len(p) + 1 : m + n >= Len(p) + 1 => Right(m)
    BY <1>4
  <2> HIDE DEF Right
  <2>1. k \in 1 .. Len(p) /\ k + 1 \in 1 .. Len(p) + 1 /\ Right(k + 1)
    BY <1>1, <2>5
  <2>2. CASE many
    <3>1. k + 2 \in 1 .. Len(p) + 1 /\ Right(k + 2)
      BY <1>1, <2>2, <2>5
    <3>2. places[k] = {l \in 1 .. Len(v) + 1 : \E m \in places[k + 2] : l <= m}
      BY <1>2, <2>1, <2>2 DEF CellIs
    <3>3. places[k + 2] \subseteq 1 .. Len(v) + 1
      BY <1>2, <3>1
    <3>4. ASSUME NEW l \in 1 .. Len(v) + 1
          PROVE  Cuts(p, v, k, l) # {} <=>
                    \E m \in 1 .. Len(v) + 1 : l <= m /\ Cuts(p, v, k + 2, m) # {}
      BY <2>1, <2>2, CutsAtStars
    <3> QED
      BY <3>1, <3>2, <3>3, <3>4 DEF Right
  <2>3. CASE ~many /\ p[k] = "*"
    <3>1. places[k] = {l \in 1 .. Len(v) + 1 :
                          \E m \in places[k + 1] : l <= m /\ \A x \in l .. m - 1 : v[x] # "/"}
      BY <1>2, <2>1, <2>3 DEF CellIs
    <3>2. places[k + 1] \subseteq 1 .. Len(v) + 1
      BY <1>2, <2>1
    <3>3. ASSUME NEW l \in 1 .. Len(v) + 1
          PROVE  Cuts(p, v, k, l) # {} <=>
                    \E m \in 1 .. Len(v) + 1 : /\ l <= m /\ \A x \in l .. m - 1 : v[x] # "/"
                                              /\ Cuts(p, v, k + 1, m) # {}
      BY <2>1, <2>3, CutsAtStar
    <3> QED
      BY <2>1, <3>1, <3>2, <3>3 DEF Right
  <2>4. CASE p[k] # "*"
    <3>1. places[k] = {l \in 1 .. Len(v) : v[l] = p[k] /\ l + 1 \in places[k + 1]}
      BY <1>2, <2>1, <2>4 DEF CellIs
    <3>2. places[k + 1] \subseteq 1 .. Len(v) + 1
      BY <1>2, <2>1
    <3>3. \A l \in 1 .. Len(v) + 1 :
            Cuts(p, v, k, l) # {} <=>
               (l <= Len(v) /\ v[l] = p[k] /\ Cuts(p, v, k + 1, l + 1) # {})
      BY <2>1, <2>4, CutsAtLiteral, SMTT(30)
    <3>4. \A l \in 1 .. Len(v) : l \in 1 .. Len(v) + 1 /\ l + 1 \in 1 .. Len(v) + 1
      BY <1>1
    <3>5. \A l \in 1 .. Len(v) + 1 : l \in 1 .. Len(v) <=> l <= Len(v)
      BY <1>1
    <3> QED
      BY <2>1, <3>1, <3>2, <3>3, <3>4, <3>5 DEF Right
  <2> QED
    BY <2>2, <2>3, <2>4
<1>5. Len(p) \in S
  <2> HIDE DEF S
  <2>1. Nat \subseteq S
    BY <1>3, <1>4, NatSetInduction
  <2> QED
    BY <1>1, <2>1
<1>6. Right(i)
  BY <1>1, <1>5
<1> QED
  BY <1>6 DEF places

\* The cuts of a whole value, and what Splits asks for.
Whole(p, v, confined) ==
    {cut \in [0 .. Len(p) -> 0 .. Len(v)] :
        /\ cut[0] = 0 /\ cut[Len(p)] = Len(v)
        /\ \A x \in 1 .. Len(p) : Piece(p, v, confined, cut, x)}

\* The inner cuts that Splits asks for are a whole cut without its two ends.
LEMMA SplitsAreCuts ==
    ASSUME NEW C, NEW p \in Seq(C), NEW v \in Seq(C), p # <<>>, NEW confined
    PROVE  Splits(p, v, confined) <=> Whole(p, v, confined) # {}
<1>0. Len(p) \in Nat /\ Len(v) \in Nat /\ Len(p) >= 1
  OBVIOUS
<1>2. ASSUME NEW cut \in Whole(p, v, confined)
      PROVE  Splits(p, v, confined)
  <2> DEFINE inner == [i \in 1 .. Len(p) - 1 |-> cut[i]]
             whole(i) == IF i = 0 THEN 0 ELSE IF i = Len(p) THEN Len(v) ELSE inner[i]
  <2>1. inner \in [1 .. Len(p) - 1 -> 0 .. Len(v)]
    BY <1>0 DEF Whole
  <2>2. \A i \in 0 .. Len(p) : whole(i) = cut[i]
    BY <1>0 DEF Whole
  <2>3. ASSUME NEW i \in 1 .. Len(p)
        PROVE  /\ whole(i - 1) <= whole(i)
               /\ p[i] # "*" => whole(i) = whole(i - 1) + 1 /\ v[whole(i)] = p[i]
               /\ i \in confined => \A j \in whole(i - 1) + 1 .. whole(i) : v[j] # "/"
    <3>1. Piece(p, v, confined, cut, i) /\ i \in 0 .. Len(p) /\ i - 1 \in 0 .. Len(p)
      BY <1>0 DEF Whole
    <3>2. whole(i) = cut[i] /\ whole(i - 1) = cut[i - 1]
      BY <2>2, <3>1
    <3> HIDE DEF inner, whole
    <3> QED
      BY <3>1, <3>2 DEF Piece
  <2> HIDE DEF inner
  <2> QED
    BY <2>1, <2>3 DEF Splits
<1>3. ASSUME Splits(p, v, confined)
      PROVE  Whole(p, v, confined) # {}
  <2>1. PICK inner \in [1 .. Len(p) - 1 -> 0 .. Len(v)] :
          LET whole(i) == IF i = 0 THEN 0 ELSE IF i = Len(p) THEN Len(v) ELSE inner[i] IN
          \A i \in 1 .. Len(p) :
              /\ whole(i - 1) <= whole(i)
              /\ p[i] # "*" => whole(i) = whole(i - 1) + 1 /\ v[whole(i)] = p[i]
              /\ i \in confined => \A j \in whole(i - 1) + 1 .. whole(i) : v[j] # "/"
    BY <1>3 DEF Splits
  <2> DEFINE whole(i) == IF i = 0 THEN 0 ELSE IF i = Len(p) THEN Len(v) ELSE inner[i]
             cut == [i \in 0 .. Len(p) |-> whole(i)]
  <2>2. cut \in [0 .. Len(p) -> 0 .. Len(v)] /\ cut[0] = 0 /\ cut[Len(p)] = Len(v)
    BY <1>0
  <2>3. ASSUME NEW i \in 1 .. Len(p) PROVE Piece(p, v, confined, cut, i)
    <3>1. i \in 0 .. Len(p) /\ i - 1 \in 0 .. Len(p)
      BY <1>0
    <3>2. cut[i] = whole(i) /\ cut[i - 1] = whole(i - 1)
      BY <3>1
    <3>3. /\ whole(i - 1) <= whole(i)
          /\ p[i] # "*" => whole(i) = whole(i - 1) + 1 /\ v[whole(i)] = p[i]
          /\ i \in confined => \A j \in whole(i - 1) + 1 .. whole(i) : v[j] # "/"
      BY <2>1
    <3> HIDE DEF whole, cut
    <3> QED
      BY <3>2, <3>3 DEF Piece
  <2> HIDE DEF cut
  <2> QED
    BY <2>2, <2>3 DEF Whole
<1> QED
  BY <1>2, <1>3

\* A value can be cut along a pattern if and only if the pattern means it.
LEMMA CutsAreSplits ==
    ASSUME NEW C, NEW p \in Seq(C), NEW v \in Seq(C)
    PROVE  Cuts(p, v, 1, 1) # {} <=> GlobMeans(p, v)
<1>1. Len(p) \in Nat /\ Len(v) \in Nat
  OBVIOUS
<1>2. LoneFrom(p, 1) = LoneStars(p)
  BY <1>1 DEF LoneFrom, LoneStars
<1>3. CASE p = <<>>
  <2>1. Cuts(p, v, Len(p) + 1, 1) # {} <=> 1 = Len(v) + 1
    BY <1>1, CutsAtEnd
  <2> QED
    BY <1>1, <1>3, <2>1 DEF GlobMeans
<1>4. CASE p # <<>>
  <2>1. Cuts(p, v, 1, 1) = Whole(p, v, LoneStars(p))
    BY <1>2 DEF Cuts, Whole
  <2>2. Splits(p, v, LoneStars(p)) <=> Whole(p, v, LoneStars(p)) # {}
    BY <1>4, SplitsAreCuts
  <2> QED
    BY <1>4, <2>1, <2>2 DEF GlobMeans
<1> QED
  BY <1>3, <1>4

\* The recursive matcher says what the glob means, of any pattern and any value.
LEMMA GlobMatchIsMeaning ==
    ASSUME NEW C, NEW p \in Seq(C), NEW v \in Seq(C)
    PROVE  GlobMatch(p, v) <=> GlobMeans(p, v)
<1>1. 1 \in 1 .. Len(p) + 1 /\ 1 \in 1 .. Len(v) + 1
  OBVIOUS
<1>2. 1 \in Places(p, v, {Len(v) + 1})[1] <=> Cuts(p, v, 1, 1) # {}
  BY <1>1, PlacesAreCuts
<1> QED
  BY <1>2, CutsAreSplits DEF GlobMatch

\* A bounded sequence is a sequence.
LEMMA BoundedSequences == ASSUME NEW C, NEW n \in Nat PROVE BoundedSeq(C, n) \subseteq Seq(C)
BY DEF BoundedSeq, SeqOf

\* The answer to a glob is set by the matcher alone.
LEMMA GlobRuns ==
    ASSUME [Next]_vars, Done("glob")'
    PROVE  (Done("glob") /\ UNCHANGED vars) \/ Glob
BY DEF Next, vars, Done, Glob, RefGlob, Diff, PreviewMerge, PreviewPick, PreviewSeries, ReadLog,
       ReadAncestors, PreviewRebase, ReadTree, DiffOfTrees

\* glob_match decides what a pattern means, for patterns and values of any length: the
\* matcher's order of trying, and that it sees `**` before `*`, change no verdict
\* (scope_match.rs:25-57).
THEOREM GlobsMeanWhatTheySay == Spec => []GlobMatchesItsMeaning
<1>1. Init => GlobMatchesItsMeaning
  BY DEF Init, GlobMatchesItsMeaning, Done, Pending
<1>2. ASSUME input \in Inputs, GlobMatchesItsMeaning, [Next]_vars
      PROVE  GlobMatchesItsMeaning'
  <2>1. CASE UNCHANGED vars
    BY <1>2, <2>1 DEF GlobMatchesItsMeaning, vars, Done
  <2>2. CASE Glob
    <3>1. input.pattern \in Seq(Chars \cup {"*"}) /\ input.value \in Seq(Chars \cup {"*"})
      <4>1. input.pattern \in Patterns /\ input.value \in Values
        BY <1>2, <2>2 DEF Inputs, ReadInputs, Glob
      <4>2. input.pattern \in Seq(Chars \cup {"*"}) /\ input.value \in Seq(Chars)
        BY <4>1, BoundedSequences, InputAssumption DEF Patterns, Values
      <4> QED
        BY <4>2
    <3>2. GlobMatch(input.pattern, input.value) <=> GlobMeans(input.pattern, input.value)
      BY <3>1, GlobMatchIsMeaning
    <3> QED
      BY <2>2, <3>2 DEF GlobMatchesItsMeaning, Glob
  <2>3. CASE ~Done("glob")'
    BY <2>3 DEF GlobMatchesItsMeaning
  <2> QED
    BY <1>2, <2>1, <2>2, <2>3, GlobRuns
<1> QED
  BY <1>1, <1>2, InputStays, PTL DEF Spec

\* The pieces of literals are one character each.
LEMMA RunOfLiterals ==
    ASSUME NEW n \in Nat, NEW m \in Nat, NEW cut \in [0 .. n -> 0 .. m],
           NEW a \in 0 .. n, NEW b \in a .. n,
           \A x \in a + 1 .. b : cut[x] = cut[x - 1] + 1
    PROVE  \A x \in a .. b : cut[x] = cut[a] + (x - a)
<1> DEFINE S == {d \in Nat : a + d <= b => cut[a + d] = cut[a] + d}
<1>1. 0 \in S
  BY cut[a] \in Nat
<1>2. ASSUME NEW d \in Nat, d \in S
      PROVE  d + 1 \in S
  <2> SUFFICES ASSUME a + (d + 1) <= b
               PROVE  cut[a + (d + 1)] = cut[a] + (d + 1)
    OBVIOUS
  <2>1. a + d \in 0 .. n /\ a + d <= b /\ a + (d + 1) \in a + 1 .. b /\ (a + (d + 1)) - 1 = a + d
    OBVIOUS
  <2>2. cut[a + (d + 1)] = cut[a + d] + 1 /\ cut[a + d] = cut[a] + d
    BY <1>2, <2>1
  <2>3. cut[a] \in Nat
    OBVIOUS
  <2> QED
    BY <2>2, <2>3
<1>3. Nat \subseteq S
  <2> HIDE DEF S
  <2> QED
    BY <1>1, <1>2, NatSetInduction
<1>4. ASSUME NEW x \in a .. b
      PROVE  cut[x] = cut[a] + (x - a)
  <2>1. x - a \in S /\ a + (x - a) = x
    BY <1>3
  <2> QED
    BY <2>1
<1> QED
  BY <1>4

\* A prefix, place by place.
LEMMA PrefixIs ==
    ASSUME NEW C, NEW s \in Seq(C), NEW t \in Seq(C)
    PROVE  IsPrefix(s, t) <=> Len(s) <= Len(t) /\ \A i \in 1 .. Len(s) : s[i] = t[i]
<1> SUFFICES ASSUME Len(s) <= Len(t)
             PROVE  SubSeq(s, 1, Len(s)) = SubSeq(t, 1, Len(s)) <=> \A i \in 1 .. Len(s) : s[i] = t[i]
  BY DEF IsPrefix
<1>1. Len(s) \in Nat /\ Len(t) \in Nat
  OBVIOUS
<1>2. /\ SubSeq(s, 1, Len(s)) = [i \in 1 .. Len(s) |-> s[i]]
      /\ SubSeq(t, 1, Len(s)) = [i \in 1 .. Len(s) |-> t[i]]
  BY <1>1
<1> QED
  BY <1>2

\* A prefix of one.
LEMMA OneFirst ==
    ASSUME NEW C, NEW s \in Seq(C), NEW t \in Seq(C)
    PROVE  Len(s) = 1 /\ Len(t) >= 1 => (IsPrefix(s, t) <=> s[1] = t[1])
<1>1. IsPrefix(s, t) <=> Len(s) <= Len(t) /\ \A i \in 1 .. Len(s) : s[i] = t[i]
  BY PrefixIs
<1> QED
  BY <1>1

\* A suffix, place by place.
LEMMA SuffixIs ==
    ASSUME NEW C, NEW s \in Seq(C), NEW t \in Seq(C)
    PROVE  IsSuffix(s, t) <=>
              Len(s) <= Len(t) /\ \A i \in 1 .. Len(s) : s[i] = t[(Len(t) - Len(s)) + i]
<1> DEFINE n == Len(s)
           m == Len(t)
<1>1. n \in Nat /\ m \in Nat
  OBVIOUS
<1>2. /\ Reverse(s) \in Seq(C) /\ Len(Reverse(s)) = n /\ \A i \in 1 .. n : Reverse(s)[i] = s[n - i + 1]
      /\ Reverse(t) \in Seq(C) /\ Len(Reverse(t)) = m /\ \A i \in 1 .. m : Reverse(t)[i] = t[m - i + 1]
  BY <1>1 DEF Reverse
<1> HIDE DEF n, m
<1>3. IsSuffix(s, t) <=> n <= m /\ \A i \in 1 .. n : Reverse(s)[i] = Reverse(t)[i]
  <2> DEFINE rs == Reverse(s)
             rt == Reverse(t)
  <2>1. rs \in Seq(C) /\ rt \in Seq(C) /\ Len(rs) = n /\ Len(rt) = m
    BY <1>2
  <2>2. IsSuffix(s, t) <=> IsPrefix(rs, rt)
    BY DEF IsSuffix
  <2> HIDE DEF rs, rt
  <2>3. IsPrefix(rs, rt) <=> Len(rs) <= Len(rt) /\ \A i \in 1 .. Len(rs) : rs[i] = rt[i]
    BY <2>1, PrefixIs
  <2> QED
    BY <2>1, <2>2, <2>3 DEF rs, rt
<1>4. ASSUME n <= m
      PROVE  (\A i \in 1 .. n : Reverse(s)[i] = Reverse(t)[i])
                <=> \A i \in 1 .. n : s[i] = t[(m - n) + i]
  <2>1. \A i \in 1 .. n : Reverse(s)[i] = s[n - i + 1] /\ Reverse(t)[i] = t[m - i + 1]
    BY <1>1, <1>2, <1>4
  <2>2. \A i \in 1 .. n : n - i + 1 \in 1 .. n /\ (m - n) + (n - i + 1) = m - i + 1
                          /\ n - (n - i + 1) + 1 = i /\ m - (n - i + 1) + 1 = (m - n) + i
    BY <1>1, <1>4
  <2>3. ASSUME \A i \in 1 .. n : Reverse(s)[i] = Reverse(t)[i], NEW i \in 1 .. n
        PROVE  s[i] = t[(m - n) + i]
    <3> DEFINE k == n - i + 1
    <3>1. k \in 1 .. n /\ n - k + 1 = i /\ m - k + 1 = (m - n) + i
      BY <2>2
    <3> HIDE DEF k
    <3>2. Reverse(s)[k] = s[n - k + 1] /\ Reverse(t)[k] = t[m - k + 1] /\ Reverse(s)[k] = Reverse(t)[k]
      BY <2>1, <2>3, <3>1
    <3> QED
      BY <3>1, <3>2
  <2>4. ASSUME \A i \in 1 .. n : s[i] = t[(m - n) + i], NEW i \in 1 .. n
        PROVE  Reverse(s)[i] = Reverse(t)[i]
    <3> DEFINE k == n - i + 1
    <3>1. k \in 1 .. n /\ (m - n) + k = m - i + 1
      BY <2>2
    <3>2. Reverse(s)[i] = s[k] /\ Reverse(t)[i] = t[m - i + 1]
      BY <2>1
    <3> HIDE DEF k
    <3>3. s[k] = t[(m - n) + k]
      BY <2>4, <3>1
    <3> QED
      BY <3>1, <3>2, <3>3
  <2> QED
    BY <2>3, <2>4
<1> QED
  BY <1>3, <1>4 DEF n, m

\* What a cut is, if no star is confined: its pieces follow each other, and a literal's
\* is that character.
LEMMA PlainPieces ==
    ASSUME NEW p, NEW v, NEW cut, NEW x
    PROVE  Piece(p, v, {}, cut, x) <=>
              cut[x - 1] <= cut[x] /\ (p[x] # "*" => cut[x] = cut[x - 1] + 1 /\ v[cut[x]] = p[x])
BY DEF Piece

\* A star at the end: the value goes on after the rest of the pattern.
LEMMA StarAtEnd ==
    ASSUME NEW C, NEW p \in Seq(C), NEW v \in Seq(C), p # <<>>, p[Len(p)] = "*",
           \A i \in 1 .. Len(p) - 1 : p[i] # "*"
    PROVE  Whole(p, v, {}) # {} <=> IsPrefix(Front(p), v)
<1> DEFINE n == Len(p)
           m == Len(v)
<1>1. n \in Nat /\ m \in Nat /\ n >= 1
  OBVIOUS
<1> DEFINE front == Front(p)
<1>2. front \in Seq(C) /\ Len(front) = n - 1 /\ \A i \in 1 .. n - 1 : front[i] = p[i]
  <2>1. 1 \in Int /\ n - 1 \in Int /\ \A i \in 1 .. n - 1 : p[i] \in C
    BY <1>1
  <2>2. /\ front \in Seq(C) /\ Len(front) = IF 1 <= n - 1 THEN n - 1 - 1 + 1 ELSE 0
        /\ \A i \in 1 .. n - 1 - 1 + 1 : front[i] = p[1 + i - 1]
    BY <2>1, SubSeqProperties DEF Front
  <2> HIDE DEF front, n, m
  <2>3. (n - 1) - 1 + 1 = n - 1 /\ \A i \in 1 .. n - 1 : 1 + i - 1 = i
    BY <1>1
  <2> QED
    BY <1>1, <2>2, <2>3
<1>3. IsPrefix(front, v) <=> n - 1 <= m /\ \A i \in 1 .. n - 1 : p[i] = v[i]
  <2> HIDE DEF front
  <2>1. IsPrefix(front, v) <=> Len(front) <= Len(v) /\ \A i \in 1 .. Len(front) : front[i] = v[i]
    BY <1>2, PrefixIs
  <2> QED
    BY <1>2, <2>1
<1>4. ASSUME NEW cut \in Whole(p, v, {})
      PROVE  n - 1 <= m /\ \A i \in 1 .. n - 1 : p[i] = v[i]
  <2>1. cut \in [0 .. n -> 0 .. m] /\ cut[0] = 0 /\ \A x \in 1 .. n : Piece(p, v, {}, cut, x)
    BY DEF Whole
  <2>2. \A x \in 0 + 1 .. n - 1 : cut[x] = cut[x - 1] + 1 /\ v[cut[x]] = p[x]
    <3> SUFFICES ASSUME NEW x \in 0 + 1 .. n - 1
                 PROVE  cut[x] = cut[x - 1] + 1 /\ v[cut[x]] = p[x]
      OBVIOUS
    <3>1. x \in 1 .. n /\ x \in 1 .. Len(p) - 1
      BY <1>1
    <3>2. Piece(p, v, {}, cut, x) /\ p[x] # "*"
      BY <2>1, <3>1
    <3> QED
      BY <3>2, PlainPieces
  <2>3. \A x \in 0 .. n - 1 : cut[x] = cut[0] + (x - 0)
    <3>1. 0 \in 0 .. n /\ n - 1 \in 0 .. n
      BY <1>1
    <3> HIDE DEF n, m
    <3> QED
      BY <1>1, <2>1, <2>2, <3>1, RunOfLiterals
  <2>4. n - 1 \in 0 .. n /\ cut[n - 1] = n - 1 /\ cut[n - 1] \in 0 .. m
    BY <1>1, <2>1, <2>3
  <2> HIDE DEF n, m
  <2>5. \A x \in 1 .. n - 1 : x \in 0 + 1 .. n - 1 /\ x \in 0 .. n - 1 /\ 0 + (x - 0) = x
    BY <1>1
  <2>6. \A x \in 1 .. n - 1 : cut[x] = x /\ v[cut[x]] = p[x]
    BY <2>1, <2>2, <2>3, <2>5
  <2>7. n - 1 <= m
    BY <1>1, <2>4
  <2> QED
    BY <2>6, <2>7
<1>5. ASSUME n - 1 <= m, \A i \in 1 .. n - 1 : p[i] = v[i]
      PROVE  Whole(p, v, {}) # {}
  <2> DEFINE cut == [x \in 0 .. n |-> IF x = n THEN m ELSE x]
  <2>1. cut \in [0 .. n -> 0 .. m] /\ cut[0] = 0 /\ cut[n] = m
    BY <1>1, <1>5
  <2>2. ASSUME NEW x \in 1 .. n PROVE Piece(p, v, {}, cut, x)
    <3>1. x \in 0 .. n /\ x - 1 \in 0 .. n /\ x - 1 # n
      BY <1>1
    <3>2. cut[x] = (IF x = n THEN m ELSE x) /\ cut[x - 1] = x - 1
      BY <3>1
    <3> HIDE DEF cut
    <3>3. CASE x = n
      BY <1>1, <1>5, <3>2, <3>3, PlainPieces
    <3>4. CASE x # n
      BY <1>1, <1>5, <3>2, <3>4, PlainPieces
    <3> QED
      BY <3>3, <3>4
  <2> HIDE DEF cut
  <2> QED
    BY <2>1, <2>2 DEF Whole
<1> QED
  BY <1>3, <1>4, <1>5

\* A star at the start: the value ends in the rest of the pattern.
LEMMA StarAtStart ==
    ASSUME NEW C, NEW p \in Seq(C), NEW v \in Seq(C), p # <<>>, p[1] = "*",
           \A i \in 2 .. Len(p) : p[i] # "*"
    PROVE  Whole(p, v, {}) # {} <=> IsSuffix(Tail(p), v)
<1> DEFINE n == Len(p)
           m == Len(v)
           tail == Tail(p)
<1>1. n \in Nat /\ m \in Nat /\ n >= 1
  OBVIOUS
<1>2. tail \in Seq(C) /\ Len(tail) = n - 1 /\ \A i \in 1 .. n - 1 : tail[i] = p[i + 1]
  BY <1>1
<1>3. IsSuffix(tail, v) <=> n - 1 <= m /\ \A i \in 1 .. n - 1 : p[i + 1] = v[(m - (n - 1)) + i]
  <2> HIDE DEF tail
  <2>1. IsSuffix(tail, v) <=>
           Len(tail) <= Len(v) /\ \A i \in 1 .. Len(tail) : tail[i] = v[(Len(v) - Len(tail)) + i]
    BY <1>2, SuffixIs, ZenonT(30)
  <2> QED
    BY <1>2, <2>1
<1>4. ASSUME NEW cut \in Whole(p, v, {})
      PROVE  n - 1 <= m /\ \A i \in 1 .. n - 1 : p[i + 1] = v[(m - (n - 1)) + i]
  <2>1. /\ cut \in [0 .. n -> 0 .. m] /\ cut[0] = 0 /\ cut[n] = m
        /\ \A x \in 1 .. n : Piece(p, v, {}, cut, x)
    BY DEF Whole
  <2>2. \A x \in 1 + 1 .. n : cut[x] = cut[x - 1] + 1 /\ v[cut[x]] = p[x]
    BY <1>1, <2>1, PlainPieces
  <2> HIDE DEF n, m
  <2>3. \A x \in 1 .. n : cut[x] = cut[1] + (x - 1)
    <3>1. 1 \in 0 .. n /\ n \in 1 .. n
      BY <1>1
    <3> QED
      <4> DEFINE a == 1
      <4>1. a \in 0 .. n /\ n \in a .. n /\ \A x \in a + 1 .. n : cut[x] = cut[x - 1] + 1
        BY <2>2, <3>1
      <4>2. a = 1
        OBVIOUS
      <4> HIDE DEF a
      <4>3. \A x \in a .. n : cut[x] = cut[a] + (x - a)
        BY <1>1, <2>1, <4>1, RunOfLiterals, ZenonT(30)
      <4> QED
        BY <4>2, <4>3
  <2>4. cut[1] \in 0 .. m /\ m = cut[1] + (n - 1)
    BY <1>1, <2>1, <2>3
  <2>5. ASSUME NEW i \in 1 .. n - 1
        PROVE  p[i + 1] = v[(m - (n - 1)) + i]
    <3>1. i + 1 \in 1 + 1 .. n /\ i + 1 \in 1 .. n
      BY <1>1
    <3>2. cut[i + 1] = (m - (n - 1)) + i
      BY <1>1, <2>3, <2>4, <3>1
    <3> QED
      BY <2>2, <3>1, <3>2
  <2> QED
    BY <1>1, <2>4, <2>5
<1>5. ASSUME n - 1 <= m, \A i \in 1 .. n - 1 : p[i + 1] = v[(m - (n - 1)) + i]
      PROVE  Whole(p, v, {}) # {}
  <2> DEFINE cut == [x \in 0 .. n |-> IF x = 0 THEN 0 ELSE (m - n) + x]
  <2>1. cut \in [0 .. n -> 0 .. m] /\ cut[0] = 0 /\ cut[n] = m
    BY <1>1, <1>5
  <2>2. ASSUME NEW x \in 1 .. n PROVE Piece(p, v, {}, cut, x)
    <3>1. x \in 0 .. n /\ x - 1 \in 0 .. n /\ x # 0
      BY <1>1
    <3>2. cut[x] = (m - n) + x /\ cut[x - 1] = IF x = 1 THEN 0 ELSE (m - n) + (x - 1)
      BY <3>1
    <3> HIDE DEF cut
    <3>3. CASE x = 1
      BY <1>1, <1>5, <3>2, <3>3, PlainPieces
    <3>4. CASE x # 1
      <4>1. x - 1 \in 1 .. n - 1 /\ (x - 1) + 1 = x /\ (m - (n - 1)) + (x - 1) = (m - n) + x
        BY <1>1, <3>4
      <4>2. p[x] = v[(m - n) + x]
        BY <1>5, <4>1
      <4> QED
        BY <1>1, <3>2, <3>4, <4>2, PlainPieces, SMTT(30)
    <3> QED
      BY <3>3, <3>4
  <2> HIDE DEF cut
  <2> QED
    BY <2>1, <2>2 DEF Whole
<1> QED
  BY <1>3, <1>4, <1>5

\* Without a star, the value is the pattern.
LEMMA NoStar ==
    ASSUME NEW C, NEW p \in Seq(C), NEW v \in Seq(C), \A i \in 1 .. Len(p) : p[i] # "*"
    PROVE  Whole(p, v, {}) # {} <=> v = p
<1> DEFINE n == Len(p)
           m == Len(v)
<1>1. n \in Nat /\ m \in Nat
  OBVIOUS
<1>2. ASSUME NEW cut \in Whole(p, v, {})
      PROVE  v = p
  <2>1. /\ cut \in [0 .. n -> 0 .. m] /\ cut[0] = 0 /\ cut[n] = m
        /\ \A x \in 1 .. n : Piece(p, v, {}, cut, x)
    BY DEF Whole
  <2>2. \A x \in 0 + 1 .. n : cut[x] = cut[x - 1] + 1 /\ v[cut[x]] = p[x]
    <3> SUFFICES ASSUME NEW x \in 0 + 1 .. n
                 PROVE  cut[x] = cut[x - 1] + 1 /\ v[cut[x]] = p[x]
      OBVIOUS
    <3>1. x \in 1 .. n
      BY <1>1
    <3>2. Piece(p, v, {}, cut, x) /\ p[x] # "*"
      BY <2>1, <3>1
    <3> QED
      BY <3>2, PlainPieces
  <2>3. \A x \in 0 .. n : cut[x] = cut[0] + (x - 0)
    <3>1. 0 \in 0 .. n /\ n \in 0 .. n
      BY <1>1
    <3> HIDE DEF n, m
    <3> QED
      BY <1>1, <2>1, <2>2, <3>1, RunOfLiterals
  <2>4. \A x \in 0 .. n : cut[x] = x
    BY <1>1, <2>1, <2>3
  <2>5. n = m /\ \A x \in 1 .. n : v[x] = p[x]
    <3>1. n \in 0 .. n /\ \A x \in 1 .. n : x \in 0 .. n /\ x \in 0 + 1 .. n
      BY <1>1
    <3> HIDE DEF n, m
    <3> QED
      BY <2>1, <2>2, <2>4, <3>1
  <2> QED
    BY <2>5
<1>3. ASSUME v = p
      PROVE  Whole(p, v, {}) # {}
  <2> DEFINE cut == [x \in 0 .. n |-> x]
  <2>1. cut \in [0 .. n -> 0 .. m] /\ cut[0] = 0 /\ cut[n] = m
    BY <1>1, <1>3
  <2>2. ASSUME NEW x \in 1 .. n PROVE Piece(p, v, {}, cut, x)
    <3>1. cut[x] = x /\ cut[x - 1] = x - 1
      BY <1>1
    <3> HIDE DEF cut
    <3> QED
      BY <1>1, <1>3, <3>1, PlainPieces
  <2> HIDE DEF cut
  <2> QED
    BY <2>1, <2>2 DEF Whole
<1> QED
  BY <1>2, <1>3

\* The four cases of the ref matcher say what a pattern with a star at its ends means.
LEMMA RefGlobMatchIsMeaning ==
    ASSUME NEW C, "*" \in C, NEW p \in Seq(C), NEW v \in Seq(C), p # <<>>,
           LET stars == {i \in DOMAIN p : p[i] = "*"} IN
           Cardinality(stars) <= 1 /\ stars \subseteq {1, Len(p)}
    PROVE  RefGlobMatch(v, p) <=> StarsMean(p, v)
<1> DEFINE stars == {i \in DOMAIN p : p[i] = "*"}
<1>1. Len(p) \in Nat /\ Len(p) >= 1 /\ DOMAIN p = 1 .. Len(p)
  OBVIOUS
<1>2. \A i, j \in 1 .. Len(p) : p[i] = "*" /\ p[j] = "*" => i = j
  <2> SUFFICES ASSUME NEW i \in 1 .. Len(p), NEW j \in 1 .. Len(p), p[i] = "*", p[j] = "*", i # j
               PROVE  FALSE
    OBVIOUS
  <2>1. IsFiniteSet(stars)
    <3>1. IsFiniteSet(1 .. Len(p)) /\ stars \in SUBSET (1 .. Len(p))
      BY <1>1, FS_Interval
    <3> QED
      BY <3>1, FS_Subset
  <2>2. {i, j} \in SUBSET stars
    BY <1>1
  <2>3. Cardinality({i, j}) = 2
    <3> HIDE DEF stars
    <3>1. IsFiniteSet({i}) /\ Cardinality({i}) = 1
      BY FS_Singleton
    <3>2. j \notin {i}
      OBVIOUS
    <3>3. Cardinality({i} \cup {j}) = Cardinality({i}) + 1
      BY <3>1, <3>2, FS_AddElement
    <3>4. {i} \cup {j} = {i, j}
      OBVIOUS
    <3>5. Cardinality({i} \cup {j}) = 2
      <4>1. Cardinality({i} \cup {j}) = 1 + 1
        BY <3>1, <3>3, Zenon
      <4>2. 1 + 1 = 2
        OBVIOUS
      <4> QED
        BY <4>1, <4>2, Zenon
    <3> QED
      BY <3>4, <3>5, Zenon
  <2>4. Cardinality({i, j}) <= Cardinality(stars) /\ Cardinality(stars) \in Nat
    BY <2>1, <2>2, FS_Subset, FS_CardinalityType
  <2>5. Cardinality(stars) <= 1
    OBVIOUS
  <2> HIDE DEF stars
  <2> QED
    BY <2>3, <2>4, <2>5
<1>3. \A i \in 1 .. Len(p) : p[i] = "*" => i = 1 \/ i = Len(p)
  BY <1>1
<1>4. StarsMean(p, v) <=> Whole(p, v, {}) # {}
  BY SplitsAreCuts DEF StarsMean
<1> DEFINE star == <<"*">>
<1>5. star \in Seq(C) /\ Len(star) = 1 /\ star[1] = "*"
  OBVIOUS
<1> HIDE DEF star
<1>6. IsSuffix(star, p) <=> p[Len(p)] = "*"
  <2>1. IsSuffix(star, p) <=> Len(star) <= Len(p) /\ \A i \in 1 .. Len(star) : star[i] = p[(Len(p) - Len(star)) + i]
    BY <1>5, SuffixIs
  <2>2. (Len(p) - 1) + 1 = Len(p) /\ 1 .. 1 = {1}
    BY <1>1
  <2> QED
    BY <1>1, <1>5, <2>1, <2>2
<1>7. IsPrefix(star, p) <=> p[1] = "*"
  BY <1>1, <1>5, OneFirst
<1>8. RefGlobMatch(v, p) <=> IF p[Len(p)] = "*" THEN IsPrefix(Front(p), v)
                             ELSE IF p[1] = "*" THEN IsSuffix(Tail(p), v)
                             ELSE v = p
  BY <1>6, <1>7 DEF RefGlobMatch, star
<1>9. CASE p[Len(p)] = "*"
  <2>1. \A i \in 1 .. Len(p) - 1 : p[i] # "*"
    BY <1>1, <1>2, <1>9
  <2> QED
    BY <1>4, <1>8, <1>9, <2>1, StarAtEnd
<1>10. CASE p[Len(p)] # "*" /\ p[1] = "*"
  <2>1. \A i \in 2 .. Len(p) : p[i] # "*"
    BY <1>1, <1>2, <1>10
  <2> QED
    BY <1>4, <1>8, <1>10, <2>1, StarAtStart
<1>11. CASE p[Len(p)] # "*" /\ p[1] # "*"
  <2>1. \A i \in 1 .. Len(p) : p[i] # "*"
    BY <1>3, <1>11
  <2> QED
    BY <1>4, <1>8, <1>11, <2>1, NoStar
<1> QED
  BY <1>9, <1>10, <1>11

\* The answer to a ref glob is set by the matcher alone.
LEMMA RefGlobRuns ==
    ASSUME [Next]_vars, Done("refglob")'
    PROVE  (Done("refglob") /\ UNCHANGED vars) \/ RefGlob
BY DEF Next, vars, Done, Glob, RefGlob, Diff, PreviewMerge, PreviewPick, PreviewSeries, ReadLog,
       ReadAncestors, PreviewRebase, ReadTree, DiffOfTrees

\* The short matcher for ref names decides the same thing for the patterns it is made
\* for, of any length: those without a star and those with one at an end
\* (refs.rs:324-340).
THEOREM RefGlobsMeanWhatTheySay == Spec => []RefGlobMatchesItsMeaning
<1>1. Init => RefGlobMatchesItsMeaning
  BY DEF Init, RefGlobMatchesItsMeaning, Done, Pending
<1>2. ASSUME input \in Inputs, RefGlobMatchesItsMeaning, [Next]_vars
      PROVE  RefGlobMatchesItsMeaning'
  <2>1. CASE UNCHANGED vars
    BY <1>2, <2>1 DEF RefGlobMatchesItsMeaning, vars, Done
  <2>2. CASE RefGlob
    <3> DEFINE p == input.pattern
               stars == {i \in DOMAIN p : p[i] = "*"}
    <3>1. p \in Seq(Chars \cup {"*"}) /\ input.value \in Seq(Chars \cup {"*"}) /\ p # <<>>
      <4>1. input.pattern \in Patterns \ {<<>>} /\ input.value \in Values
        BY <1>2, <2>2 DEF Inputs, ReadInputs, RefGlob
      <4>2. input.pattern \in Seq(Chars \cup {"*"}) /\ input.value \in Seq(Chars)
        BY <4>1, BoundedSequences, InputAssumption DEF Patterns, Values
      <4> QED
        BY <4>1, <4>2
    <3>2. Cardinality(stars) <= 1 /\ stars \subseteq {1, Len(p)} =>
             (RefGlobMatch(input.value, p) <=> StarsMean(p, input.value))
      BY <3>1, RefGlobMatchIsMeaning
    <3> QED
      BY <2>2, <3>2 DEF RefGlobMatchesItsMeaning, RefGlob
  <2>3. CASE ~Done("refglob")'
    BY <2>3 DEF RefGlobMatchesItsMeaning
  <2> QED
    BY <1>2, <2>1, <2>2, <2>3, RefGlobRuns
<1> QED
  BY <1>1, <1>2, InputStays, PTL DEF Spec

(***************************************************************************)
(* TreeReads: diffs of trees.                                              *)
(***************************************************************************)
PathSeqs == Seq(DOMAIN NameRank) \ {<<>>}

\* The trees that are read and compared have leaves at paths.
LEMMA ReadTreesAre ==
    ASSUME NEW leaves, NEW tree \in TreesOf(leaves)
    PROVE  /\ DOMAIN tree \subseteq PathSeqs
           /\ \A p \in DOMAIN tree : tree[p] \in leaves
<1>1. PICK ps \in SUBSET Paths : tree \in [ps -> leaves]
  BY DEF TreesOf
<1> QED
  BY <1>1, ReadsAssumption DEF PathSeqs

\* What a path has as a proper part of it is a directory.
LEMMA PrefixOfPath ==
    ASSUME NEW p \in PathSeqs, NEW q \in PathSeqs
    PROVE  IsStrictPrefix(p, q) <=> Len(p) < Len(q) /\ p = SubSeq(q, 1, Len(p))
<1>1. Len(p) \in Nat /\ Len(q) \in Nat
  BY DEF PathSeqs
<1>2. SubSeq(p, 1, Len(p)) = p /\ SubSeq(q, 1, Len(q)) = q
  BY SubSeqFull DEF PathSeqs
<1>3. IsStrictPrefix(p, q) <=> Len(p) <= Len(q) /\ p = SubSeq(q, 1, Len(p)) /\ p # q
  BY <1>2 DEF IsStrictPrefix, IsPrefix
<1>4. Len(p) < Len(q) => p # q
  BY <1>1
<1>5. Len(p) = Len(q) /\ p = SubSeq(q, 1, Len(p)) => p = q
  BY <1>2
<1> QED
  BY <1>1, <1>3, <1>4, <1>5

\* The first parts of a path are a path.
LEMMA PartsOfPath ==
    ASSUME NEW q \in PathSeqs, NEW n \in 1 .. Len(q)
    PROVE  SubSeq(q, 1, n) \in PathSeqs /\ Len(SubSeq(q, 1, n)) = n
<1>1. q \in Seq(DOMAIN NameRank) /\ Len(q) \in Nat /\ n \in Nat /\ n >= 1
  BY DEF PathSeqs
<1>2. \A i \in 1 .. n : q[i] \in DOMAIN NameRank
  BY <1>1
<1>3. SubSeq(q, 1, n) \in Seq(DOMAIN NameRank) /\ Len(SubSeq(q, 1, n)) = n
  <2>1. /\ SubSeq(q, 1, n) \in Seq(DOMAIN NameRank)
        /\ Len(SubSeq(q, 1, n)) = IF 1 <= n THEN n - 1 + 1 ELSE 0
    BY <1>1, <1>2, SubSeqProperties
  <2> QED
    BY <1>1, <2>1
<1> QED
  BY <1>1, <1>3 DEF PathSeqs

\* A node of a tree is a leaf or has leaves below it.
LEMMA NodesAre ==
    ASSUME NEW tree, DOMAIN tree \subseteq PathSeqs
    PROVE  /\ Nodes(tree) \subseteq PathSeqs /\ DOMAIN tree \subseteq Nodes(tree)
           /\ \A p \in PathSeqs : p \in Nodes(tree) <=> p \in DOMAIN tree \/ LeavesBelow(tree, p) # {}
<1>1. ASSUME NEW p
      PROVE  p \in Nodes(tree) <=> \E q \in DOMAIN tree : \E n \in 1 .. Len(q) : p = SubSeq(q, 1, n)
  BY DEF Nodes
<1>2. Nodes(tree) \subseteq PathSeqs
  <2> SUFFICES ASSUME NEW p \in Nodes(tree) PROVE p \in PathSeqs
    OBVIOUS
  <2>1. PICK q \in DOMAIN tree : \E n \in 1 .. Len(q) : p = SubSeq(q, 1, n)
    BY <1>1
  <2>2. q \in PathSeqs
    OBVIOUS
  <2> QED
    BY <2>1, <2>2, PartsOfPath
<1>3. \A p \in DOMAIN tree : Len(p) \in 1 .. Len(p) /\ SubSeq(p, 1, Len(p)) = p
  BY SubSeqFull DEF PathSeqs
<1>4. DOMAIN tree \subseteq Nodes(tree)
  BY <1>1, <1>3
<1>5. ASSUME NEW p \in PathSeqs, LeavesBelow(tree, p) # {}
      PROVE  p \in Nodes(tree)
  <2>1. PICK q \in DOMAIN tree : IsStrictPrefix(p, q)
    BY <1>5 DEF LeavesBelow
  <2>2. Len(p) < Len(q) /\ p = SubSeq(q, 1, Len(p)) /\ Len(p) \in Nat /\ Len(q) \in Nat /\ Len(p) >= 1
    BY <2>1, PrefixOfPath DEF PathSeqs
  <2> QED
    BY <1>1, <2>2
<1>6. ASSUME NEW p \in PathSeqs, p \in Nodes(tree), p \notin DOMAIN tree
      PROVE  LeavesBelow(tree, p) # {}
  <2>1. PICK q \in DOMAIN tree : \E n \in 1 .. Len(q) : p = SubSeq(q, 1, n)
    BY <1>1, <1>6
  <2> PICK n \in 1 .. Len(q) : p = SubSeq(q, 1, n)
    BY <2>1
  <2>2. Len(p) = n /\ q \in PathSeqs
    BY PartsOfPath
  <2>3. n # Len(q)
    BY <1>3, <1>6, <2>1
  <2>4. Len(p) < Len(q) /\ p = SubSeq(q, 1, Len(p))
    BY <2>1, <2>2, <2>3 DEF PathSeqs
  <2> QED
    BY <2>2, <2>4, PrefixOfPath DEF LeavesBelow
<1> QED
  BY <1>2, <1>4, <1>5, <1>6

\* A path is in a tree if there is something at it.
LEMMA NodeIsThere ==
    ASSUME NEW leaves, \A leaf \in leaves : leaf.kind \in {"file", "exec", "link", "submodule"},
           NEW tree \in TreesOf(leaves), NEW p \in PathSeqs
    PROVE  /\ p \in Nodes(tree) <=> Node(tree, p) # Missing
           /\ p \in Nodes(tree) => Node(tree, p).kind # "none"
           /\ p \in DOMAIN tree => Node(tree, p) = tree[p] /\ Node(tree, p).kind # "tree"
           /\ p \in Nodes(tree) \ DOMAIN tree => Node(tree, p).kind = "tree"
<1>1. DOMAIN tree \subseteq PathSeqs /\ \A q \in DOMAIN tree : tree[q] \in leaves
  BY ReadTreesAre
<1>2. p \in Nodes(tree) <=> p \in DOMAIN tree \/ LeavesBelow(tree, p) # {}
  BY <1>1, NodesAre
<1>3. Missing.kind = "none"
  BY DEF Missing, Leaf
<1>4. CASE p \in DOMAIN tree
  <2>1. Node(tree, p) = tree[p] /\ tree[p].kind \in {"file", "exec", "link", "submodule"}
    BY <1>1, <1>4 DEF Node
  <2> QED
    BY <1>2, <1>3, <1>4, <2>1
<1>5. CASE p \notin DOMAIN tree /\ LeavesBelow(tree, p) = {}
  <2>1. Node(tree, p) = Missing
    BY <1>5 DEF Node
  <2> QED
    BY <1>2, <1>5, <2>1
<1>6. CASE p \notin DOMAIN tree /\ LeavesBelow(tree, p) # {}
  <2>1. Node(tree, p).kind = "tree"
    BY <1>6 DEF Node
  <2> QED
    BY <1>2, <1>3, <1>6, <2>1
<1> QED
  BY <1>4, <1>5, <1>6

\* What is reported of a path that differs: what was there goes, what is there comes,
\* in one change or, where a directory is replaced, in one each.
LEMMA ChangesAre ==
    ASSUME NEW old, NEW new
    PROVE  LET changes == TreeChanges(old, new) IN
           /\ \A c \in changes :
                /\ c.path \in Nodes(old) \cup Nodes(new)
                /\ Node(old, c.path) # Node(new, c.path)
                /\ c.old # Missing => c.old = Node(old, c.path)
                /\ c.new # Missing => c.new = Node(new, c.path)
                /\ c.old = Missing => c.new # Missing
           /\ \A c, d \in changes : c.path = d.path /\ c.old # Missing /\ d.old # Missing => c = d
           /\ \A c, d \in changes : c.path = d.path /\ c.new # Missing /\ d.new # Missing => c = d
           /\ \A p \in Nodes(old) \cup Nodes(new) : Node(old, p) # Node(new, p) =>
                /\ Node(old, p) # Missing => \E c \in changes : c.path = p /\ c.old = Node(old, p)
                /\ Node(new, p) # Missing => \E c \in changes : c.path = p /\ c.new = Node(new, p)
<1> DEFINE changes == TreeChanges(old, new)
           change(p, from, to) == [path |-> p, old |-> from, new |-> to]
           a(p) == Node(old, p)
           b(p) == Node(new, p)
           replaced(p) == (a(p).kind = "tree") # (b(p).kind = "tree")
<1>1. ASSUME NEW c
      PROVE  c \in changes <=>
               \E p \in Nodes(old) \cup Nodes(new) :
                  /\ a(p) # b(p)
                  /\ \/ ~replaced(p) /\ c = change(p, a(p), b(p))
                     \/ replaced(p) /\ a(p) # Missing /\ c = change(p, a(p), Missing)
                     \/ replaced(p) /\ b(p) # Missing /\ c = change(p, Missing, b(p))
  <2>1. c \in changes <=> \E p \in Nodes(old) \cup Nodes(new) : c \in NodeChanges(p, a(p), b(p))
    BY DEF TreeChanges
  <2>2. ASSUME NEW p
        PROVE  c \in NodeChanges(p, a(p), b(p)) <=>
                  /\ a(p) # b(p)
                  /\ \/ ~replaced(p) /\ c = change(p, a(p), b(p))
                     \/ replaced(p) /\ a(p) # Missing /\ c = change(p, a(p), Missing)
                     \/ replaced(p) /\ b(p) # Missing /\ c = change(p, Missing, b(p))
    <3> HIDE DEF a, b
    <3> QED
      BY DEF NodeChanges
  <2> HIDE DEF changes, a, b, replaced, change
  <2> QED
    BY <2>1, <2>2
<1>2. \A p, from, to : change(p, from, to).path = p /\ change(p, from, to).old = from
                       /\ change(p, from, to).new = to
  OBVIOUS
<1> HIDE DEF changes, a, b, replaced, change
<1>3. ASSUME NEW c \in changes
      PROVE  /\ c.path \in Nodes(old) \cup Nodes(new)
             /\ a(c.path) # b(c.path)
             /\ c.old # Missing => c.old = a(c.path)
             /\ c.new # Missing => c.new = b(c.path)
             /\ c.old = Missing => c.new # Missing
             /\ c.old # Missing => c = IF replaced(c.path) THEN change(c.path, a(c.path), Missing)
                                       ELSE change(c.path, a(c.path), b(c.path))
             /\ c.new # Missing => c = IF replaced(c.path) THEN change(c.path, Missing, b(c.path))
                                       ELSE change(c.path, a(c.path), b(c.path))
  <2>1. PICK p \in Nodes(old) \cup Nodes(new) :
                  /\ a(p) # b(p)
                  /\ \/ ~replaced(p) /\ c = change(p, a(p), b(p))
                     \/ replaced(p) /\ a(p) # Missing /\ c = change(p, a(p), Missing)
                     \/ replaced(p) /\ b(p) # Missing /\ c = change(p, Missing, b(p))
    BY <1>1
  <2>2. c.path = p
    BY <1>2, <2>1
  <2> QED
    BY <1>2, <2>1, <2>2
<1>4. ASSUME NEW p \in Nodes(old) \cup Nodes(new), a(p) # b(p)
      PROVE  /\ a(p) # Missing => \E c \in changes : c.path = p /\ c.old = a(p)
             /\ b(p) # Missing => \E c \in changes : c.path = p /\ c.new = b(p)
  <2>1. CASE ~replaced(p)
    <3>1. change(p, a(p), b(p)) \in changes
      BY <1>1, <1>4, <2>1
    <3> QED
      BY <1>2, <3>1
  <2>2. CASE replaced(p)
    <3>1. a(p) # Missing => change(p, a(p), Missing) \in changes
      BY <1>1, <1>4, <2>2
    <3>2. b(p) # Missing => change(p, Missing, b(p)) \in changes
      BY <1>1, <1>4, <2>2
    <3> QED
      BY <1>2, <3>1, <3>2
  <2> QED
    BY <2>1, <2>2
<1>5. \A c, d \in changes : c.path = d.path /\ c.old # Missing /\ d.old # Missing => c = d
  BY <1>3
<1>6. \A c, d \in changes : c.path = d.path /\ c.new # Missing /\ d.new # Missing => c = d
  BY <1>3
<1> QED
  BY <1>3, <1>4, <1>5, <1>6 DEF changes, a, b

\* A rename is of a change that takes something away and one that brings something.
LEMMA RenamesAre ==
    ASSUME NEW changes, NEW renames \in RenameSets(changes), NEW r \in renames
    PROVE  /\ r[1] \in changes /\ r[1].old # Missing /\ r[1].new = Missing
           /\ r[2] \in changes /\ r[2].new # Missing /\ r[2].old = Missing
<1>1. r \in RenamePairs(changes)
  BY DEF RenameSets
<1>2. Missing.kind = "none"
  BY DEF Missing, Leaf
<1> DEFINE leaf(n) == n.kind \notin {"none", "tree", "submodule"}
           gone == {c \in changes : leaf(c.old) /\ c.new = Missing}
           come == {c \in changes : leaf(c.new) /\ c.old = Missing}
<1>3. r \in gone \X come
  BY <1>1 DEF RenamePairs
<1>4. r[1] \in gone /\ r[2] \in come
  BY <1>3
<1> QED
  BY <1>2, <1>4

\* What a diff says of a change.
LEMMA EntriesAre ==
    ASSUME NEW change, change.old # Missing \/ change.new # Missing,
           change.old # Missing => change.old.kind # "none",
           change.new # Missing => change.new.kind # "none"
    PROVE  /\ DiffEntry(change).path = change.path
           /\ DiffEntry(change).old = Id(change.old) /\ DiffEntry(change).new = Id(change.new)
           /\ DiffEntry(change).status # "Added" <=> change.old # Missing
           /\ DiffEntry(change).status # "Deleted" <=> change.new # Missing
<1>1. /\ DiffEntry(change).path = change.path /\ DiffEntry(change).status = Status(change)
      /\ DiffEntry(change).old = Id(change.old) /\ DiffEntry(change).new = Id(change.new)
  BY DEF DiffEntry
<1>2. Missing.kind = "none"
  BY DEF Missing, Leaf
<1>3. CASE change.old = Missing
  <2>1. change.new # Missing /\ change.old.kind # change.new.kind
    BY <1>2, <1>3
  <2>2. Status(change) = "Added"
    BY <1>3, <2>1 DEF Status
  <2> QED
    BY <1>1, <1>3, <2>1, <2>2
<1>4. CASE change.old # Missing /\ change.new = Missing
  <2>1. change.old.kind # change.new.kind
    BY <1>2, <1>4
  <2>2. Status(change) = "Deleted"
    BY <1>4, <2>1 DEF Status
  <2> QED
    BY <1>1, <1>4, <2>2
<1>5. CASE change.old # Missing /\ change.new # Missing
  <2>1. Status(change) \in {"Modified", "TypeChanged"}
    BY <1>5 DEF Status
  <2> QED
    BY <1>1, <1>5, <2>1
<1> QED
  BY <1>3, <1>4, <1>5

\* A leaf is a file, a link or a submodule, and is never missing.
LEMMA DiffLeavesAre ==
    \A leaf \in DiffLeaves : leaf.kind \in {"file", "exec", "link", "submodule"}
BY ReadsAssumption

\* The empty tree is a tree, and nothing is in it.
LEMMA EmptyTree ==
    /\ NoTree \in TreesOf(DiffLeaves) /\ Nodes(NoTree) = {}
    /\ \A p \in PathSeqs : Node(NoTree, p) = Missing
<1>1. DOMAIN NoTree = {}
  BY DEF NoTree
<1>2. Nodes(NoTree) = {}
  BY <1>1 DEF Nodes
<1>3. NoTree \in TreesOf(DiffLeaves)
  <2>1. NoTree \in [{} -> DiffLeaves] /\ {} \in {qs \in SUBSET Paths : \A p, q \in qs : ~IsStrictPrefix(p, q)}
    BY DEF NoTree
  <2> QED
    BY <2>1 DEF TreesOf
<1> QED
  BY <1>2, <1>3, DiffLeavesAre, NodeIsThere

\* With nothing in the base tree, all there is has come, and nothing is a rename.
LEMMA ChangesFromNothing ==
    ASSUME NEW head \in TreesOf(DiffLeaves)
    PROVE  /\ TreeChanges(NoTree, head)
                = {[path |-> p, old |-> Missing, new |-> Node(head, p)] : p \in Nodes(head)}
           /\ RenameSets(TreeChanges(NoTree, head)) = {{}}
<1> DEFINE change(p) == [path |-> p, old |-> Missing, new |-> Node(head, p)]
           changes == TreeChanges(NoTree, head)
<1>1. Nodes(head) \subseteq PathSeqs
  BY ReadTreesAre, NodesAre
<1>2. ASSUME NEW p \in Nodes(head)
      PROVE  NodeChanges(p, Node(NoTree, p), Node(head, p)) = {change(p)}
  <2>1. Node(NoTree, p) = Missing /\ Node(head, p) # Missing
    BY <1>1, EmptyTree, DiffLeavesAre, NodeIsThere
  <2>2. Missing.kind = "none"
    BY DEF Missing, Leaf
  <2> DEFINE node == Node(head, p)
             none == [path |-> p, old |-> Missing, new |-> Missing]
  <2>3. change(p).old = Missing /\ change(p).new = node /\ none.old = none.new
    OBVIOUS
  <2>4. CASE node.kind = "tree"
    <3>1. NodeChanges(p, Missing, node) = {c \in {none, change(p)} : c.old # c.new}
      BY <2>1, <2>2, <2>4 DEF NodeChanges
    <3> HIDE DEF change, none, node
    <3> QED
      BY <2>1, <2>3, <3>1 DEF node
  <2>5. CASE node.kind # "tree"
    BY <2>1, <2>2, <2>5 DEF NodeChanges
  <2> QED
    BY <2>4, <2>5
<1>3. changes = {change(p) : p \in Nodes(head)}
  <2>1. changes = UNION {NodeChanges(p, Node(NoTree, p), Node(head, p)) : p \in Nodes(head)}
    BY EmptyTree DEF TreeChanges
  <2>2. \A c : c \in changes <=> \E p \in Nodes(head) : c \in NodeChanges(p, Node(NoTree, p), Node(head, p))
    BY <2>1
  <2> HIDE DEF changes, change
  <2> QED
    BY <1>2, <2>2
<1>4. \A c \in changes : c.old = Missing
  BY <1>3
<1>5. RenamePairs(changes) = {}
  <2>1. Missing.kind = "none"
    BY DEF Missing, Leaf
  <2> HIDE DEF changes
  <2> QED
    BY <1>4, <2>1 DEF RenamePairs
<1>6. RenameSets(changes) = {{}}
  BY <1>5 DEF RenameSets
<1> QED
  BY <1>3, <1>6

\* An initial diff lists the leaves that are blobs.
LEMMA BlobsAreLeaves ==
    ASSUME NEW head \in TreesOf(DiffLeaves)
    PROVE  InitialEntries(head) = {p \in Nodes(head) : IsBlob(Node(head, p))}
           /\ \A p \in InitialEntries(head) : Node(head, p) = head[p]
<1>1. DOMAIN head \subseteq PathSeqs /\ Nodes(head) \subseteq PathSeqs /\ DOMAIN head \subseteq Nodes(head)
  BY ReadTreesAre, NodesAre
<1>2. \A p \in DOMAIN head : Node(head, p) = head[p]
  BY <1>1, DiffLeavesAre, NodeIsThere
<1>3. \A p \in Nodes(head) \ DOMAIN head : ~IsBlob(Node(head, p))
  BY <1>1, DiffLeavesAre, NodeIsThere DEF IsBlob
<1> QED
  BY <1>1, <1>2, <1>3 DEF InitialEntries

\* The answer to a tree diff is set by the diff alone.
LEMMA TreeDiffRuns ==
    ASSUME [Next]_vars, Done("treediff")'
    PROVE  (Done("treediff") /\ UNCHANGED vars) \/ DiffOfTrees
BY DEF Next, vars, Done, Glob, RefGlob, Diff, PreviewMerge, PreviewPick, PreviewSeries, ReadLog,
       ReadAncestors, PreviewRebase, ReadTree, DiffOfTrees

\* A tree diff's two trees are trees.
LEMMA TreeDiffInputs ==
    ASSUME input \in Inputs, input.kind = "treediff"
    PROVE  input.base \in TreesOf(DiffLeaves) /\ input.head \in TreesOf(DiffLeaves)
BY DEF Inputs, ReadInputs

\* The diff of a first commit, which is code of its own, lists the blobs that a diff
\* with an empty tree lists, whatever the tree (diff.rs:320-416).
THEOREM InitialDiffsHold == Spec => []InitialDiffAgrees
<1>1. Init => InitialDiffAgrees
  BY DEF Init, InitialDiffAgrees, Done, Pending
<1>2. ASSUME input \in Inputs, InitialDiffAgrees, [Next]_vars
      PROVE  InitialDiffAgrees'
  <2>1. CASE UNCHANGED vars
    BY <1>2, <2>1 DEF InitialDiffAgrees, vars, Done
  <2>2. CASE DiffOfTrees
    <3> DEFINE head == input.head
    <3>1. PICK renames \in RenameSets(TreeChanges(input.base, head)) :
            output' = <<[diff |-> [f \in Filters |-> GetDiff(<<input.base>>, head, f, renames)],
                         root |-> [f \in Filters |-> GetDiff(<<>>, head, f, {})],
                         file |-> [p \in Paths |-> GetFileDiff(<<input.base>>, head, p, renames)],
                         renames |-> renames]>>
      BY <2>2 DEF DiffOfTrees
    <3>2. /\ input' = input /\ head \in TreesOf(DiffLeaves)
          /\ \A f \in Filters : /\ output'[1].diff[f] = GetDiff(<<input.base>>, head, f, renames)
                               /\ output'[1].root[f] = GetDiff(<<>>, head, f, {})
      BY <1>2, <2>2, <3>1, TreeDiffInputs DEF DiffOfTrees
    <3>3. ASSUME input.base = NoTree, NEW f \in Filters
          PROVE  GetDiff(<<>>, head, f, {})
                   = {e \in GetDiff(<<input.base>>, head, f, renames) : IsBlob(Node(head, e.path))}
      <4> DEFINE change(p) == [path |-> p, old |-> Missing, new |-> Node(head, p)]
                 entry(p) == DiffEntry(change(p))
      <4>1. renames = {} /\ TreeChanges(NoTree, head) = {change(p) : p \in Nodes(head)}
        BY <3>1, <3>2, <3>3, ChangesFromNothing
      <4>2. GetDiff(<<NoTree>>, head, f, renames) = {entry(p) : p \in {q \in Nodes(head) : PassesFilter(q, f)}}
        <5>1. GetDiff(<<NoTree>>, head, f, {}) =
                {DiffEntry(c) : c \in {d \in TreeChanges(NoTree, head) : PassesFilter(d.path, f)}}
          BY DEF GetDiff, DiffTrees
        <5>2. {d \in TreeChanges(NoTree, head) : PassesFilter(d.path, f)}
                = {change(p) : p \in {q \in Nodes(head) : PassesFilter(q, f)}}
          BY <4>1
        <5> QED
          BY <4>1, <5>1, <5>2, ZenonT(30)
      <4>3. GetDiff(<<>>, head, f, {}) = {entry(p) : p \in {q \in InitialEntries(head) : PassesFilter(q, f)}}
        <5>1. GetDiff(<<>>, head, f, {}) = DiffInitialCommit(head, f)
          BY DEF GetDiff
        <5>2. \A p \in InitialEntries(head) :
                DiffEntry([path |-> p, old |-> Missing, new |-> head[p]]) = entry(p)
          BY <3>2, BlobsAreLeaves
        <5> HIDE DEF entry
        <5> DEFINE those == {q \in InitialEntries(head) : PassesFilter(q, f)}
                   leafEntry(p) == DiffEntry([path |-> p, old |-> Missing, new |-> head[p]])
        <5>3. DiffInitialCommit(head, f) = {leafEntry(p) : p \in those}
          BY DEF DiffInitialCommit
        <5>4. \A p \in those : leafEntry(p) = entry(p)
          BY <5>2
        <5> HIDE DEF leafEntry
        <5> QED
          BY <5>1, <5>3, <5>4
      <4>4. \A p : entry(p).path = p
        BY DEF DiffEntry
      <4>5. InitialEntries(head) = {p \in Nodes(head) : IsBlob(Node(head, p))}
        BY <3>2, BlobsAreLeaves
      <4> HIDE DEF entry
      <4> QED
        BY <3>3, <4>2, <4>3, <4>4, <4>5
    <3> QED
      BY <3>2, <3>3 DEF InitialDiffAgrees
  <2>3. CASE ~Done("treediff")'
    BY <2>3 DEF InitialDiffAgrees
  <2> QED
    BY <1>2, <2>1, <2>2, <2>3, TreeDiffRuns
<1> QED
  BY <1>1, <1>2, InputStays, PTL DEF Spec

\* The changes that a diff lists, and those that were taken for renames.
Listed(changes, renames) == {c \in changes : \A r \in renames : c \notin {r[1], r[2]}}

\* A change is in the list or an end of a rename, and a rename's ends are of the list.
LEMMA ListedOrMoved ==
    ASSUME NEW changes, NEW renames \in RenameSets(changes)
    PROVE  /\ {r[1] : r \in renames} \cup {r[2] : r \in renames} \subseteq changes
           /\ \A c \in changes : c.old # Missing => (c \in Listed(changes, renames) <=> c \notin {r[1] : r \in renames})
           /\ \A c \in changes : c.new # Missing => (c \in Listed(changes, renames) <=> c \notin {r[2] : r \in renames})
           /\ \A c \in {r[1] : r \in renames} : c.old # Missing /\ c.new = Missing
           /\ \A c \in {r[2] : r \in renames} : c.new # Missing /\ c.old = Missing
<1>1. \A r \in renames : /\ r[1] \in changes /\ r[1].old # Missing /\ r[1].new = Missing
                        /\ r[2] \in changes /\ r[2].new # Missing /\ r[2].old = Missing
  BY RenamesAre
<1> QED
  BY <1>1 DEF Listed

\* The changes of two trees, in terms of which paths have which node.
LEMMA ChangesOfTrees ==
    ASSUME NEW base \in TreesOf(DiffLeaves), NEW head \in TreesOf(DiffLeaves)
    PROVE  LET changes == TreeChanges(base, head) IN
           /\ \A c \in changes :
                /\ c.old # Missing => c.path \in Nodes(base) /\ c.old = Node(base, c.path)
                /\ c.new # Missing => c.path \in Nodes(head) /\ c.new = Node(head, c.path)
                /\ c.old # Missing \/ c.new # Missing
                /\ c.old # Missing => c.old.kind # "none"
                /\ c.new # Missing => c.new.kind # "none"
           /\ \A p \in Nodes(base) : Node(base, p) = Node(head, p) => p \in Nodes(head)
           /\ \A p \in Nodes(head) : Node(base, p) = Node(head, p) => p \in Nodes(base)
           /\ \A p \in Nodes(base) : Node(base, p) # Node(head, p) =>
                \E c \in changes : c.path = p /\ c.old # Missing /\ c.old = Node(base, p)
           /\ \A p \in Nodes(head) : Node(base, p) # Node(head, p) =>
                \E c \in changes : c.path = p /\ c.new # Missing /\ c.new = Node(head, p)
<1> DEFINE changes == TreeChanges(base, head)
<1>1. Nodes(base) \subseteq PathSeqs /\ Nodes(head) \subseteq PathSeqs
  BY ReadTreesAre, NodesAre
<1>2. \A p \in PathSeqs : /\ (p \in Nodes(base) <=> Node(base, p) # Missing)
                         /\ (p \in Nodes(base) => Node(base, p).kind # "none")
                         /\ (p \in Nodes(head) <=> Node(head, p) # Missing)
                         /\ (p \in Nodes(head) => Node(head, p).kind # "none")
  BY DiffLeavesAre, NodeIsThere
<1>3. \A c \in changes :
                /\ c.path \in Nodes(base) \cup Nodes(head)
                /\ c.old # Missing => c.old = Node(base, c.path)
                /\ c.new # Missing => c.new = Node(head, c.path)
                /\ c.old = Missing => c.new # Missing
  BY ChangesAre
<1>4. \A p \in Nodes(base) \cup Nodes(head) : Node(base, p) # Node(head, p) =>
                /\ Node(base, p) # Missing => \E c \in changes : c.path = p /\ c.old = Node(base, p)
                /\ Node(head, p) # Missing => \E c \in changes : c.path = p /\ c.new = Node(head, p)
  BY ChangesAre
<1> HIDE DEF changes
<1>5. ASSUME NEW c \in changes
      PROVE  /\ c.old # Missing => c.path \in Nodes(base) /\ c.old = Node(base, c.path)
             /\ c.new # Missing => c.path \in Nodes(head) /\ c.new = Node(head, c.path)
             /\ c.old # Missing \/ c.new # Missing
             /\ c.old # Missing => c.old.kind # "none"
             /\ c.new # Missing => c.new.kind # "none"
  BY <1>1, <1>2, <1>3
<1>6. \A p \in Nodes(base) : Node(base, p) = Node(head, p) => p \in Nodes(head)
  BY <1>1, <1>2
<1>7. \A p \in Nodes(head) : Node(base, p) = Node(head, p) => p \in Nodes(base)
  BY <1>1, <1>2
<1>8. \A p \in Nodes(base) : Node(base, p) # Node(head, p) =>
                \E c \in changes : c.path = p /\ c.old # Missing /\ c.old = Node(base, p)
  BY <1>1, <1>2, <1>4
<1>9. \A p \in Nodes(head) : Node(base, p) # Node(head, p) =>
                \E c \in changes : c.path = p /\ c.new # Missing /\ c.new = Node(head, p)
  BY <1>1, <1>2, <1>4
<1> QED
  BY <1>5, <1>6, <1>7, <1>8, <1>9 DEF changes

\* What went and came, with what was moved, takes the base tree to the head tree.
Patches(base, head, f, went, came, lost, won, paths) ==
    LET seen(tree) == {<<p, Id(Node(tree, p))>> : p \in {q \in Nodes(tree) : PassesFilter(q, f)}} IN
    /\ went \cup lost \subseteq seen(base) /\ went \cap lost = {}
    /\ (seen(base) \ (went \cup lost)) \cup came \cup won = seen(head)
    /\ paths = {p \in Nodes(base) \cup Nodes(head) : PassesFilter(p, f) /\ Node(base, p) # Node(head, p)}

\* Taking out and putting in what the changes of the paths under a filter say.
LEMMA ChangesRebuild ==
    ASSUME NEW base \in TreesOf(DiffLeaves), NEW head \in TreesOf(DiffLeaves), NEW f,
           NEW renames \in RenameSets(TreeChanges(base, head))
    PROVE  LET passing(cs) == {c \in cs : PassesFilter(c.path, f)}
               kept == passing(Listed(TreeChanges(base, head), renames))
               movedFrom == passing({r[1] : r \in renames})
               movedTo == passing({r[2] : r \in renames})
           IN Patches(base, head, f,
                      {<<c.path, Id(c.old)>> : c \in {d \in kept : d.old # Missing}},
                      {<<c.path, Id(c.new)>> : c \in {d \in kept : d.new # Missing}},
                      {<<c.path, Id(c.old)>> : c \in movedFrom},
                      {<<c.path, Id(c.new)>> : c \in movedTo},
                      {c.path : c \in kept \cup movedFrom \cup movedTo})
<1> DEFINE changes == TreeChanges(base, head)
           listed == Listed(changes, renames)
           firsts == {r[1] : r \in renames}
           seconds == {r[2] : r \in renames}
           passes(p) == PassesFilter(p, f)
           passing(cs) == {c \in cs : passes(c.path)}
           kept == passing(listed)
           movedFrom == passing(firsts)
           movedTo == passing(seconds)
           a(p) == Node(base, p)
           b(p) == Node(head, p)
           seen(tree) == {<<p, Id(Node(tree, p))>> : p \in {q \in Nodes(tree) : passes(q)}}
           went == {<<c.path, Id(c.old)>> : c \in {d \in kept : d.old # Missing}}
           came == {<<c.path, Id(c.new)>> : c \in {d \in kept : d.new # Missing}}
           lost == {<<c.path, Id(c.old)>> : c \in movedFrom}
           won == {<<c.path, Id(c.new)>> : c \in movedTo}
           atBase == Nodes(base)
           atHead == Nodes(head)
<1>1. /\ listed \subseteq changes /\ firsts \subseteq changes /\ seconds \subseteq changes
      /\ \A c \in changes : c.old # Missing => (c \in listed <=> c \notin firsts)
      /\ \A c \in changes : c.new # Missing => (c \in listed <=> c \notin seconds)
      /\ \A c \in firsts : c.old # Missing /\ c.new = Missing
      /\ \A c \in seconds : c.new # Missing /\ c.old = Missing
  BY ListedOrMoved DEF Listed
<1>2. /\ \A c \in changes :
                /\ c.old # Missing => c.path \in atBase /\ c.old = a(c.path)
                /\ c.new # Missing => c.path \in atHead /\ c.new = b(c.path)
                /\ c.old # Missing \/ c.new # Missing
      /\ \A p \in atBase : a(p) = b(p) => p \in atHead
      /\ \A p \in atHead : a(p) = b(p) => p \in atBase
      /\ \A p \in atBase : a(p) # b(p) => \E c \in changes : c.path = p /\ c.old # Missing /\ c.old = a(p)
      /\ \A p \in atHead : a(p) # b(p) => \E c \in changes : c.path = p /\ c.new # Missing /\ c.new = b(p)
  BY ChangesOfTrees
<1>3. /\ \A c \in changes : a(c.path) # b(c.path)
      /\ \A c, d \in changes : c.path = d.path /\ c.old # Missing /\ d.old # Missing => c = d
  BY ChangesAre
<1>4. /\ \A x : x \in seen(base) <=> \E p \in atBase : passes(p) /\ x = <<p, Id(a(p))>>
      /\ \A x : x \in seen(head) <=> \E p \in atHead : passes(p) /\ x = <<p, Id(b(p))>>
  OBVIOUS
<1>5. /\ \A x : x \in went <=> \E c \in listed : passes(c.path) /\ c.old # Missing /\ x = <<c.path, Id(c.old)>>
      /\ \A x : x \in came <=> \E c \in listed : passes(c.path) /\ c.new # Missing /\ x = <<c.path, Id(c.new)>>
      /\ \A x : x \in lost <=> \E c \in firsts : passes(c.path) /\ x = <<c.path, Id(c.old)>>
      /\ \A x : x \in won <=> \E c \in seconds : passes(c.path) /\ x = <<c.path, Id(c.new)>>
  <2> HIDE DEF listed, firsts, seconds, passes
  <2> QED
    OBVIOUS
<1>6. \A p, q, x, y : <<p, x>> = <<q, y>> => p = q /\ x = y
  OBVIOUS
<1>7. {c.path : c \in kept \cup movedFrom \cup movedTo}
          = {p \in atBase \cup atHead : passes(p) /\ a(p) # b(p)}
  <2>1. \A c : c \in kept \cup movedFrom \cup movedTo <=> c \in changes /\ passes(c.path)
    <3>1. \A c : c \in kept \cup movedFrom \cup movedTo <=>
                   (c \in listed \/ c \in firsts \/ c \in seconds) /\ passes(c.path)
      <4> HIDE DEF listed, firsts, seconds, passes
      <4> QED
        OBVIOUS
    <3> HIDE DEF listed, firsts, seconds, passes, changes, kept, movedFrom, movedTo, a, b
    <3> QED
      BY <1>1, <1>2, <3>1
  <2> HIDE DEF kept, movedFrom, movedTo, listed, firsts, seconds, changes, passes, a, b, atBase, atHead
  <2> QED
    BY <1>2, <1>3, <2>1
<1> HIDE DEF changes, listed, firsts, seconds, passes, kept, movedFrom, movedTo, a, b, seen, went, came, lost,
             won, atBase, atHead
<1>8. went \cup lost \subseteq seen(base)
  BY <1>1, <1>2, <1>4, <1>5
<1>9. went \cap lost = {}
  BY <1>1, <1>3, <1>5, <1>6
<1>10. came \cup won \subseteq seen(head)
  BY <1>1, <1>2, <1>4, <1>5
<1>11. ASSUME NEW x \in seen(base), x \notin went \cup lost
       PROVE  x \in seen(head)
  <2>1. PICK p \in atBase : passes(p) /\ x = <<p, Id(a(p))>>
    BY <1>4, <1>11
  <2>2. a(p) = b(p)
    BY <1>1, <1>2, <1>5, <1>11, <2>1
  <2> QED
    BY <1>2, <1>4, <2>1, <2>2
<1>12. ASSUME NEW x \in seen(head), x \notin came \cup won
       PROVE  x \in seen(base) \ (went \cup lost)
  <2>1. PICK p \in atHead : passes(p) /\ x = <<p, Id(b(p))>>
    BY <1>4, <1>12
  <2>2. a(p) = b(p)
    BY <1>1, <1>2, <1>5, <1>12, <2>1
  <2>3. x \in seen(base)
    BY <1>2, <1>4, <2>1, <2>2
  <2>4. x \notin went \cup lost
    BY <1>1, <1>3, <1>5, <1>6, <2>1, <2>2
  <2> QED
    BY <2>3, <2>4
<1>13. (seen(base) \ (went \cup lost)) \cup came \cup won = seen(head)
  BY <1>10, <1>11, <1>12
<1>14. Patches(base, head, f, went, came, lost, won, {c.path : c \in kept \cup movedFrom \cup movedTo})
  BY <1>7, <1>8, <1>9, <1>13 DEF Patches, seen, passes, a, b, atBase, atHead
<1> QED
  BY <1>14, Zenon DEF changes, listed, firsts, seconds, passes, kept, movedFrom, movedTo, went, came, lost, won

\* A path passes the filter that is the path itself.
LEMMA OwnFilter == \A p \in Paths : PassesFilter(p, p)
<1> SUFFICES ASSUME NEW p \in Paths PROVE PassesFilter(p, p)
  OBVIOUS
<1>1. p \in Seq(DOMAIN NameRank) /\ p # <<>> /\ Len(p) \in Nat /\ Len(p) >= 1
  BY ReadsAssumption
<1>2. Last(p) = p[Len(p)] /\ Front(p) = SubSeq(p, 1, Len(p) - 1) /\ p[Len(p)] \in DOMAIN NameRank
  BY <1>1 DEF Last, Front
<1>3. p[Len(p)] \in Starts[Last(p)]
  BY <1>2, ReadsAssumption
<1> QED
  BY <1>1, <1>2, <1>3 DEF PassesFilter

\* A diff is a patch, whatever the trees, the renames found and the filter: it takes
\* the base tree to the head tree, but for what was renamed (diff.rs:180-318).
THEOREM DiffsArePatches == Spec => []DiffIsAPatch
<1>1. Init => DiffIsAPatch
  BY DEF Init, DiffIsAPatch, Done, Pending
<1>2. ASSUME input \in Inputs, DiffIsAPatch, [Next]_vars
      PROVE  DiffIsAPatch'
  <2>1. CASE UNCHANGED vars
    <3>1. DiffIsAPatch' <=> DiffIsAPatch
      BY <2>1 DEF DiffIsAPatch, vars, Done
    <3> QED
      BY <1>2, <3>1
  <2>2. CASE DiffOfTrees
    <3> DEFINE base == input.base
               head == input.head
               changes == TreeChanges(base, head)
    <3>1. PICK renames \in RenameSets(changes) :
            output' = <<[diff |-> [f \in Filters |-> GetDiff(<<base>>, head, f, renames)],
                         root |-> [f \in Filters |-> GetDiff(<<>>, head, f, {})],
                         file |-> [p \in Paths |-> GetFileDiff(<<base>>, head, p, renames)],
                         renames |-> renames]>>
      BY <2>2 DEF DiffOfTrees
    <3>2. /\ input' = input /\ base \in TreesOf(DiffLeaves) /\ head \in TreesOf(DiffLeaves)
          /\ input'.base = base /\ input'.head = head
          /\ output'[1].renames = renames
          /\ \A f \in Filters : output'[1].diff[f] = GetDiff(<<base>>, head, f, renames)
          /\ \A p \in Paths : output'[1].file[p] = GetFileDiff(<<base>>, head, p, renames)
      BY <1>2, <2>2, <3>1, TreeDiffInputs DEF DiffOfTrees
    <3> DEFINE listed == Listed(changes, renames)
    <3>3. \A c \in listed :
             /\ DiffEntry(c).path = c.path
             /\ DiffEntry(c).old = Id(c.old) /\ DiffEntry(c).new = Id(c.new)
             /\ DiffEntry(c).status # "Added" <=> c.old # Missing
             /\ DiffEntry(c).status # "Deleted" <=> c.new # Missing
      <4>1. \A c \in listed : /\ c.old # Missing \/ c.new # Missing
                             /\ (c.old # Missing => c.old.kind # "none")
                             /\ (c.new # Missing => c.new.kind # "none")
        BY <3>2, ChangesOfTrees DEF Listed
      <4> QED
        BY <4>1, EntriesAre
    <3>4. \A f : GetDiff(<<base>>, head, f, renames) = {DiffEntry(c) : c \in {d \in listed : PassesFilter(d.path, f)}}
      BY DEF GetDiff, DiffTrees, Listed
    <3> HIDE DEF base, head, changes, listed
    <3>5. \A p \in Paths : output'[1].file[p] # {} <=> \E e \in output'[1].diff[<<>>] : e.path = p
      <4> SUFFICES ASSUME NEW p \in Paths
                   PROVE  output'[1].file[p] # {} <=> \E e \in output'[1].diff[<<>>] : e.path = p
        OBVIOUS
      <4>1. output'[1].diff[<<>>] = {DiffEntry(c) : c \in listed}
        BY <3>2, <3>4, ReadsAssumption DEF PassesFilter
      <4>2. output'[1].file[p] = {e \in GetDiff(<<base>>, head, p, renames) : e.path = p}
        BY <3>2 DEF GetFileDiff
      <4>3. output'[1].file[p] = {e \in {DiffEntry(c) : c \in {d \in listed : PassesFilter(d.path, p)}} : e.path = p}
        BY <3>4, <4>2
      <4>4. PassesFilter(p, p)
        BY OwnFilter
      <4> QED
        BY <3>3, <4>1, <4>3, <4>4
    <3>6. ASSUME NEW f \in Filters
          PROVE  LET diff == output'[1].diff[f]
                     passing(cs) == {c \in cs : PassesFilter(c.path, f)}
                     movedFrom == passing({r[1] : r \in output'[1].renames})
                     movedTo   == passing({r[2] : r \in output'[1].renames})
                 IN Patches(input'.base, input'.head, f,
                            {<<e.path, e.old>> : e \in {d \in diff : d.status # "Added"}},
                            {<<e.path, e.new>> : e \in {d \in diff : d.status # "Deleted"}},
                            {<<c.path, Id(c.old)>> : c \in movedFrom},
                            {<<c.path, Id(c.new)>> : c \in movedTo},
                            {e.path : e \in diff \cup movedFrom \cup movedTo})
      <4> DEFINE diff == output'[1].diff[f]
                 kept == {c \in listed : PassesFilter(c.path, f)}
                 firsts == {c \in {r[1] : r \in renames} : PassesFilter(c.path, f)}
                 seconds == {c \in {r[2] : r \in renames} : PassesFilter(c.path, f)}
      <4>1. diff = {DiffEntry(c) : c \in kept}
        BY <3>2, <3>4
      <4>2. \A c \in kept : c \in listed
        OBVIOUS
      <4>3. {<<e.path, e.old>> : e \in {d \in diff : d.status # "Added"}}
              = {<<c.path, Id(c.old)>> : c \in {d \in kept : d.old # Missing}}
        <5> HIDE DEF diff, kept
        <5> QED
          BY <3>3, <4>1, <4>2
      <4>4. {<<e.path, e.new>> : e \in {d \in diff : d.status # "Deleted"}}
              = {<<c.path, Id(c.new)>> : c \in {d \in kept : d.new # Missing}}
        <5> HIDE DEF diff, kept
        <5> QED
          BY <3>3, <4>1, <4>2
      <4>5. {e.path : e \in diff \cup firsts \cup seconds} = {c.path : c \in kept \cup firsts \cup seconds}
        <5> HIDE DEF diff, kept, firsts, seconds
        <5> QED
          BY <3>3, <4>1, <4>2
      <4>6. Patches(base, head, f,
                    {<<c.path, Id(c.old)>> : c \in {d \in kept : d.old # Missing}},
                    {<<c.path, Id(c.new)>> : c \in {d \in kept : d.new # Missing}},
                    {<<c.path, Id(c.old)>> : c \in firsts}, {<<c.path, Id(c.new)>> : c \in seconds},
                    {c.path : c \in kept \cup firsts \cup seconds})
        <5>1. base \in TreesOf(DiffLeaves) /\ head \in TreesOf(DiffLeaves) /\ renames \in RenameSets(TreeChanges(base, head))
          BY <3>1, <3>2 DEF changes
        <5> QED
          BY <5>1, ChangesRebuild, Zenon DEF listed, changes
      <4>7. /\ output'[1].renames = renames /\ input'.base = base /\ input'.head = head
        BY <3>2
      <4> QED
        BY <4>3, <4>4, <4>5, <4>6, <4>7, Zenon
    <3> QED
      BY <3>5, <3>6 DEF DiffIsAPatch, Patches
  <2>3. CASE ~Done("treediff")'
    BY <2>3 DEF DiffIsAPatch
  <2> QED
    BY <1>2, <2>1, <2>2, <2>3, TreeDiffRuns
<1> QED
  BY <1>1, <1>2, InputStays, PTL DEF Spec

(***************************************************************************)
(* CommitLog: walks over history.                                          *)
(***************************************************************************)

\* One element more.
LEMMA AppendMember ==
    ASSUME NEW T, NEW s \in Seq(T), NEW x \in T
    PROVE  /\ Append(s, x) \in Seq(T) /\ Len(Append(s, x)) = Len(s) + 1
           /\ Range(Append(s, x)) = Range(s) \cup {x}
           /\ IsInjective(s) /\ x \notin Range(s) => IsInjective(Append(s, x))
<1> DEFINE t == Append(s, x)
<1>1. /\ t \in Seq(T) /\ Len(t) = Len(s) + 1 /\ Len(s) \in Nat
      /\ \A i \in 1 .. Len(s) : t[i] = s[i]
      /\ t[Len(s) + 1] = x
  OBVIOUS
<1>2. DOMAIN t = 1 .. Len(s) + 1 /\ DOMAIN s = 1 .. Len(s)
  BY <1>1
<1>3. \A i \in 1 .. Len(s) + 1 : i \in 1 .. Len(s) \/ i = Len(s) + 1
  BY <1>1
<1> HIDE DEF t
<1>4. Range(t) = Range(s) \cup {x}
  <2>1. \A y : y \in Range(t) <=> \E i \in 1 .. Len(s) + 1 : y = t[i]
    BY <1>2 DEF Range
  <2>2. \A y : y \in Range(s) <=> \E i \in 1 .. Len(s) : y = s[i]
    BY <1>2 DEF Range
  <2>3. \A i \in 1 .. Len(s) : i \in 1 .. Len(s) + 1
    BY <1>1
  <2>4. Len(s) + 1 \in 1 .. Len(s) + 1
    BY <1>1
  <2> QED
    BY <1>1, <1>3, <2>1, <2>2, <2>3, <2>4
<1>5. ASSUME IsInjective(s), x \notin Range(s)
      PROVE  IsInjective(t)
  <2>1. \A i, j \in 1 .. Len(s) : s[i] = s[j] => i = j
    BY <1>2, <1>5 DEF IsInjective
  <2>2. \A i \in 1 .. Len(s) : s[i] # x
    BY <1>2, <1>5 DEF Range
  <2> QED
    BY <1>1, <1>2, <1>3, <2>1, <2>2 DEF IsInjective
<1> QED
  BY <1>1, <1>4, <1>5 DEF t

\* What is kept of the first n members, for each n.
LEMMA KeepIs ==
    ASSUME NEW T, NEW seq \in Seq(T), NEW set
    PROVE  \E kept \in [0 .. Len(seq) -> Seq(T)] :
              /\ kept[0] = <<>> /\ Keep(seq, set) = kept[Len(seq)]
              /\ \A n \in 1 .. Len(seq) :
                    kept[n] = IF seq[n] \in set THEN Append(kept[n - 1], seq[n]) ELSE kept[n - 1]
<1> DEFINE top == Len(seq)
           value(h, n) == IF n = 0 THEN <<>>
                          ELSE IF seq[n] \in set THEN Append(h[n - 1], seq[n]) ELSE h[n - 1]
           kept == CHOOSE h : h = [n \in 0 .. top |-> value(h, n)]
           V == Seq(T)
           Step == [a \in (1 .. top) \X V |->
                      IF seq[a[1]] \in set THEN Append(a[2], seq[a[1]]) ELSE a[2]]
<1>1. top \in Nat /\ <<>> \in V
  OBVIOUS
<1>2. \A n \in 1 .. top, v \in V :
          (IF seq[n] \in set THEN Append(v, seq[n]) ELSE v) \in V
  OBVIOUS
<1> HIDE DEF V
<1>3. Step \in [(1 .. top) \X V -> V]
      /\ \A n \in 1 .. top, v \in V : Step[<<n, v>>] = IF seq[n] \in set THEN Append(v, seq[n]) ELSE v
  BY <1>2
<1>4. Keep(seq, set) = kept[top]
  BY DEF Keep
<1>5. PICK f \in [0 .. top -> V] :
        f = [n \in 0 .. top |-> IF n = 0 THEN <<>> ELSE Step[<<n, f[n - 1]>>]]
  <2> HIDE DEF Step, top
  <2> QED
    <3>1. Chains(V, <<>>, top, Step) # {}
      BY <1>1, <1>3, NatRecursion
    <3> QED
      BY <3>1 DEF Chains
<1>6. f = [n \in 0 .. top |-> value(f, n)]
  <2>1. \A n \in 0 .. top : n # 0 => n \in 1 .. top /\ f[n - 1] \in V
    BY <1>1
  <2> HIDE DEF Step, top
  <2> QED
    BY <1>3, <1>5, <2>1
<1>7. kept = [n \in 0 .. top |-> value(kept, n)]
  <2> HIDE DEF value, top, Step
  <2> QED
    BY <1>6
<1>8. /\ kept[0] = <<>>
      /\ \A n \in 1 .. top : kept[n] = IF seq[n] \in set THEN Append(kept[n - 1], seq[n]) ELSE kept[n - 1]
  <2>1. \A n \in 0 .. top : kept[n] = value(kept, n)
    <3> HIDE DEF value, top, Step, kept
    <3> QED
      BY <1>7
  <2> HIDE DEF kept
  <2> QED
    BY <1>1, <2>1
<1> DEFINE S == {n \in Nat : n <= top => kept[n] \in V}
<1>9. Nat \subseteq S
  <2> HIDE DEF kept
  <2>1. 0 \in S
    BY <1>1, <1>8
  <2>2. ASSUME NEW n \in Nat, n \in S PROVE n + 1 \in S
    BY <1>1, <1>2, <1>8, <2>2
  <2> HIDE DEF S
  <2> QED
    BY <2>1, <2>2, NatSetInduction
<1>10. kept \in [0 .. top -> V]
  <2>1. \A n \in 0 .. top : kept[n] \in V
    BY <1>1, <1>9
  <2> HIDE DEF value, kept, V, top, S
  <2>2. kept = [n \in 0 .. top |-> kept[n]]
    BY <1>7
  <2> QED
    BY <2>1, <2>2
<1> HIDE DEF kept
<1> QED
  BY <1>4, <1>8, <1>10 DEF V

\* Keep has the members of the set, in order, each as often as it is there.
LEMMA KeepsMembers ==
    ASSUME NEW T, NEW seq \in Seq(T), NEW set
    PROVE  /\ Keep(seq, set) \in Seq(T) /\ Len(Keep(seq, set)) <= Len(seq)
           /\ Range(Keep(seq, set)) = Range(seq) \cap set
           /\ IsInjective(seq) => IsInjective(Keep(seq, set))
<1> PICK kept \in [0 .. Len(seq) -> Seq(T)] :
              /\ kept[0] = <<>> /\ Keep(seq, set) = kept[Len(seq)]
              /\ \A n \in 1 .. Len(seq) :
                    kept[n] = IF seq[n] \in set THEN Append(kept[n - 1], seq[n]) ELSE kept[n - 1]
  BY KeepIs
<1> DEFINE first(n) == {seq[i] : i \in 1 .. n}
           Good(n) == /\ Len(kept[n]) <= n /\ Range(kept[n]) = first(n) \cap set
                      /\ IsInjective(seq) => IsInjective(kept[n])
           S == {n \in Nat : n <= Len(seq) => Good(n)}
<1>1. Len(seq) \in Nat /\ \A n \in 1 .. Len(seq) : seq[n] \in T
  OBVIOUS
<1>2. 0 \in S
  <2>1. Len(<<>>) = 0 /\ Range(<<>>) = {} /\ IsInjective(<<>>)
    BY DEF Range, IsInjective
  <2> QED
    BY <2>1
<1>3. ASSUME NEW n \in Nat, n \in S PROVE n + 1 \in S
  <2> SUFFICES ASSUME n + 1 <= Len(seq) PROVE Good(n + 1)
    OBVIOUS
  <2>1. n + 1 \in 1 .. Len(seq) /\ n \in 0 .. Len(seq) /\ n + 1 - 1 = n
    BY <1>1
  <2>2. Good(n)
    BY <1>1, <1>3
  <2>3. kept[n + 1] = IF seq[n + 1] \in set THEN Append(kept[n], seq[n + 1]) ELSE kept[n]
    BY <2>1
  <2>4. first(n + 1) = first(n) \cup {seq[n + 1]}
    OBVIOUS
  <2>5. kept[n] \in Seq(T) /\ seq[n + 1] \in T /\ Len(kept[n]) \in Nat
    BY <1>1, <2>1
  <2>6. IsInjective(seq) => seq[n + 1] \notin first(n)
    <3>1. DOMAIN seq = 1 .. Len(seq) /\ \A i \in 1 .. n : i \in 1 .. Len(seq) /\ i # n + 1
      BY <1>1, <2>1
    <3> QED
      BY <2>1, <3>1 DEF IsInjective
  <2> HIDE DEF first
  <2>7. CASE seq[n + 1] \in set
    <3>1. kept[n + 1] = Append(kept[n], seq[n + 1])
      BY <2>3, <2>7
    <3>2. /\ Len(kept[n + 1]) = Len(kept[n]) + 1
          /\ Range(kept[n + 1]) = Range(kept[n]) \cup {seq[n + 1]}
          /\ IsInjective(kept[n]) /\ seq[n + 1] \notin Range(kept[n]) => IsInjective(kept[n + 1])
      BY <2>5, <3>1, AppendMember
    <3> QED
      BY <2>2, <2>4, <2>5, <2>6, <2>7, <3>2
  <2>8. CASE seq[n + 1] \notin set
    BY <2>2, <2>3, <2>4, <2>5, <2>8
  <2> QED
    BY <2>7, <2>8
<1>4. Good(Len(seq))
  <2> HIDE DEF S
  <2>1. Nat \subseteq S
    BY <1>2, <1>3, NatSetInduction
  <2> QED
    BY <1>1, <2>1, SMTT(30) DEF S
<1>5. Range(seq) = first(Len(seq))
  BY <1>1 DEF Range
<1> QED
  BY <1>1, <1>4, <1>5

\* The commits of a history, its sequences of commits, the states of a walk.
Commits == 1 .. LogLen
CommitSeqs == Seq(Commits)
WalkStates == [queue : CommitSeqs, listed : CommitSeqs]

\* A history gives each commit its parents, each one once.
LEMMA HistoriesAre ==
    ASSUME NEW h \in Histories
    PROVE  /\ LogLen \in Nat /\ DOMAIN h = Commits /\ Len(h) = LogLen
           /\ \A c \in Commits : h[c] \in CommitSeqs /\ IsInjective(h[c])
<1>1. LogLen \in Nat
  BY InputAssumption
<1>2. /\ h \in [1 .. LogLen -> UNION {ParentSeqs(n) : n \in 1 .. LogLen}]
      /\ \A n \in 1 .. LogLen : h[n] \in ParentSeqs(n)
  BY DEF Histories
<1>3. DOMAIN h = Commits /\ Len(h) = LogLen
  BY <1>1, <1>2 DEF Commits
<1>4. ASSUME NEW c \in Commits
      PROVE  h[c] \in CommitSeqs /\ IsInjective(h[c])
  <2>1. c \in Nat /\ h[c] \in ParentSeqs(c) /\ \A p \in 1 .. c - 1 : p \in Commits
    BY <1>1, <1>2 DEF Commits
  <2>2. CASE h[c] = <<>>
    BY <2>2 DEF CommitSeqs, IsInjective
  <2>3. CASE \E p \in 1 .. c - 1 : h[c] = <<p>>
    BY <2>1, <2>3 DEF CommitSeqs, IsInjective
  <2>4. CASE \E p, q \in 1 .. c - 1 : p # q /\ h[c] = <<p, q>>
    <3>1. PICK p \in Commits, q \in Commits : p # q /\ h[c] = <<p, q>>
      BY <2>1, <2>4
    <3>2. DOMAIN h[c] = 1 .. 2 /\ h[c][1] = p /\ h[c][2] = q
      BY <3>1
    <3>3. h[c] \in CommitSeqs
      BY <3>1 DEF CommitSeqs
    <3> QED
      BY <3>1, <3>2, <3>3 DEF IsInjective
  <2>5. \A s \in (1 .. c - 1) \X (1 .. c - 1) : s = <<s[1], s[2]>>
    OBVIOUS
  <2> QED
    BY <2>1, <2>2, <2>3, <2>4, <2>5 DEF ParentSeqs
<1> QED
  BY <1>1, <1>3, <1>4

\* The commits met so far: those listed and those in the queue.
Met(w) == w.listed \o w.queue

\* One step of the walk.
Advance(h, w) ==
    IF w.queue = <<>> THEN w
    ELSE [queue |-> Tail(w.queue) \o Keep(h[Head(w.queue)], DOMAIN h \ (Range(w.listed) \cup Range(w.queue))),
          listed |-> Append(w.listed, Head(w.queue))]

\* Concatenation, by a name that no prover looks into.
Cat(s, t) == s \o t

\* Sequences of commits, joined.
LEMMA Joined == \A s, t \in CommitSeqs : Cat(s, t) \in CommitSeqs
BY ConcatProperties DEF CommitSeqs, Cat

\* Joining is associative.
LEMMA InARow == \A s, t, u \in CommitSeqs : Cat(Cat(s, t), u) = Cat(s, Cat(t, u))
BY ConcatAssociative DEF CommitSeqs, Cat

\* The head of the queue moves to the end of the list.
LEMMA HeadMoves ==
    ASSUME NEW s \in CommitSeqs, NEW q \in CommitSeqs, q # <<>>, NEW v \in CommitSeqs
    PROVE  Append(s, Head(q)) \o (Tail(q) \o v) = (s \o q) \o v
<1>1. PICK c \in Commits, rest \in CommitSeqs : c = Head(q) /\ rest = Tail(q)
  BY HeadTailProperties DEF CommitSeqs
<1>2. <<c>> \in CommitSeqs
  BY DEF CommitSeqs
<1>3. PICK one \in CommitSeqs : one = <<c>>
  BY <1>2
<1>4. q = Cat(one, rest)
  BY <1>1, <1>3 DEF CommitSeqs, Cat
<1>5. Append(s, c) = Cat(s, one)
  BY <1>3, AppendIsConcat DEF CommitSeqs, Cat
<1>6. Cat(Cat(s, one), Cat(rest, v)) = Cat(Cat(s, Cat(one, rest)), v)
  <2>1. Cat(s, one) \in CommitSeqs
    BY Joined
  <2>2. Cat(Cat(s, one), Cat(rest, v)) = Cat(Cat(Cat(s, one), rest), v)
    BY <2>1, InARow
  <2>3. Cat(Cat(s, one), rest) = Cat(s, Cat(one, rest))
    BY InARow
  <2> QED
    BY <2>2, <2>3
<1>7. Cat(Append(s, Head(q)), Cat(Tail(q), v)) = Cat(Cat(s, q), v)
  BY <1>1, <1>4, <1>5, <1>6
<1> QED
  BY <1>7 DEF Cat

\* A queue that is not empty has a head and a rest.
LEMMA HeadOfQueue ==
    ASSUME NEW w \in WalkStates, w.queue # <<>>
    PROVE  /\ Head(w.queue) \in Commits /\ Tail(w.queue) \in CommitSeqs
           /\ Len(w.queue) \in Nat /\ Len(w.queue) >= 1
           /\ Head(w.queue) = w.queue[1]
BY DEF WalkStates, CommitSeqs

\* A step of the walk gives a state of the walk.
LEMMA AdvanceStays ==
    ASSUME NEW h \in Histories, NEW w \in WalkStates
    PROVE  Advance(h, w) \in WalkStates
<1>1. CASE w.queue = <<>>
  BY <1>1 DEF Advance
<1>2. CASE w.queue # <<>>
  <2> DEFINE c == Head(w.queue)
             new == Keep(h[c], DOMAIN h \ (Range(w.listed) \cup Range(w.queue)))
  <2>1. c \in Commits /\ Tail(w.queue) \in CommitSeqs /\ w.listed \in CommitSeqs
    BY <1>2, HeadOfQueue DEF WalkStates
  <2>2. h[c] \in CommitSeqs
    BY <2>1, HistoriesAre
  <2>3. new \in CommitSeqs
    BY <2>2, KeepsMembers DEF CommitSeqs
  <2>4. Tail(w.queue) \o new \in CommitSeqs /\ Append(w.listed, c) \in CommitSeqs
    <3> HIDE DEF c, new
    <3> QED
      BY <2>1, <2>3 DEF CommitSeqs
  <2>5. Advance(h, w) = [queue |-> Tail(w.queue) \o new, listed |-> Append(w.listed, c)]
    BY <1>2 DEF Advance
  <2> HIDE DEF new, c
  <2> QED
    BY <2>4, <2>5 DEF WalkStates
<1> QED
  BY <1>1, <1>2

\* The walk is what its recursive definition says.
LEMMA WalkIs ==
    ASSUME NEW h \in Histories, NEW start \in Commits
    PROVE  LET walk == Walk(h, start) IN
           /\ walk[0] = [queue |-> <<start>>, listed |-> <<>>]
           /\ \A n \in 0 .. LogLen : walk[n] \in WalkStates
           /\ \A n \in 1 .. LogLen : walk[n] = Advance(h, walk[n - 1])
<1> DEFINE top == LogLen
           walk == Walk(h, start)
           first == [queue |-> <<start>>, listed |-> <<>>]
           value(f, n) == IF n = 0 THEN first ELSE Advance(h, f[n - 1])
           Step == [a \in (1 .. top) \X WalkStates |-> Advance(h, a[2])]
<1>1. top \in Nat /\ first \in WalkStates /\ Len(h) = top
  BY HistoriesAre DEF WalkStates, CommitSeqs
<1>2. \A v \in WalkStates : Advance(h, v) \in WalkStates
  BY AdvanceStays
<1>3. Step \in [(1 .. top) \X WalkStates -> WalkStates]
      /\ \A n \in 1 .. top, v \in WalkStates : Step[<<n, v>>] = Advance(h, v)
  BY <1>2
<1>4. walk = CHOOSE f : f = [n \in 0 .. top |-> value(f, n)]
  BY <1>1 DEF Walk, Advance
<1> HIDE DEF first
<1>5. PICK f \in [0 .. top -> WalkStates] :
        f = [n \in 0 .. top |-> IF n = 0 THEN first ELSE Step[<<n, f[n - 1]>>]]
  <2> HIDE DEF Step, top
  <2> QED
    <3>1. Chains(WalkStates, first, top, Step) # {}
      BY <1>1, <1>3, NatRecursion
    <3> QED
      BY <3>1 DEF Chains
<1>6. f = [n \in 0 .. top |-> value(f, n)]
  <2>1. \A n \in 0 .. top : n # 0 => n \in 1 .. top /\ f[n - 1] \in WalkStates
    BY <1>1
  <2> HIDE DEF Step, top
  <2> QED
    BY <1>3, <1>5, <2>1
<1>7. walk = [n \in 0 .. top |-> value(walk, n)]
  <2> HIDE DEF value, top, Step, walk
  <2> QED
    BY <1>4, <1>6
<1>8. /\ walk[0] = first
      /\ \A n \in 1 .. top : walk[n] = Advance(h, walk[n - 1])
  <2>1. \A n \in 0 .. top : walk[n] = value(walk, n)
    <3> HIDE DEF value, top, Step, walk
    <3> QED
      BY <1>7
  <2> HIDE DEF walk
  <2> QED
    BY <1>1, <2>1
<1> DEFINE S == {n \in Nat : n <= top => walk[n] \in WalkStates}
<1>9. Nat \subseteq S
  <2> HIDE DEF walk
  <2>1. 0 \in S
    BY <1>1, <1>8
  <2>2. ASSUME NEW n \in Nat, n \in S PROVE n + 1 \in S
    BY <1>1, <1>2, <1>8, <2>2
  <2> HIDE DEF S
  <2> QED
    BY <2>1, <2>2, NatSetInduction
<1> HIDE DEF walk
<1>10. \A n \in 0 .. top : walk[n] \in WalkStates
  BY <1>1, <1>9
<1> QED
  BY <1>8, <1>10 DEF walk, first

\* A step lists the next commit, and meets those of its parents that were not met before.
LEMMA AdvanceIs ==
    ASSUME NEW h \in Histories, NEW w \in WalkStates, w.queue # <<>>
    PROVE  LET met == Met(w)
               after == Met(Advance(h, w))
               l == Len(w.listed)
               parents == h[met[l + 1]]
           IN /\ met \in CommitSeqs /\ after \in CommitSeqs
              /\ l \in Nat /\ l + 1 \in 1 .. Len(met) /\ Len(Advance(h, w).listed) = l + 1
              /\ \E new \in CommitSeqs :
                   /\ IsInjective(new) /\ Range(new) = Range(parents) \ Range(met) /\ Len(new) <= Len(parents)
                   /\ after = met \o new
<1> DEFINE c == Head(w.queue)
           new == Keep(h[c], DOMAIN h \ (Range(w.listed) \cup Range(w.queue)))
           met == Met(w)
           l == Len(w.listed)
<1>1. /\ c \in Commits /\ Tail(w.queue) \in CommitSeqs /\ Len(w.queue) \in Nat /\ Len(w.queue) >= 1
      /\ c = w.queue[1]
  BY HeadOfQueue
<1>2. w.listed \in CommitSeqs /\ w.queue \in CommitSeqs /\ l \in Nat
  BY DEF WalkStates, CommitSeqs
<1>3. met \in CommitSeqs /\ Len(met) = l + Len(w.queue)
  BY <1>2 DEF Met, CommitSeqs
<1>4. met[l + 1] = c /\ l + 1 \in 1 .. Len(met)
  <2>1. \A i \in 1 .. l + Len(w.queue) : met[i] = IF i <= l THEN w.listed[i] ELSE w.queue[i - l]
    BY <1>2, ConcatProperties DEF Met, CommitSeqs
  <2> HIDE DEF met, c, l
  <2>2. l + 1 \in 1 .. l + Len(w.queue) /\ ~(l + 1 <= l) /\ l + 1 - l = 1
    BY <1>1, <1>2
  <2>3. met[l + 1] = w.queue[1]
    <3> DEFINE i == l + 1
    <3>1. i \in 1 .. l + Len(w.queue) /\ ~(i <= l)
      BY <2>2
    <3> HIDE DEF i
    <3>2. met[i] = w.queue[i - l]
      BY <2>1, <3>1
    <3>3. i - l = 1
      BY <1>2 DEF i
    <3> QED
      BY <3>2, <3>3 DEF i
  <2> QED
    BY <1>1, <1>3, <2>2, <2>3
<1>5. Range(met) = Range(w.listed) \cup Range(w.queue)
  BY <1>2, RangeConcatenation DEF Met, CommitSeqs
<1>6. h[c] \in CommitSeqs /\ IsInjective(h[c]) /\ DOMAIN h = Commits
  BY <1>1, HistoriesAre
<1>7. Range(h[c]) \subseteq Commits
  BY <1>6, RangeOfSeq DEF CommitSeqs
<1>8. /\ new \in CommitSeqs /\ IsInjective(new) /\ Len(new) <= Len(h[c])
      /\ Range(new) = Range(h[c]) \cap (DOMAIN h \ (Range(w.listed) \cup Range(w.queue)))
  BY <1>6, KeepsMembers DEF CommitSeqs
<1>9. Range(new) = Range(h[c]) \ Range(met)
  BY <1>5, <1>6, <1>7, <1>8
<1>10. Advance(h, w) = [queue |-> Tail(w.queue) \o new, listed |-> Append(w.listed, c)]
  BY DEF Advance
<1> HIDE DEF new, c
<1>11. Len(Advance(h, w).listed) = l + 1
  BY <1>1, <1>2, <1>10 DEF CommitSeqs
<1>12. Met(Advance(h, w)) = met \o new
  <2>1. Advance(h, w).listed = Append(w.listed, c) /\ Advance(h, w).queue = Tail(w.queue) \o new
    BY <1>10
  <2>2. Append(w.listed, c) \o (Tail(w.queue) \o new) = (w.listed \o w.queue) \o new
    BY <1>2, <1>8, HeadMoves DEF c
  <2> QED
    BY <2>1, <2>2, Zenon DEF Met
<1>13. met \o new \in CommitSeqs
  BY <1>3, <1>8, ConcatProperties DEF CommitSeqs
<1> QED
  BY <1>2, <1>3, <1>4, <1>8, <1>9, <1>11, <1>12, <1>13

\* What is where in two sequences joined.
LEMMA JoinedMembers ==
    ASSUME NEW s \in CommitSeqs, NEW t \in CommitSeqs
    PROVE  /\ Len(s) \in Nat /\ Len(t) \in Nat
           /\ Len(s \o t) = Len(s) + Len(t)
           /\ Range(s \o t) = Range(s) \cup Range(t)
           /\ \A i \in 1 .. Len(s) : (s \o t)[i] = s[i]
           /\ \A i \in 1 .. Len(t) : (s \o t)[Len(s) + i] = t[i]
           /\ \A i \in 1 .. Len(s) + Len(t) : i \in 1 .. Len(s) \/ \E j \in 1 .. Len(t) : i = Len(s) + j
<1>1. Len(s) \in Nat /\ Len(t) \in Nat
  BY DEF CommitSeqs
<1>2. Len(s \o t) = Len(s) + Len(t) /\ Range(s \o t) = Range(s) \cup Range(t)
  BY ConcatProperties, RangeConcatenation DEF CommitSeqs
<1> DEFINE n == Len(s)
           m == Len(t)
<1>3. \A i \in 1 .. n + m : (s \o t)[i] = IF i <= n THEN s[i] ELSE t[i - n]
  BY ConcatProperties DEF CommitSeqs
<1> DEFINE u == s \o t
<1> HIDE DEF n, m, u
<1>4. n \in Nat /\ m \in Nat
  BY <1>1 DEF n, m
<1>5. \A i \in 1 .. n : u[i] = s[i]
  <2>1. \A i \in 1 .. n : i \in 1 .. n + m /\ i <= n
    BY <1>4
  <2>2. \A i \in 1 .. n + m : u[i] = IF i <= n THEN s[i] ELSE t[i - n]
    BY <1>3 DEF u
  <2> QED
    BY <2>1, <2>2
<1>6. ASSUME NEW i \in 1 .. m PROVE u[n + i] = t[i]
  <2> DEFINE k == n + i
  <2>1. k \in 1 .. n + m /\ ~(k <= n) /\ k - n = i
    BY <1>4
  <2> HIDE DEF k
  <2>2. u[k] = t[i]
    BY <1>3, <2>1 DEF u
  <2> QED
    BY <2>2 DEF k
<1>7. ASSUME NEW i \in 1 .. n + m, i \notin 1 .. n
      PROVE  \E j \in 1 .. m : i = n + j
  <2>1. i - n \in 1 .. m /\ i = n + (i - n)
    BY <1>4, <1>7
  <2> QED
    BY <2>1
<1> QED
  BY <1>1, <1>2, <1>5, <1>6, <1>7 DEF n, m, u

\* Members of a sequence, by their places.
LEMMA CommitsIn ==
    ASSUME NEW s \in CommitSeqs
    PROVE  /\ Len(s) \in Nat /\ \A i \in 1 .. Len(s) : s[i] \in Commits /\ s[i] \in Range(s)
           /\ \A c : c \in Range(s) <=> \E i \in 1 .. Len(s) : c = s[i]
           /\ IsInjective(s) <=> \A i, j \in 1 .. Len(s) : s[i] = s[j] => i = j
           /\ Range(s) \subseteq Commits
<1>1. Len(s) \in Nat /\ DOMAIN s = 1 .. Len(s) /\ \A i \in 1 .. Len(s) : s[i] \in Commits
  BY DEF CommitSeqs
<1> QED
  BY <1>1 DEF Range, IsInjective

\* Below is closed, and has the commit.
LEMMA BelowIs ==
    ASSUME NEW h \in Histories, NEW c \in Commits
    PROVE  /\ c \in Below(h, c) /\ Below(h, c) \subseteq Commits
           /\ \A d \in Below(h, c) : Range(h[d]) \subseteq Below(h, c)
           /\ \A S \in SUBSET Commits :
                c \in S /\ (\A d \in S : Range(h[d]) \subseteq S) => Below(h, c) \subseteq S
<1>1. DOMAIN h = Commits /\ \A d \in Commits : Range(h[d]) \subseteq Commits
  BY HistoriesAre, CommitsIn
<1>2. \A S : S \in Closed(h) <=> S \in SUBSET Commits /\ \A d \in S : Range(h[d]) \subseteq S
  BY <1>1 DEF Closed
<1>3. \A d : d \in Below(h, c) <=> d \in Commits /\ \A S \in Closed(h) : c \in S => d \in S
  BY <1>1 DEF Below
<1>4. ASSUME NEW d \in Below(h, c), NEW e \in Range(h[d])
      PROVE  e \in Below(h, c)
  BY <1>1, <1>2, <1>3, <1>4
<1> QED
  BY <1>2, <1>3, <1>4

\* Each commit is met once, what is met is below the start, and what is listed has its
\* parents met.
Sound(h, start, w) ==
    LET met == Met(w) IN
    /\ IsInjective(met) /\ Range(met) \subseteq Below(h, start)
    /\ Len(met) >= 1 /\ met[1] = start
    /\ \A i \in 1 .. Len(w.listed) : Range(h[met[i]]) \subseteq Range(met)

\* A step of the walk meets only ancestors, each one once.
LEMMA SoundStays ==
    ASSUME NEW h \in Histories, NEW start \in Commits, NEW w \in WalkStates, w.queue # <<>>,
           Sound(h, start, w)
    PROVE  Sound(h, start, Advance(h, w))
<1> DEFINE met == Met(w)
           l == Len(w.listed)
           parents == h[met[l + 1]]
           after == Met(Advance(h, w))
<1>1. PICK new \in CommitSeqs :
         IsInjective(new) /\ Range(new) = Range(parents) \ Range(met) /\ Len(new) <= Len(parents)
         /\ after = met \o new
  BY AdvanceIs
<1>2. /\ met \in CommitSeqs /\ after \in CommitSeqs
      /\ l \in Nat /\ l + 1 \in 1 .. Len(met) /\ Len(Advance(h, w).listed) = l + 1
  BY AdvanceIs
<1>3. /\ IsInjective(met) /\ Range(met) \subseteq Below(h, start) /\ Len(met) >= 1 /\ met[1] = start
      /\ \A i \in 1 .. l : Range(h[met[i]]) \subseteq Range(met)
  BY DEF Sound
<1> HIDE DEF met, l, after
<1>4. /\ Len(met) \in Nat /\ Len(new) \in Nat /\ Len(after) = Len(met) + Len(new)
      /\ Range(after) = Range(met) \cup Range(new)
      /\ \A i \in 1 .. Len(met) : after[i] = met[i]
      /\ \A i \in 1 .. Len(new) : after[Len(met) + i] = new[i]
      /\ \A i \in 1 .. Len(after) : i \in 1 .. Len(met) \/ \E j \in 1 .. Len(new) : i = Len(met) + j
  BY <1>1, <1>2, JoinedMembers
<1>5. IsInjective(after)
  <2>1. /\ \A i, j \in 1 .. Len(met) : met[i] = met[j] => i = j
        /\ \A i, j \in 1 .. Len(new) : new[i] = new[j] => i = j
        /\ \A i \in 1 .. Len(met) : met[i] \in Range(met)
        /\ \A i \in 1 .. Len(new) : new[i] \in Range(new)
    BY <1>1, <1>2, <1>3, CommitsIn
  <2>2. ASSUME NEW i \in 1 .. Len(after), NEW j \in 1 .. Len(after), after[i] = after[j]
        PROVE  i = j
    <3>1. \A x \in 1 .. Len(met), y \in 1 .. Len(new) : met[x] # new[y]
      BY <1>1, <2>1
    <3>2. CASE i \in 1 .. Len(met) /\ j \in 1 .. Len(met)
      BY <1>4, <2>1, <2>2, <3>2
    <3>3. CASE i \in 1 .. Len(met) /\ \E y \in 1 .. Len(new) : j = Len(met) + y
      BY <1>4, <2>2, <3>1, <3>3
    <3>4. CASE j \in 1 .. Len(met) /\ \E y \in 1 .. Len(new) : i = Len(met) + y
      BY <1>4, <2>2, <3>1, <3>4
    <3>5. CASE /\ \E y \in 1 .. Len(new) : i = Len(met) + y
               /\ \E y \in 1 .. Len(new) : j = Len(met) + y
      BY <1>4, <2>1, <2>2, <3>5
    <3> QED
      BY <1>4, <3>2, <3>3, <3>4, <3>5
  <2> QED
    BY <1>2, <2>2, CommitsIn
<1>6. met[l + 1] \in Below(h, start)
  BY <1>2, <1>3, CommitsIn
<1>7. Range(after) \subseteq Below(h, start)
  BY <1>1, <1>3, <1>4, <1>6, BelowIs
<1>8. ASSUME NEW i \in 1 .. l + 1
      PROVE  Range(h[after[i]]) \subseteq Range(after)
  <2>1. i \in 1 .. Len(met) /\ after[i] = met[i]
    BY <1>2, <1>4
  <2>2. CASE i \in 1 .. l
    BY <1>3, <1>4, <2>1, <2>2
  <2>3. CASE i = l + 1
    BY <1>1, <1>4, <2>1, <2>3
  <2> QED
    BY <1>2, <2>2, <2>3
<1>9. Len(after) >= 1 /\ after[1] = start
  <2>1. 1 \in 1 .. Len(met)
    BY <1>3, <1>4
  <2> QED
    BY <1>3, <1>4, <2>1
<1> QED
  BY <1>2, <1>5, <1>7, <1>8, <1>9 DEF Sound, after

\* While the commits met are in a set of commits with one parent each, each is the
\* parent of the one before it.
InLine(h, only, w) ==
    LET met == Met(w)
        l == Len(w.listed)
    IN /\ (\A i \in 1 .. l : met[i] \in only) => Len(met) <= l + 1
       /\ \A i \in 1 .. l : (\A a \in 1 .. i : met[a] \in only) /\ i < Len(met) =>
              met[i + 1] \in Range(h[met[i]])

\* A step of the walk along single parents goes to the one parent.
LEMMA InLineStays ==
    ASSUME NEW h \in Histories, NEW only \in SUBSET Commits, \A c \in only : Len(h[c]) <= 1,
           NEW w \in WalkStates, w.queue # <<>>, InLine(h, only, w)
    PROVE  InLine(h, only, Advance(h, w))
<1> DEFINE met == Met(w)
           l == Len(w.listed)
           parents == h[met[l + 1]]
           after == Met(Advance(h, w))
<1>1. PICK new \in CommitSeqs :
         IsInjective(new) /\ Range(new) = Range(parents) \ Range(met) /\ Len(new) <= Len(parents)
         /\ after = met \o new
  BY AdvanceIs
<1>2. /\ met \in CommitSeqs /\ after \in CommitSeqs
      /\ l \in Nat /\ l + 1 \in 1 .. Len(met) /\ Len(Advance(h, w).listed) = l + 1
  BY AdvanceIs
<1>3. /\ (\A i \in 1 .. l : met[i] \in only) => Len(met) <= l + 1
      /\ \A i \in 1 .. l : (\A a \in 1 .. i : met[a] \in only) /\ i < Len(met) =>
              met[i + 1] \in Range(h[met[i]])
  BY DEF InLine
<1> HIDE DEF met, l, after
<1>4. /\ Len(met) \in Nat /\ Len(new) \in Nat /\ Len(after) = Len(met) + Len(new)
      /\ \A i \in 1 .. Len(met) : after[i] = met[i]
      /\ \A i \in 1 .. Len(new) : after[Len(met) + i] = new[i]
  BY <1>1, <1>2, JoinedMembers
<1>5. met[l + 1] \in Commits /\ Len(parents) \in Nat
  <2>1. met[l + 1] \in Commits
    BY <1>2, CommitsIn
  <2> QED
    BY <2>1, HistoriesAre, CommitsIn
<1>6. ASSUME \A i \in 1 .. l + 1 : after[i] \in only
      PROVE  Len(met) = l + 1 /\ Len(new) <= 1
  <2>1. \A i \in 1 .. l + 1 : i \in 1 .. Len(met) /\ met[i] \in only
    BY <1>2, <1>4, <1>6
  <2>2. \A i \in 1 .. l : i \in 1 .. l + 1
    BY <1>2
  <2>3. l + 1 \in 1 .. l + 1
    BY <1>2
  <2>4. Len(parents) <= 1
    BY <2>1, <2>3
  <2> QED
    BY <1>1, <1>2, <1>3, <1>4, <1>5, <2>1, <2>2, <2>4
<1>7. (\A i \in 1 .. l + 1 : after[i] \in only) => Len(after) <= l + 1 + 1
  BY <1>2, <1>4, <1>6
<1>8. ASSUME NEW i \in 1 .. l + 1, \A a \in 1 .. i : after[a] \in only, i < Len(after)
      PROVE  after[i + 1] \in Range(h[after[i]])
  <2>1. CASE i \in 1 .. l
    <3>1. i \in 1 .. Len(met) /\ i + 1 \in 1 .. Len(met) /\ i < Len(met)
          /\ \A a \in 1 .. i : a \in 1 .. Len(met)
      BY <1>2, <1>4, <2>1
    <3>2. \A a \in 1 .. i : met[a] \in only
      BY <1>4, <1>8, <3>1
    <3>3. met[i + 1] \in Range(h[met[i]])
      BY <1>3, <2>1, <3>1, <3>2
    <3> QED
      BY <1>4, <3>1, <3>3
  <2>2. CASE i = l + 1
    <3>1. Len(met) = l + 1 /\ Len(new) <= 1
      BY <1>6, <1>8, <2>2
    <3>2. Len(new) = 1 /\ 1 \in 1 .. Len(new)
      <4>1. l + 1 < Len(after) /\ Len(after) = Len(met) + Len(new)
        BY <1>4, <1>8, <2>2
      <4>2. \A a, b \in Nat : b <= 1 /\ a < a + b => b = 1
        OBVIOUS
      <4>3. Len(met) < Len(met) + Len(new)
        BY <3>1, <4>1
      <4>4. Len(new) = 1
        BY <1>4, <3>1, <4>2, <4>3
      <4> QED
        BY <4>4
    <3>3. after[Len(met) + 1] = new[1] /\ new[1] \in Range(new)
      BY <1>4, <3>2, CommitsIn
    <3>4. after[i + 1] = new[1] /\ after[i] = met[l + 1]
      BY <1>2, <1>4, <2>2, <3>1, <3>3
    <3> QED
      BY <1>1, <3>3, <3>4
  <2> QED
    BY <1>2, <2>1, <2>2
<1> QED
  BY <1>2, <1>7, <1>8 DEF InLine, after

\* The ancestors within n steps are what their recursive definition says.
LEMMA WithinIs ==
    ASSUME NEW h \in Histories, NEW start \in Commits
    PROVE  LET near == Within(h, start) IN
           /\ near[0] = {start}
           /\ \A n \in 0 .. LogLen : near[n] \subseteq Commits
           /\ \A n \in 1 .. LogLen : near[n] = near[n - 1] \cup UNION {Range(h[p]) : p \in near[n - 1]}
<1> DEFINE top == LogLen
           V == SUBSET Commits
           near == Within(h, start)
           grow(v) == v \cup UNION {Range(h[p]) : p \in v}
           value(f, n) == IF n = 0 THEN {start} ELSE grow(f[n - 1])
           Step == [a \in (1 .. top) \X V |-> grow(a[2])]
<1>1. top \in Nat /\ {start} \in V
  BY HistoriesAre
<1>2. \A v \in V : grow(v) \in V
  <2>1. \A p \in Commits : Range(h[p]) \subseteq Commits
    BY HistoriesAre, CommitsIn
  <2> QED
    BY <2>1
<1>4. near = CHOOSE f : f = [n \in 0 .. top |-> value(f, n)]
  BY DEF Within
<1> HIDE DEF grow, V
<1>3. Step \in [(1 .. top) \X V -> V]
      /\ \A n \in 1 .. top, v \in V : Step[<<n, v>>] = grow(v)
  BY <1>2
<1>5. PICK f \in [0 .. top -> V] :
        f = [n \in 0 .. top |-> IF n = 0 THEN {start} ELSE Step[<<n, f[n - 1]>>]]
  <2> HIDE DEF Step, top
  <2> QED
    <3>1. Chains(V, {start}, top, Step) # {}
      BY <1>1, <1>3, NatRecursion
    <3> QED
      BY <3>1 DEF Chains
<1>6. f = [n \in 0 .. top |-> value(f, n)]
  <2>1. \A n \in 0 .. top : n # 0 => n \in 1 .. top /\ f[n - 1] \in V
    BY <1>1
  <2> HIDE DEF Step, top
  <2> QED
    BY <1>3, <1>5, <2>1
<1>7. near = [n \in 0 .. top |-> value(near, n)]
  <2> HIDE DEF value, top, Step, near
  <2> QED
    BY <1>4, <1>6
<1>8. /\ near[0] = {start}
      /\ \A n \in 1 .. top : near[n] = grow(near[n - 1])
  <2>1. \A n \in 0 .. top : near[n] = value(near, n)
    <3> HIDE DEF value, top, Step, near
    <3> QED
      BY <1>7
  <2> HIDE DEF near
  <2> QED
    BY <1>1, <2>1
<1> DEFINE S == {n \in Nat : n <= top => near[n] \in V}
<1>9. Nat \subseteq S
  <2> HIDE DEF near
  <2>1. 0 \in S
    BY <1>1, <1>8
  <2>2. ASSUME NEW n \in Nat, n \in S PROVE n + 1 \in S
    BY <1>1, <1>2, <1>8, <2>2
  <2> HIDE DEF S
  <2> QED
    BY <2>1, <2>2, NatSetInduction
<1> HIDE DEF near
<1>10. \A n \in 0 .. top : near[n] \in V
  BY <1>1, <1>9
<1> QED
  BY <1>8, <1>10 DEF near, grow, V

\* The commits are met in the order of how far they are: those within a number of steps
\* come before those that are not, and no commit met is more than a step farther than
\* the next one to list.
Nearer(h, start, w) ==
    LET met == Met(w)
        l == Len(w.listed)
        near == Within(h, start)
    IN /\ \A m \in 0 .. LogLen : \A i, j \in 1 .. Len(met) : i < j /\ met[j] \in near[m] => met[i] \in near[m]
       /\ \A m \in 1 .. LogLen : l + 1 \in 1 .. Len(met) /\ met[l + 1] \in near[m - 1] => Range(met) \subseteq near[m]

\* If a commit within k steps is not listed yet, the next one to list is within k steps.
LEMMA HeadIsNear ==
    ASSUME NEW h \in Histories, NEW start \in Commits, NEW w \in WalkStates, w.queue # <<>>,
           Sound(h, start, w), Nearer(h, start, w)
    PROVE  LET met == Met(w)
               l == Len(w.listed)
               near == Within(h, start)
           IN \A k \in 0 .. LogLen : \A p \in near[k] :
                 (\A i \in 1 .. l : met[i] # p) => met[l + 1] \in near[k]
<1> DEFINE met == Met(w)
           l == Len(w.listed)
           near == Within(h, start)
           S == {k \in Nat : k <= LogLen => \A p \in near[k] :
                                (\A i \in 1 .. l : met[i] # p) => met[l + 1] \in near[k]}
<1>1. met \in CommitSeqs /\ l \in Nat /\ l + 1 \in 1 .. Len(met) /\ Len(met) \in Nat
  BY AdvanceIs, CommitsIn
<1>2. /\ met[1] = start
      /\ \A i \in 1 .. l : Range(h[met[i]]) \subseteq Range(met)
  BY DEF Sound
<1>3. \A m \in 0 .. LogLen : \A i, j \in 1 .. Len(met) : i < j /\ met[j] \in near[m] => met[i] \in near[m]
  BY DEF Nearer
<1>4. /\ near[0] = {start}
      /\ \A n \in 1 .. LogLen : near[n] = near[n - 1] \cup UNION {Range(h[p]) : p \in near[n - 1]}
  BY WithinIs
<1>5. LogLen \in Nat
  BY HistoriesAre
<1>6. \A c : c \in Range(met) <=> \E i \in 1 .. Len(met) : c = met[i]
  BY <1>1, CommitsIn
<1> HIDE DEF met, l, near
<1>7. 0 \in S
  <2>1. ASSUME \A i \in 1 .. l : met[i] # start PROVE l = 0
    BY <1>1, <1>2, <2>1
  <2> QED
    BY <1>2, <1>4, <2>1
<1>8. ASSUME NEW k \in Nat, k \in S PROVE k + 1 \in S
  <2> SUFFICES ASSUME k + 1 <= LogLen, NEW p \in near[k + 1], \A i \in 1 .. l : met[i] # p
               PROVE  met[l + 1] \in near[k + 1]
    OBVIOUS
  <2>1. k + 1 \in 1 .. LogLen /\ k + 1 \in 0 .. LogLen /\ k <= LogLen
    BY <1>5
  <2>2. near[k + 1] = near[k] \cup UNION {Range(h[q]) : q \in near[k]}
    <3>1. k + 1 - 1 = k
      OBVIOUS
    <3> QED
      BY <1>4, <2>1, <3>1
  <2>3. \A q \in near[k] : (\A i \in 1 .. l : met[i] # q) => met[l + 1] \in near[k]
    BY <1>8, <2>1
  <2>4. CASE p \in near[k]
    BY <2>2, <2>3, <2>4
  <2>5. CASE \E q \in near[k] : p \in Range(h[q])
    <3>1. PICK q \in near[k] : p \in Range(h[q])
      BY <2>5
    <3>2. CASE \A i \in 1 .. l : met[i] # q
      BY <2>2, <2>3, <3>2
    <3>3. CASE \E i \in 1 .. l : met[i] = q
      <4>1. p \in Range(met)
        BY <1>2, <3>1, <3>3
      <4>2. PICK j \in 1 .. Len(met) : p = met[j]
        BY <1>6, <4>1
      <4>3. j = l + 1 \/ l + 1 < j
        BY <1>1, <4>2
      <4> QED
        BY <1>1, <1>3, <2>1, <4>2, <4>3
    <3> QED
      BY <3>2, <3>3
  <2> QED
    BY <2>2, <2>4, <2>5
<1>9. Nat \subseteq S
  <2> HIDE DEF S
  <2> QED
    BY <1>7, <1>8, NatSetInduction
<1> QED
  BY <1>5, <1>9 DEF met, l, near

\* A step of the walk keeps what it meets in order of distance.
LEMMA NearerStays ==
    ASSUME NEW h \in Histories, NEW start \in Commits, NEW w \in WalkStates, w.queue # <<>>,
           Sound(h, start, w), Nearer(h, start, w)
    PROVE  Nearer(h, start, Advance(h, w))
<1> DEFINE met == Met(w)
           l == Len(w.listed)
           near == Within(h, start)
           parents == h[met[l + 1]]
           after == Met(Advance(h, w))
<1>1. PICK new \in CommitSeqs :
         IsInjective(new) /\ Range(new) = Range(parents) \ Range(met) /\ Len(new) <= Len(parents)
         /\ after = met \o new
  BY AdvanceIs
<1>2. /\ met \in CommitSeqs /\ after \in CommitSeqs
      /\ l \in Nat /\ l + 1 \in 1 .. Len(met) /\ Len(Advance(h, w).listed) = l + 1
  BY AdvanceIs
<1>3. /\ Len(met) >= 1 /\ met[1] = start
      /\ \A i \in 1 .. l : Range(h[met[i]]) \subseteq Range(met)
  BY DEF Sound
<1>4. /\ \A m \in 0 .. LogLen : \A i, j \in 1 .. Len(met) : i < j /\ met[j] \in near[m] => met[i] \in near[m]
      /\ \A m \in 1 .. LogLen : l + 1 \in 1 .. Len(met) /\ met[l + 1] \in near[m - 1] => Range(met) \subseteq near[m]
  BY DEF Nearer
<1>5. /\ near[0] = {start}
      /\ \A n \in 1 .. LogLen : near[n] = near[n - 1] \cup UNION {Range(h[p]) : p \in near[n - 1]}
  BY WithinIs
<1>6. \A k \in 0 .. LogLen : \A p \in near[k] : (\A i \in 1 .. l : met[i] # p) => met[l + 1] \in near[k]
  BY HeadIsNear
<1>7. LogLen \in Nat
  BY HistoriesAre
<1> HIDE DEF met, l, near, after
<1>8. /\ Len(met) \in Nat /\ Len(new) \in Nat /\ Len(after) = Len(met) + Len(new)
      /\ Range(after) = Range(met) \cup Range(new)
      /\ \A i \in 1 .. Len(met) : after[i] = met[i]
      /\ \A i \in 1 .. Len(new) : after[Len(met) + i] = new[i]
      /\ \A i \in 1 .. Len(after) : i \in 1 .. Len(met) \/ \E j \in 1 .. Len(new) : i = Len(met) + j
  BY <1>1, <1>2, JoinedMembers
<1>9. /\ \A i \in 1 .. Len(met) : met[i] \in Range(met)
      /\ \A i \in 1 .. Len(new) : new[i] \in Range(new)
      /\ \A i \in 1 .. Len(after) : after[i] \in Range(after)
  BY <1>1, <1>2, CommitsIn
<1>10. ASSUME NEW m \in 1 .. LogLen, met[l + 1] \in near[m - 1]
       PROVE  Range(after) \subseteq near[m]
  <2>1. Range(met) \subseteq near[m]
    BY <1>2, <1>4, <1>10
  <2>2. Range(new) \subseteq near[m]
    BY <1>1, <1>5, <1>10
  <2> QED
    BY <1>8, <2>1, <2>2
<1>11. ASSUME NEW m \in 0 .. LogLen, NEW f \in Range(new), f \in near[m]
       PROVE  Range(after) \subseteq near[m]
  <2>1. f \notin Range(met) /\ \A i \in 1 .. l : i \in 1 .. Len(met) /\ met[i] # f
    BY <1>1, <1>2, <1>9
  <2>2. f # start
    <3>1. 1 \in 1 .. Len(met)
      BY <1>3, <1>8
    <3> QED
      BY <1>3, <1>9, <2>1, <3>1
  <2>3. m \in 1 .. LogLen /\ m - 1 \in 0 .. LogLen
    BY <1>5, <1>7, <1>11, <2>2
  <2>4. near[m] = near[m - 1] \cup UNION {Range(h[p]) : p \in near[m - 1]}
    BY <1>5, <2>3
  <2>5. met[l + 1] \in near[m - 1]
    <3>1. CASE f \in near[m - 1]
      BY <1>6, <2>1, <2>3, <3>1
    <3>2. CASE \E p \in near[m - 1] : f \in Range(h[p])
      <4>1. PICK p \in near[m - 1] : f \in Range(h[p])
        BY <3>2
      <4>2. \A i \in 1 .. l : met[i] # p
        BY <1>3, <2>1, <4>1
      <4> QED
        BY <1>6, <2>3, <4>1, <4>2
    <3> QED
      BY <1>11, <2>4, <3>1, <3>2
  <2> QED
    BY <1>10, <2>3, <2>5
<1>12. ASSUME NEW m \in 0 .. LogLen, NEW i \in 1 .. Len(after), NEW j \in 1 .. Len(after), i < j,
              after[j] \in near[m]
       PROVE  after[i] \in near[m]
  <2>1. CASE j \in 1 .. Len(met)
    <3>1. i \in 1 .. Len(met)
      BY <1>8, <1>12, <2>1
    <3> QED
      BY <1>4, <1>8, <1>12, <2>1, <3>1
  <2>2. CASE \E k \in 1 .. Len(new) : j = Len(met) + k
    <3>1. after[j] \in Range(new)
      BY <1>8, <1>9, <2>2
    <3>2. Range(after) \subseteq near[m]
      BY <1>11, <1>12, <3>1
    <3> QED
      BY <1>9, <3>2
  <2> QED
    BY <1>8, <2>1, <2>2
<1>13. ASSUME NEW m \in 1 .. LogLen, l + 1 + 1 \in 1 .. Len(after), after[l + 1 + 1] \in near[m - 1]
       PROVE  Range(after) \subseteq near[m]
  <2> DEFINE a == l + 1
             b == l + 1 + 1
  <2>1. a \in 1 .. Len(after) /\ b \in 1 .. Len(after) /\ a < b /\ m - 1 \in 0 .. LogLen
    BY <1>2, <1>7, <1>8, <1>13
  <2>2. after[b] \in near[m - 1]
    BY <1>13
  <2> HIDE DEF a, b
  <2>3. after[a] \in near[m - 1]
    BY <1>12, <2>1, <2>2
  <2>4. after[a] = met[l + 1]
    BY <1>2, <1>8 DEF a
  <2> QED
    BY <1>10, <2>3, <2>4
<1> QED
  BY <1>2, <1>12, <1>13 DEF Nearer, after, near

\* The walk, from its first commit on.
LEMMA WalkHolds ==
    ASSUME NEW h \in Histories, NEW start \in Commits,
           NEW only \in SUBSET Commits, \A c \in only : Len(h[c]) <= 1
    PROVE  \A n \in 0 .. LogLen :
             LET w == Walk(h, start)[n] IN
             /\ Sound(h, start, w) /\ Nearer(h, start, w) /\ InLine(h, only, w)
             /\ w.queue # <<>> => Len(w.listed) = n
<1> DEFINE walk == Walk(h, start)
           Good(n) == LET w == walk[n] IN
             /\ Sound(h, start, w) /\ Nearer(h, start, w) /\ InLine(h, only, w)
             /\ w.queue # <<>> => Len(w.listed) = n
           S == {n \in Nat : n <= LogLen => Good(n)}
<1>1. /\ walk[0] = [queue |-> <<start>>, listed |-> <<>>]
      /\ \A n \in 0 .. LogLen : walk[n] \in WalkStates
      /\ \A n \in 1 .. LogLen : walk[n] = Advance(h, walk[n - 1])
  BY WalkIs
<1>2. LogLen \in Nat
  BY HistoriesAre
<1> HIDE DEF walk
<1>3. 0 \in S
  <2> DEFINE w == walk[0]
  <2>1. w.listed = <<>> /\ w.queue = <<start>> /\ Len(w.listed) = 0
    BY <1>1
  <2>2. Met(w) = <<start>>
    BY <2>1 DEF Met
  <2>3. Met(w) \in CommitSeqs /\ Len(Met(w)) = 1 /\ Met(w)[1] = start /\ Range(Met(w)) = {start}
    <3>1. Met(w) \in CommitSeqs /\ Len(Met(w)) = 1 /\ Met(w)[1] = start
      BY <2>2 DEF CommitSeqs
    <3> QED
      BY <3>1, CommitsIn
  <2> HIDE DEF w
  <2>4. IsInjective(Met(w))
    BY <2>3, CommitsIn
  <2>5. Sound(h, start, w)
    BY <2>1, <2>3, <2>4, BelowIs DEF Sound
  <2>6. Nearer(h, start, w)
    <3> DEFINE near == Within(h, start)
    <3>1. /\ near[0] = {start}
          /\ \A n \in 1 .. LogLen : near[n] = near[n - 1] \cup UNION {Range(h[p]) : p \in near[n - 1]}
      BY WithinIs
    <3> HIDE DEF near
    <3>2. \A i, j \in 1 .. 1 : ~(i < j)
      OBVIOUS
    <3>3. \A m \in 1 .. LogLen : start \in near[m - 1] => {start} \subseteq near[m]
      BY <3>1
    <3>4. Met(w)[0 + 1] = start
      BY <2>3
    <3> QED
      BY <2>1, <2>3, <3>2, <3>3, <3>4 DEF Nearer, near
  <2>7. InLine(h, only, w)
    BY <2>1, <2>3 DEF InLine
  <2> QED
    BY <2>1, <2>5, <2>6, <2>7 DEF w
<1>4. ASSUME NEW n \in Nat, n \in S PROVE n + 1 \in S
  <2> SUFFICES ASSUME n + 1 <= LogLen PROVE Good(n + 1)
    OBVIOUS
  <2>1. n + 1 \in 1 .. LogLen /\ n \in 0 .. LogLen /\ n + 1 - 1 = n
    BY <1>2
  <2> DEFINE w == walk[n]
  <2>2. walk[n + 1] = Advance(h, w) /\ w \in WalkStates
    BY <1>1, <2>1
  <2>3. /\ Sound(h, start, w) /\ Nearer(h, start, w) /\ InLine(h, only, w)
        /\ w.queue # <<>> => Len(w.listed) = n
    BY <1>4, <2>1
  <2> HIDE DEF w
  <2>4. CASE w.queue = <<>>
    <3>1. walk[n + 1] = w
      BY <2>2, <2>4 DEF Advance
    <3> QED
      BY <2>3, <2>4, <3>1
  <2>5. CASE w.queue # <<>>
    <3>1. Len(Advance(h, w).listed) = n + 1
      BY <2>2, <2>3, <2>5, AdvanceIs
    <3>2. Sound(h, start, Advance(h, w)) /\ Nearer(h, start, Advance(h, w))
      BY <2>2, <2>3, <2>5, SoundStays, NearerStays
    <3>3. InLine(h, only, Advance(h, w))
      BY <2>2, <2>3, <2>5, InLineStays
    <3> QED
      BY <2>2, <3>1, <3>2, <3>3
  <2> QED
    BY <2>4, <2>5
<1>5. Nat \subseteq S
  <2> HIDE DEF S
  <2> QED
    BY <1>3, <1>4, NatSetInduction
<1> QED
  BY <1>2, <1>5 DEF walk

\* A sequence without repetitions has as many members as places.
LEMMA CountedOnce ==
    ASSUME NEW s \in CommitSeqs, IsInjective(s)
    PROVE  IsFiniteSet(Range(s)) /\ Cardinality(Range(s)) = Len(s)
<1> DEFINE places == 1 .. Len(s)
<1>1. Len(s) \in Nat /\ s \in [places -> Range(s)] /\ \A c \in Range(s) : \E i \in places : s[i] = c
  <2>1. DOMAIN s = places /\ s = [i \in places |-> s[i]] /\ Len(s) \in Nat
    BY DEF CommitSeqs
  <2> QED
    BY <2>1, CommitsIn
<1>2. s \in Injection(places, Range(s)) /\ s \in Surjection(places, Range(s))
  BY <1>1 DEF Injection, Surjection
<1>3. IsFiniteSet(places) /\ Cardinality(places) = Len(s)
  <2>1. 1 \in Int /\ Len(s) \in Int
    BY <1>1
  <2>2. IsFiniteSet(places) /\ Cardinality(places) = IF 1 > Len(s) THEN 0 ELSE Len(s) - 1 + 1
    BY <2>1, FS_Interval
  <2> QED
    BY <1>1, <2>2
<1> QED
  BY <1>2, <1>3, FS_Surjection

\* The whole walk lists what is below its first commit, each once, nearest first, and a
\* line of commits with one parent each in order.
LEMMA RevWalkIs ==
    ASSUME NEW h \in Histories, NEW start \in Commits
    PROVE  LET walk == RevWalk(h, start)
               near == Within(h, start)
           IN /\ walk \in CommitSeqs /\ IsInjective(walk) /\ Range(walk) = Below(h, start)
              /\ Len(walk) >= 1 /\ Len(walk) <= LogLen /\ walk[1] = start
              /\ \A m \in 0 .. LogLen : \A i, j \in 1 .. Len(walk) :
                    i < j /\ walk[j] \in near[m] => walk[i] \in near[m]
              /\ \A only \in SUBSET Commits : (\A c \in only : Len(h[c]) <= 1) =>
                    \A i \in 1 .. Len(walk) : (\A a \in 1 .. i : walk[a] \in only) /\ i < Len(walk) =>
                        walk[i + 1] \in Range(h[walk[i]])
<1> DEFINE w == Walk(h, start)[LogLen]
           walk == RevWalk(h, start)
           near == Within(h, start)
<1>1. LogLen \in Nat /\ LogLen \in 0 .. LogLen /\ Len(h) = LogLen
  BY HistoriesAre
<1>2. walk = w.listed
  BY <1>1 DEF RevWalk
<1>3. w \in WalkStates
  BY <1>1, WalkIs
<1>4. ASSUME NEW only \in SUBSET Commits, \A c \in only : Len(h[c]) <= 1
      PROVE  /\ Sound(h, start, w) /\ Nearer(h, start, w) /\ InLine(h, only, w)
             /\ w.queue # <<>> => Len(w.listed) = LogLen
  BY <1>1, <1>4, WalkHolds
<1>5. /\ Sound(h, start, w) /\ Nearer(h, start, w)
      /\ w.queue # <<>> => Len(w.listed) = LogLen
  <2>1. {} \in SUBSET Commits /\ \A c \in {} : Len(h[c]) <= 1
    OBVIOUS
  <2> QED
    BY <1>4, <2>1
<1> HIDE DEF w, walk, near
<1>6. Met(w) \in CommitSeqs /\ walk \in CommitSeqs /\ w.queue \in CommitSeqs
  <2>1. w.listed \in CommitSeqs /\ w.queue \in CommitSeqs
    BY <1>3 DEF WalkStates
  <2> QED
    BY <1>2, <2>1, ConcatProperties DEF Met, CommitSeqs
<1>7. Range(Met(w)) \subseteq Commits /\ IsInjective(Met(w))
  BY <1>5, <1>6, CommitsIn DEF Sound
<1>8. IsFiniteSet(Commits) /\ Cardinality(Commits) = LogLen
  <2>1. 1 \in Int /\ LogLen \in Int
    BY <1>1
  <2>2. IsFiniteSet(Commits) /\ Cardinality(Commits) = IF 1 > LogLen THEN 0 ELSE LogLen - 1 + 1
    BY <2>1, FS_Interval DEF Commits
  <2> QED
    BY <1>1, <2>2
<1>9. Len(Met(w)) <= LogLen
  <2>1. Cardinality(Range(Met(w))) = Len(Met(w))
    BY <1>6, <1>7, CountedOnce
  <2>2. Cardinality(Range(Met(w))) <= Cardinality(Commits)
    BY <1>7, <1>8, FS_Subset
  <2> QED
    BY <1>8, <2>1, <2>2
<1>10. w.queue = <<>>
  <2> SUFFICES ASSUME w.queue # <<>> PROVE FALSE
    OBVIOUS
  <2>1. Len(Met(w)) = Len(w.listed) + Len(w.queue)
    BY <1>2, <1>6, JoinedMembers DEF Met
  <2>2. Len(w.queue) \in Nat /\ Len(w.queue) >= 1
    BY <1>6 DEF CommitSeqs
  <2>3. Len(w.listed) = LogLen
    BY <1>5
  <2> QED
    BY <1>1, <1>9, <2>1, <2>2, <2>3
<1>11. Met(w) = walk
  BY <1>2, <1>6, <1>10, ConcatEmptySeq DEF Met, CommitSeqs
<1>12. /\ Range(walk) \subseteq Below(h, start) /\ Len(walk) >= 1 /\ walk[1] = start
       /\ \A i \in 1 .. Len(walk) : Range(h[walk[i]]) \subseteq Range(walk)
  BY <1>2, <1>5, <1>11 DEF Sound
<1>13. Below(h, start) \subseteq Range(walk)
  <2>1. start \in Range(walk) /\ Range(walk) \subseteq Commits
    BY <1>6, <1>12, CommitsIn
  <2>2. \A d \in Range(walk) : Range(h[d]) \subseteq Range(walk)
    BY <1>6, <1>12, CommitsIn
  <2> QED
    BY <2>1, <2>2, BelowIs
<1>14. \A m \in 0 .. LogLen : \A i, j \in 1 .. Len(walk) :
           i < j /\ walk[j] \in near[m] => walk[i] \in near[m]
  BY <1>5, <1>11 DEF Nearer, near
<1>15. ASSUME NEW only \in SUBSET Commits, \A c \in only : Len(h[c]) <= 1
       PROVE  \A i \in 1 .. Len(walk) : (\A a \in 1 .. i : walk[a] \in only) /\ i < Len(walk) =>
                  walk[i + 1] \in Range(h[walk[i]])
  BY <1>2, <1>4, <1>11, <1>15 DEF InLine
<1>16. Len(walk) <= LogLen
  BY <1>9, <1>11
<1> QED
  BY <1>6, <1>7, <1>11, <1>12, <1>13, <1>14, <1>15, <1>16 DEF walk, near

\* A page is the part of the walk after the skip, as long as the limit allows.
LEMMA PageIs ==
    ASSUME NEW walk \in CommitSeqs, NEW limit \in Nat, NEW skip \in Nat
    PROVE  LET page == Page(walk, limit, skip) IN
           /\ page \in CommitSeqs
           /\ Len(page) = IF skip + limit < Len(walk) THEN limit
                          ELSE IF skip < Len(walk) THEN Len(walk) - skip ELSE 0
           /\ \A x \in 1 .. Len(page) : /\ skip + x \in 1 .. Len(walk) /\ x <= limit
                                       /\ page[x] = walk[skip + x]
           /\ \A k \in 1 .. Len(walk) : skip < k /\ k <= skip + limit =>
                 k - skip \in 1 .. Len(page) /\ page[k - skip] = walk[k]
<1> DEFINE page == Page(walk, limit, skip)
           len == Len(walk)
           m == skip + 1
           top == IF skip + limit < len THEN skip + limit ELSE len
<1>1. len \in Nat /\ \A i \in 1 .. len : walk[i] \in Commits
  BY CommitsIn
<1>2. page = SubSeq(walk, m, top)
  BY DEF Page
<1> HIDE DEF page, len
<1>3. m \in Int /\ top \in Int /\ \A i \in m .. top : i \in 1 .. len
  BY <1>1
<1> HIDE DEF m, top
<1>4. /\ page \in Seq(Commits)
      /\ Len(page) = IF m <= top THEN top - m + 1 ELSE 0
      /\ \A i \in 1 .. top - m + 1 : page[i] = walk[m + i - 1]
  <2>1. \A i \in m .. top : walk[i] \in Commits
    BY <1>1, <1>3
  <2> QED
    BY <1>2, <1>3, <2>1, SubSeqProperties
<1>5. Len(page) = IF skip + limit < len THEN limit ELSE IF skip < len THEN len - skip ELSE 0
  BY <1>1, <1>4 DEF m, top
<1>6. ASSUME NEW x \in 1 .. Len(page)
      PROVE  skip + x \in 1 .. len /\ x <= limit /\ page[x] = walk[skip + x]
  <2>1. x \in 1 .. top - m + 1 /\ m + x - 1 = skip + x /\ skip + x \in 1 .. len /\ x <= limit
    BY <1>1, <1>5 DEF m, top
  <2> QED
    BY <1>4, <2>1
<1>7. ASSUME NEW k \in 1 .. len, skip < k, k <= skip + limit
      PROVE  k - skip \in 1 .. Len(page) /\ page[k - skip] = walk[k]
  <2> DEFINE x == k - skip
  <2>1. x \in 1 .. Len(page) /\ skip + x = k
    BY <1>1, <1>5, <1>7
  <2> HIDE DEF x
  <2>2. page[x] = walk[skip + x]
    BY <1>6, <2>1
  <2> QED
    BY <2>1, <2>2 DEF x
<1> QED
  BY <1>4, <1>5, <1>6, <1>7 DEF page, len, CommitSeqs

\* A page of a walk without repetitions has none.
LEMMA PageOnce ==
    ASSUME NEW walk \in CommitSeqs, NEW limit \in Nat, NEW skip \in Nat, IsInjective(walk)
    PROVE  IsInjective(Page(walk, limit, skip))
<1> DEFINE page == Page(walk, limit, skip)
<1>1. /\ page \in CommitSeqs
      /\ \A x \in 1 .. Len(page) : skip + x \in 1 .. Len(walk) /\ page[x] = walk[skip + x]
  BY PageIs
<1>2. \A i, j \in 1 .. Len(walk) : walk[i] = walk[j] => i = j
  BY CommitsIn
<1> HIDE DEF page
<1>3. ASSUME NEW x \in 1 .. Len(page), NEW y \in 1 .. Len(page), page[x] = page[y]
      PROVE  x = y
  <2>1. skip + x = skip + y
    BY <1>1, <1>2, <1>3
  <2> QED
    BY <2>1
<1> QED
  BY <1>1, <1>3, CommitsIn DEF page

\* A page of the log has the commits of its part of the walk that pass the filter.
LEMMA GetLogIs ==
    ASSUME NEW h \in Histories, NEW start \in Commits, NEW limit \in Nat, NEW skip \in Nat, NEW lookup
    PROVE  LET page == GetLog(h, start, limit, skip, lookup)
               walk == RevWalk(h, start)
               size == IF limit = 0 THEN Len(walk) ELSE limit
           IN /\ page \in CommitSeqs /\ IsInjective(page)
              /\ \A c \in Range(page) : \E k \in 1 .. Len(walk) : c = walk[k] /\ skip < k /\ k <= skip + size
              /\ \A k \in 1 .. Len(walk) : skip < k /\ k <= skip + size /\ lookup[walk[k]] = "found" =>
                    walk[k] \in Range(page)
<1> DEFINE walk == RevWalk(h, start)
           size == IF limit = 0 THEN Len(walk) ELSE limit
           part == Page(walk, size, skip)
           passing == {c \in DOMAIN h : TouchesPath(lookup[c])}
           page == GetLog(h, start, limit, skip, lookup)
<1>1. walk \in CommitSeqs /\ IsInjective(walk)
  BY RevWalkIs
<1>2. page = Keep(part, passing)
  BY DEF GetLog
<1> HIDE DEF walk
<1>3. size \in Nat
  BY <1>1, CommitsIn
<1> HIDE DEF size
<1>4. /\ part \in CommitSeqs /\ IsInjective(part)
      /\ \A x \in 1 .. Len(part) : /\ skip + x \in 1 .. Len(walk) /\ x <= size
                                  /\ part[x] = walk[skip + x]
      /\ \A k \in 1 .. Len(walk) : skip < k /\ k <= skip + size =>
            k - skip \in 1 .. Len(part) /\ part[k - skip] = walk[k]
  BY <1>1, <1>3, PageIs, PageOnce
<1> HIDE DEF part, passing, page
<1>5. page \in CommitSeqs /\ IsInjective(page) /\ Range(page) = Range(part) \cap passing
  BY <1>2, <1>4, KeepsMembers DEF CommitSeqs
<1>6. ASSUME NEW c \in Range(page)
      PROVE  \E k \in 1 .. Len(walk) : c = walk[k] /\ skip < k /\ k <= skip + size
  <2>1. PICK x \in 1 .. Len(part) : c = part[x]
    BY <1>4, <1>5, <1>6, CommitsIn
  <2>2. skip + x \in 1 .. Len(walk) /\ c = walk[skip + x] /\ skip < skip + x /\ skip + x <= skip + size
    BY <1>3, <1>4, <2>1
  <2> QED
    BY <2>2
<1>7. ASSUME NEW k \in 1 .. Len(walk), skip < k, k <= skip + size, lookup[walk[k]] = "found"
      PROVE  walk[k] \in Range(page)
  <2>1. walk[k] \in passing
    <3>1. walk[k] \in Commits
      BY <1>1, CommitsIn
    <3> QED
      BY <1>7, <3>1, HistoriesAre DEF passing, TouchesPath
  <2>2. walk[k] \in Range(part)
    BY <1>4, <1>7, CommitsIn
  <2> QED
    BY <1>5, <2>1, <2>2
<1> QED
  BY <1>5, <1>6, <1>7 DEF page, walk, size

\* Pages do not overlap, and as many as there are commits cover them.
LEMMA PagesApart ==
    ASSUME NEW limit \in Nat, NEW i \in Nat, NEW j \in Nat, NEW k \in Nat,
           (i - 1) * limit < k, k <= (i - 1) * limit + limit,
           (j - 1) * limit < k, k <= (j - 1) * limit + limit
    PROVE  i = j
<1>1. ASSUME NEW a \in Int, NEW b \in Int, a < b
      PROVE  a * limit + limit <= b * limit
  <2>1. b = a + 1 + (b - a - 1) /\ b - a - 1 >= 0 /\ b - a - 1 \in Int
    BY <1>1
  <2>2. \A d \in Nat : (a + 1 + d) * limit = a * limit + limit + d * limit /\ d * limit >= 0
    OBVIOUS
  <2> QED
    BY <2>1, <2>2
<1>2. i - 1 \in Int /\ j - 1 \in Int /\ (i - 1) * limit \in Int /\ (j - 1) * limit \in Int
  OBVIOUS
<1>3. ~(i - 1 < j - 1)
  BY <1>1, <1>2
<1>4. ~(j - 1 < i - 1)
  BY <1>1, <1>2
<1> QED
  BY <1>3, <1>4

\* Every place of the log is on a page.
LEMMA PagesCover ==
    ASSUME NEW limit \in Nat, limit > 0
    PROVE  \A k \in Nat : k >= 1 => \E i \in 1 .. k : (i - 1) * limit < k /\ k <= (i - 1) * limit + limit
<1> DEFINE S == {k \in Nat : k >= 1 => \E i \in 1 .. k : (i - 1) * limit < k /\ k <= (i - 1) * limit + limit}
<1>1. 0 \in S
  OBVIOUS
<1>2. ASSUME NEW k \in Nat, k \in S PROVE k + 1 \in S
  <2>1. CASE k = 0
    <3>1. 1 \in 1 .. 0 + 1 /\ (1 - 1) * limit = 0
      OBVIOUS
    <3> QED
      BY <2>1, <3>1
  <2>2. CASE k >= 1
    <3>1. PICK i \in 1 .. k : (i - 1) * limit < k /\ k <= (i - 1) * limit + limit
      BY <1>2, <2>2
    <3> DEFINE done == (i - 1) * limit
    <3>2. (i + 1 - 1) * limit = done + limit /\ done \in Int
      OBVIOUS
    <3> HIDE DEF done
    <3>3. CASE k + 1 <= done + limit
      BY <3>1, <3>2, <3>3 DEF done
    <3>4. CASE ~(k + 1 <= done + limit)
      <4>1. i + 1 \in 1 .. k + 1
        OBVIOUS
      <4>2. done + limit < k + 1 /\ k + 1 <= done + limit + limit
        BY <3>1, <3>2, <3>4 DEF done
      <4> DEFINE e == i + 1
      <4>3. e \in 1 .. k + 1 /\ (e - 1) * limit = done + limit
        BY <3>2, <4>1
      <4> HIDE DEF e
      <4>4. (e - 1) * limit < k + 1 /\ k + 1 <= (e - 1) * limit + limit
        BY <4>2, <4>3
      <4> QED
        BY <4>3, <4>4
    <3> QED
      BY <3>3, <3>4
  <2> QED
    BY <2>1, <2>2
<1> HIDE DEF S
<1>3. Nat \subseteq S
  BY <1>1, <1>2, NatSetInduction
<1> QED
  BY <1>3 DEF S

\* The answer to a log is set by the log alone.
LEMMA LogRuns ==
    ASSUME [Next]_vars, Done("log")'
    PROVE  (Done("log") /\ UNCHANGED vars) \/ ReadLog
BY DEF Next, vars, Done, Glob, RefGlob, Diff, PreviewMerge, PreviewPick, PreviewSeries, ReadLog,
       ReadAncestors, PreviewRebase, ReadTree, DiffOfTrees

\* A log is of a history, from a commit of it, in pages of a size.
LEMMA LogInputs ==
    ASSUME input \in Inputs, input.kind = "log"
    PROVE  input.parents \in Histories /\ input.start \in Commits /\ input.limit \in Nat
BY InputAssumption DEF Inputs, ReadInputs, Commits

\* The pages of the log of any history hold every commit of it once, whatever the page
\* size, and under a path filter none is missing that has the path (commits.rs:50-97).
THEOREM LogsHold == Spec => []LogPagesComplete
<1>1. Init => LogPagesComplete
  BY DEF Init, LogPagesComplete, Done, Pending
<1>2. ASSUME input \in Inputs, LogPagesComplete, [Next]_vars
      PROVE  LogPagesComplete'
  <2>1. CASE UNCHANGED vars
    <3>1. LogPagesComplete' <=> LogPagesComplete
      BY <2>1 DEF LogPagesComplete, vars, Done
    <3> QED
      BY <1>2, <3>1
  <2>2. CASE ReadLog
    <3> DEFINE h == input.parents
               start == input.start
               limit == input.limit
               lookup == input.lookup
               pages == IF limit = 0 THEN 1 ELSE LogLen
               walk == RevWalk(h, start)
               size == IF limit = 0 THEN Len(walk) ELSE limit
               page == [i \in 1 .. pages |-> GetLog(h, start, limit, (i - 1) * limit, lookup)]
               own == Below(h, start)
               found(i, k) == (i - 1) * limit < k /\ k <= (i - 1) * limit + size
    <3>1. input' = input /\ output'[1] = page
      BY <2>2 DEF ReadLog
    <3>2. h \in Histories /\ start \in Commits /\ limit \in Nat /\ LogLen \in Nat /\ LogLen >= 1
      <4>1. h \in Histories /\ start \in Commits /\ limit \in Nat
        BY <1>2, <2>2, LogInputs DEF ReadLog
      <4>2. LogLen \in Nat /\ start \in 1 .. LogLen
        BY <4>1, HistoriesAre DEF Commits
      <4> QED
        BY <4>1, <4>2
    <3>3. /\ walk \in CommitSeqs /\ IsInjective(walk) /\ Range(walk) = own
          /\ Len(walk) >= 1 /\ Len(walk) <= LogLen /\ Len(walk) \in Nat
          /\ \A k \in 1 .. Len(walk) : walk[k] \in own
          /\ \A c \in own : \E k \in 1 .. Len(walk) : c = walk[k]
          /\ \A i, j \in 1 .. Len(walk) : walk[i] = walk[j] => i = j
      <4>1. /\ walk \in CommitSeqs /\ IsInjective(walk) /\ Range(walk) = own
            /\ Len(walk) >= 1 /\ Len(walk) <= LogLen
        BY <3>2, RevWalkIs
      <4> HIDE DEF walk, own
      <4> QED
        BY <4>1, CommitsIn
    <3>4. \A i \in 1 .. pages :
            /\ page[i] \in CommitSeqs /\ IsInjective(page[i])
            /\ \A c \in Range(page[i]) : \E k \in 1 .. Len(walk) : c = walk[k] /\ found(i, k)
            /\ \A k \in 1 .. Len(walk) : found(i, k) /\ lookup[walk[k]] = "found" => walk[k] \in Range(page[i])
      <4> SUFFICES ASSUME NEW i \in 1 .. pages
                   PROVE  /\ page[i] \in CommitSeqs /\ IsInjective(page[i])
                          /\ \A c \in Range(page[i]) : \E k \in 1 .. Len(walk) : c = walk[k] /\ found(i, k)
                          /\ \A k \in 1 .. Len(walk) : found(i, k) /\ lookup[walk[k]] = "found" =>
                                walk[k] \in Range(page[i])
        OBVIOUS
      <4>1. i - 1 \in Nat
        BY <3>2
      <4>2. \A a, b \in Nat : a * b \in Nat
        OBVIOUS
      <4> DEFINE skip == (i - 1) * limit
      <4>3. skip \in Nat
        BY <3>2, <4>1, <4>2
      <4>4. page[i] = GetLog(h, start, limit, skip, lookup)
        OBVIOUS
      <4> HIDE DEF skip, h, start, limit, lookup, page
      <4>5. /\ page[i] \in CommitSeqs /\ IsInjective(page[i])
            /\ \A c \in Range(page[i]) : \E k \in 1 .. Len(walk) : c = walk[k] /\ skip < k /\ k <= skip + size
            /\ \A k \in 1 .. Len(walk) : skip < k /\ k <= skip + size /\ lookup[walk[k]] = "found" =>
                  walk[k] \in Range(page[i])
        BY <3>2, <4>3, <4>4, GetLogIs
      <4> QED
        BY <4>5 DEF skip
    <3>5. DOMAIN page = 1 .. pages /\ \A i \in 1 .. pages : DOMAIN page[i] = 1 .. Len(page[i])
      <4>1. DOMAIN page = 1 .. pages
        OBVIOUS
      <4>2. \A s \in CommitSeqs : DOMAIN s = 1 .. Len(s)
        BY DEF CommitSeqs
      <4> HIDE DEF page, pages, walk, found
      <4> QED
        BY <3>4, <4>1, <4>2
    <3>6. \A i, j \in 1 .. pages : \A k \in 1 .. Len(walk) : found(i, k) /\ found(j, k) => i = j
      <4>1. CASE limit = 0
        BY <4>1
      <4>2. CASE limit # 0
        <5>1. pages = LogLen /\ size = limit
          BY <4>2
        <5> HIDE DEF h, start, walk, limit
        <5> SUFFICES ASSUME NEW i \in 1 .. pages, NEW j \in 1 .. pages, NEW k \in 1 .. Len(walk),
                            found(i, k), found(j, k)
                     PROVE  i = j
          OBVIOUS
        <5>2. i \in Nat /\ j \in Nat /\ k \in Nat /\ limit \in Nat
          BY <3>2, <3>3, <5>1
        <5>3. /\ (i - 1) * limit < k /\ k <= (i - 1) * limit + limit
              /\ (j - 1) * limit < k /\ k <= (j - 1) * limit + limit
          BY <5>1
        <5> HIDE DEF found, pages, size
        <5> QED
          BY <5>2, <5>3, PagesApart
      <4> QED
        BY <4>1, <4>2
    <3>7. \A k \in 1 .. Len(walk) : \E i \in 1 .. pages : found(i, k)
      <4>1. CASE limit = 0
        <5>1. pages = 1 /\ size = Len(walk) /\ (1 - 1) * limit = 0
          BY <4>1
        <5> HIDE DEF walk, h, start, limit, size, pages
        <5>2. \A k \in 1 .. Len(walk) : found(1, k)
          BY <3>3, <5>1
        <5>3. 1 \in 1 .. pages
          BY <5>1
        <5> HIDE DEF found
        <5> QED
          BY <5>2, <5>3
      <4>2. CASE limit # 0
        <5>1. pages = LogLen /\ size = limit
          BY <4>2
        <5>2. limit \in Nat /\ limit > 0
          BY <3>2, <4>2
        <5> HIDE DEF walk, h, start, limit, size, pages
        <5>3. ASSUME NEW k \in 1 .. Len(walk)
              PROVE  \E i \in 1 .. pages : (i - 1) * limit < k /\ k <= (i - 1) * limit + limit
          <6>1. k \in Nat /\ k >= 1
            BY <3>3
          <6>2. PICK i \in 1 .. k : (i - 1) * limit < k /\ k <= (i - 1) * limit + limit
            BY <5>2, <6>1, PagesCover
          <6>3. i \in 1 .. pages
            BY <3>2, <3>3, <5>1
          <6> QED
            BY <6>2, <6>3
        <5> QED
          BY <5>1, <5>3
      <4> QED
        BY <4>1, <4>2
    <3> HIDE DEF h, start, limit, lookup, pages, walk, size, page, own, found
    <3> DEFINE entries == UNION {{i} \X DOMAIN page[i] : i \in DOMAIN page}
               listed == {page[e[1]][e[2]] : e \in entries}
    <3>8. \A e \in entries : /\ e = <<e[1], e[2]>> /\ e[1] \in 1 .. pages /\ e[2] \in 1 .. Len(page[e[1]])
                             /\ page[e[1]][e[2]] \in Range(page[e[1]])
      <4>1. \A e \in entries : e = <<e[1], e[2]>> /\ e[1] \in 1 .. pages /\ e[2] \in DOMAIN page[e[1]]
        BY <3>5
      <4> HIDE DEF entries
      <4> QED
        BY <3>4, <3>5, <4>1, CommitsIn
    <3>9. \A i \in 1 .. pages : \A x \in 1 .. Len(page[i]) : page[i][x] \in listed
      <4>1. \A i \in 1 .. pages : \A x \in 1 .. Len(page[i]) : <<i, x>> \in entries
        BY <3>5
      <4>2. \A i, x : <<i, x>>[1] = i /\ <<i, x>>[2] = x
        OBVIOUS
      <4> HIDE DEF entries
      <4> SUFFICES ASSUME NEW i \in 1 .. pages, NEW x \in 1 .. Len(page[i]) PROVE page[i][x] \in listed
        OBVIOUS
      <4>3. PICK e \in entries : e = <<i, x>>
        BY <4>1
      <4>4. e[1] = i /\ e[2] = x
        BY <4>2, <4>3
      <4>5. page[e[1]][e[2]] \in listed
        OBVIOUS
      <4> QED
        BY <4>4, <4>5
    <3>10. listed \subseteq own
      <4> HIDE DEF entries
      <4>1. ASSUME NEW e \in entries
            PROVE  page[e[1]][e[2]] \in own
        <5>1. e[1] \in 1 .. pages /\ page[e[1]][e[2]] \in Range(page[e[1]])
          BY <3>8
        <5>2. PICK k \in 1 .. Len(walk) : page[e[1]][e[2]] = walk[k]
          BY <3>4, <5>1
        <5> QED
          BY <3>3, <5>2
      <4> QED
        BY <4>1
    <3>11. \A d, e \in entries : page[d[1]][d[2]] = page[e[1]][e[2]] => d = e
      <4> SUFFICES ASSUME NEW d \in entries, NEW e \in entries, page[d[1]][d[2]] = page[e[1]][e[2]]
                   PROVE  d = e
        OBVIOUS
      <4> HIDE DEF entries
      <4>1. PICK k \in 1 .. Len(walk) : page[d[1]][d[2]] = walk[k] /\ found(d[1], k)
        BY <3>4, <3>8
      <4>2. PICK n \in 1 .. Len(walk) : page[e[1]][e[2]] = walk[n] /\ found(e[1], n)
        BY <3>4, <3>8
      <4>3. k = n
        BY <3>3, <4>1, <4>2
      <4>4. d[1] = e[1]
        BY <3>6, <3>8, <4>1, <4>2, <4>3
      <4>5. d[2] = e[2]
        <5>1. \A i, j \in 1 .. Len(page[d[1]]) : page[d[1]][i] = page[d[1]][j] => i = j
          BY <3>4, <3>8, CommitsIn
        <5> QED
          BY <3>8, <4>4, <5>1
      <4> QED
        BY <3>8, <4>4, <4>5
    <3>12. ASSUME NEW c \in own, lookup[c] = "found"
           PROVE  c \in listed
      <4>1. PICK k \in 1 .. Len(walk) : c = walk[k]
        BY <3>3
      <4>2. PICK i \in 1 .. pages : found(i, k)
        BY <3>7
      <4>3. c \in Range(page[i])
        BY <3>4, <3>12, <4>1, <4>2
      <4>4. PICK x \in 1 .. Len(page[i]) : c = page[i][x]
        BY <3>4, <4>3, CommitsIn
      <4> QED
        BY <3>9, <4>4
    <3>13. /\ input'.parents = h /\ input'.start = start /\ input'.lookup = lookup
      BY <3>1 DEF h, start, lookup
    <3> QED
      BY <3>1, <3>10, <3>11, <3>12, <3>13 DEF LogPagesComplete, own
  <2>3. CASE ~Done("log")'
    BY <2>3 DEF LogPagesComplete
  <2> QED
    BY <1>2, <2>1, <2>2, <2>3, LogRuns
<1> QED
  BY <1>1, <1>2, InputStays, PTL DEF Spec

\* The answer to an ancestor question is set by the walk alone.
LEMMA AncestorRuns ==
    ASSUME [Next]_vars, Done("ancestors")'
    PROVE  (Done("ancestors") /\ UNCHANGED vars) \/ ReadAncestors
BY DEF Next, vars, Done, Glob, RefGlob, Diff, PreviewMerge, PreviewPick, PreviewSeries, ReadLog,
       ReadAncestors, PreviewRebase, ReadTree, DiffOfTrees

\* An ancestor question is about a commit of a history.
LEMMA AncestorInputs ==
    ASSUME input \in Inputs, input.kind = "ancestors"
    PROVE  input.parents \in Histories /\ input.start \in Commits /\ input.limit \in Nat
BY InputAssumption DEF Inputs, ReadInputs, Commits

\* What GetAncestors answers.
LEMMA AncestorsAre ==
    ASSUME NEW h \in Histories, NEW start \in Commits, NEW limit \in Nat
    PROVE  LET list == GetAncestors(h, start, limit)
               own == Below(h, start) \ {start}
               room == IF limit = 0 THEN AncestorLimit ELSE limit
           IN /\ IsInjective(list) /\ Range(list) \subseteq own
              /\ Len(list) = IF room < Cardinality(own) THEN room ELSE Cardinality(own)
              /\ \A n \in 0 .. LogLen :
                   LET near == Within(h, start)[n] IN
                   near \cap own \subseteq Range(list) \/ Range(list) \subseteq near
<1> DEFINE walk == RevWalk(h, start)
           room == IF limit = 0 THEN AncestorLimit ELSE limit
           list == GetAncestors(h, start, limit)
           own == Below(h, start) \ {start}
           near == Within(h, start)
<1>1. /\ walk \in CommitSeqs /\ IsInjective(walk) /\ Range(walk) = Below(h, start)
      /\ Len(walk) >= 1 /\ walk[1] = start
      /\ \A m \in 0 .. LogLen : \A i, j \in 1 .. Len(walk) :
            i < j /\ walk[j] \in near[m] => walk[i] \in near[m]
  BY RevWalkIs
<1>2. list = Page(walk, room, 1)
  BY DEF GetAncestors
<1>3. room \in Nat
  BY InputAssumption
<1> HIDE DEF walk, room, list, near
<1>4. /\ list \in CommitSeqs /\ IsInjective(list)
      /\ Len(list) = IF 1 + room < Len(walk) THEN room ELSE IF 1 < Len(walk) THEN Len(walk) - 1 ELSE 0
      /\ \A x \in 1 .. Len(list) : 1 + x \in 1 .. Len(walk) /\ x <= room /\ list[x] = walk[1 + x]
      /\ \A k \in 1 .. Len(walk) : 1 < k /\ k <= 1 + room => k - 1 \in 1 .. Len(list) /\ list[k - 1] = walk[k]
  <2> DEFINE one == 1
  <2>1. one \in Nat /\ list = Page(walk, room, one)
    BY <1>2
  <2> HIDE DEF one
  <2>2. /\ list \in CommitSeqs /\ IsInjective(list)
        /\ Len(list) = IF one + room < Len(walk) THEN room ELSE IF one < Len(walk) THEN Len(walk) - one ELSE 0
        /\ \A x \in 1 .. Len(list) : one + x \in 1 .. Len(walk) /\ x <= room /\ list[x] = walk[one + x]
        /\ \A k \in 1 .. Len(walk) : one < k /\ k <= one + room =>
              k - one \in 1 .. Len(list) /\ list[k - one] = walk[k]
    BY <1>1, <1>3, <2>1, PageIs, PageOnce, ZenonT(30)
  <2> QED
    BY <2>2 DEF one
<1>5. /\ Len(walk) \in Nat /\ Len(list) \in Nat
      /\ \A i, j \in 1 .. Len(walk) : walk[i] = walk[j] => i = j
      /\ \A c : c \in Below(h, start) <=> \E i \in 1 .. Len(walk) : c = walk[i]
      /\ \A c : c \in Range(list) <=> \E i \in 1 .. Len(list) : c = list[i]
  <2>1. /\ Len(walk) \in Nat
        /\ \A i, j \in 1 .. Len(walk) : walk[i] = walk[j] => i = j
        /\ \A c : c \in Range(walk) <=> \E i \in 1 .. Len(walk) : c = walk[i]
    BY <1>1, CommitsIn
  <2>2. /\ Len(list) \in Nat
        /\ \A c : c \in Range(list) <=> \E i \in 1 .. Len(list) : c = list[i]
    BY <1>4, CommitsIn
  <2>3. \A c : c \in Below(h, start) <=> c \in Range(walk)
    BY <1>1
  <2> QED
    BY <2>1, <2>2, <2>3
<1>6. Range(list) \subseteq own
  <2> SUFFICES ASSUME NEW c \in Range(list) PROVE c \in own
    OBVIOUS
  <2>1. PICK x \in 1 .. Len(list) : c = list[x]
    BY <1>5
  <2>2. 1 + x \in 1 .. Len(walk) /\ c = walk[1 + x] /\ 1 + x # 1 /\ 1 \in 1 .. Len(walk)
    BY <1>1, <1>4, <1>5, <2>1
  <2> QED
    BY <1>1, <1>5, <2>2
<1>7. Cardinality(own) = Len(walk) - 1
  <2>1. IsFiniteSet(Below(h, start)) /\ Cardinality(Below(h, start)) = Len(walk)
    BY <1>1, CountedOnce
  <2>2. start \in Below(h, start)
    BY BelowIs
  <2> QED
    BY <2>1, <2>2, FS_RemoveElement
<1>8. Len(list) = IF room < Cardinality(own) THEN room ELSE Cardinality(own)
  BY <1>1, <1>3, <1>4, <1>5, <1>7
<1>9. ASSUME NEW n \in 0 .. LogLen, NEW c \in near[n] \cap own, c \notin Range(list)
      PROVE  Range(list) \subseteq near[n]
  <2>1. PICK k \in 1 .. Len(walk) : c = walk[k]
    BY <1>5, <1>9
  <2>2. k > 1
    BY <1>1, <1>5, <1>9, <2>1
  <2>3. ~(k <= 1 + room)
    BY <1>4, <1>5, <1>9, <2>1, <2>2
  <2>4. ASSUME NEW d \in Range(list)
        PROVE  d \in near[n]
    <3>1. PICK x \in 1 .. Len(list) : d = list[x]
      BY <1>5
    <3>2. 1 + x \in 1 .. Len(walk) /\ x <= room /\ d = walk[1 + x]
      BY <1>4, <3>1
    <3>3. x \in Nat /\ k \in Nat /\ room \in Nat
      BY <1>3, <1>5, <3>1
    <3>4. 1 + x < k
      BY <2>3, <3>2, <3>3
    <3> QED
      BY <1>1, <1>9, <2>1, <3>2, <3>4
  <2> QED
    BY <2>4
<1> QED
  BY <1>4, <1>6, <1>8, <1>9 DEF list, room, near

\* The ancestors listed are those of the commit, each once, as many as asked for, and
\* the nearest ones, in any history (commits.rs:101-129).
THEOREM AncestorsHold == Spec => []AncestorsAreNearest
<1>1. Init => AncestorsAreNearest
  BY DEF Init, AncestorsAreNearest, Done, Pending
<1>2. ASSUME input \in Inputs, AncestorsAreNearest, [Next]_vars
      PROVE  AncestorsAreNearest'
  <2>1. CASE UNCHANGED vars
    <3>1. AncestorsAreNearest' <=> AncestorsAreNearest
      BY <2>1 DEF AncestorsAreNearest, vars, Done
    <3> QED
      BY <1>2, <3>1
  <2>2. CASE ReadAncestors
    <3> DEFINE h == input.parents
               start == input.start
               limit == input.limit
    <3>1. input' = input /\ output'[1] = GetAncestors(h, start, limit)
      BY <2>2 DEF ReadAncestors
    <3>2. h \in Histories /\ start \in Commits /\ limit \in Nat
      BY <1>2, <2>2, AncestorInputs DEF ReadAncestors
    <3>3. input'.parents = h /\ input'.start = start /\ input'.limit = limit
      BY <3>1
    <3>4. \A n \in 1 .. LogLen : n \in 0 .. LogLen
      BY <3>2, HistoriesAre
    <3> DEFINE list == GetAncestors(h, start, limit)
               own == Below(h, start) \ {start}
               room == IF limit = 0 THEN AncestorLimit ELSE limit
    <3> HIDE DEF h, start, limit
    <3>5. /\ IsInjective(list) /\ Range(list) \subseteq own
          /\ Len(list) = IF room < Cardinality(own) THEN room ELSE Cardinality(own)
          /\ \A n \in 0 .. LogLen :
                Within(h, start)[n] \cap own \subseteq Range(list) \/ Range(list) \subseteq Within(h, start)[n]
      BY <3>2, AncestorsAre
    <3> HIDE DEF list
    <3> QED
      BY <3>1, <3>3, <3>4, <3>5 DEF AncestorsAreNearest, list
  <2>3. CASE ~Done("ancestors")'
    BY <2>3 DEF AncestorsAreNearest
  <2> QED
    BY <1>2, <2>1, <2>2, <2>3, AncestorRuns
<1> QED
  BY <1>1, <1>2, InputStays, PTL DEF Spec

\* The answer to a rebase preview is set by the preview alone.
LEMMA RebaseRuns ==
    ASSUME [Next]_vars, Done("rebase")'
    PROVE  (Done("rebase") /\ UNCHANGED vars) \/ PreviewRebase
BY DEF Next, vars, Done, Glob, RefGlob, Diff, PreviewMerge, PreviewPick, PreviewSeries, ReadLog,
       ReadAncestors, PreviewRebase, ReadTree, DiffOfTrees

\* A rebase preview is about two commits of a history.
LEMMA RebaseInputs ==
    ASSUME input \in Inputs, input.kind = "rebase"
    PROVE  input.parents \in Histories /\ input.branch \in Commits /\ input.onto \in Commits
BY DEF Inputs, ReadInputs, Commits

\* The first commit of the walk that is not the branch's own.
LEMMA FirstShared ==
    ASSUME NEW walk \in CommitSeqs, NEW own, NEW i \in 1 .. Len(walk), walk[i] \notin own
    PROVE  \E k \in 1 .. Len(walk) : k <= i /\ walk[k] \notin own /\ \A j \in 1 .. k - 1 : walk[j] \in own
<1>1. SUFFICES ASSUME \A k \in 1 .. Len(walk) : k <= i /\ (\A j \in 1 .. k - 1 : walk[j] \in own) => walk[k] \in own
               PROVE  FALSE
  OBVIOUS
<1>2. Len(walk) \in Nat
  BY CommitsIn
<1> DEFINE T == {n \in Nat : n <= i => \A j \in 1 .. n : walk[j] \in own}
<1>3. 0 \in T
  OBVIOUS
<1>4. ASSUME NEW n \in Nat, n \in T PROVE n + 1 \in T
  <2> SUFFICES ASSUME n + 1 <= i, NEW j \in 1 .. n + 1 PROVE walk[j] \in own
    OBVIOUS
  <2>1. n + 1 \in 1 .. Len(walk) /\ n + 1 - 1 = n /\ \A a \in 1 .. n : walk[a] \in own
    BY <1>2, <1>4
  <2>2. walk[n + 1] \in own
    BY <1>1, <2>1
  <2>3. j \in 1 .. n \/ j = n + 1
    OBVIOUS
  <2> QED
    BY <2>1, <2>2, <2>3
<1>5. i \in T
  <2> HIDE DEF T
  <2>1. Nat \subseteq T
    BY <1>3, <1>4, NatSetInduction
  <2> QED
    BY <2>1
<1>6. i \in 1 .. i
  OBVIOUS
<1> QED
  BY <1>5, <1>6

\* The part of a walk before a place, reversed.
LEMMA ReversedPart ==
    ASSUME NEW s \in CommitSeqs, NEW k \in 1 .. Len(s)
    PROVE  LET list == Reverse(SubSeq(s, 1, k - 1)) IN
           /\ list \in CommitSeqs /\ Len(list) = k - 1
           /\ \A x \in 1 .. k - 1 : k - x \in 1 .. k - 1 /\ list[x] = s[k - x]
<1> DEFINE part == SubSeq(s, 1, k - 1)
           list == Reverse(part)
<1>1. Len(s) \in Nat /\ k \in Nat /\ k >= 1 /\ \A i \in 1 .. k - 1 : s[i] \in Commits
  BY CommitsIn
<1> DEFINE n == k - 1
<1>2. n \in Nat /\ k = n + 1
  BY <1>1
<1>3. part \in Seq(Commits) /\ Len(part) = n /\ \A i \in 1 .. n : part[i] = s[i]
  <2>1. n \in Int /\ 1 \in Int /\ \A i \in 1 .. n : s[i] \in Commits
    BY <1>1
  <2> HIDE DEF n
  <2>2. /\ SubSeq(s, 1, n) \in Seq(Commits)
        /\ Len(SubSeq(s, 1, n)) = IF 1 <= n THEN n - 1 + 1 ELSE 0
        /\ \A i \in 1 .. n - 1 + 1 : SubSeq(s, 1, n)[i] = s[1 + i - 1]
    BY <2>1, SubSeqProperties
  <2>3. n - 1 + 1 = n /\ \A i \in 1 .. n : 1 + i - 1 = i
    BY <1>2
  <2>4. \A i \in 1 .. n : SubSeq(s, 1, n)[i] = s[i]
    BY <2>2, <2>3
  <2> QED
    BY <1>2, <2>2, <2>3, <2>4 DEF n
<1> HIDE DEF n, part
<1>4. list = [i \in 1 .. n |-> part[(n - i) + 1]]
  BY <1>3 DEF Reverse
<1>5. \A x \in 1 .. n : (n - x) + 1 \in 1 .. n /\ (n - x) + 1 = k - x
  BY <1>2
<1>6. \A x \in 1 .. n : k - x \in 1 .. n /\ list[x] = s[k - x]
  <2> SUFFICES ASSUME NEW x \in 1 .. n
               PROVE  k - x \in 1 .. n /\ list[x] = s[k - x]
    OBVIOUS
  <2>1. list[x] = part[(n - x) + 1]
    BY <1>4
  <2> HIDE DEF list
  <2>2. (n - x) + 1 \in 1 .. n /\ (n - x) + 1 = k - x
    BY <1>5
  <2>3. part[(n - x) + 1] = part[k - x]
    BY <2>2
  <2>4. k - x \in 1 .. n
    BY <2>2
  <2>5. part[k - x] = s[k - x]
    BY <1>3, <2>4
  <2> QED
    BY <2>1, <2>3, <2>4, <2>5
<1>7. list \in Seq(Commits) /\ Len(list) = n
  <2>1. \A x \in 1 .. n : part[(n - x) + 1] \in Commits
    BY <1>3, <1>5
  <2> QED
    BY <1>2, <1>4, <2>1
<1> QED
  BY <1>6, <1>7 DEF n, part, CommitSeqs

\* The walk from a branch of single parents goes down the branch to the merge base.
LEMMA RebaseIs ==
    ASSUME NEW h \in Histories, NEW branch \in Commits, NEW onto \in Commits,
           NEW base \in MergeBases(h, branch, onto),
           \A c \in Below(h, branch) \ Below(h, onto) : Len(h[c]) <= 1
    PROVE  LET own == Below(h, branch) \ Below(h, onto)
               list == Rebase(h, branch, base)
           IN /\ Range(list) = own /\ IsInjective(list)
              /\ \A i, j \in DOMAIN list : list[i] \in Range(h[list[j]]) => i < j
<1> DEFINE walk == RevWalk(h, branch)
           own == Below(h, branch) \ Below(h, onto)
           list == Rebase(h, branch, base)
<1>1. /\ walk \in CommitSeqs /\ IsInjective(walk) /\ Range(walk) = Below(h, branch)
      /\ Len(walk) >= 1 /\ walk[1] = branch
      /\ \A only \in SUBSET Commits : (\A c \in only : Len(h[c]) <= 1) =>
            \A i \in 1 .. Len(walk) : (\A a \in 1 .. i : walk[a] \in only) /\ i < Len(walk) =>
                walk[i + 1] \in Range(h[walk[i]])
  BY RevWalkIs
<1>2. list = Reverse(SubSeq(walk, 1, (CHOOSE i \in DOMAIN walk : walk[i] = base) - 1))
  BY DEF Rebase
<1> HIDE DEF walk, list
<1>3. /\ Len(walk) \in Nat /\ DOMAIN walk = 1 .. Len(walk)
      /\ \A i, j \in 1 .. Len(walk) : walk[i] = walk[j] => i = j
      /\ \A c : c \in Below(h, branch) <=> \E i \in 1 .. Len(walk) : c = walk[i]
      /\ \A i \in 1 .. Len(walk) : walk[i] \in Commits
  <2>1. DOMAIN walk = 1 .. Len(walk)
    BY <1>1 DEF CommitSeqs
  <2> QED
    BY <1>1, <2>1, CommitsIn
<1>4. own \in SUBSET Commits /\ \A c \in own : Len(h[c]) <= 1
  BY BelowIs
<1>5. /\ base \in Below(h, branch) /\ base \in Below(h, onto)
      /\ \A d \in (Below(h, branch) \cap Below(h, onto)) \ {base} : base \notin Below(h, d)
  BY DEF MergeBases
<1>6. PICK i0 \in 1 .. Len(walk) : walk[i0] = base
  BY <1>3, <1>5
<1>7. PICK k \in 1 .. Len(walk) : k <= i0 /\ walk[k] \notin own /\ \A j \in 1 .. k - 1 : walk[j] \in own
  BY <1>1, <1>5, <1>6, FirstShared
<1>8. k \in Nat /\ k >= 1 /\ \A i \in 1 .. k - 1 : i \in 1 .. Len(walk) /\ i < Len(walk)
                                 /\ (i + 1 \in 1 .. k - 1 \/ i + 1 = k)
                                 /\ \A a \in 1 .. i : a \in 1 .. k - 1
  BY <1>3
<1>9. ASSUME NEW i \in 1 .. k - 1
      PROVE  Range(h[walk[i]]) = {walk[i + 1]}
  <2>1. walk[i + 1] \in Range(h[walk[i]])
    BY <1>1, <1>4, <1>7, <1>8
  <2>2. walk[i] \in own /\ walk[i] \in Commits
    BY <1>3, <1>7, <1>8
  <2>3. Len(h[walk[i]]) <= 1 /\ h[walk[i]] \in CommitSeqs
    BY <1>4, <2>2, HistoriesAre
  <2>4. \A s \in CommitSeqs : Len(s) <= 1 => \A c, d \in Range(s) : c = d
    <3> SUFFICES ASSUME NEW s \in CommitSeqs, Len(s) <= 1, NEW c \in Range(s), NEW d \in Range(s)
                 PROVE  c = d
      OBVIOUS
    <3>1. Len(s) \in Nat /\ \E x, y \in 1 .. Len(s) : c = s[x] /\ d = s[y]
      BY CommitsIn
    <3>2. \A x, y \in 1 .. Len(s) : x = y
      BY <3>1
    <3> QED
      BY <3>1, <3>2
  <2> QED
    BY <2>1, <2>3, <2>4
<1>10. walk[k] \in Commits /\ walk[k] \in Below(h, branch) /\ walk[k] \in Below(h, onto)
  BY <1>3, <1>7
<1>11. Below(h, walk[k]) \subseteq Below(h, onto)
  BY <1>10, BelowIs
<1> DEFINE line == {walk[i] : i \in 1 .. k - 1}
           all == line \cup Below(h, walk[k])
<1>12. Below(h, branch) \subseteq all
  <2>1. all \in SUBSET Commits
    BY <1>3, <1>8, <1>10, BelowIs
  <2>2. branch \in all
    <3>1. 1 \in 1 .. k - 1 \/ 1 = k
      BY <1>8
    <3>2. walk[k] \in Below(h, walk[k])
      BY <1>10, BelowIs
    <3> QED
      BY <1>1, <3>1, <3>2
  <2>3. ASSUME NEW d \in all PROVE Range(h[d]) \subseteq all
    <3>1. CASE d \in Below(h, walk[k])
      BY <1>10, <3>1, BelowIs
    <3>2. CASE d \in line
      <4>1. PICK i \in 1 .. k - 1 : d = walk[i]
        BY <3>2
      <4>2. Range(h[d]) = {walk[i + 1]}
        BY <1>9, <4>1
      <4>3. walk[k] \in Below(h, walk[k])
        BY <1>10, BelowIs
      <4>4. walk[i + 1] \in all
        BY <1>8, <4>1, <4>3
      <4> QED
        BY <4>2, <4>4
    <3> QED
      BY <3>1, <3>2
  <2> HIDE DEF all
  <2> QED
    BY <2>1, <2>2, <2>3, BelowIs
<1>13. own = line
  BY <1>7, <1>11, <1>12
<1>14. walk[k] = base /\ k = i0
  <2>1. base \in Below(h, walk[k])
    BY <1>5, <1>12, <1>13
  <2>2. walk[k] = base
    BY <1>5, <1>10, <2>1
  <2> QED
    BY <1>3, <1>6, <2>2
<1>15. (CHOOSE i \in DOMAIN walk : walk[i] = base) = k
  BY <1>3, <1>14
<1>16. /\ list \in CommitSeqs /\ Len(list) = k - 1
       /\ \A x \in 1 .. k - 1 : k - x \in 1 .. k - 1 /\ list[x] = walk[k - x]
  BY <1>1, <1>2, <1>15, ReversedPart
<1>17. IsInjective(list)
  <2>1. \A x, y \in 1 .. k - 1 : walk[k - x] = walk[k - y] => x = y
    <3> SUFFICES ASSUME NEW x \in 1 .. k - 1, NEW y \in 1 .. k - 1, walk[k - x] = walk[k - y]
                 PROVE  x = y
      OBVIOUS
    <3>1. k - x = k - y
      BY <1>3, <1>8, <1>16
    <3> QED
      BY <1>8, <3>1
  <2> QED
    BY <1>16, <2>1, CommitsIn
<1>18. Range(list) = own
  <2>1. \A c : c \in Range(list) <=> \E x \in 1 .. k - 1 : c = list[x]
    BY <1>16, CommitsIn
  <2>2. \A i \in 1 .. k - 1 : k - i \in 1 .. k - 1 /\ k - (k - i) = i
    BY <1>8
  <2>3. ASSUME NEW c \in own PROVE c \in Range(list)
    <3>1. PICK i \in 1 .. k - 1 : c = walk[i]
      BY <1>13
    <3> DEFINE x == k - i
    <3>2. x \in 1 .. k - 1 /\ k - x = i
      BY <2>2
    <3> HIDE DEF x
    <3>3. list[x] = walk[i]
      BY <1>16, <3>2
    <3> QED
      BY <2>1, <3>1, <3>2, <3>3
  <2>4. ASSUME NEW c \in Range(list) PROVE c \in own
    <3>1. PICK x \in 1 .. k - 1 : c = list[x]
      BY <2>1, <2>4
    <3> QED
      BY <1>7, <1>16, <3>1
  <2> QED
    BY <2>3, <2>4
<1>19. ASSUME NEW x \in 1 .. k - 1, NEW y \in 1 .. k - 1, list[x] \in Range(h[list[y]])
       PROVE  x < y
  <2> DEFINE i == k - x
             j == k - y
  <2>1. /\ i \in 1 .. k - 1 /\ j \in 1 .. k - 1 /\ x = k - i /\ y = k - j
        /\ list[x] = walk[i] /\ list[y] = walk[j]
    BY <1>8, <1>16
  <2> HIDE DEF i, j
  <2>2. walk[i] = walk[j + 1]
    BY <1>9, <1>19, <2>1
  <2>3. i \in 1 .. Len(walk) /\ j + 1 \in 1 .. Len(walk)
    BY <1>3, <1>8, <2>1
  <2>4. i = j + 1
    BY <1>3, <2>2, <2>3
  <2> QED
    BY <1>8, <2>1, <2>4
<1>20. DOMAIN list = 1 .. k - 1
  BY <1>16 DEF CommitSeqs
<1> QED
  BY <1>17, <1>18, <1>19, <1>20 DEF list

\* A branch without merges is rebased whole, each commit after its parent, in any
\* history (operations.rs:291-303).
THEOREM RebasesHold == Spec => []RebaseListsBranch
<1>1. Init => RebaseListsBranch
  BY DEF Init, RebaseListsBranch, Done, Pending
<1>2. ASSUME input \in Inputs, RebaseListsBranch, [Next]_vars
      PROVE  RebaseListsBranch'
  <2>1. CASE UNCHANGED vars
    <3>1. RebaseListsBranch' <=> RebaseListsBranch
      BY <2>1 DEF RebaseListsBranch, vars, Done
    <3> QED
      BY <1>2, <3>1
  <2>2. CASE PreviewRebase
    <3> DEFINE h == input.parents
               branch == input.branch
               onto == input.onto
    <3>1. PICK base \in MergeBases(h, branch, onto) : output' = <<Rebase(h, branch, base)>>
      BY <2>2 DEF PreviewRebase
    <3>2. input' = input /\ h \in Histories /\ branch \in Commits /\ onto \in Commits
      BY <1>2, <2>2, RebaseInputs DEF PreviewRebase
    <3>3. input'.parents = h /\ input'.branch = branch /\ input'.onto = onto
      BY <3>2
    <3>4. output'[1] = Rebase(h, branch, base) /\ base \in MergeBases(h, branch, onto)
      BY <3>1
    <3> HIDE DEF h, branch, onto
    <3> DEFINE list == Rebase(h, branch, base)
               own == Below(h, branch) \ Below(h, onto)
    <3>5. (\A c \in own : Len(h[c]) <= 1) =>
             /\ Range(list) = own /\ IsInjective(list)
             /\ \A i, j \in DOMAIN list : list[i] \in Range(h[list[j]]) => i < j
      BY <3>2, <3>4, RebaseIs
    <3> HIDE DEF list
    <3> QED
      BY <3>3, <3>4, <3>5 DEF RebaseListsBranch, list
  <2>3. CASE ~Done("rebase")'
    BY <2>3 DEF RebaseListsBranch
  <2> QED
    BY <1>2, <2>1, <2>2, <2>3, RebaseRuns
<1> QED
  BY <1>1, <1>2, InputStays, PTL DEF Spec

(***************************************************************************)
(* DiffHunks: the table and the walk back through it.                      *)
(***************************************************************************)

\* The cells of a table, and how far each is from its corner: what is in a cell is made of
\* what is in cells nearer to it.
Grid(o, n) == (0 .. o) \X (0 .. n)
OffCorner(o, n) == [s \in Grid(o, n) |-> s[1] + s[2]]

\* A recursive equation on the cells has a solution, if a cell needs only nearer cells.
LEMMA GridRecursion ==
    ASSUME NEW o \in Nat, NEW n \in Nat, NEW V, V # {}, NEW G \in Local(Grid(o, n), V, OffCorner(o, n))
    PROVE  \E f \in [Grid(o, n) -> V] : f = [s \in Grid(o, n) |-> G[<<f, s>>]]
<1>1. o + n \in Nat /\ OffCorner(o, n) \in [Grid(o, n) -> 0 .. (o + n)]
  BY DEF OffCorner, Grid
<1> DEFINE top == o + n
<1>2. top \in Nat /\ OffCorner(o, n) \in [Grid(o, n) -> 0 .. top]
  BY <1>1
<1> HIDE DEF top
<1>3. Solutions(Grid(o, n), V, G) # {}
  BY <1>2, RecursionHasSolution
<1> QED
  BY <1>3 DEF Solutions

\* A solution has its values in a set, if a cell has when the nearer cells have.
LEMMA GridValues ==
    ASSUME NEW o \in Nat, NEW n \in Nat, NEW V, NEW h, h = [s \in Grid(o, n) |-> h[s]],
           \A s \in Grid(o, n) :
              (\A t \in Grid(o, n) : OffCorner(o, n)[t] < OffCorner(o, n)[s] => h[t] \in V) => h[s] \in V
    PROVE  h \in [Grid(o, n) -> V]
<1> DEFINE D == Grid(o, n)
           rank == OffCorner(o, n)
           S == {m \in Nat : \A s \in D : rank[s] < m => h[s] \in V}
<1>1. \A s \in D : rank[s] \in Nat
  BY DEF OffCorner, Grid
<1> HIDE DEF D, rank
<1>2. 0 \in S
  BY <1>1
<1>3. ASSUME NEW m \in Nat, m \in S
      PROVE  m + 1 \in S
  <2>1. ASSUME NEW s \in D, rank[s] < m + 1
        PROVE  h[s] \in V
    <3>1. \A t \in D : rank[t] < rank[s] => rank[t] < m
      BY <1>1, <2>1
    <3> QED
      BY <1>3, <3>1 DEF D, rank
  <2> QED
    BY <2>1
<1>4. ASSUME NEW s \in D
      PROVE  h[s] \in V
  <2>1. rank[s] + 1 \in Nat /\ rank[s] < rank[s] + 1
    BY <1>1
  <2>2. rank[s] + 1 \in S
    <3> HIDE DEF S
    <3>1. Nat \subseteq S
      BY <1>2, <1>3, NatSetInduction
    <3> QED
      BY <2>1, <3>1
  <2> QED
    BY <2>1, <2>2
<1> QED
  BY <1>4 DEF D

\* What the table has in a cell, from what it has in the cells before.
LcsCell(old, new, dp, i, j) ==
    IF i = 0 \/ j = 0 THEN 0
    ELSE IF old[i] = new[j] THEN dp[<<i - 1, j - 1>>] + 1
    ELSE Larger(dp[<<i - 1, j>>], dp[<<i, j - 1>>])

\* The table is what its definition says.
LEMMA TableIs ==
    ASSUME NEW C, NEW old \in Seq(C), NEW new \in Seq(C)
    PROVE  LET dp == LcsTable(old, new) IN
           /\ dp \in [Grid(Len(old), Len(new)) -> Nat]
           /\ \A i \in 0 .. Len(old), j \in 0 .. Len(new) : dp[<<i, j>>] = LcsCell(old, new, dp, i, j)
<1> DEFINE o == Len(old)
           n == Len(new)
           D == Grid(o, n)
           value(h, s) == LcsCell(old, new, h, s[1], s[2])
           G == [a \in [D -> Nat] \X D |-> value(a[1], a[2])]
           dp == LcsTable(old, new)
<1>1. o \in Nat /\ n \in Nat
  OBVIOUS
<1>2. dp = CHOOSE h : h = [s \in D |-> value(h, s)]
  BY DEF LcsTable, LcsCell, Grid
<1> HIDE DEF o, n
<1>3. ASSUME NEW s \in D, ~(s[1] = 0 \/ s[2] = 0)
      PROVE  \A t \in {<<s[1] - 1, s[2] - 1>>, <<s[1] - 1, s[2]>>, <<s[1], s[2] - 1>>} :
                t \in D /\ OffCorner(o, n)[t] < OffCorner(o, n)[s]
  BY <1>1, <1>3 DEF OffCorner, Grid
<1>4. ASSUME NEW h \in [D -> Nat], NEW s \in D
      PROVE  value(h, s) \in Nat
  <2>1. CASE s[1] = 0 \/ s[2] = 0
    BY <2>1 DEF LcsCell
  <2>2. CASE ~(s[1] = 0 \/ s[2] = 0)
    <3>1. \A t \in {<<s[1] - 1, s[2] - 1>>, <<s[1] - 1, s[2]>>, <<s[1], s[2] - 1>>} : t \in D
      BY <1>3, <2>2
    <3> HIDE DEF D
    <3>2. \A t \in {<<s[1] - 1, s[2] - 1>>, <<s[1] - 1, s[2]>>, <<s[1], s[2] - 1>>} : h[t] \in Nat
      BY <3>1
    <3> QED
      BY <3>2, <2>2 DEF LcsCell, Larger
  <2> QED
    BY <2>1, <2>2
<1>5. ASSUME NEW f \in [D -> Nat], NEW g \in [D -> Nat], NEW s \in D,
             \A t \in D : OffCorner(o, n)[t] < OffCorner(o, n)[s] => f[t] = g[t]
      PROVE  value(f, s) = value(g, s)
  <2>1. CASE s[1] = 0 \/ s[2] = 0
    BY <2>1 DEF LcsCell
  <2>2. CASE ~(s[1] = 0 \/ s[2] = 0)
    <3>1. \A t \in {<<s[1] - 1, s[2] - 1>>, <<s[1] - 1, s[2]>>, <<s[1], s[2] - 1>>} : f[t] = g[t]
      BY <1>3, <1>5, <2>2
    <3> QED
      BY <3>1, <2>2 DEF LcsCell
  <2> QED
    BY <2>1, <2>2
<1>6. \E f \in [D -> Nat] : f = [s \in D |-> value(f, s)]
  <2> HIDE DEF value, D
  <2>1. G \in [[D -> Nat] \X D -> Nat] /\ \A f \in [D -> Nat], s \in D : G[<<f, s>>] = value(f, s)
    BY <1>4
  <2> HIDE DEF G
  <2>2. G \in Local(D, Nat, OffCorner(o, n))
    <3>1. ASSUME NEW f \in [D -> Nat], NEW g \in [D -> Nat], NEW s \in D,
                 \A t \in D : OffCorner(o, n)[t] < OffCorner(o, n)[s] => f[t] = g[t]
          PROVE  G[<<f, s>>] = G[<<g, s>>]
      <4>1. value(f, s) = value(g, s)
        BY <1>5, <3>1
      <4> QED
        BY <2>1, <4>1
    <3> QED
      BY <2>1, <3>1 DEF Local
  <2>3. Nat # {}
    OBVIOUS
  <2>4. \E f \in [D -> Nat] : f = [s \in D |-> G[<<f, s>>]]
    <3>1. G \in Local(Grid(o, n), Nat, OffCorner(o, n))
      BY <2>2 DEF D
    <3>2. \E f \in [Grid(o, n) -> Nat] : f = [s \in Grid(o, n) |-> G[<<f, s>>]]
      BY <1>1, <2>3, <3>1, GridRecursion
    <3> QED
      BY <3>2 DEF D
  <2> QED
    BY <2>1, <2>4
<1>7. PICK f \in [D -> Nat] : f = [s \in D |-> value(f, s)]
  BY <1>6
<1>8. dp = [s \in D |-> value(dp, s)]
  <2> HIDE DEF value, D, dp
  <2> QED
    BY <1>2, <1>7
<1>9. dp = [s \in D |-> dp[s]] /\ \A s \in D : dp[s] = value(dp, s)
  <2> HIDE DEF value, D, dp
  <2> QED
    BY <1>8
<1>10. dp \in [D -> Nat]
  <2> HIDE DEF dp
  <2>1. ASSUME NEW s \in D, \A t \in D : OffCorner(o, n)[t] < OffCorner(o, n)[s] => dp[t] \in Nat
        PROVE  dp[s] \in Nat
    <3>1. dp[s] = LcsCell(old, new, dp, s[1], s[2])
      BY <1>9
    <3>2. CASE s[1] = 0 \/ s[2] = 0
      BY <3>1, <3>2 DEF LcsCell
    <3>3. CASE ~(s[1] = 0 \/ s[2] = 0)
      <4>1. \A t \in {<<s[1] - 1, s[2] - 1>>, <<s[1] - 1, s[2]>>, <<s[1], s[2] - 1>>} : dp[t] \in Nat
        BY <1>3, <2>1, <3>3
      <4> QED
        BY <3>1, <3>3, <4>1 DEF LcsCell, Larger
    <3> QED
      BY <3>2, <3>3
  <2> QED
    BY <1>1, <1>9, <2>1, GridValues DEF D
<1>11. ASSUME NEW i \in 0 .. o, NEW j \in 0 .. n
       PROVE  dp[<<i, j>>] = LcsCell(old, new, dp, i, j)
  <2>1. <<i, j>> \in D
    BY DEF Grid
  <2>2. value(dp, <<i, j>>) = LcsCell(old, new, dp, i, j)
    OBVIOUS
  <2> HIDE DEF dp, value, D
  <2> QED
    BY <1>9, <2>1, <2>2
<1> HIDE DEF dp
<1> QED
  BY <1>10, <1>11 DEF o, n, D, dp

\* The edits.
EditSet == [op : {"equal", "insert", "delete"}, old : Nat, new : Nat]

\* What the walk back gives for a cell, from what it gives for the cells before.
EditCell(dp, old, new, edits, i, j) ==
    IF i = 0 /\ j = 0 THEN <<>>
    ELSE IF i > 0 /\ j > 0 /\ old[i] = new[j]
    THEN Append(edits[<<i - 1, j - 1>>], Edit("equal", i - 1, j - 1))
    ELSE IF j > 0 /\ (i = 0 \/ dp[<<i, j - 1>>] >= dp[<<i - 1, j>>])
    THEN Append(edits[<<i, j - 1>>], Edit("insert", i, j - 1))
    ELSE Append(edits[<<i - 1, j>>], Edit("delete", i - 1, j))

\* The edits are what their definition says.
LEMMA EditsAre ==
    ASSUME NEW C, NEW old \in Seq(C), NEW new \in Seq(C), NEW dp
    PROVE  LET edits == Edits(dp, old, new) IN
           /\ edits \in [Grid(Len(old), Len(new)) -> Seq(EditSet)]
           /\ \A i \in 0 .. Len(old), j \in 0 .. Len(new) :
                 edits[<<i, j>>] = EditCell(dp, old, new, edits, i, j)
<1> DEFINE o == Len(old)
           n == Len(new)
           D == Grid(o, n)
           V == Seq(EditSet)
           value(h, s) == EditCell(dp, old, new, h, s[1], s[2])
           G == [a \in [D -> V] \X D |-> value(a[1], a[2])]
           edits == Edits(dp, old, new)
<1>1. o \in Nat /\ n \in Nat
  OBVIOUS
<1>2. edits = CHOOSE h : h = [s \in D |-> value(h, s)]
  BY DEF Edits, EditCell, Grid
<1> HIDE DEF o, n
<1>a. \A s \in D : s[1] \in Nat /\ s[2] \in Nat
  BY <1>1 DEF Grid
\* The cells that a cell's value is made from.
<1> DEFINE From(s) == {t \in D : OffCorner(o, n)[t] < OffCorner(o, n)[s]}
<1>3. ASSUME NEW s \in D
      PROVE  /\ s[1] > 0 => <<s[1] - 1, s[2]>> \in From(s)
             /\ s[2] > 0 => <<s[1], s[2] - 1>> \in From(s)
             /\ s[1] > 0 /\ s[2] > 0 => <<s[1] - 1, s[2] - 1>> \in From(s)
  BY <1>1, <1>3 DEF OffCorner, Grid
<1> HIDE DEF From
<1>4. ASSUME NEW h, NEW s \in D, \A t \in From(s) : h[t] \in V
      PROVE  value(h, s) \in V
  <2>0. s[1] \in Nat /\ s[2] \in Nat
    BY <1>a
  <2>1. \A q \in V, op \in {"equal", "insert", "delete"}, x, y \in Nat : Append(q, Edit(op, x, y)) \in V
    BY DEF Edit, EditSet
  <2>2. <<>> \in V
    OBVIOUS
  <2> HIDE DEF V
  <2>3. CASE s[1] = 0 /\ s[2] = 0
    BY <2>2, <2>3 DEF EditCell
  <2>4. CASE s[1] > 0 /\ s[2] > 0 /\ old[s[1]] = new[s[2]]
    <3>1. <<s[1] - 1, s[2] - 1>> \in From(s)
      BY <1>3, <2>0, <2>4
    <3>2. h[<<s[1] - 1, s[2] - 1>>] \in V
      BY <1>4, <3>1
    <3>3. s[1] - 1 \in Nat /\ s[2] - 1 \in Nat
      BY <2>0, <2>4
    <3>4. Append(h[<<s[1] - 1, s[2] - 1>>], Edit("equal", s[1] - 1, s[2] - 1)) \in V
      BY <2>1, <3>2, <3>3
    <3>5. EditCell(dp, old, new, h, s[1], s[2]) = Append(h[<<s[1] - 1, s[2] - 1>>], Edit("equal", s[1] - 1, s[2] - 1))
      <4> DEFINE i == s[1]
                 j == s[2]
      <4> HIDE DEF i, j
      <4> QED
        BY <2>0, <2>4 DEF EditCell, i, j
    <3> QED
      BY <3>4, <3>5
  <2>5. CASE ~(s[1] > 0 /\ s[2] > 0 /\ old[s[1]] = new[s[2]]) /\ s[2] > 0
             /\ (s[1] = 0 \/ dp[<<s[1], s[2] - 1>>] >= dp[<<s[1] - 1, s[2]>>])
    <3>1. <<s[1], s[2] - 1>> \in From(s)
      BY <1>3, <2>0, <2>5
    <3>2. h[<<s[1], s[2] - 1>>] \in V
      BY <1>4, <3>1
    <3>3. s[1] \in Nat /\ s[2] - 1 \in Nat
      BY <2>0, <2>5
    <3>4. Append(h[<<s[1], s[2] - 1>>], Edit("insert", s[1], s[2] - 1)) \in V
      BY <2>1, <3>2, <3>3
    <3>5. EditCell(dp, old, new, h, s[1], s[2]) = Append(h[<<s[1], s[2] - 1>>], Edit("insert", s[1], s[2] - 1))
      <4>1. ~(s[1] = 0 /\ s[2] = 0)
        BY <2>0, <2>5
      <4> QED
        BY <2>5, <4>1, Zenon DEF EditCell
    <3> QED
      BY <3>4, <3>5
  <2>6. CASE ~(s[1] > 0 /\ s[2] > 0 /\ old[s[1]] = new[s[2]]) /\ ~(s[1] = 0 /\ s[2] = 0)
             /\ ~(s[2] > 0 /\ (s[1] = 0 \/ dp[<<s[1], s[2] - 1>>] >= dp[<<s[1] - 1, s[2]>>]))
    <3>0. s[1] > 0
      BY <2>0, <2>6
    <3>1. <<s[1] - 1, s[2]>> \in From(s)
      BY <1>3, <3>0
    <3>2. h[<<s[1] - 1, s[2]>>] \in V
      BY <1>4, <3>1
    <3>3. s[1] - 1 \in Nat /\ s[2] \in Nat
      BY <2>0, <2>6
    <3>4. Append(h[<<s[1] - 1, s[2]>>], Edit("delete", s[1] - 1, s[2])) \in V
      BY <2>1, <3>2, <3>3
    <3>5. EditCell(dp, old, new, h, s[1], s[2]) = Append(h[<<s[1] - 1, s[2]>>], Edit("delete", s[1] - 1, s[2]))
      <4> DEFINE i == s[1]
                 j == s[2]
      <4> HIDE DEF i, j
      <4> QED
        BY <2>0, <2>6 DEF EditCell, i, j
    <3> QED
      BY <3>4, <3>5
  <2> QED
    BY <2>0, <2>3, <2>4, <2>5, <2>6
<1>5. ASSUME NEW f, NEW g, NEW s \in D, \A t \in From(s) : f[t] = g[t]
      PROVE  value(f, s) = value(g, s)
  <2>0. s[1] \in Nat /\ s[2] \in Nat
    BY <1>a
  <2>1. CASE s[1] = 0 /\ s[2] = 0
    BY <2>1 DEF EditCell
  <2>2. CASE s[1] = 0 /\ s[2] > 0
    <3>1. f[<<s[1], s[2] - 1>>] = g[<<s[1], s[2] - 1>>]
      BY <1>3, <1>5, <2>2
    <3> QED
      BY <2>0, <2>2, <3>1 DEF EditCell
  <2>3. CASE s[1] > 0 /\ s[2] = 0
    <3>1. f[<<s[1] - 1, s[2]>>] = g[<<s[1] - 1, s[2]>>]
      BY <1>3, <1>5, <2>3
    <3> QED
      BY <2>0, <2>3, <3>1 DEF EditCell
  <2>4. CASE s[1] > 0 /\ s[2] > 0
    <3>1. /\ f[<<s[1] - 1, s[2]>>] = g[<<s[1] - 1, s[2]>>]
          /\ f[<<s[1], s[2] - 1>>] = g[<<s[1], s[2] - 1>>]
          /\ f[<<s[1] - 1, s[2] - 1>>] = g[<<s[1] - 1, s[2] - 1>>]
      BY <1>3, <1>5, <2>4
    <3> QED
      BY <3>1 DEF EditCell
  <2> QED
    BY <2>0, <2>1, <2>2, <2>3, <2>4
<1>6. \E f \in [D -> V] : f = [s \in D |-> value(f, s)]
  <2>0. \A h \in [D -> V], s \in D : \A t \in From(s) : h[t] \in V
    <3>1. \A s \in D : \A t \in From(s) : t \in D
      BY DEF From
    <3> HIDE DEF D, V
    <3> QED
      BY <3>1
  <2>1. \A h \in [D -> V], s \in D : value(h, s) \in V
    BY <1>4, <2>0
  <2> HIDE DEF value, D, V
  <2>2. G \in [[D -> V] \X D -> V] /\ \A f \in [D -> V], s \in D : G[<<f, s>>] = value(f, s)
    BY <2>1
  <2> HIDE DEF G
  <2>3. G \in Local(D, V, OffCorner(o, n))
    <3>1. ASSUME NEW f \in [D -> V], NEW g \in [D -> V], NEW s \in D,
                 \A t \in D : OffCorner(o, n)[t] < OffCorner(o, n)[s] => f[t] = g[t]
          PROVE  G[<<f, s>>] = G[<<g, s>>]
      <4>1. \A t \in From(s) : f[t] = g[t]
        BY <3>1 DEF From
      <4>2. value(f, s) = value(g, s)
        BY <1>5, <4>1
      <4> QED
        BY <2>2, <4>2
    <3> QED
      BY <2>2, <3>1 DEF Local
  <2>4. V # {}
    <3>1. <<>> \in V
      BY DEF V
    <3> QED
      BY <3>1
  <2>5. \E f \in [D -> V] : f = [s \in D |-> G[<<f, s>>]]
    BY <1>1, <2>3, <2>4, GridRecursion DEF D
  <2> QED
    BY <2>2, <2>5
<1>7. PICK f \in [D -> V] : f = [s \in D |-> value(f, s)]
  BY <1>6
<1>8. edits = [s \in D |-> value(edits, s)]
  <2> HIDE DEF value, D, edits, V
  <2> QED
    BY <1>2, <1>7
<1>9. edits = [s \in D |-> edits[s]] /\ \A s \in D : edits[s] = value(edits, s)
  <2> HIDE DEF value, D, edits
  <2> QED
    BY <1>8
<1>10. edits \in [D -> V]
  <2> HIDE DEF edits, V
  <2>1. ASSUME NEW s \in D, \A t \in D : OffCorner(o, n)[t] < OffCorner(o, n)[s] => edits[t] \in V
        PROVE  edits[s] \in V
    <3>1. \A t \in From(s) : edits[t] \in V
      BY <2>1 DEF From
    <3>2. value(edits, s) \in V
      BY <1>4, <3>1
    <3> HIDE DEF value
    <3> QED
      BY <1>9, <3>2
  <2> QED
    BY <1>1, <1>9, <2>1, GridValues DEF D
<1>11. ASSUME NEW i \in 0 .. o, NEW j \in 0 .. n
       PROVE  edits[<<i, j>>] = EditCell(dp, old, new, edits, i, j)
  <2>1. <<i, j>> \in D
    BY DEF Grid
  <2>2. value(edits, <<i, j>>) = EditCell(dp, old, new, edits, i, j)
    OBVIOUS
  <2> HIDE DEF edits, value, D
  <2> QED
    BY <1>9, <2>1, <2>2
<1> HIDE DEF edits
<1> QED
  BY <1>10, <1>11 DEF o, n, D, edits, V

\* How many lines of each file the first x edits go through.
OldAt(E, x) == IF x = 0 THEN 0 ELSE E[x].old + IF E[x].op = "insert" THEN 0 ELSE 1
NewAt(E, x) == IF x = 0 THEN 0 ELSE E[x].new + IF E[x].op = "delete" THEN 0 ELSE 1

\* The edits go through the first i lines of one file and the first j of the other, in
\* order, and are right on what is equal.
Covers(old, new, E, i, j) ==
    /\ E \in Seq(EditSet)
    /\ \A x \in 1 .. Len(E) : /\ E[x].old = OldAt(E, x - 1) /\ E[x].new = NewAt(E, x - 1)
                              /\ E[x].op = "equal" => old[OldAt(E, x)] = new[NewAt(E, x)]
    /\ OldAt(E, Len(E)) = i /\ NewAt(E, Len(E)) = j

\* Each equal line counts in the table.
Counted(dp, E) ==
    \A x \in 1 .. Len(E) :
        dp[<<OldAt(E, x), NewAt(E, x)>>]
          = dp[<<OldAt(E, x - 1), NewAt(E, x - 1)>>] + IF E[x].op = "equal" THEN 1 ELSE 0

\* One edit more goes on from where the edits before it stopped.
LEMMA OneMoreEdit ==
    ASSUME NEW old, NEW new, NEW i \in Nat, NEW j \in Nat, NEW E, Covers(old, new, E, i, j),
           NEW dp, Counted(dp, E), NEW op \in {"equal", "insert", "delete"},
           NEW k, k = (IF op = "insert" THEN i ELSE i + 1), NEW l, l = (IF op = "delete" THEN j ELSE j + 1),
           op = "equal" => old[k] = new[l],
           dp[<<k, l>>] = dp[<<i, j>>] + (IF op = "equal" THEN 1 ELSE 0)
    PROVE  LET F == Append(E, Edit(op, i, j)) IN Covers(old, new, F, k, l) /\ Counted(dp, F)
<1> DEFINE e == Edit(op, i, j)
           F == Append(E, e)
           n == Len(E)
<1>1. E \in Seq(EditSet) /\ e \in EditSet /\ e.op = op /\ e.old = i /\ e.new = j
  BY DEF Covers, Edit, EditSet
<1> HIDE DEF e
<1>2. n \in Nat /\ F \in Seq(EditSet) /\ Len(F) = n + 1 /\ F[n + 1] = e /\ \A x \in 1 .. n : F[x] = E[x]
  BY <1>1
<1>e. OldAt(E, n) = i /\ NewAt(E, n) = j
  BY DEF Covers
<1> HIDE DEF F, n
<1>3. \A x \in 0 .. n : OldAt(F, x) = OldAt(E, x) /\ NewAt(F, x) = NewAt(E, x)
  BY <1>2 DEF OldAt, NewAt
<1>4. OldAt(F, n) = i /\ NewAt(F, n) = j
  BY <1>2, <1>3, <1>e
<1>5. OldAt(F, n + 1) = k /\ NewAt(F, n + 1) = l
  BY <1>1, <1>2 DEF OldAt, NewAt
<1>6. ASSUME NEW x \in 1 .. n + 1
      PROVE  /\ F[x].old = OldAt(F, x - 1) /\ F[x].new = NewAt(F, x - 1)
             /\ F[x].op = "equal" => old[OldAt(F, x)] = new[NewAt(F, x)]
             /\ dp[<<OldAt(F, x), NewAt(F, x)>>]
                  = dp[<<OldAt(F, x - 1), NewAt(F, x - 1)>>] + IF F[x].op = "equal" THEN 1 ELSE 0
  <2>1. CASE x = n + 1
    <3>1. x - 1 = n /\ F[x] = e
      BY <1>2, <2>1
    <3> QED
      BY <1>1, <1>4, <1>5, <2>1, <3>1
  <2>2. CASE x \in 1 .. n
    <3>1. x \in 0 .. n /\ x - 1 \in 0 .. n /\ F[x] = E[x]
      BY <1>2, <2>2
    <3>2. /\ OldAt(F, x) = OldAt(E, x) /\ NewAt(F, x) = NewAt(E, x)
          /\ OldAt(F, x - 1) = OldAt(E, x - 1) /\ NewAt(F, x - 1) = NewAt(E, x - 1)
      BY <1>3, <3>1
    <3>3. /\ E[x].old = OldAt(E, x - 1) /\ E[x].new = NewAt(E, x - 1)
          /\ E[x].op = "equal" => old[OldAt(E, x)] = new[NewAt(E, x)]
      BY <2>2 DEF Covers, n
    <3>4. dp[<<OldAt(E, x), NewAt(E, x)>>]
            = dp[<<OldAt(E, x - 1), NewAt(E, x - 1)>>] + IF E[x].op = "equal" THEN 1 ELSE 0
      BY <2>2 DEF Counted, n
    <3> QED
      BY <3>1, <3>2, <3>3, <3>4
  <2> QED
    BY <1>2, <2>1, <2>2
<1>7. Covers(old, new, F, k, l)
  BY <1>2, <1>5, <1>6 DEF Covers
<1>8. Counted(dp, F)
  BY <1>2, <1>6 DEF Counted
<1> QED
  BY <1>7, <1>8 DEF F, e

\* The walk back goes through both files.
LEMMA EditsCover ==
    ASSUME NEW C, NEW old \in Seq(C), NEW new \in Seq(C)
    PROVE  LET dp == LcsTable(old, new) IN
           \A i \in 0 .. Len(old), j \in 0 .. Len(new) :
               LET E == Edits(dp, old, new)[<<i, j>>] IN Covers(old, new, E, i, j) /\ Counted(dp, E)
<1> DEFINE o == Len(old)
           n == Len(new)
           dp == LcsTable(old, new)
           edits == Edits(dp, old, new)
           Good(i, j) == Covers(old, new, edits[<<i, j>>], i, j) /\ Counted(dp, edits[<<i, j>>])
           S == {m \in Nat : \A i \in 0 .. o, j \in 0 .. n : i + j < m => Good(i, j)}
<1>1. o \in Nat /\ n \in Nat
  OBVIOUS
<1>2. /\ dp \in [Grid(o, n) -> Nat]
      /\ \A i \in 0 .. o, j \in 0 .. n : dp[<<i, j>>] = LcsCell(old, new, dp, i, j)
  <2> HIDE DEF dp
  <2> QED
    BY TableIs DEF dp
<1> HIDE DEF dp
<1>3. \A i \in 0 .. o, j \in 0 .. n : edits[<<i, j>>] = EditCell(dp, old, new, edits, i, j)
  <2> HIDE DEF edits
  <2> QED
    BY EditsAre DEF edits
<1> HIDE DEF edits, o, n
<1>4. \A i \in 0 .. o, j \in 0 .. n : dp[<<i, j>>] \in Nat
  BY <1>2 DEF Grid
<1>5. 0 \in S
  BY <1>1
<1>6. ASSUME NEW m \in Nat, m \in S, NEW i \in 0 .. o, NEW j \in 0 .. n, i + j < m + 1
      PROVE  Good(i, j)
  <2>0. i \in Nat /\ j \in Nat /\ edits[<<i, j>>] = EditCell(dp, old, new, edits, i, j)
        /\ dp[<<i, j>>] = LcsCell(old, new, dp, i, j)
    BY <1>1, <1>2, <1>3
  <2>1. CASE i = 0 /\ j = 0
    <3>1. edits[<<i, j>>] = <<>>
      BY <2>0, <2>1 DEF EditCell
    <3>2. <<>> \in Seq(EditSet) /\ Len(<<>>) = 0
      OBVIOUS
    <3>3. Covers(old, new, <<>>, 0, 0) /\ Counted(dp, <<>>)
      BY <3>2 DEF Covers, Counted, OldAt, NewAt
    <3> QED
      BY <2>1, <3>1, <3>3
  <2>2. CASE i > 0 /\ j > 0 /\ old[i] = new[j]
    <3> DEFINE a == i - 1
               b == j - 1
    <3>1. /\ a \in 0 .. o /\ b \in 0 .. n /\ a + b < m /\ i = a + 1 /\ j = b + 1
          /\ a \in Nat /\ b \in Nat
      BY <1>1, <1>6, <2>2
    <3>2. edits[<<i, j>>] = Append(edits[<<a, b>>], Edit("equal", a, b))
      BY <2>0, <2>2 DEF EditCell
    <3>3. dp[<<i, j>>] = dp[<<a, b>>] + 1
      BY <2>0, <2>2 DEF LcsCell
    <3> HIDE DEF a, b
    <3>4. Good(a, b)
      BY <1>6, <3>1
    <3> QED
      <4>1. /\ Covers(old, new, edits[<<a, b>>], a, b) /\ Counted(dp, edits[<<a, b>>])
            /\ "equal" \in {"equal", "insert", "delete"}
        BY <3>4
      <4>2. /\ Covers(old, new, Append(edits[<<a, b>>], Edit("equal", a, b)), i, j)
            /\ Counted(dp, Append(edits[<<a, b>>], Edit("equal", a, b)))
        BY <2>2, <3>1, <3>3, <4>1, OneMoreEdit, ZenonT(30)
      <4> QED
        BY <3>2, <4>2
  <2>3. CASE ~(i > 0 /\ j > 0 /\ old[i] = new[j]) /\ j > 0 /\ (i = 0 \/ dp[<<i, j - 1>>] >= dp[<<i - 1, j>>])
    <3> DEFINE b == j - 1
    <3>1. i \in 0 .. o /\ b \in 0 .. n /\ i + b < m /\ j = b + 1 /\ b \in Nat
      BY <1>1, <1>6, <2>3
    <3>2. edits[<<i, j>>] = Append(edits[<<i, b>>], Edit("insert", i, b))
      <4>1. ~(i = 0 /\ j = 0)
        BY <2>0, <2>3
      <4> QED
        BY <2>0, <2>3, <4>1, Zenon DEF EditCell
    <3>3. dp[<<i, j>>] = dp[<<i, b>>] + 0
      <4>1. dp[<<i, b>>] \in Nat /\ dp[<<i, b>>] = LcsCell(old, new, dp, i, b)
        BY <1>2, <1>4, <3>1
      <4>2. CASE i = 0
        BY <2>0, <4>1, <4>2 DEF LcsCell
      <4>3. CASE i # 0
        <5>1. i - 1 \in 0 .. o /\ dp[<<i - 1, j>>] \in Nat
          <6>1. i - 1 \in 0 .. o
            BY <1>1, <4>3
          <6> QED
            BY <1>4, <6>1
        <5>2. dp[<<i, j>>] = Larger(dp[<<i - 1, j>>], dp[<<i, b>>]) /\ dp[<<i, b>>] >= dp[<<i - 1, j>>]
          BY <2>0, <2>3, <4>3 DEF LcsCell
        <5> QED
          BY <4>1, <5>1, <5>2 DEF Larger
      <4> QED
        BY <4>2, <4>3
    <3> HIDE DEF b
    <3>4. Good(i, b)
      BY <1>6, <3>1
    <3> QED
      BY <2>0, <3>1, <3>2, <3>3, <3>4, OneMoreEdit, ZenonT(30)
  <2>4. CASE /\ ~(i = 0 /\ j = 0) /\ ~(i > 0 /\ j > 0 /\ old[i] = new[j])
             /\ ~(j > 0 /\ (i = 0 \/ dp[<<i, j - 1>>] >= dp[<<i - 1, j>>]))
    <3> DEFINE a == i - 1
    <3>0. i > 0
      BY <2>0, <2>4
    <3>1. j \in 0 .. n /\ a \in 0 .. o /\ a + j < m /\ i = a + 1 /\ a \in Nat
      BY <1>1, <1>6, <3>0
    <3>2. edits[<<i, j>>] = Append(edits[<<a, j>>], Edit("delete", a, j))
      BY <2>0, <2>4, Zenon DEF EditCell
    <3>3. dp[<<i, j>>] = dp[<<a, j>>] + 0
      <4>1. dp[<<a, j>>] \in Nat /\ dp[<<a, j>>] = LcsCell(old, new, dp, a, j)
        BY <1>2, <1>4, <3>1
      <4>2. CASE j = 0
        BY <2>0, <4>1, <4>2 DEF LcsCell
      <4>3. CASE j # 0
        <5>1. j - 1 \in 0 .. n /\ dp[<<i, j - 1>>] \in Nat
          <6>1. j - 1 \in 0 .. n
            BY <1>1, <4>3
          <6> QED
            BY <1>4, <6>1
        <5>2. dp[<<i, j>>] = Larger(dp[<<a, j>>], dp[<<i, j - 1>>]) /\ ~(dp[<<i, j - 1>>] >= dp[<<a, j>>])
          BY <2>0, <2>4, <3>0, <4>3 DEF LcsCell
        <5> QED
          BY <4>1, <5>1, <5>2 DEF Larger
      <4> QED
        BY <4>2, <4>3
    <3> HIDE DEF a
    <3>4. Good(a, j)
      BY <1>6, <3>1
    <3> QED
      BY <2>0, <3>1, <3>2, <3>3, <3>4, OneMoreEdit, ZenonT(30)
  <2> QED
    BY <2>0, <2>1, <2>2, <2>3, <2>4
<1> HIDE DEF Good
<1>7. Nat \subseteq S
  <2>1. ASSUME NEW m \in Nat, m \in S
        PROVE  m + 1 \in S
    <3>1. \A i \in 0 .. o, j \in 0 .. n : i + j < m + 1 => Good(i, j)
      BY <1>6, <2>1
    <3>2. m + 1 \in Nat
      OBVIOUS
    <3> QED
      BY <3>1, <3>2
  <2> HIDE DEF S
  <2> QED
    BY <1>5, <2>1, NatSetInduction
<1>8. ASSUME NEW i \in 0 .. o, NEW j \in 0 .. n
      PROVE  Good(i, j)
  <2>1. i + j + 1 \in Nat /\ i + j < i + j + 1
    BY <1>1
  <2>2. i + j + 1 \in S
    BY <1>7, <2>1, Zenon
  <2> QED
    BY <2>1, <2>2
<1> QED
  BY <1>8 DEF Good, edits, dp, o, n

\* Each edit goes one line further in one file or in both, and no edit goes back.
LEMMA EditsAdvance ==
    ASSUME NEW old, NEW new, NEW E, NEW i, NEW j, Covers(old, new, E, i, j)
    PROVE  /\ i \in Nat /\ j \in Nat
           /\ \A x \in 0 .. Len(E) : OldAt(E, x) \in 0 .. i /\ NewAt(E, x) \in 0 .. j
           /\ \A x \in 1 .. Len(E) :
                /\ OldAt(E, x) = OldAt(E, x - 1) + (IF E[x].op = "insert" THEN 0 ELSE 1)
                /\ NewAt(E, x) = NewAt(E, x - 1) + (IF E[x].op = "delete" THEN 0 ELSE 1)
           /\ \A x, y \in 0 .. Len(E) : x <= y => /\ OldAt(E, x) <= OldAt(E, y)
                                                  /\ NewAt(E, x) <= NewAt(E, y)
<1> DEFINE n == Len(E)
           S == {m \in Nat : \A x \in 0 .. n : x + m <= n => /\ OldAt(E, x) <= OldAt(E, x + m)
                                                             /\ NewAt(E, x) <= NewAt(E, x + m)}
<1>1. E \in Seq(EditSet) /\ n \in Nat
  BY DEF Covers
<1>2. \A x \in 1 .. n : E[x] \in EditSet
  BY <1>1
<1>3. /\ \A x \in 1 .. n : E[x].old = OldAt(E, x - 1) /\ E[x].new = NewAt(E, x - 1)
      /\ OldAt(E, n) = i /\ NewAt(E, n) = j
  BY DEF Covers
<1> HIDE DEF n
<1>4. \A x \in 0 .. n : OldAt(E, x) \in Nat /\ NewAt(E, x) \in Nat
  BY <1>1, <1>2, SMTT(30) DEF OldAt, NewAt, EditSet
<1>5. ASSUME NEW x \in 1 .. n
      PROVE  /\ OldAt(E, x) = OldAt(E, x - 1) + (IF E[x].op = "insert" THEN 0 ELSE 1)
             /\ NewAt(E, x) = NewAt(E, x - 1) + (IF E[x].op = "delete" THEN 0 ELSE 1)
  <2>1. /\ OldAt(E, x) = E[x].old + (IF E[x].op = "insert" THEN 0 ELSE 1)
        /\ NewAt(E, x) = E[x].new + (IF E[x].op = "delete" THEN 0 ELSE 1)
    BY DEF OldAt, NewAt
  <2> QED
    BY <1>3, <2>1
<1>6. \A x \in 1 .. n : OldAt(E, x - 1) <= OldAt(E, x) /\ NewAt(E, x - 1) <= NewAt(E, x)
  <2>1. \A x \in 1 .. n : x - 1 \in 0 .. n
    BY <1>1
  <2> QED
    BY <1>4, <1>5, <2>1
<1>7. 0 \in S
  BY <1>1, <1>4
<1>8. ASSUME NEW m \in Nat, m \in S
      PROVE  m + 1 \in S
  <2>1. ASSUME NEW x \in 0 .. n, x + (m + 1) <= n
        PROVE  /\ OldAt(E, x) <= OldAt(E, x + (m + 1))
               /\ NewAt(E, x) <= NewAt(E, x + (m + 1))
    <3> DEFINE y == x + m
               z == x + (m + 1)
    <3>1. y \in 0 .. n /\ z \in 1 .. n /\ z \in 0 .. n /\ z - 1 = y
      BY <1>1, <2>1
    <3>2. OldAt(E, x) <= OldAt(E, y) /\ NewAt(E, x) <= NewAt(E, y)
      BY <1>8, <3>1
    <3> HIDE DEF y, z
    <3>3. OldAt(E, y) <= OldAt(E, z) /\ NewAt(E, y) <= NewAt(E, z)
      BY <1>6, <3>1
    <3>4. /\ OldAt(E, x) \in Nat /\ OldAt(E, y) \in Nat /\ OldAt(E, z) \in Nat
          /\ NewAt(E, x) \in Nat /\ NewAt(E, y) \in Nat /\ NewAt(E, z) \in Nat
      BY <1>4, <3>1
    <3>5. OldAt(E, x) <= OldAt(E, z) /\ NewAt(E, x) <= NewAt(E, z)
      BY <3>2, <3>3, <3>4
    <3> QED
      BY <3>5 DEF z
  <2> QED
    BY <2>1
<1>9. ASSUME NEW x \in 0 .. n, NEW y \in 0 .. n, x <= y
      PROVE  OldAt(E, x) <= OldAt(E, y) /\ NewAt(E, x) <= NewAt(E, y)
  <2> DEFINE m == y - x
  <2>1. m \in Nat /\ x + m = y /\ x + m <= n
    BY <1>1, <1>9
  <2> HIDE DEF m
  <2>2. m \in S
    <3> HIDE DEF S
    <3>1. Nat \subseteq S
      BY <1>7, <1>8, NatSetInduction
    <3> QED
      BY <2>1, <3>1
  <2> QED
    BY <2>1, <2>2
<1>10. n \in 0 .. n
  BY <1>1
<1>11. i \in Nat /\ j \in Nat
  BY <1>3, <1>4, <1>10
<1>12. \A x \in 0 .. n : OldAt(E, x) \in 0 .. i /\ NewAt(E, x) \in 0 .. j
  <2>1. \A x \in 0 .. n : OldAt(E, x) <= i /\ NewAt(E, x) <= j
    BY <1>1, <1>3, <1>9, <1>10
  <2> QED
    BY <1>4, <1>11, <2>1
<1> QED
  BY <1>5, <1>9, <1>11, <1>12 DEF n

\* The numbers of the lines that are deleted and added.
Gone(E) == {OldAt(E, x) : x \in {y \in 1 .. Len(E) : E[y].op = "delete"}}
Come(E) == {NewAt(E, x) : x \in {y \in 1 .. Len(E) : E[y].op = "insert"}}

\* Each line of a file is gone through once.
LEMMA LinesPassOnce ==
    ASSUME NEW old, NEW new, NEW E, NEW i, NEW j, Covers(old, new, E, i, j)
    PROVE  /\ \A x, y \in 1 .. Len(E) : x < y =>
                /\ E[y].op # "insert" => OldAt(E, x) < OldAt(E, y)
                /\ E[y].op # "delete" => NewAt(E, x) < NewAt(E, y)
           /\ \A x \in 1 .. Len(E) :
                /\ E[x].op # "insert" => (OldAt(E, x) \in Gone(E) <=> E[x].op = "delete")
                /\ E[x].op # "delete" => (NewAt(E, x) \in Come(E) <=> E[x].op = "insert")
<1> DEFINE n == Len(E)
<1>1. E \in Seq(EditSet) /\ n \in Nat
  BY DEF Covers
<1>2. \A x \in 1 .. n : E[x].op \in {"equal", "insert", "delete"}
  <2>1. \A x \in 1 .. n : E[x] \in EditSet
    BY <1>1
  <2> QED
    BY <2>1 DEF EditSet
<1>3. /\ \A x \in 0 .. n : OldAt(E, x) \in Nat /\ NewAt(E, x) \in Nat
      /\ \A x \in 1 .. n :
                /\ OldAt(E, x) = OldAt(E, x - 1) + (IF E[x].op = "insert" THEN 0 ELSE 1)
                /\ NewAt(E, x) = NewAt(E, x - 1) + (IF E[x].op = "delete" THEN 0 ELSE 1)
      /\ \A x, y \in 0 .. n : x <= y => OldAt(E, x) <= OldAt(E, y) /\ NewAt(E, x) <= NewAt(E, y)
  <2>1. \A x \in 0 .. i : x \in Nat
    OBVIOUS
  <2>2. \A x \in 0 .. j : x \in Nat
    OBVIOUS
  <2> QED
    BY EditsAdvance, <2>1, <2>2
<1> HIDE DEF n
<1>4. ASSUME NEW x \in 1 .. n, NEW y \in 1 .. n, x < y
      PROVE  /\ E[y].op # "insert" => OldAt(E, x) < OldAt(E, y)
             /\ E[y].op # "delete" => NewAt(E, x) < NewAt(E, y)
  <2> DEFINE z == y - 1
  <2>1. z \in 0 .. n /\ x \in 0 .. n /\ x <= z /\ y \in 0 .. n
    BY <1>1, <1>4
  <2>2. /\ OldAt(E, y) = OldAt(E, z) + (IF E[y].op = "insert" THEN 0 ELSE 1)
        /\ NewAt(E, y) = NewAt(E, z) + (IF E[y].op = "delete" THEN 0 ELSE 1)
    BY <1>3
  <2> HIDE DEF z
  <2>3. OldAt(E, x) <= OldAt(E, z) /\ NewAt(E, x) <= NewAt(E, z)
    BY <1>3, <2>1
  <2>4. /\ OldAt(E, x) \in Nat /\ OldAt(E, z) \in Nat /\ NewAt(E, x) \in Nat /\ NewAt(E, z) \in Nat
    BY <1>3, <2>1
  <2> QED
    BY <2>2, <2>3, <2>4
<1>5. ASSUME NEW x \in 1 .. n, NEW y \in 1 .. n
      PROVE  /\ E[x].op # "insert" /\ E[y].op # "insert" /\ OldAt(E, x) = OldAt(E, y) => x = y
             /\ E[x].op # "delete" /\ E[y].op # "delete" /\ NewAt(E, x) = NewAt(E, y) => x = y
  <2>1. x = y \/ x < y \/ y < x
    BY <1>1
  <2>2. x \in 0 .. n /\ y \in 0 .. n
    BY <1>1
  <2>3. OldAt(E, x) \in Nat /\ OldAt(E, y) \in Nat /\ NewAt(E, x) \in Nat /\ NewAt(E, y) \in Nat
    BY <1>3, <2>2
  <2>4. CASE x < y
    BY <1>4, <2>3, <2>4
  <2>5. CASE y < x
    BY <1>4, <2>3, <2>5
  <2> QED
    BY <2>1, <2>4, <2>5
<1>6. ASSUME NEW x \in 1 .. n
      PROVE  /\ E[x].op # "insert" => (OldAt(E, x) \in Gone(E) <=> E[x].op = "delete")
             /\ E[x].op # "delete" => (NewAt(E, x) \in Come(E) <=> E[x].op = "insert")
  <2>1. OldAt(E, x) \in Gone(E) <=> \E y \in 1 .. n : E[y].op = "delete" /\ OldAt(E, x) = OldAt(E, y)
    BY DEF Gone, n
  <2>2. NewAt(E, x) \in Come(E) <=> \E y \in 1 .. n : E[y].op = "insert" /\ NewAt(E, x) = NewAt(E, y)
    BY DEF Come, n
  <2> QED
    BY <1>5, <2>1, <2>2
<1> QED
  BY <1>4, <1>6 DEF n

\* What is left of the first n lines, for each n.
LEMMA WithoutIs ==
    ASSUME NEW C, NEW file \in Seq(C), NEW numbers
    PROVE  LET rest == Without(file, numbers) IN
           /\ rest \in [0 .. Len(file) -> Seq(C)] /\ rest[0] = <<>>
           /\ \A n \in 1 .. Len(file) :
                 rest[n] = IF n \in numbers THEN rest[n - 1] ELSE Append(rest[n - 1], file[n])
<1> DEFINE top == Len(file)
           value(h, n) == IF n = 0 THEN <<>>
                          ELSE IF n \in numbers THEN h[n - 1] ELSE Append(h[n - 1], file[n])
           rest == Without(file, numbers)
           V == Seq(C)
           Step == [a \in (1 .. top) \X V |->
                      IF a[1] \in numbers THEN a[2] ELSE Append(a[2], file[a[1]])]
<1>1. top \in Nat /\ <<>> \in V
  OBVIOUS
<1>2. \A n \in 1 .. top, v \in V : (IF n \in numbers THEN v ELSE Append(v, file[n])) \in V
  OBVIOUS
<1> HIDE DEF V
<1>3. Step \in [(1 .. top) \X V -> V]
      /\ \A n \in 1 .. top, v \in V : Step[<<n, v>>] = IF n \in numbers THEN v ELSE Append(v, file[n])
  BY <1>2
<1>4. rest = CHOOSE h : h = [n \in 0 .. top |-> value(h, n)]
  BY DEF Without
<1>5. PICK f \in [0 .. top -> V] :
        f = [n \in 0 .. top |-> IF n = 0 THEN <<>> ELSE Step[<<n, f[n - 1]>>]]
  <2> HIDE DEF Step, top
  <2>1. Chains(V, <<>>, top, Step) # {}
    BY <1>1, <1>3, NatRecursion
  <2> QED
    BY <2>1 DEF Chains
<1>6. f = [n \in 0 .. top |-> value(f, n)]
  <2>1. \A n \in 0 .. top : n # 0 => n \in 1 .. top /\ f[n - 1] \in V
    BY <1>1
  <2> HIDE DEF Step, top
  <2> QED
    BY <1>3, <1>5, <2>1
<1>7. rest = [n \in 0 .. top |-> value(rest, n)]
  <2> HIDE DEF value, top, Step, rest
  <2> QED
    BY <1>4, <1>6
<1>8. /\ rest[0] = <<>>
      /\ \A n \in 1 .. top : rest[n] = IF n \in numbers THEN rest[n - 1] ELSE Append(rest[n - 1], file[n])
  <2>1. \A n \in 0 .. top : rest[n] = value(rest, n)
    <3> HIDE DEF value, top, Step, rest
    <3> QED
      BY <1>7
  <2> HIDE DEF rest
  <2> QED
    BY <1>1, <2>1
<1> DEFINE S == {n \in Nat : n <= top => rest[n] \in V}
<1>9. Nat \subseteq S
  <2> HIDE DEF rest
  <2>1. 0 \in S
    BY <1>1, <1>8
  <2>2. ASSUME NEW n \in Nat, n \in S PROVE n + 1 \in S
    BY <1>1, <1>2, <1>8, <2>2
  <2> HIDE DEF S
  <2> QED
    BY <2>1, <2>2, NatSetInduction
<1>10. rest \in [0 .. top -> V]
  <2>1. \A n \in 0 .. top : rest[n] \in V
    BY <1>1, <1>9
  <2> HIDE DEF value, rest
  <2> QED
    BY <1>7, <2>1
<1> HIDE DEF rest
<1> QED
  BY <1>8, <1>10 DEF V, rest

\* As many lines are left as the table says.
LeavesCount(old, new, E, gone) ==
    \A dp : Counted(dp, E) /\ dp[<<0, 0>>] = 0 => Len(Left(old, gone)) = dp[<<Len(old), Len(new)>>]

\* What the edits delete and add leaves the same of both files, and as many lines as the
\* table says.
LEMMA SameIsLeft ==
    ASSUME NEW C, NEW old \in Seq(C), NEW new \in Seq(C), NEW E, Covers(old, new, E, Len(old), Len(new)),
           NEW gone, NEW come,
           \A x \in 1 .. Len(E) :
                /\ E[x].op # "insert" => (OldAt(E, x) \in gone <=> E[x].op = "delete")
                /\ E[x].op # "delete" => (NewAt(E, x) \in come <=> E[x].op = "insert")
    PROVE  Left(old, gone) = Left(new, come) /\ LeavesCount(old, new, E, gone)
<1> DEFINE o == Len(old)
           n == Len(new)
           A == Without(old, gone)
           B == Without(new, come)
           Same(x) == A[OldAt(E, x)] = B[NewAt(E, x)]
           Tally(dp, x) == Len(A[OldAt(E, x)]) = dp[<<OldAt(E, x), NewAt(E, x)>>]
<1>1. o \in Nat /\ n \in Nat /\ E \in Seq(EditSet) /\ Len(E) \in Nat
  BY DEF Covers
<1>2. \A x \in 1 .. Len(E) : E[x].op \in {"equal", "insert", "delete"}
  <2>1. \A x \in 1 .. Len(E) : E[x] \in EditSet
    BY <1>1
  <2> QED
    BY <2>1 DEF EditSet
<1>3. /\ A \in [0 .. o -> Seq(C)] /\ A[0] = <<>>
      /\ \A k \in 1 .. o : A[k] = IF k \in gone THEN A[k - 1] ELSE Append(A[k - 1], old[k])
  <2> HIDE DEF A
  <2> QED
    BY WithoutIs DEF A
<1>4. /\ B \in [0 .. n -> Seq(C)] /\ B[0] = <<>>
      /\ \A k \in 1 .. n : B[k] = IF k \in come THEN B[k - 1] ELSE Append(B[k - 1], new[k])
  <2> HIDE DEF B
  <2> QED
    BY WithoutIs DEF B
<1> HIDE DEF A, B
<1>5. /\ \A x \in 0 .. Len(E) : OldAt(E, x) \in 0 .. o /\ NewAt(E, x) \in 0 .. n
      /\ \A x \in 1 .. Len(E) :
           /\ OldAt(E, x) = OldAt(E, x - 1) + (IF E[x].op = "insert" THEN 0 ELSE 1)
           /\ NewAt(E, x) = NewAt(E, x - 1) + (IF E[x].op = "delete" THEN 0 ELSE 1)
  <2> HIDE DEF o, n
  <2> QED
    BY EditsAdvance DEF o, n
<1>6. /\ \A x \in 1 .. Len(E) : E[x].op = "equal" => old[OldAt(E, x)] = new[NewAt(E, x)]
      /\ OldAt(E, Len(E)) = o /\ NewAt(E, Len(E)) = n /\ OldAt(E, 0) = 0 /\ NewAt(E, 0) = 0
  BY DEF Covers, OldAt, NewAt
<1> HIDE DEF o, n
<1>7. ASSUME NEW x \in 1 .. Len(E), Same(x - 1)
      PROVE  /\ Same(x)
             /\ \A dp : Counted(dp, E) /\ Tally(dp, x - 1) => Tally(dp, x)
  <2> DEFINE a == OldAt(E, x - 1)
             b == NewAt(E, x - 1)
             k == OldAt(E, x)
             l == NewAt(E, x)
  <2>1. x - 1 \in 0 .. Len(E) /\ x \in 0 .. Len(E)
    BY <1>1
  <2>2. a \in 0 .. o /\ b \in 0 .. n /\ k \in 0 .. o /\ l \in 0 .. n
        /\ k = a + (IF E[x].op = "insert" THEN 0 ELSE 1) /\ l = b + (IF E[x].op = "delete" THEN 0 ELSE 1)
    BY <1>5, <2>1
  <2>3. A[a] = B[b]
    BY <1>7
  <2>4. \A dp : Counted(dp, E) => dp[<<k, l>>] = dp[<<a, b>>] + IF E[x].op = "equal" THEN 1 ELSE 0
    BY DEF Counted
  <2>5. E[x].op = "equal" => old[k] = new[l]
    BY <1>6
  <2>6. /\ E[x].op # "insert" => (k \in gone <=> E[x].op = "delete")
        /\ E[x].op # "delete" => (l \in come <=> E[x].op = "insert")
    OBVIOUS
  <2> HIDE DEF a, b, k, l
  <2>7. A[a] \in Seq(C)
    BY <1>3, <2>2
  <2>8. A[k] = B[l] /\ Len(A[k]) = Len(A[a]) + IF E[x].op = "equal" THEN 1 ELSE 0
    <3>1. CASE E[x].op = "insert"
      <4>1. k = a /\ l = b + 1 /\ l \in 1 .. n /\ l - 1 = b /\ l \in come
        BY <1>1, <2>2, <2>6, <3>1
      <4>2. A[k] = B[l]
        BY <1>4, <2>3, <4>1
      <4> QED
        BY <2>7, <3>1, <4>1, <4>2
    <3>2. CASE E[x].op = "delete"
      <4>1. l = b /\ k = a + 1 /\ k \in 1 .. o /\ k - 1 = a /\ k \in gone
        BY <1>1, <2>2, <2>6, <3>2
      <4>2. A[k] = A[a]
        BY <1>3, <4>1
      <4> QED
        BY <2>3, <2>7, <3>2, <4>1, <4>2
    <3>3. CASE E[x].op = "equal"
      <4>1. /\ k = a + 1 /\ l = b + 1 /\ k \in 1 .. o /\ l \in 1 .. n /\ k - 1 = a /\ l - 1 = b
            /\ k \notin gone /\ l \notin come
        BY <1>1, <2>2, <2>6, <3>3
      <4>2. A[k] = Append(A[a], old[k]) /\ B[l] = Append(B[b], new[l])
        BY <1>3, <1>4, <4>1
      <4>3. A[k] = B[l]
        BY <2>3, <2>5, <3>3, <4>2
      <4>4. Len(A[k]) = Len(A[a]) + 1
        BY <2>7, <4>1, <4>2
      <4> QED
        BY <3>3, <4>3, <4>4
    <3> QED
      BY <1>2, <3>1, <3>2, <3>3
  <2>9. ASSUME NEW dp, Counted(dp, E), Len(A[a]) = dp[<<a, b>>]
        PROVE  Len(A[k]) = dp[<<k, l>>]
    <3>1. dp[<<k, l>>] = dp[<<a, b>>] + IF E[x].op = "equal" THEN 1 ELSE 0
      BY <2>4, <2>9
    <3> QED
      BY <2>8, <2>9, <3>1
  <2> QED
    BY <2>8, <2>9 DEF a, b, k, l
<1>8. ASSUME NEW dp, Counted(dp, E), dp[<<0, 0>>] = 0
      PROVE  Tally(dp, 0)
  BY <1>3, <1>6, <1>8
<1>9. Same(0)
  BY <1>3, <1>4, <1>6
<1> HIDE DEF Same, Tally
<1> DEFINE S == {x \in Nat : x <= Len(E) => /\ Same(x)
                             /\ \A dp : Counted(dp, E) /\ dp[<<0, 0>>] = 0 => Tally(dp, x)}
<1>10. 0 \in S
  BY <1>8, <1>9
<1>11. ASSUME NEW x \in Nat, x \in S
       PROVE  x + 1 \in S
  <2> DEFINE y == x + 1
  <2>1. CASE y <= Len(E)
    <3>1. y \in 1 .. Len(E) /\ y - 1 = x /\ x <= Len(E)
      BY <1>1, <2>1
    <3>2. Same(x) /\ \A dp : Counted(dp, E) /\ dp[<<0, 0>>] = 0 => Tally(dp, x)
      BY <1>11, <3>1
    <3> HIDE DEF y
    <3>3. Same(y) /\ \A dp : Counted(dp, E) /\ Tally(dp, x) => Tally(dp, y)
      BY <1>7, <3>1, <3>2
    <3> QED
      BY <3>1, <3>2, <3>3 DEF y
  <2>2. CASE ~(y <= Len(E))
    BY <2>2
  <2> QED
    BY <2>1, <2>2
<1>12. Len(E) \in S
  <2> HIDE DEF S
  <2>1. Nat \subseteq S
    BY <1>10, <1>11, NatSetInduction
  <2> QED
    BY <1>1, <2>1
<1>13. Same(Len(E)) /\ \A dp : Counted(dp, E) /\ dp[<<0, 0>>] = 0 => Tally(dp, Len(E))
  BY <1>1, <1>12
<1> QED
  BY <1>6, <1>13 DEF Same, Tally, A, B, o, n, Left, LeavesCount

\* From one cell of the table to the next one, the length grows by at most one.
Steady(dp, i, j) ==
    /\ i > 0 => dp[<<i - 1, j>>] <= dp[<<i, j>>] /\ dp[<<i, j>>] <= dp[<<i - 1, j>>] + 1
    /\ j > 0 => dp[<<i, j - 1>>] <= dp[<<i, j>>] /\ dp[<<i, j>>] <= dp[<<i, j - 1>>] + 1

\* The table of a longest common subsequence grows by at most one per step.
LEMMA TableIsSteady ==
    ASSUME NEW C, NEW old \in Seq(C), NEW new \in Seq(C)
    PROVE  LET dp == LcsTable(old, new) IN
           \A i \in 0 .. Len(old), j \in 0 .. Len(new) : Steady(dp, i, j)
<1> DEFINE o == Len(old)
           n == Len(new)
           dp == LcsTable(old, new)
           S == {m \in Nat : \A i \in 0 .. o, j \in 0 .. n : i + j < m => Steady(dp, i, j)}
<1>1. o \in Nat /\ n \in Nat
  OBVIOUS
<1>2. /\ dp \in [Grid(o, n) -> Nat]
      /\ \A i \in 0 .. o, j \in 0 .. n : dp[<<i, j>>] = LcsCell(old, new, dp, i, j)
  <2> HIDE DEF dp
  <2> QED
    BY TableIs DEF dp
<1> HIDE DEF dp, o, n
<1>3. \A i \in 0 .. o, j \in 0 .. n : dp[<<i, j>>] \in Nat
  BY <1>2 DEF Grid
<1>4. 0 \in S
  BY <1>1
<1>5. ASSUME NEW m \in Nat, m \in S, NEW i \in 0 .. o, NEW j \in 0 .. n, i + j < m + 1
      PROVE  Steady(dp, i, j)
  <2>0. i \in Nat /\ j \in Nat /\ dp[<<i, j>>] = LcsCell(old, new, dp, i, j)
    BY <1>1, <1>2
  <2>1. CASE i = 0 \/ j = 0
    <3>1. dp[<<i, j>>] = 0
      BY <2>0, <2>1 DEF LcsCell
    <3>2. ASSUME i > 0 PROVE dp[<<i - 1, j>>] = 0
      <4>1. i - 1 \in 0 .. o /\ j = 0
        BY <1>1, <2>1, <3>2
      <4> QED
        BY <1>2, <4>1 DEF LcsCell
    <3>3. ASSUME j > 0 PROVE dp[<<i, j - 1>>] = 0
      <4>1. j - 1 \in 0 .. n /\ i = 0
        BY <1>1, <2>0, <2>1, <3>3
      <4> QED
        BY <1>2, <4>1 DEF LcsCell
    <3> QED
      BY <3>1, <3>2, <3>3 DEF Steady
  <2>2. CASE i > 0 /\ j > 0
    <3> DEFINE a == i - 1
               b == j - 1
    <3>1. /\ a \in 0 .. o /\ b \in 0 .. n /\ a + j < m /\ i + b < m
      BY <1>1, <1>5, <2>2
    <3>2. dp[<<i, j>>] = IF old[i] = new[j] THEN dp[<<a, b>>] + 1 ELSE Larger(dp[<<a, j>>], dp[<<i, b>>])
      BY <2>0, <2>2 DEF LcsCell
    <3>3. Steady(dp, a, j) /\ Steady(dp, i, b)
      BY <1>5, <3>1
    <3>4. /\ dp[<<a, b>>] <= dp[<<a, j>>] /\ dp[<<a, j>>] <= dp[<<a, b>>] + 1
          /\ dp[<<a, b>>] <= dp[<<i, b>>] /\ dp[<<i, b>>] <= dp[<<a, b>>] + 1
      BY <2>2, <3>3 DEF Steady
    <3>5. dp[<<a, b>>] \in Nat /\ dp[<<a, j>>] \in Nat /\ dp[<<i, b>>] \in Nat
      BY <1>3, <3>1
    <3>6. /\ dp[<<a, j>>] <= dp[<<i, j>>] /\ dp[<<i, j>>] <= dp[<<a, j>>] + 1
          /\ dp[<<i, b>>] <= dp[<<i, j>>] /\ dp[<<i, j>>] <= dp[<<i, b>>] + 1
      <4> HIDE DEF a, b
      <4> QED
        BY <3>2, <3>4, <3>5, SMTT(30) DEF Larger
    <3> QED
      BY <3>6 DEF Steady
  <2> QED
    BY <2>0, <2>1, <2>2
<1>6. ASSUME NEW m \in Nat, m \in S
      PROVE  m + 1 \in S
  <2>1. \A i \in 0 .. o, j \in 0 .. n : i + j < m + 1 => Steady(dp, i, j)
    BY <1>5, <1>6
  <2>2. m + 1 \in Nat
    OBVIOUS
  <2> QED
    BY <2>1, <2>2
<1>7. ASSUME NEW i \in 0 .. o, NEW j \in 0 .. n
      PROVE  Steady(dp, i, j)
  <2>1. i + j + 1 \in Nat /\ i + j < i + j + 1
    BY <1>1
  <2>2. i + j + 1 \in S
    <3> HIDE DEF S
    <3>1. Nat \subseteq S
      BY <1>4, <1>6, NatSetInduction
    <3> QED
      BY <2>1, <3>1
  <2> QED
    BY <2>1, <2>2
<1> QED
  BY <1>7 DEF dp, o, n

\* What one can leave of the first lines of both files is no longer than the table says.
LEMMA TableIsMaximal ==
    ASSUME NEW C, NEW old \in Seq(C), NEW new \in Seq(C), NEW gone, NEW come,
           Left(old, gone) = Left(new, come)
    PROVE  Len(Left(old, gone)) <= LcsTable(old, new)[<<Len(old), Len(new)>>]
<1> DEFINE o == Len(old)
           n == Len(new)
           dp == LcsTable(old, new)
           A == Without(old, gone)
           B == Without(new, come)
           Bounded(i, j) == A[i] = B[j] => Len(A[i]) <= dp[<<i, j>>]
           S == {m \in Nat : \A i \in 0 .. o, j \in 0 .. n : i + j < m => Bounded(i, j)}
<1>1. o \in Nat /\ n \in Nat
  OBVIOUS
<1>2. /\ dp \in [Grid(o, n) -> Nat]
      /\ \A i \in 0 .. o, j \in 0 .. n : dp[<<i, j>>] = LcsCell(old, new, dp, i, j)
  <2> HIDE DEF dp
  <2> QED
    BY TableIs DEF dp
<1>3. \A i \in 0 .. o, j \in 0 .. n : Steady(dp, i, j)
  <2> HIDE DEF dp
  <2> QED
    BY TableIsSteady DEF dp
<1>4. /\ A \in [0 .. o -> Seq(C)] /\ A[0] = <<>>
      /\ \A k \in 1 .. o : A[k] = IF k \in gone THEN A[k - 1] ELSE Append(A[k - 1], old[k])
  <2> HIDE DEF A
  <2> QED
    BY WithoutIs DEF A
<1>5. /\ B \in [0 .. n -> Seq(C)] /\ B[0] = <<>>
      /\ \A k \in 1 .. n : B[k] = IF k \in come THEN B[k - 1] ELSE Append(B[k - 1], new[k])
  <2> HIDE DEF B
  <2> QED
    BY WithoutIs DEF B
<1>6. A[o] = B[n]
  BY DEF Left
<1> HIDE DEF dp, o, n, A, B
<1>7. \A i \in 0 .. o, j \in 0 .. n : dp[<<i, j>>] \in Nat
  BY <1>2 DEF Grid
<1>8. \A i \in 0 .. o : A[i] \in Seq(C) /\ Len(A[i]) \in Nat
  BY <1>4
<1>9. \A j \in 0 .. n : B[j] \in Seq(C) /\ Len(B[j]) \in Nat
  BY <1>5
<1>10. ASSUME NEW m \in Nat, m \in S, NEW i \in 0 .. o, NEW j \in 0 .. n, i + j < m + 1, A[i] = B[j]
       PROVE  Len(A[i]) <= dp[<<i, j>>]
  <2>0. i \in Nat /\ j \in Nat /\ dp[<<i, j>>] = LcsCell(old, new, dp, i, j) /\ dp[<<i, j>>] \in Nat
        /\ Steady(dp, i, j)
    BY <1>1, <1>2, <1>3, <1>7
  <2>1. CASE i = 0 \/ j = 0
    <3>1. A[i] = <<>>
      BY <1>4, <1>5, <1>10, <2>1
    <3> QED
      BY <2>0, <3>1
  <2>2. CASE i > 0 /\ j > 0
    <3> DEFINE a == i - 1
               b == j - 1
    <3>1. /\ a \in 0 .. o /\ b \in 0 .. n /\ a + j < m /\ i + b < m /\ a + b < m
          /\ i \in 1 .. o /\ j \in 1 .. n
      BY <1>1, <1>10, <2>2
    <3>2. dp[<<a, b>>] \in Nat /\ dp[<<a, j>>] \in Nat /\ dp[<<i, b>>] \in Nat
      BY <1>7, <3>1
    <3>3. dp[<<a, j>>] <= dp[<<i, j>>] /\ dp[<<i, b>>] <= dp[<<i, j>>]
      BY <2>0, <2>2 DEF Steady
    <3>4. old[i] = new[j] => dp[<<i, j>>] = dp[<<a, b>>] + 1
      BY <2>0, <2>2 DEF LcsCell
    <3>5. /\ A[i] = IF i \in gone THEN A[a] ELSE Append(A[a], old[i])
          /\ B[j] = IF j \in come THEN B[b] ELSE Append(B[b], new[j])
      BY <1>4, <1>5, <3>1
    <3> HIDE DEF a, b
    <3>6. Bounded(a, j) /\ Bounded(i, b) /\ Bounded(a, b)
      <4> HIDE DEF Bounded
      <4> QED
        BY <1>10, <3>1
    <3>7. CASE i \in gone
      <4>1. A[a] = A[i] /\ Len(A[a]) <= dp[<<a, j>>]
        BY <1>10, <3>5, <3>6, <3>7
      <4> QED
        BY <1>8, <2>0, <3>2, <3>3, <4>1
    <3>8. CASE j \in come
      <4>1. Len(A[i]) <= dp[<<i, b>>]
        BY <1>10, <3>5, <3>6, <3>8
      <4> QED
        BY <1>8, <2>0, <3>2, <3>3, <4>1
    <3>9. CASE i \notin gone /\ j \notin come
      <4>1. Append(A[a], old[i]) = Append(B[b], new[j]) /\ A[i] = Append(A[a], old[i])
        BY <1>10, <3>5, <3>9
      <4>2. A[a] \in Seq(C) /\ B[b] \in Seq(C) /\ old[i] \in C /\ new[j] \in C
        BY <1>8, <1>9, <3>1 DEF o, n
      <4>3. Append(A[a], old[i]) = Append(B[b], new[j]) <=> A[a] = B[b] /\ old[i] = new[j]
        <5> DEFINE s == A[a]
                   t == B[b]
                   x == old[i]
                   y == new[j]
        <5> HIDE DEF s, t, x, y
        <5>1. s \in Seq(C) /\ t \in Seq(C) /\ x \in C /\ y \in C
          BY <4>2 DEF s, t, x, y
        <5>2. Append(s, x) = Append(t, y) <=> s = t /\ x = y
          BY <5>1, AppendInjective
        <5> QED
          BY <5>2 DEF s, t, x, y
      <4>4. A[a] = B[b] /\ old[i] = new[j]
        BY <4>1, <4>3
      <4>5. Len(A[a]) <= dp[<<a, b>>]
        BY <3>6, <4>4
      <4>6. Len(A[i]) = Len(A[a]) + 1 /\ Len(A[a]) \in Nat
        BY <4>1, <4>2
      <4> QED
        BY <3>2, <3>4, <4>4, <4>5, <4>6
    <3> QED
      BY <3>7, <3>8, <3>9
  <2> QED
    BY <2>0, <2>1, <2>2
<1>11. 0 \in S
  BY <1>1
<1>12. ASSUME NEW m \in Nat, m \in S
       PROVE  m + 1 \in S
  <2>1. \A i \in 0 .. o, j \in 0 .. n : i + j < m + 1 => Bounded(i, j)
    BY <1>10, <1>12
  <2>2. m + 1 \in Nat
    OBVIOUS
  <2> QED
    BY <2>1, <2>2
<1>13. Bounded(o, n)
  <2>1. o + n + 1 \in Nat /\ o + n < o + n + 1 /\ o \in 0 .. o /\ n \in 0 .. n
    BY <1>1
  <2>2. o + n + 1 \in S
    <3> HIDE DEF S
    <3>1. Nat \subseteq S
      BY <1>11, <1>12, NatSetInduction
    <3> QED
      BY <2>1, <3>1
  <2> QED
    BY <2>1, <2>2
<1> QED
  BY <1>6, <1>13 DEF A, dp, o, n, Left

\* The hunk that shows the edits from a to b.
HunkOf(E, a, b, old, new) ==
    [oldStart |-> E[a].old + 1, newStart |-> E[a].new + 1,
     lines |-> [y \in 1 .. b + 1 - a |-> LineOf(E[a + y - 1], old, new)]]

\* The lines, the hunks and the states of the grouping loop.
LineSet(old, new) == {LineOf(e, old, new) : e \in EditSet}
HunkSet(old, new) == [oldStart : Nat, newStart : Nat, lines : Seq(LineSet(old, new))]
LoopSet(old, new) ==
    [hunks : Seq(HunkSet(old, new)), cur : HunkSet(old, new), last : Nat]

\* A hunk with one line more.
Longer(h, line) == [h EXCEPT !.lines = Append(@, line)]

\* The hunk of a window grows to the hunk of the window with one edit more.
LEMMA HunksGrow ==
    ASSUME NEW old, NEW new, NEW E \in Seq(EditSet), NEW n \in Nat, n + 1 <= Len(E),
           NEW a \in 1 .. n + 1
    PROVE  /\ HunkOf(E, a, n, old, new) \in HunkSet(old, new)
           /\ HunkOf(E, a, n, old, new) # NoHunk
           /\ Longer(HunkOf(E, a, n, old, new), LineOf(E[n + 1], old, new))
                = HunkOf(E, a, n + 1, old, new)
<1> DEFINE L == LineSet(old, new)
           line(y) == LineOf(E[a + y - 1], old, new)
           few == [y \in 1 .. n + 1 - a |-> line(y)]
           more == [y \in 1 .. (n + 1) + 1 - a |-> line(y)]
           e == E[n + 1]
<1>1. /\ n + 1 - a \in Nat /\ (n + 1) + 1 - a = (n + 1 - a) + 1
      /\ \A y \in 1 .. (n + 1) + 1 - a : a + y - 1 \in 1 .. Len(E)
      /\ a + ((n + 1) + 1 - a) - 1 = n + 1
  OBVIOUS
<1>2. \A x \in 1 .. Len(E) : E[x] \in EditSet /\ E[x].old \in Nat /\ E[x].new \in Nat
  <2>1. \A x \in 1 .. Len(E) : E[x] \in EditSet
    OBVIOUS
  <2> QED
    BY <2>1 DEF EditSet
<1>3. \A y \in 1 .. (n + 1) + 1 - a : line(y) \in L
  BY <1>1, <1>2 DEF LineSet
<1> DEFINE k == n + 1 - a
<1>4. k \in Nat /\ few = [y \in 1 .. k |-> line(y)] /\ more = [y \in 1 .. k + 1 |-> line(y)]
      /\ line(k + 1) = LineOf(e, old, new) /\ \A y \in 1 .. k + 1 : line(y) \in L
  <2>1. k + 1 = (n + 1) + 1 - a
    BY <1>1
  <2>2. a + (k + 1) - 1 = n + 1
    BY <1>1
  <2> HIDE DEF L
  <2> QED
    BY <1>1, <1>3, <2>1, <2>2
<1> HIDE DEF L, line, few, more, e, k
<1>5. few \in Seq(L) /\ more = Append(few, LineOf(e, old, new))
  <2>1. \A y \in 1 .. k : line(y) \in L
    BY <1>4
  <2>2. few \in Seq(L)
    BY <1>4, <2>1
  <2>3. few \in Seq(L) /\ Len(few) = k
    BY <1>4, <2>2
  <2>4. line(k + 1) \in L
    BY <1>4
  <2>5. more = Append(few, line(k + 1))
    BY <1>4, <2>3, <2>4
  <2> QED
    BY <1>4, <2>2, <2>5
<1>6. E[a].old \in Nat /\ E[a].new \in Nat
  BY <1>2
<1>7. HunkOf(E, a, n, old, new) = [oldStart |-> E[a].old + 1, newStart |-> E[a].new + 1, lines |-> few]
  BY DEF HunkOf, few, line
<1>8. HunkOf(E, a, n + 1, old, new) = [oldStart |-> E[a].old + 1, newStart |-> E[a].new + 1, lines |-> more]
  BY DEF HunkOf, more, line
<1>9. HunkOf(E, a, n, old, new) \in HunkSet(old, new)
  <2>1. E[a].old + 1 \in Nat /\ E[a].new + 1 \in Nat
    BY <1>6
  <2> QED
    BY <1>5, <1>7, <2>1 DEF HunkSet, L
<1>10. HunkOf(E, a, n, old, new) # NoHunk
  BY <1>6, <1>7 DEF NoHunk
<1>11. Longer(HunkOf(E, a, n, old, new), LineOf(E[n + 1], old, new)) = HunkOf(E, a, n + 1, old, new)
  <2> DEFINE h == HunkOf(E, a, n, old, new)
             x == E[a].old + 1
             y == E[a].new + 1
             t == Append(few, LineOf(E[n + 1], old, new))
  <2>1. h = [oldStart |-> x, newStart |-> y, lines |-> few]
    BY <1>7
  <2>2. HunkOf(E, a, n + 1, old, new) = [oldStart |-> x, newStart |-> y, lines |-> t]
    BY <1>5, <1>8 DEF e
  <2>3. h.lines = few
    BY <2>1
  <2>4. [h EXCEPT !.lines = Append(@, LineOf(E[n + 1], old, new))] = [h EXCEPT !.lines = t]
    BY <2>3
  <2> HIDE DEF h, x, y, t
  <2>5. [h EXCEPT !.lines = t] = [oldStart |-> x, newStart |-> y, lines |-> t]
    BY <2>1
  <2> QED
    BY <2>2, <2>4, <2>5 DEF h, Longer
<1> QED
  BY <1>9, <1>10, <1>11

\* A hunk opens at the start of its context.
Start(idx, context) == IF idx > context THEN idx - context ELSE 1

\* So does every hunk that may be open.
Growing(E, n, m, old, new) ==
    \A a \in 1 .. m : /\ HunkOf(E, a, n, old, new) \in HunkSet(old, new)
                      /\ HunkOf(E, a, n, old, new) # NoHunk
                      /\ Longer(HunkOf(E, a, n, old, new), LineOf(E[m], old, new))
                            = HunkOf(E, a, m, old, new)

LEMMA AllHunksGrow ==
    ASSUME NEW old, NEW new, NEW E \in Seq(EditSet), NEW n \in Nat, n + 1 <= Len(E)
    PROVE  Growing(E, n, n + 1, old, new)
BY HunksGrow DEF Growing

\* The hunk that opens at a change is the window of its context.
LEMMA HunkOpens ==
    ASSUME NEW old, NEW new, NEW E \in Seq(EditSet), NEW n \in Nat, n + 1 <= Len(E), NEW context \in Nat
    PROVE  /\ Start(n + 1, context) \in 1 .. n + 1
           /\ OpenHunk(E, n + 1, old, new, context) = HunkOf(E, Start(n + 1, context), n, old, new)
<1> DEFINE a == Start(n + 1, context)
<1>1. a \in 1 .. n + 1
  BY DEF Start
<1> QED
  BY <1>1 DEF OpenHunk, HunkOf, Start

\* A round of the loop gives a state of the loop.
LEMMA RoundsTyped ==
    ASSUME NEW old, NEW new, NEW E \in Seq(EditSet), NEW context \in Nat, NEW n \in 1 .. Len(E),
           NEW st \in LoopSet(old, new)
    PROVE  AddEdit(st, E, n, old, new, context) \in LoopSet(old, new)
<1> DEFINE H == HunkSet(old, new)
           e == E[n]
           change == e.op # "equal"
           last == IF change THEN n ELSE st.last
           cur == IF change /\ st.cur = NoHunk THEN OpenHunk(E, n, old, new, context) ELSE st.cur
<1>1. st.hunks \in Seq(H) /\ st.cur \in H /\ st.last \in Nat
      /\ st = [hunks |-> st.hunks, cur |-> st.cur, last |-> st.last]
  <2> HIDE DEF H
  <2> QED
    BY DEF LoopSet, H
<1>2. OpenHunk(E, n, old, new, context) \in H
  <2> DEFINE m == n - 1
  <2>1. m \in Nat /\ m + 1 = n /\ m + 1 <= Len(E)
    OBVIOUS
  <2> HIDE DEF m
  <2>2. OpenHunk(E, m + 1, old, new, context) \in H
    <3> DEFINE a == Start(m + 1, context)
    <3>1. a \in 1 .. m + 1 /\ OpenHunk(E, m + 1, old, new, context) = HunkOf(E, a, m, old, new)
      BY <2>1, HunkOpens
    <3> HIDE DEF a
    <3>2. HunkOf(E, a, m, old, new) \in HunkSet(old, new)
      BY <2>1, <3>1, HunksGrow
    <3> QED
      BY <3>1, <3>2
  <2> QED
    BY <2>1, <2>2
<1>3. cur \in H /\ last \in Nat
  BY <1>1, <1>2
<1>4. NoHunk \in H
  <2>1. <<>> \in Seq(LineSet(old, new))
    OBVIOUS
  <2> QED
    BY <2>1 DEF NoHunk, HunkSet
<1>5. [cur EXCEPT !.lines = Append(@, LineOf(e, old, new))] \in H
  <2>1. e \in EditSet
    OBVIOUS
  <2>2. LineOf(e, old, new) \in LineSet(old, new)
    BY <2>1 DEF LineSet
  <2> HIDE DEF cur, e
  <2> QED
    BY <1>3, <2>2, SMTT(30) DEF HunkSet
<1>6. AddEdit(st, E, n, old, new, context) =
        IF cur = NoHunk THEN st
        ELSE IF n <= last + context
        THEN [st EXCEPT !.last = last, !.cur = [cur EXCEPT !.lines = Append(@, LineOf(e, old, new))]]
        ELSE [st EXCEPT !.last = last, !.hunks = Append(@, cur), !.cur = NoHunk]
  BY DEF AddEdit
<1> HIDE DEF cur, last, change, e, H
<1>7. Append(st.hunks, cur) \in Seq(H)
  BY <1>1, <1>3
<1> QED
  BY <1>1, <1>3, <1>4, <1>5, <1>6, <1>7 DEF LoopSet, H

\* The loop is what its definition says.
LEMMA RoundsAre ==
    ASSUME NEW old, NEW new, NEW E \in Seq(EditSet), NEW context \in Nat
    PROVE  LET after == Rounds(E, old, new, context) IN
           /\ after[0] = [hunks |-> <<>>, cur |-> NoHunk, last |-> 0]
           /\ \A n \in 1 .. Len(E) : after[n] = AddEdit(after[n - 1], E, n, old, new, context)
           /\ \A n \in 0 .. Len(E) : after[n] \in LoopSet(old, new)
<1> DEFINE top == Len(E)
           first == [hunks |-> <<>>, cur |-> NoHunk, last |-> 0]
           value(h, n) == IF n = 0 THEN first ELSE AddEdit(h[n - 1], E, n, old, new, context)
           after == Rounds(E, old, new, context)
           V == LoopSet(old, new)
           Step == [a \in (1 .. top) \X V |-> AddEdit(a[2], E, a[1], old, new, context)]
<1>1. top \in Nat
  OBVIOUS
<1>2. first \in V
  <2>1. <<>> \in Seq(HunkSet(old, new)) /\ <<>> \in Seq(LineSet(old, new))
    OBVIOUS
  <2>2. NoHunk \in HunkSet(old, new)
    BY <2>1 DEF NoHunk, HunkSet
  <2> QED
    BY <2>1, <2>2 DEF LoopSet
<1>3. \A n \in 1 .. top, v \in V : AddEdit(v, E, n, old, new, context) \in V
  BY RoundsTyped
<1> HIDE DEF V, first
<1>4. Step \in [(1 .. top) \X V -> V]
      /\ \A n \in 1 .. top, v \in V : Step[<<n, v>>] = AddEdit(v, E, n, old, new, context)
  BY <1>3
<1>5. after = CHOOSE h : h = [n \in 0 .. top |-> value(h, n)]
  BY DEF Rounds, first
<1>6. PICK f \in [0 .. top -> V] :
        f = [n \in 0 .. top |-> IF n = 0 THEN first ELSE Step[<<n, f[n - 1]>>]]
  <2> HIDE DEF Step, top
  <2>1. Chains(V, first, top, Step) # {}
    BY <1>1, <1>2, <1>4, NatRecursion
  <2> QED
    BY <2>1 DEF Chains
<1>7. f = [n \in 0 .. top |-> value(f, n)]
  <2>1. \A n \in 0 .. top : n # 0 => n \in 1 .. top /\ f[n - 1] \in V
    BY <1>1
  <2> HIDE DEF Step, top
  <2> QED
    BY <1>4, <1>6, <2>1
<1>8. after = [n \in 0 .. top |-> value(after, n)]
  <2> HIDE DEF value, top, Step, after
  <2> QED
    BY <1>5, <1>7
<1>9. /\ after[0] = first
      /\ \A n \in 1 .. top : after[n] = AddEdit(after[n - 1], E, n, old, new, context)
  <2>1. \A n \in 0 .. top : after[n] = value(after, n)
    <3> HIDE DEF value, top, Step, after
    <3> QED
      BY <1>8
  <2> HIDE DEF after
  <2> QED
    BY <1>1, <2>1
<1> DEFINE S == {n \in Nat : n <= top => after[n] \in V}
<1>10. Nat \subseteq S
  <2> HIDE DEF after
  <2>1. 0 \in S
    BY <1>2, <1>9
  <2>2. ASSUME NEW n \in Nat, n \in S PROVE n + 1 \in S
    <3> DEFINE m == n + 1
    <3>1. CASE m <= top
      <4>1. m \in 1 .. top /\ m - 1 = n /\ n <= top
        BY <1>1, <3>1
      <4>2. after[n] \in V
        BY <2>2, <4>1
      <4> HIDE DEF m
      <4>3. after[m] = AddEdit(after[n], E, m, old, new, context)
        BY <1>9, <4>1
      <4>4. after[m] \in V
        BY <1>3, <4>1, <4>2, <4>3
      <4> QED
        BY <4>4 DEF m
    <3>2. CASE ~(m <= top)
      BY <3>2
    <3> QED
      BY <3>1, <3>2
  <2> HIDE DEF S
  <2> QED
    BY <2>1, <2>2, NatSetInduction
<1>11. \A n \in 0 .. top : after[n] \in V
  BY <1>1, <1>10
<1> HIDE DEF after
<1> QED
  BY <1>9, <1>11 DEF V, first, after

Window == [from : Nat, to : Nat]
In(w) == w.from .. w.to

\* The hunks show these windows of the first n edits: no change is in two of them, nor
\* before a window and after the one before it.
Shows(E, n, hunks, W, old, new) ==
    /\ W \in Seq(Window) /\ Len(W) = Len(hunks)
    /\ \A g \in 1 .. Len(W) : /\ 1 <= W[g].from /\ W[g].from <= W[g].to /\ W[g].to <= n
                              /\ hunks[g] = HunkOf(E, W[g].from, W[g].to, old, new)
    /\ \A g, h \in 1 .. Len(W) : \A x \in In(W[g]) : g < h /\ E[x].op # "equal" => x < W[h].from

\* After n rounds: a hunk is open (from the edit f on) as long as the last change is not
\* more than the context back; every change is in a window or in the open hunk.
Grouped(E, n, st, W, f, old, new, context) ==
    /\ Shows(E, n, st.hunks, W, old, new)
    /\ f \in 0 .. n /\ st.last \in 0 .. n
    /\ f = 0 => st.cur = NoHunk /\ (st.last = 0 \/ n > st.last + context)
    /\ f # 0 => st.cur = HunkOf(E, f, n, old, new) /\ n <= st.last + context
    /\ \A x \in 1 .. n : E[x].op # "equal" => x <= st.last
    /\ \A g \in 1 .. Len(W) : \A x \in In(W[g]) : f # 0 /\ E[x].op # "equal" => x < f
    /\ \A x \in 1 .. n : E[x].op # "equal" =>
          (f # 0 /\ f <= x) \/ \E g \in 1 .. Len(W) : x \in In(W[g])

\* What the hunks show of the first edits is there with one edit more.
LEMMA WindowsStay ==
    ASSUME NEW old, NEW new, NEW E, NEW n \in Nat, NEW hunks, NEW W, Shows(E, n, hunks, W, old, new)
    PROVE  Shows(E, n + 1, hunks, W, old, new)
<1>1. \A g \in 1 .. Len(W) : W[g].to <= n => W[g].to <= n + 1
  <2>1. \A g \in 1 .. Len(W) : W[g] \in Window
    BY DEF Shows
  <2> QED
    BY <2>1 DEF Window
<1> QED
  BY <1>1 DEF Shows

\* A finished hunk is one window more.
LEMMA WindowsGrow ==
    ASSUME NEW old, NEW new, NEW E, NEW n \in Nat, NEW hunks \in Seq(HunkSet(old, new)), NEW W,
           Shows(E, n, hunks, W, old, new), NEW f \in 1 .. n, NEW h \in HunkSet(old, new),
           h = HunkOf(E, f, n, old, new),
           \A g \in 1 .. Len(W) : \A x \in In(W[g]) : E[x].op # "equal" => x < f
    PROVE  LET V == Append(W, [from |-> f, to |-> n]) IN
           /\ Shows(E, n, Append(hunks, h), V, old, new)
           /\ Len(V) = Len(W) + 1 /\ V[Len(W) + 1] = [from |-> f, to |-> n]
           /\ \A g \in 1 .. Len(W) : V[g] = W[g]
<1> DEFINE w == [from |-> f, to |-> n]
           V == Append(W, w)
           more == Append(hunks, h)
           k == Len(W)
<1>1. w \in Window /\ w.from = f /\ w.to = n
  BY DEF Window
<1>2. W \in Seq(Window) /\ k \in Nat /\ Len(hunks) = k
  BY DEF Shows
<1> HIDE DEF w
<1>3. V \in Seq(Window) /\ Len(V) = k + 1 /\ V[k + 1] = w /\ \A g \in 1 .. k : V[g] = W[g]
  BY <1>1, <1>2
<1>4. Len(more) = k + 1 /\ more[k + 1] = h /\ \A g \in 1 .. k : more[g] = hunks[g]
  BY <1>2
<1>5. /\ \A g \in 1 .. k : /\ 1 <= W[g].from /\ W[g].from <= W[g].to /\ W[g].to <= n
                           /\ hunks[g] = HunkOf(E, W[g].from, W[g].to, old, new)
      /\ \A g, i \in 1 .. k : \A x \in In(W[g]) : g < i /\ E[x].op # "equal" => x < W[i].from
  BY DEF Shows
<1>6. \A g \in 1 .. k : \A x \in In(W[g]) : E[x].op # "equal" => x < f
  OBVIOUS
<1> HIDE DEF V, more, k
<1>7. \A g \in 1 .. k + 1 : g \in 1 .. k \/ g = k + 1
  BY <1>2
<1>8. \A g \in 1 .. k + 1 : /\ 1 <= V[g].from /\ V[g].from <= V[g].to /\ V[g].to <= n
                            /\ more[g] = HunkOf(E, V[g].from, V[g].to, old, new)
  <2> SUFFICES ASSUME NEW g \in 1 .. k + 1
               PROVE  /\ 1 <= V[g].from /\ V[g].from <= V[g].to /\ V[g].to <= n
                      /\ more[g] = HunkOf(E, V[g].from, V[g].to, old, new)
    OBVIOUS
  <2>1. CASE g \in 1 .. k
    BY <1>3, <1>4, <1>5, <2>1
  <2>2. CASE g = k + 1
    <3>1. V[g] = w /\ more[g] = HunkOf(E, f, n, old, new)
      BY <1>3, <1>4, <2>2
    <3> QED
      BY <1>1, <3>1
  <2> QED
    BY <1>7, <2>1, <2>2
<1>9. ASSUME NEW g \in 1 .. k + 1, NEW i \in 1 .. k + 1, NEW x \in In(V[g]), g < i, E[x].op # "equal"
      PROVE  x < V[i].from
  <2>1. g \in 1 .. k
    BY <1>2, <1>9
  <2>2. x \in In(W[g])
    BY <1>3, <2>1
  <2>3. CASE i \in 1 .. k
    BY <1>3, <1>5, <1>9, <2>1, <2>2, <2>3
  <2>4. CASE i = k + 1
    BY <1>1, <1>3, <1>6, <1>9, <2>1, <2>2, <2>4
  <2> QED
    BY <1>7, <2>3, <2>4
<1>10. Shows(E, n, more, V, old, new)
  BY <1>3, <1>4, <1>8, <1>9 DEF Shows
<1> QED
  BY <1>3, <1>10 DEF V, more, w, k

\* What a round makes of the open hunk.
RoundOpen(E, n, st, old, new, context) ==
    IF E[n].op # "equal" /\ st.cur = NoHunk THEN OpenHunk(E, n, old, new, context) ELSE st.cur

\* What a round does: nothing without an open hunk, else the line is added or the hunk ends.
Round(E, n, st, next, cur, last, line, context) ==
    /\ cur = NoHunk => next = st
    /\ cur # NoHunk /\ n <= last + context =>
          /\ next.hunks = st.hunks /\ next.last = last
          /\ next.cur = Longer(cur, line)
    /\ cur # NoHunk /\ ~(n <= last + context) =>
          next.hunks = Append(st.hunks, cur) /\ next.last = last /\ next.cur = NoHunk

\* A round of AddEdit is such a round.
LEMMA RoundIs ==
    ASSUME NEW old, NEW new, NEW E, NEW context, NEW n, NEW st \in LoopSet(old, new)
    PROVE  Round(E, n, st, AddEdit(st, E, n, old, new, context), RoundOpen(E, n, st, old, new, context),
                 IF E[n].op # "equal" THEN n ELSE st.last, LineOf(E[n], old, new), context)
<1> DEFINE last == IF E[n].op # "equal" THEN n ELSE st.last
           cur == RoundOpen(E, n, st, old, new, context)
           grown == Longer(cur, LineOf(E[n], old, new))
<1>1. st = [hunks |-> st.hunks, cur |-> st.cur, last |-> st.last]
  BY DEF LoopSet
<1>2. AddEdit(st, E, n, old, new, context) =
        IF cur = NoHunk THEN st
        ELSE IF n <= last + context
        THEN [st EXCEPT !.last = last, !.cur = grown]
        ELSE [st EXCEPT !.last = last, !.hunks = Append(@, cur), !.cur = NoHunk]
  BY DEF AddEdit, RoundOpen, Longer
<1> HIDE DEF last, cur, grown
<1> QED
  BY <1>1, <1>2 DEF last, cur, grown, Round

\* The invariant of the grouping loop: a round keeps it.
LEMMA GroupedStays ==
    ASSUME NEW old, NEW new, NEW E \in Seq(EditSet), NEW context \in Nat, NEW n \in Nat, n + 1 <= Len(E),
           NEW st \in LoopSet(old, new), NEW W, NEW f, Grouped(E, n, st, W, f, old, new, context)
    PROVE  \E V, g : Grouped(E, n + 1, AddEdit(st, E, n + 1, old, new, context), V, g, old, new, context)
<1>0. Growing(E, n, n + 1, old, new)
  BY AllHunksGrow
<1> DEFINE m == n + 1
           next == AddEdit(st, E, m, old, new, context)
           last == IF E[m].op # "equal" THEN m ELSE st.last
           cur == RoundOpen(E, m, st, old, new, context)
           Change(x) == E[x].op # "equal"
           InWindow(x) == \E g \in 1 .. Len(W) : x \in In(W[g])
<1>1. m \in Nat /\ m = n + 1 /\ m \in 1 .. Len(E) /\ m <= Len(E) /\ m # 0
      /\ \A x \in 1 .. m : x \in 1 .. n \/ x = m
  OBVIOUS
<1>2. /\ Shows(E, n, st.hunks, W, old, new)
      /\ f \in 0 .. n /\ st.last \in 0 .. n
      /\ f = 0 => st.cur = NoHunk /\ (st.last = 0 \/ n > st.last + context)
      /\ f # 0 => st.cur = HunkOf(E, f, n, old, new) /\ n <= st.last + context
      /\ \A x \in 1 .. n : Change(x) => x <= st.last
      /\ \A g \in 1 .. Len(W) : \A x \in In(W[g]) : f # 0 /\ Change(x) => x < f
      /\ \A x \in 1 .. n : Change(x) => (f # 0 /\ f <= x) \/ InWindow(x)
  BY DEF Grouped
<1>3. Shows(E, m, st.hunks, W, old, new)
  BY <1>2, WindowsStay
<1>4. /\ cur = NoHunk => next = st
      /\ cur # NoHunk /\ m <= last + context =>
            /\ next.hunks = st.hunks /\ next.last = last
            /\ next.cur = Longer(cur, LineOf(E[m], old, new))
      /\ cur # NoHunk /\ ~(m <= last + context) =>
            next.hunks = Append(st.hunks, cur) /\ next.last = last /\ next.cur = NoHunk
  <2>1. Round(E, m, st, next, cur, last, LineOf(E[m], old, new), context)
    BY RoundIs
  <2> HIDE DEF m, next, last, cur
  <2> QED
    BY <2>1 DEF Round
<1>5. cur = IF Change(m) /\ st.cur = NoHunk THEN OpenHunk(E, m, old, new, context) ELSE st.cur
  BY DEF RoundOpen
<1>6. last = IF Change(m) THEN m ELSE st.last
  OBVIOUS
<1>7. \A a \in 1 .. m : /\ HunkOf(E, a, n, old, new) \in HunkSet(old, new)
                        /\ HunkOf(E, a, n, old, new) # NoHunk
                        /\ Longer(HunkOf(E, a, n, old, new), LineOf(E[m], old, new))
                              = HunkOf(E, a, m, old, new)
  BY <1>0 DEF Growing
<1>8. Start(m, context) \in 1 .. m
      /\ OpenHunk(E, m, old, new, context) = HunkOf(E, Start(m, context), n, old, new)
  BY HunkOpens
<1>9. st.last \in Nat /\ last \in 0 .. m /\ st.hunks \in Seq(HunkSet(old, new)) /\ st.last \in 0 .. m
  BY <1>1, <1>2 DEF LoopSet
<1>10. \A g \in 1 .. Len(W) : \A x \in In(W[g]) : x \in 1 .. n
  <2>1. \A g \in 1 .. Len(W) : W[g] \in Window /\ 1 <= W[g].from /\ W[g].to <= n
    BY <1>2 DEF Shows
  <2> QED
    BY <2>1 DEF In, Window
<1>11. \A x \in 1 .. m : Change(x) => x <= last
  <2>1. ASSUME NEW x \in 1 .. m, Change(x)
        PROVE  x <= last
    <3>1. CASE Change(m)
      BY <1>1, <1>6, <2>1, <3>1
    <3>2. CASE ~Change(m)
      <4>1. x \in 1 .. n
        BY <1>1, <2>1, <3>2
      <4> QED
        BY <1>2, <1>6, <2>1, <3>2, <4>1
    <3> QED
      BY <3>1, <3>2
  <2> QED
    BY <2>1
<1> HIDE DEF m, next, last, cur, Change, InWindow
<1>12. ASSUME f = 0, ~Change(m)
       PROVE  Grouped(E, m, next, W, 0, old, new, context)
  <2>1. next = st /\ last = st.last /\ st.cur = NoHunk
    BY <1>2, <1>4, <1>5, <1>6, <1>12
  <2>2. next.last = 0 \/ m > next.last + context
    BY <1>1, <1>2, <1>9, <1>12, <2>1
  <2>3. \A x \in 1 .. m : Change(x) => InWindow(x)
    BY <1>1, <1>2, <1>12
  <2> QED
    BY <1>1, <1>3, <1>9, <1>11, <2>1, <2>2, <2>3 DEF Grouped, Change, InWindow
<1>13. ASSUME f = 0, Change(m)
       PROVE  Grouped(E, m, next, W, Start(m, context), old, new, context)
  <2> DEFINE a == Start(m, context)
  <2>1. cur = HunkOf(E, a, n, old, new) /\ a \in 1 .. m
    BY <1>2, <1>5, <1>8, <1>13
  <2>2. cur # NoHunk /\ last = m /\ m <= last + context
    <3>1. last = m
      BY <1>6, <1>13
    <3>2. m <= m + context
      BY <1>1
    <3>3. cur # NoHunk
      BY <1>7, <2>1
    <3> QED
      BY <3>1, <3>2, <3>3
  <2>3. next.hunks = st.hunks /\ next.last = m /\ next.cur = HunkOf(E, a, m, old, new)
    BY <1>4, <1>7, <2>1, <2>2
  <2>4. ASSUME NEW g \in 1 .. Len(W), NEW x \in In(W[g]), Change(x)
        PROVE  x < a
    <3>1. x \in 1 .. n /\ x <= st.last
      BY <1>2, <1>10, <2>4
    <3>2. n > st.last + context
      BY <1>2, <1>9, <1>13, <3>1
    <3>3. a = m - context
      BY <1>1, <1>9, <3>2 DEF Start
    <3> QED
      BY <1>1, <1>9, <3>1, <3>2, <3>3
  <2>5. \A x \in 1 .. m : Change(x) => a <= x \/ InWindow(x)
    BY <1>1, <1>2, <1>13, <2>1
  <2>6. a \in 0 .. m /\ a # 0 /\ m \in 0 .. m /\ m <= m + context
    BY <1>1, <2>1
  <2>7. \A x \in 1 .. m : Change(x) => x <= m
    BY <1>1
  <2> HIDE DEF a
  <2>8. Grouped(E, m, next, W, a, old, new, context)
    BY <1>3, <2>3, <2>4, <2>5, <2>6, <2>7 DEF Grouped, Change, InWindow
  <2> QED
    BY <2>8 DEF a
<1>14. ASSUME f # 0, m <= last + context
       PROVE  Grouped(E, m, next, W, f, old, new, context)
  <2>1. f \in 1 .. m /\ f \in 0 .. m /\ st.cur = HunkOf(E, f, n, old, new)
    BY <1>1, <1>2, <1>14
  <2>2. cur = HunkOf(E, f, n, old, new) /\ cur # NoHunk
    BY <1>5, <1>7, <2>1
  <2>3. next.hunks = st.hunks /\ next.last = last /\ next.cur = HunkOf(E, f, m, old, new)
    BY <1>4, <1>7, <1>14, <2>1, <2>2
  <2>4. \A x \in 1 .. m : Change(x) => f <= x \/ InWindow(x)
    BY <1>1, <1>2, <1>14, <2>1
  <2> QED
    BY <1>2, <1>3, <1>9, <1>11, <1>14, <2>1, <2>3, <2>4 DEF Grouped, Change, InWindow
<1>15. ASSUME f # 0, ~(m <= last + context)
       PROVE  \E V : Grouped(E, m, next, V, 0, old, new, context)
  <2> DEFINE V == Append(W, [from |-> f, to |-> n])
  <2>1. f \in 1 .. m /\ f \in 1 .. n /\ st.cur = HunkOf(E, f, n, old, new)
    BY <1>1, <1>2, <1>15
  <2>2. cur = HunkOf(E, f, n, old, new) /\ cur # NoHunk /\ cur \in HunkSet(old, new)
    BY <1>5, <1>7, <2>1
  <2>3. ~Change(m) /\ last = st.last
    BY <1>1, <1>6, <1>15
  <2>4. next.hunks = Append(st.hunks, cur) /\ next.last = st.last /\ next.cur = NoHunk
    BY <1>4, <1>15, <2>2, <2>3
  <2>5. \A g \in 1 .. Len(W) : \A x \in In(W[g]) : E[x].op # "equal" => x < f
    BY <1>2, <1>15 DEF Change
  <2>6. /\ Shows(E, n, next.hunks, V, old, new)
        /\ Len(V) = Len(W) + 1 /\ V[Len(W) + 1] = [from |-> f, to |-> n]
        /\ \A g \in 1 .. Len(W) : V[g] = W[g]
    <3>1. /\ Shows(E, n, Append(st.hunks, cur), V, old, new)
          /\ Len(V) = Len(W) + 1 /\ V[Len(W) + 1] = [from |-> f, to |-> n]
          /\ \A g \in 1 .. Len(W) : V[g] = W[g]
      BY <1>2, <1>9, <2>1, <2>2, <2>5, WindowsGrow, SMTT(30)
    <3> HIDE DEF V
    <3> QED
      BY <2>4, <3>1
  <2> HIDE DEF V
  <2>7. Shows(E, m, next.hunks, V, old, new)
    BY <2>6, WindowsStay DEF m
  <2>8. ASSUME NEW x \in 1 .. m, Change(x)
        PROVE  \E g \in 1 .. Len(V) : x \in In(V[g])
    <3>1. x \in 1 .. n
      BY <1>1, <2>3, <2>8
    <3>2. Len(W) \in Nat
      BY <1>2 DEF Shows
    <3>3. CASE f <= x
      <4>1. x \in In(V[Len(W) + 1]) /\ Len(W) + 1 \in 1 .. Len(V)
        BY <2>1, <2>6, <3>1, <3>2, <3>3 DEF In
      <4> QED
        BY <4>1
    <3>4. CASE InWindow(x)
      <4>1. PICK g \in 1 .. Len(W) : x \in In(W[g])
        BY <3>4 DEF InWindow
      <4>2. g \in 1 .. Len(V) /\ V[g] = W[g]
        BY <2>6, <3>2
      <4> QED
        BY <4>1, <4>2
    <3> QED
      BY <1>2, <1>15, <2>8, <3>1, <3>3, <3>4
  <2>9. m > next.last + context
    BY <1>1, <1>9, <1>15, <2>3, <2>4
  <2>10. 0 \in 0 .. m /\ next.last \in 0 .. m
    BY <1>1, <1>9, <2>4
  <2>11. \A x \in 1 .. m : Change(x) => x <= next.last
    BY <1>11, <2>3, <2>4
  <2>12. Grouped(E, m, next, V, 0, old, new, context)
    BY <2>4, <2>7, <2>8, <2>9, <2>10, <2>11 DEF Grouped, Change
  <2> QED
    BY <2>12
<1>16. \E V, g : Grouped(E, m, next, V, g, old, new, context)
  BY <1>12, <1>13, <1>14, <1>15
<1> QED
  BY <1>16 DEF m, next

\* The hunks show every change, and each one once.
ShowsAll(E, hunks, W, old, new) ==
    /\ DOMAIN hunks = 1 .. Len(hunks) /\ Shows(E, Len(E), hunks, W, old, new)
    /\ \A x \in 1 .. Len(E) : E[x].op # "equal" => \E g \in 1 .. Len(W) : x \in In(W[g])

\* After the last round, the hunks show every change.
LEMMA GroupsListed ==
    ASSUME NEW old, NEW new, NEW E \in Seq(EditSet), NEW context \in Nat
    PROVE  \E W : ShowsAll(E, GroupEdits(E, old, new, context), W, old, new)
<1> DEFINE top == Len(E)
           after == Rounds(E, old, new, context)
           Good(n) == \E W, f : Grouped(E, n, after[n], W, f, old, new, context)
           S == {n \in Nat : n <= top => Good(n)}
<1>1. top \in Nat
  OBVIOUS
<1>2. /\ after[0] = [hunks |-> <<>>, cur |-> NoHunk, last |-> 0]
      /\ \A n \in 1 .. top : after[n] = AddEdit(after[n - 1], E, n, old, new, context)
      /\ \A n \in 0 .. top : after[n] \in LoopSet(old, new)
  <2> HIDE DEF after
  <2> QED
    BY RoundsAre DEF after
<1>3. GroupEdits(E, old, new, context)
        = IF after[top].cur = NoHunk THEN after[top].hunks ELSE Append(after[top].hunks, after[top].cur)
  BY DEF GroupEdits
<1> HIDE DEF after, top
<1>4. 0 \in S
  <2> DEFINE W == <<>>
  <2>1. W \in Seq(Window) /\ Len(W) = 0 /\ Len(<<>>) = 0 /\ 1 .. 0 = {}
    OBVIOUS
  <2> HIDE DEF W
  <2>2. Shows(E, 0, <<>>, W, old, new)
    BY <2>1 DEF Shows
  <2>3. Grouped(E, 0, after[0], W, 0, old, new, context)
    BY <1>2, <2>1, <2>2 DEF Grouped
  <2> QED
    BY <2>3
<1>5. ASSUME NEW n \in Nat, n \in S
      PROVE  n + 1 \in S
  <2> DEFINE m == n + 1
  <2>1. CASE m <= top
    <3>1. m \in 1 .. top /\ m - 1 = n /\ n <= top /\ n \in 0 .. top /\ m <= Len(E)
      BY <1>1, <2>1 DEF top
    <3>2. PICK W, f : Grouped(E, n, after[n], W, f, old, new, context)
      BY <1>5, <3>1
    <3>3. after[n] \in LoopSet(old, new)
      BY <1>2, <3>1
    <3>4. \E V, g : Grouped(E, m, AddEdit(after[n], E, m, old, new, context), V, g, old, new, context)
      BY <3>1, <3>2, <3>3, GroupedStays
    <3>5. after[m] = AddEdit(after[n], E, m, old, new, context)
      <4> HIDE DEF m
      <4> QED
        BY <1>2, <3>1
    <3>6. Good(m)
      BY <3>4, <3>5
    <3> QED
      BY <3>6
  <2>2. CASE ~(m <= top)
    BY <2>2
  <2> QED
    BY <2>1, <2>2
<1>6. Good(top)
  <2> HIDE DEF Good
  <2>1. top \in S
    <3> HIDE DEF S
    <3>1. Nat \subseteq S
      BY <1>4, <1>5, NatSetInduction
    <3> QED
      BY <1>1, <3>1
  <2> QED
    BY <1>1, <2>1
<1> DEFINE st == after[top]
<1>7. PICK W, f : Grouped(E, top, st, W, f, old, new, context)
  BY <1>6
<1>8. st \in LoopSet(old, new)
  BY <1>1, <1>2
<1> HIDE DEF st
<1>9. st.hunks \in Seq(HunkSet(old, new)) /\ st.cur \in HunkSet(old, new)
  BY <1>8 DEF LoopSet
<1>10. CASE f = 0
  <2>1. Shows(E, top, st.hunks, W, old, new) /\ st.cur = NoHunk
    BY <1>7, <1>10 DEF Grouped
  <2>2. \A x \in 1 .. top : E[x].op # "equal" => \E g \in 1 .. Len(W) : x \in In(W[g])
    BY <1>7, <1>10 DEF Grouped
  <2>3. ShowsAll(E, st.hunks, W, old, new)
    BY <1>9, <2>1, <2>2 DEF ShowsAll, top
  <2> QED
    BY <1>3, <2>1, <2>3 DEF st
<1>11. CASE f # 0
  <2>1. /\ Shows(E, top, st.hunks, W, old, new) /\ st.cur = HunkOf(E, f, top, old, new)
        /\ \A g \in 1 .. Len(W) : \A x \in In(W[g]) : E[x].op # "equal" => x < f
        /\ \A x \in 1 .. top : E[x].op # "equal" => f <= x \/ \E g \in 1 .. Len(W) : x \in In(W[g])
    BY <1>7, <1>11 DEF Grouped
  <2>2. f \in 1 .. top
    BY <1>1, <1>7, <1>11 DEF Grouped
  <2>3. st.cur # NoHunk
    <3>1. E[f] \in EditSet
      BY <2>2 DEF top
    <3>2. E[f].old \in Nat
      BY <3>1 DEF EditSet
    <3> QED
      BY <2>1, <3>2 DEF HunkOf, NoHunk
  <2> DEFINE V == Append(W, [from |-> f, to |-> top])
             hunks == Append(st.hunks, st.cur)
  <2>4. /\ Shows(E, top, hunks, V, old, new)
        /\ Len(V) = Len(W) + 1 /\ V[Len(W) + 1] = [from |-> f, to |-> top]
        /\ \A g \in 1 .. Len(W) : V[g] = W[g]
    BY <1>1, <1>9, <2>1, <2>2, WindowsGrow
  <2>5. Len(W) \in Nat
    BY <2>1 DEF Shows
  <2> HIDE DEF V
  <2>6. ASSUME NEW x \in 1 .. top, E[x].op # "equal"
        PROVE  \E g \in 1 .. Len(V) : x \in In(V[g])
    <3>1. CASE f <= x
      <4>1. x \in In(V[Len(W) + 1]) /\ Len(W) + 1 \in 1 .. Len(V)
        BY <1>1, <2>2, <2>4, <2>5, <3>1 DEF In
      <4> QED
        BY <4>1
    <3>2. CASE \E g \in 1 .. Len(W) : x \in In(W[g])
      <4>1. PICK g \in 1 .. Len(W) : x \in In(W[g])
        BY <3>2
      <4>2. g \in 1 .. Len(V) /\ V[g] = W[g]
        BY <2>4, <2>5
      <4> QED
        BY <4>1, <4>2
    <3> QED
      BY <2>1, <2>6, <3>1, <3>2
  <2>7. ShowsAll(E, hunks, V, old, new)
    <3>1. hunks \in Seq(HunkSet(old, new))
      BY <1>9
    <3>2. DOMAIN hunks = 1 .. Len(hunks)
      BY <3>1
    <3> QED
      BY <2>4, <2>6, <3>2 DEF ShowsAll, top
  <2> QED
    BY <1>3, <2>3, <2>7 DEF st
<1> QED
  BY <1>10, <1>11

\* The edits of SimpleDiffHunks: delete everything, then insert everything.
SimpleEdits(o, n) ==
    [x \in 1 .. o + n |-> IF x <= o THEN Edit("delete", x - 1, 0) ELSE Edit("insert", o, x - o - 1)]

\* So does the one hunk of two files that are too large to compare.
LEMMA SimpleListed ==
    ASSUME NEW C, NEW old \in Seq(C), NEW new \in Seq(C), ~(Len(old) = 0 /\ Len(new) = 0)
    PROVE  LET E == SimpleEdits(Len(old), Len(new)) IN
           /\ Covers(old, new, E, Len(old), Len(new))
           /\ \E W : ShowsAll(E, SimpleDiffHunks(old, new), W, old, new)
<1> DEFINE o == Len(old)
           n == Len(new)
           E == SimpleEdits(o, n)
           w == [from |-> 1, to |-> o + n]
           hunks == SimpleDiffHunks(old, new)
           dels == [i \in 1 .. o |-> LineOf(Edit("delete", i - 1, 0), old, new)]
           adds == [j \in 1 .. n |-> LineOf(Edit("insert", 0, j - 1), old, new)]
<1>1. o \in Nat /\ n \in Nat /\ o + n \in Nat /\ o + n >= 1
  OBVIOUS
<1>2. hunks = <<[oldStart |-> 1, newStart |-> 1, lines |-> dels \o adds]>>
  BY DEF SimpleDiffHunks
<1> HIDE DEF o, n
<1>3. /\ \A x \in 1 .. o : Edit("delete", x - 1, 0) \in EditSet
      /\ \A x \in 1 .. n : Edit("insert", o, x - 1) \in EditSet
  BY <1>1 DEF EditSet, Edit
<1>4. E \in Seq(EditSet) /\ Len(E) = o + n
  <2>1. \A x \in 1 .. o + n :
           (IF x <= o THEN Edit("delete", x - 1, 0) ELSE Edit("insert", o, x - o - 1)) \in EditSet
    <3>1. \A x \in 1 .. o + n : ~(x <= o) => x - o - 1 \in Nat
      BY <1>1
    <3>2. \A x \in 1 .. o + n : x <= o => x \in 1 .. o
      BY <1>1
    <3>3. \A y \in Nat : Edit("insert", o, y) \in EditSet
      BY <1>1 DEF EditSet, Edit
    <3> QED
      BY <1>3, <3>1, <3>2, <3>3
  <2> QED
    BY <1>1, <2>1 DEF SimpleEdits
<1>5. /\ \A x \in 1 .. o : E[x].op = "delete" /\ E[x].old = x - 1 /\ E[x].new = 0
      /\ \A x \in o + 1 .. o + n : E[x].op = "insert" /\ E[x].old = o /\ E[x].new = x - o - 1
  BY <1>1 DEF SimpleEdits, Edit
<1> HIDE DEF E
<1>6. ASSUME NEW x \in 0 .. o + n
      PROVE  /\ x <= o => OldAt(E, x) = x /\ NewAt(E, x) = 0
             /\ x > o => OldAt(E, x) = o /\ NewAt(E, x) = x - o
  <2>1. CASE x = 0
    BY <1>1, <2>1 DEF OldAt, NewAt
  <2>2. CASE x \in 1 .. o
    BY <1>1, <1>5, <2>2 DEF OldAt, NewAt
  <2>3. CASE x \in o + 1 .. o + n
    BY <1>1, <1>5, <2>3 DEF OldAt, NewAt
  <2> QED
    BY <1>1, <2>1, <2>2, <2>3
<1>7. Covers(old, new, E, o, n)
  <2>1. ASSUME NEW x \in 1 .. o + n
        PROVE  E[x].old = OldAt(E, x - 1) /\ E[x].new = NewAt(E, x - 1) /\ E[x].op # "equal"
    <3>1. x - 1 \in 0 .. o + n
      BY <1>1
    <3>2. CASE x \in 1 .. o
      <4>1. OldAt(E, x - 1) = x - 1 /\ NewAt(E, x - 1) = 0
        BY <1>1, <1>6, <3>1, <3>2
      <4> QED
        BY <1>5, <3>2, <4>1
    <3>3. CASE x \in o + 1 .. o + n
      <4>1. OldAt(E, x - 1) = o /\ NewAt(E, x - 1) = x - o - 1
        <5> DEFINE y == x - 1
        <5>1. y \in 0 .. o + n /\ (y <= o => y = o) /\ y - o = x - o - 1 /\ (y = o => y - o = 0)
          BY <1>1, <3>1, <3>3
        <5> HIDE DEF y
        <5>2. OldAt(E, y) = o /\ NewAt(E, y) = y - o
          BY <1>1, <1>6, <5>1
        <5> QED
          BY <5>1, <5>2 DEF y
      <4> QED
        BY <1>5, <3>3, <4>1
    <3> QED
      BY <1>1, <3>2, <3>3
  <2>2. OldAt(E, o + n) = o /\ NewAt(E, o + n) = n
    <3> DEFINE y == o + n
    <3>1. y \in 0 .. o + n /\ (y <= o => y = o /\ n = 0) /\ y - o = n
      BY <1>1
    <3> HIDE DEF y
    <3>2. OldAt(E, y) = o /\ NewAt(E, y) = n
      BY <1>1, <1>6, <3>1
    <3> QED
      BY <3>2 DEF y
  <2> QED
    BY <1>4, <2>1, <2>2 DEF Covers
<1>8. hunks = <<HunkOf(E, 1, o + n, old, new)>>
  <2>1. E[1].old = 0 /\ E[1].new = 0
    BY <1>1, <1>5
  <2>2. dels \o adds = [y \in 1 .. o + n |-> LineOf(E[y], old, new)]
    <3> DEFINE L == LineSet(old, new)
    <3>1. dels \in Seq(L) /\ Len(dels) = o
      <4>1. \A i \in 1 .. o : LineOf(Edit("delete", i - 1, 0), old, new) \in L
        BY <1>3 DEF LineSet
      <4> HIDE DEF L
      <4> QED
        BY <1>1, <4>1
    <3>2. adds \in Seq(L) /\ Len(adds) = n
      <4>1. \A i \in 1 .. n : Edit("insert", 0, i - 1) \in EditSet
        BY <1>1 DEF EditSet, Edit
      <4>2. \A i \in 1 .. n : LineOf(Edit("insert", 0, i - 1), old, new) \in L
        BY <4>1 DEF LineSet
      <4> HIDE DEF L
      <4> QED
        BY <1>1, <4>2
    <3>3. \A x \in 1 .. o : dels[x] = LineOf(E[x], old, new)
      <4>1. \A x \in 1 .. o : dels[x] = LineOf(Edit("delete", x - 1, 0), old, new)
        OBVIOUS
      <4>2. \A x \in 1 .. o : /\ E[x].op = "delete" /\ E[x].old = x - 1 /\ Edit("delete", x - 1, 0).op = "delete"
                              /\ Edit("delete", x - 1, 0).old = x - 1
        BY <1>5 DEF Edit
      <4> QED
        BY <4>1, <4>2 DEF LineOf
    <3>4. \A x \in 1 .. n : adds[x] = LineOf(E[o + x], old, new)
      <4>1. \A x \in 1 .. n : adds[x] = LineOf(Edit("insert", 0, x - 1), old, new)
        OBVIOUS
      <4>2. \A x \in 1 .. n : /\ E[o + x].op = "insert" /\ E[o + x].new = x - 1
                              /\ Edit("insert", 0, x - 1).op = "insert" /\ Edit("insert", 0, x - 1).new = x - 1
        <5> SUFFICES ASSUME NEW x \in 1 .. n
                     PROVE  E[o + x].op = "insert" /\ E[o + x].new = x - 1
          BY DEF Edit
        <5> DEFINE y == o + x
        <5>1. y \in o + 1 .. o + n /\ y - o - 1 = x - 1
          BY <1>1
        <5> HIDE DEF y
        <5>2. E[y].op = "insert" /\ E[y].new = x - 1
          BY <1>5, <5>1
        <5> QED
          BY <5>2 DEF y
      <4> QED
        BY <4>1, <4>2 DEF LineOf
    <3> HIDE DEF L, dels, adds
    <3>5. Len(dels \o adds) = o + n /\ dels \o adds \in Seq(L)
          /\ \A x \in 1 .. o + n : (dels \o adds)[x] = IF x <= o THEN dels[x] ELSE adds[x - o]
      BY <1>1, <3>1, <3>2
    <3>6. ASSUME NEW x \in 1 .. o + n
          PROVE  (dels \o adds)[x] = LineOf(E[x], old, new)
      <4>1. CASE x <= o
        BY <1>1, <3>3, <3>5, <4>1
      <4>2. CASE ~(x <= o)
        <5> DEFINE y == x - o
        <5>1. y \in 1 .. n /\ o + y = x
          BY <1>1, <4>2
        <5>2. (dels \o adds)[x] = adds[y]
          BY <3>5, <4>2
        <5> HIDE DEF y
        <5> QED
          BY <3>4, <5>1, <5>2
      <4> QED
        BY <4>1, <4>2
    <3> DEFINE all == dels \o adds
    <3>7. all \in Seq(L) /\ Len(all) = o + n /\ \A x \in 1 .. o + n : all[x] = LineOf(E[x], old, new)
      BY <3>5, <3>6
    <3> HIDE DEF all
    <3>8. all = [x \in 1 .. o + n |-> all[x]]
      BY <3>7
    <3>9. all = [x \in 1 .. o + n |-> LineOf(E[x], old, new)]
      BY <3>7, <3>8
    <3> QED
      BY <3>9 DEF all
  <2>3. [y \in 1 .. (o + n) + 1 - 1 |-> LineOf(E[1 + y - 1], old, new)] = [y \in 1 .. o + n |-> LineOf(E[y], old, new)]
    <3>1. (o + n) + 1 - 1 = o + n /\ \A y \in 1 .. o + n : 1 + y - 1 = y
      BY <1>1
    <3> QED
      BY <3>1
  <2>4. HunkOf(E, 1, o + n, old, new) = [oldStart |-> 1, newStart |-> 1, lines |-> dels \o adds]
    <3>1. HunkOf(E, 1, o + n, old, new)
            = [oldStart |-> E[1].old + 1, newStart |-> E[1].new + 1,
               lines |-> [y \in 1 .. (o + n) + 1 - 1 |-> LineOf(E[1 + y - 1], old, new)]]
      BY DEF HunkOf
    <3>2. E[1].old + 1 = 1 /\ E[1].new + 1 = 1
      BY <2>1
    <3> QED
      BY <2>2, <2>3, <3>1, <3>2, Zenon
  <2> QED
    BY <1>2, <2>4
<1>9. ShowsAll(E, hunks, <<w>>, old, new)
  <2>1. w \in Window /\ w.from = 1 /\ w.to = o + n
    BY <1>1 DEF Window
  <2> HIDE DEF w, hunks
  <2>2. Len(hunks) = 1 /\ hunks[1] = HunkOf(E, 1, o + n, old, new) /\ DOMAIN hunks = 1 .. 1
    BY <1>8
  <2>3. <<w>> \in Seq(Window) /\ Len(<<w>>) = 1 /\ <<w>>[1] = w /\ \A g \in 1 .. 1 : g = 1
    BY <2>1
  <2> DEFINE W == <<w>>
  <2> HIDE DEF W
  <2>4. W \in Seq(Window) /\ Len(W) = 1 /\ W[1] = w
    BY <2>3 DEF W
  <2>5. Shows(E, o + n, hunks, W, old, new)
    BY <1>1, <2>1, <2>2, <2>3, <2>4 DEF Shows
  <2>6. \A x \in 1 .. o + n : 1 \in 1 .. Len(W) /\ x \in In(W[1])
    BY <2>1, <2>4 DEF In
  <2>7. ShowsAll(E, hunks, W, old, new)
    BY <1>4, <2>2, <2>5, <2>6 DEF ShowsAll
  <2> QED
    BY <2>7 DEF W
<1> QED
  BY <1>7, <1>9 DEF o, n, E

\* What is computed are the hunks of edits that go through both files, and that keep as
\* much as the table counts, unless there is none.
LEMMA DiffIs ==
    ASSUME NEW C, NEW old \in Seq(C), NEW new \in Seq(C), NEW context \in Nat
    PROVE  \E E, W : /\ Covers(old, new, E, Len(old), Len(new))
                     /\ ShowsAll(E, ComputeDiffHunks(old, new, context), W, old, new)
                     /\ TooLarge(old, new) \/ Counted(LcsTable(old, new), E)
<1> DEFINE o == Len(old)
           n == Len(new)
           dp == LcsTable(old, new)
           hunks == ComputeDiffHunks(old, new, context)
<1>1. CASE o = 0 /\ n = 0
  <2> DEFINE E == <<>>
             W == <<>>
  <2>1. E \in Seq(EditSet) /\ W \in Seq(Window) /\ Len(E) = 0 /\ Len(W) = 0 /\ 1 .. 0 = {}
        /\ DOMAIN W = 1 .. 0
    OBVIOUS
  <2>2. hunks = W
    BY <1>1 DEF ComputeDiffHunks
  <2> HIDE DEF E, W, hunks, dp
  <2>3. Covers(old, new, E, 0, 0) /\ Counted(dp, E)
    BY <2>1 DEF Covers, Counted, OldAt, NewAt
  <2>4. ShowsAll(E, hunks, W, old, new)
    BY <2>1, <2>2 DEF ShowsAll, Shows
  <2>5. Covers(old, new, E, o, n)
    BY <1>1, <2>3
  <2> QED
    BY <2>3, <2>4, <2>5 DEF hunks, dp
<1>2. CASE ~(o = 0 /\ n = 0) /\ TooLarge(old, new)
  <2>1. hunks = SimpleDiffHunks(old, new)
    BY <1>2 DEF ComputeDiffHunks
  <2> DEFINE E == SimpleEdits(o, n)
  <2>2. Covers(old, new, E, o, n) /\ \E W : ShowsAll(E, SimpleDiffHunks(old, new), W, old, new)
    BY <1>2, SimpleListed
  <2> HIDE DEF E, hunks
  <2> QED
    BY <1>2, <2>1, <2>2 DEF hunks
<1>3. CASE ~(o = 0 /\ n = 0) /\ ~TooLarge(old, new)
  <2> DEFINE E == Edits(dp, old, new)[<<o, n>>]
  <2>1. hunks = GroupEdits(E, old, new, context)
    BY <1>3 DEF ComputeDiffHunks
  <2>2. o \in 0 .. o /\ n \in 0 .. n
    OBVIOUS
  <2>3. Covers(old, new, E, o, n) /\ Counted(dp, E)
    BY <2>2, EditsCover
  <2> HIDE DEF E, hunks, dp
  <2>4. E \in Seq(EditSet)
    BY <2>3 DEF Covers
  <2>5. \E W : ShowsAll(E, hunks, W, old, new)
    BY <2>1, <2>4, GroupsListed
  <2> QED
    BY <2>3, <2>5 DEF hunks, dp
<1> QED
  BY <1>1, <1>2, <1>3

\* The edit that a place shows.
Shower(W, place) == W[place[1]].from + place[2] - 1

\* A place of the hunks shows an edit, and every change is shown at a place.
LEMMA PlacesShow ==
    ASSUME NEW old, NEW new, NEW E, E \in Seq(EditSet), NEW hunks, NEW W, ShowsAll(E, hunks, W, old, new)
    PROVE  /\ \A op : \A a \in Shown(hunks, op) :
                /\ a[1] \in 1 .. Len(W) /\ a[2] \in Nat
                /\ Shower(W, a) \in In(W[a[1]]) /\ Shower(W, a) \in 1 .. Len(E)
                /\ E[Shower(W, a)].op = op
                /\ At(hunks, a) = LineOf(E[Shower(W, a)], old, new)
           /\ \A x \in 1 .. Len(E) : E[x].op # "equal" =>
                \E a \in Shown(hunks, E[x].op) : Shower(W, a) = x
           /\ \A g, h \in 1 .. Len(W) : \A x \in In(W[g]) : g < h /\ E[x].op # "equal" => x < W[h].from
           /\ \A g \in 1 .. Len(W) : W[g].from \in Nat
<1>1. /\ W \in Seq(Window) /\ DOMAIN hunks = 1 .. Len(W)
      /\ \A g \in 1 .. Len(W) : /\ 1 <= W[g].from /\ W[g].from <= W[g].to /\ W[g].to <= Len(E)
                                /\ hunks[g] = HunkOf(E, W[g].from, W[g].to, old, new)
      /\ \A g, h \in 1 .. Len(W) : \A x \in In(W[g]) : g < h /\ E[x].op # "equal" => x < W[h].from
      /\ \A x \in 1 .. Len(E) : E[x].op # "equal" => \E g \in 1 .. Len(W) : x \in In(W[g])
  BY DEF ShowsAll, Shows
<1>2. \A g \in 1 .. Len(W) : W[g].from \in Nat /\ W[g].to \in Nat
  <2>1. \A g \in 1 .. Len(W) : W[g] \in Window
    BY <1>1
  <2> QED
    BY <2>1 DEF Window
<1>3. \A g \in 1 .. Len(W) :
         hunks[g].lines = [y \in 1 .. W[g].to + 1 - W[g].from |-> LineOf(E[W[g].from + y - 1], old, new)]
  <2>1. \A a, b : HunkOf(E, a, b, old, new).lines
                    = [y \in 1 .. b + 1 - a |-> LineOf(E[a + y - 1], old, new)]
    BY DEF HunkOf
  <2> QED
    BY <1>1, <2>1
<1>4. \A e : LineOf(e, old, new).op = e.op
  BY DEF LineOf
<1>5. ASSUME NEW op, NEW g \in 1 .. Len(W), NEW y \in DOMAIN hunks[g].lines
      PROVE  /\ y \in Nat /\ W[g].from + y - 1 \in In(W[g]) /\ W[g].from + y - 1 \in 1 .. Len(E)
             /\ hunks[g].lines[y] = LineOf(E[W[g].from + y - 1], old, new)
             /\ hunks[g].lines[y].op = E[W[g].from + y - 1].op
  <2>1. y \in 1 .. W[g].to + 1 - W[g].from
    BY <1>3
  <2>2. y \in Nat /\ W[g].from + y - 1 \in In(W[g]) /\ W[g].from + y - 1 \in 1 .. Len(E)
    BY <1>1, <1>2, <2>1, SMTT(40) DEF In
  <2>3. hunks[g].lines[y] = LineOf(E[W[g].from + y - 1], old, new)
    BY <1>3, <2>1
  <2> QED
    BY <1>4, <2>2, <2>3
<1>6. \A op : \A a : a \in Shown(hunks, op) <=>
         \E g \in 1 .. Len(W) : \E y \in DOMAIN hunks[g].lines : hunks[g].lines[y].op = op /\ a = <<g, y>>
  BY <1>1 DEF Shown
<1>7. ASSUME NEW op, NEW a \in Shown(hunks, op)
      PROVE  /\ a[1] \in 1 .. Len(W) /\ a[2] \in Nat
             /\ Shower(W, a) \in In(W[a[1]]) /\ Shower(W, a) \in 1 .. Len(E)
             /\ E[Shower(W, a)].op = op
             /\ At(hunks, a) = LineOf(E[Shower(W, a)], old, new)
  <2>1. PICK g \in 1 .. Len(W) : \E y \in DOMAIN hunks[g].lines : hunks[g].lines[y].op = op /\ a = <<g, y>>
    BY <1>6
  <2>2. PICK y \in DOMAIN hunks[g].lines : hunks[g].lines[y].op = op /\ a = <<g, y>>
    BY <2>1
  <2>3. a[1] = g /\ a[2] = y
    BY <2>2
  <2> QED
    BY <1>5, <2>2, <2>3 DEF Shower, At
<1>8. ASSUME NEW x \in 1 .. Len(E), E[x].op # "equal"
      PROVE  \E a \in Shown(hunks, E[x].op) : Shower(W, a) = x
  <2>1. PICK g \in 1 .. Len(W) : x \in In(W[g])
    BY <1>1, <1>8
  <2> DEFINE y == x + 1 - W[g].from
  <2>2. y \in 1 .. W[g].to + 1 - W[g].from /\ W[g].from + y - 1 = x
    BY <1>2, <2>1 DEF In
  <2> HIDE DEF y
  <2>3. y \in DOMAIN hunks[g].lines /\ hunks[g].lines[y] = LineOf(E[x], old, new)
    BY <1>3, <2>2
  <2>4. <<g, y>> \in Shown(hunks, E[x].op)
    BY <1>4, <1>6, <2>3
  <2>5. Shower(W, <<g, y>>) = x
    BY <2>2 DEF Shower
  <2> QED
    BY <2>4, <2>5
<1> QED
  BY <1>1, <1>2, <1>7, <1>8

\* What HunksRebuildTheFile asks of the hunks.
NumberOf(hunks, place, op) == IF op = "delete" THEN At(hunks, place).oldNo ELSE At(hunks, place).newNo

Rebuild(hunks, old, new) ==
    /\ \A op \in {"delete", "insert"} : \A a, b \in Shown(hunks, op) :
          Earlier(a, b) => NumberOf(hunks, a, op) < NumberOf(hunks, b, op)
    /\ Deleted(hunks) \subseteq DOMAIN old /\ Added(hunks) \subseteq DOMAIN new
    /\ Left(old, Deleted(hunks)) = Left(new, Added(hunks))

\* Hunks that show every change of edits through both files rebuild the file.
LEMMA HunksRebuild ==
    ASSUME NEW C, NEW old \in Seq(C), NEW new \in Seq(C), NEW E, Covers(old, new, E, Len(old), Len(new)),
           NEW hunks, NEW W, ShowsAll(E, hunks, W, old, new)
    PROVE  Rebuild(hunks, old, new) /\ LeavesCount(old, new, E, Deleted(hunks))
<1> DEFINE ix(a) == Shower(W, a)
<1>0. E \in Seq(EditSet) /\ Len(E) \in Nat
  BY DEF Covers
<1>1. /\ \A op : \A a \in Shown(hunks, op) :
                /\ a[1] \in 1 .. Len(W) /\ a[2] \in Nat
                /\ ix(a) \in In(W[a[1]]) /\ ix(a) \in 1 .. Len(E)
                /\ E[ix(a)].op = op
                /\ At(hunks, a) = LineOf(E[ix(a)], old, new)
      /\ \A x \in 1 .. Len(E) : E[x].op # "equal" =>
                \E a \in Shown(hunks, E[x].op) : ix(a) = x
      /\ \A g, h \in 1 .. Len(W) : \A x \in In(W[g]) : g < h /\ E[x].op # "equal" => x < W[h].from
      /\ \A g \in 1 .. Len(W) : W[g].from \in Nat
  BY <1>0, PlacesShow
<1>2. /\ \A x, y \in 1 .. Len(E) : x < y =>
                /\ E[y].op # "insert" => OldAt(E, x) < OldAt(E, y)
                /\ E[y].op # "delete" => NewAt(E, x) < NewAt(E, y)
      /\ \A x \in 1 .. Len(E) :
                /\ E[x].op # "insert" => (OldAt(E, x) \in Gone(E) <=> E[x].op = "delete")
                /\ E[x].op # "delete" => (NewAt(E, x) \in Come(E) <=> E[x].op = "insert")
  BY LinesPassOnce
<1>3. ASSUME NEW a \in Shown(hunks, "delete") PROVE At(hunks, a).oldNo = OldAt(E, ix(a))
  <2>1. ix(a) \in 1 .. Len(E) /\ E[ix(a)].op = "delete" /\ At(hunks, a) = LineOf(E[ix(a)], old, new)
    BY <1>1
  <2>2. ix(a) # 0
    BY <2>1
  <2> HIDE DEF ix
  <2> QED
    BY <2>1, <2>2 DEF LineOf, OldAt
<1>4. ASSUME NEW a \in Shown(hunks, "insert") PROVE At(hunks, a).newNo = NewAt(E, ix(a))
  <2>1. ix(a) \in 1 .. Len(E) /\ E[ix(a)].op = "insert" /\ At(hunks, a) = LineOf(E[ix(a)], old, new)
    BY <1>1
  <2>2. ix(a) # 0
    BY <2>1
  <2> HIDE DEF ix
  <2> QED
    BY <2>1, <2>2 DEF LineOf, NewAt
<1>5. ASSUME NEW op, op # "equal", NEW a \in Shown(hunks, op), NEW b \in Shown(hunks, op), Earlier(a, b)
      PROVE  ix(a) < ix(b)
  <2>1. a[1] \in 1 .. Len(W) /\ b[1] \in 1 .. Len(W) /\ a[2] \in Nat /\ b[2] \in Nat
        /\ ix(a) \in In(W[a[1]]) /\ ix(b) \in In(W[b[1]]) /\ E[ix(a)].op = op
        /\ ix(a) \in Nat /\ ix(b) \in Nat
    BY <1>1
  <2>2. CASE a[1] < b[1]
    <3>1. ix(a) < W[b[1]].from
      BY <1>1, <1>5, <2>1, <2>2
    <3>2. W[b[1]].from <= ix(b) /\ W[b[1]].from \in Nat
      BY <1>1, <2>1 DEF In
    <3> HIDE DEF ix
    <3> QED
      BY <2>1, <3>1, <3>2
  <2>3. CASE a[1] = b[1] /\ a[2] < b[2]
    <3>1. W[a[1]].from \in Nat
      BY <1>1, <2>1
    <3> QED
      <4> DEFINE w == W[a[1]].from
                 p == a[2]
                 q == b[2]
      <4>1. ix(a) = w + p - 1 /\ ix(b) = w + q - 1
        BY <2>3 DEF Shower
      <4>2. w \in Nat /\ p \in Nat /\ q \in Nat /\ p < q
        BY <2>1, <2>3, <3>1
      <4> HIDE DEF w, p, q, ix
      <4> QED
        BY <4>1, <4>2
  <2> QED
    BY <1>5, <2>2, <2>3 DEF Earlier
<1>6. Deleted(hunks) = Gone(E)
  <2>1. \A k : k \in Deleted(hunks) <=> \E a \in Shown(hunks, "delete") : k = At(hunks, a).oldNo
    BY DEF Deleted
  <2>2. \A k : k \in Gone(E) <=> \E x \in 1 .. Len(E) : E[x].op = "delete" /\ k = OldAt(E, x)
    BY DEF Gone
  <2> HIDE DEF ix
  <2>3. ASSUME NEW k \in Deleted(hunks) PROVE k \in Gone(E)
    BY <1>1, <1>3, <2>1, <2>2, <2>3
  <2>4. ASSUME NEW k \in Gone(E) PROVE k \in Deleted(hunks)
    <3>1. PICK x \in 1 .. Len(E) : E[x].op = "delete" /\ k = OldAt(E, x)
      BY <2>2
    <3>2. PICK a \in Shown(hunks, "delete") : ix(a) = x
      BY <1>1, <3>1
    <3> QED
      BY <1>3, <2>1, <3>1, <3>2
  <2> QED
    BY <2>3, <2>4
<1>7. Added(hunks) = Come(E)
  <2>1. \A k : k \in Added(hunks) <=> \E a \in Shown(hunks, "insert") : k = At(hunks, a).newNo
    BY DEF Added
  <2>2. \A k : k \in Come(E) <=> \E x \in 1 .. Len(E) : E[x].op = "insert" /\ k = NewAt(E, x)
    BY DEF Come
  <2> HIDE DEF ix
  <2>3. ASSUME NEW k \in Added(hunks) PROVE k \in Come(E)
    BY <1>1, <1>4, <2>1, <2>2, <2>3
  <2>4. ASSUME NEW k \in Come(E) PROVE k \in Added(hunks)
    <3>1. PICK x \in 1 .. Len(E) : E[x].op = "insert" /\ k = NewAt(E, x)
      BY <2>2
    <3>2. PICK a \in Shown(hunks, "insert") : ix(a) = x
      BY <1>1, <3>1
    <3> QED
      BY <1>4, <2>1, <3>1, <3>2
  <2> QED
    BY <2>3, <2>4
<1>8. /\ \A x \in 0 .. Len(E) : OldAt(E, x) \in 0 .. Len(old) /\ NewAt(E, x) \in 0 .. Len(new)
      /\ \A x \in 1 .. Len(E) :
           /\ OldAt(E, x) = OldAt(E, x - 1) + (IF E[x].op = "insert" THEN 0 ELSE 1)
           /\ NewAt(E, x) = NewAt(E, x - 1) + (IF E[x].op = "delete" THEN 0 ELSE 1)
  BY EditsAdvance
<1>9. ASSUME NEW x \in 1 .. Len(E)
      PROVE  /\ E[x].op = "delete" => OldAt(E, x) \in 1 .. Len(old)
             /\ E[x].op = "insert" => NewAt(E, x) \in 1 .. Len(new)
  <2>1. x \in 0 .. Len(E) /\ x - 1 \in 0 .. Len(E)
    BY <1>0
  <2>2. /\ OldAt(E, x) \in 0 .. Len(old) /\ NewAt(E, x) \in 0 .. Len(new)
        /\ OldAt(E, x - 1) \in 0 .. Len(old) /\ NewAt(E, x - 1) \in 0 .. Len(new)
    BY <1>8, <2>1
  <2>3. /\ OldAt(E, x) = OldAt(E, x - 1) + (IF E[x].op = "insert" THEN 0 ELSE 1)
        /\ NewAt(E, x) = NewAt(E, x - 1) + (IF E[x].op = "delete" THEN 0 ELSE 1)
    BY <1>8
  <2> QED
    BY <2>2, <2>3
<1>10. Deleted(hunks) \subseteq DOMAIN old /\ Added(hunks) \subseteq DOMAIN new
  BY <1>6, <1>7, <1>9 DEF Gone, Come
<1>11. Left(old, Gone(E)) = Left(new, Come(E)) /\ LeavesCount(old, new, E, Gone(E))
  <2> DEFINE gone == Gone(E)
             come == Come(E)
  <2> HIDE DEF gone, come
  <2>1. \A x \in 1 .. Len(E) :
                /\ E[x].op # "insert" => (OldAt(E, x) \in gone <=> E[x].op = "delete")
                /\ E[x].op # "delete" => (NewAt(E, x) \in come <=> E[x].op = "insert")
    BY <1>2 DEF gone, come
  <2>2. Left(old, gone) = Left(new, come) /\ LeavesCount(old, new, E, gone)
    BY <2>1, SameIsLeft
  <2> QED
    BY <2>2 DEF gone, come
<1>12. ASSUME NEW a \in Shown(hunks, "delete"), NEW b \in Shown(hunks, "delete"), Earlier(a, b)
       PROVE  At(hunks, a).oldNo < At(hunks, b).oldNo
  <2>1. ix(a) < ix(b) /\ ix(a) \in 1 .. Len(E) /\ ix(b) \in 1 .. Len(E) /\ E[ix(b)].op = "delete"
    BY <1>1, <1>5, <1>12
  <2> HIDE DEF ix
  <2>2. OldAt(E, ix(a)) < OldAt(E, ix(b))
    BY <1>2, <2>1
  <2> QED
    BY <1>3, <2>2
<1>13. ASSUME NEW a \in Shown(hunks, "insert"), NEW b \in Shown(hunks, "insert"), Earlier(a, b)
       PROVE  At(hunks, a).newNo < At(hunks, b).newNo
  <2>1. ix(a) < ix(b) /\ ix(a) \in 1 .. Len(E) /\ ix(b) \in 1 .. Len(E) /\ E[ix(b)].op = "insert"
    BY <1>1, <1>5, <1>13
  <2> HIDE DEF ix
  <2>2. NewAt(E, ix(a)) < NewAt(E, ix(b))
    BY <1>2, <2>1
  <2> QED
    BY <1>4, <2>2
<1>14. \A op \in {"delete", "insert"} : \A a, b \in Shown(hunks, op) :
          Earlier(a, b) => NumberOf(hunks, a, op) < NumberOf(hunks, b, op)
  BY <1>12, <1>13 DEF NumberOf
<1> QED
  BY <1>6, <1>7, <1>10, <1>11, <1>14 DEF Rebuild

\* What HunksAreWindows asks of a line of a hunk.
Before(h, x, op) == Cardinality({y \in 1 .. x - 1 : h.lines[y].op # op})

\* The numbers and the text of a line that is seen in the files.
Views(h, x, old, new) ==
    LET line == h.lines[x] IN
    /\ line.op # "insert" => /\ line.oldNo = h.oldStart + Before(h, x, "insert")
                             /\ line.text = old[line.oldNo]
    /\ line.op # "delete" => /\ line.newNo = h.newStart + Before(h, x, "delete")
                             /\ line.text = new[line.newNo]

\* Counting up to the next number.
LEMMA CountOneMore ==
    ASSUME NEW P, NEW m \in Nat
    PROVE  LET upto(k) == {y \in 1 .. k : y \in P} IN
           /\ IsFiniteSet(upto(m)) /\ Cardinality(upto(m)) \in Nat
           /\ Cardinality(upto(m + 1)) = Cardinality(upto(m)) + IF m + 1 \in P THEN 1 ELSE 0
<1> DEFINE upto(k) == {y \in 1 .. k : y \in P}
           k == m + 1
<1>1. IsFiniteSet(upto(m)) /\ Cardinality(upto(m)) \in Nat
  <2>1. IsFiniteSet(1 .. m) /\ upto(m) \in SUBSET (1 .. m)
    BY FS_Interval
  <2>2. IsFiniteSet(upto(m))
    <3> HIDE DEF upto
    <3> QED
      BY <2>1, FS_Subset
  <2> HIDE DEF upto
  <2> QED
    BY <2>2, FS_CardinalityType
<1>2. k \notin upto(m) /\ upto(k) = IF k \in P THEN upto(m) \cup {k} ELSE upto(m)
  OBVIOUS
<1> HIDE DEF upto, k
<1>3. CASE k \in P
  <2>1. Cardinality(upto(m) \cup {k}) = Cardinality(upto(m)) + 1
    BY <1>1, <1>2, FS_AddElement
  <2> QED
    BY <1>1, <1>2, <1>3, <2>1 DEF upto, k
<1>4. CASE k \notin P
  BY <1>1, <1>2, <1>4 DEF upto, k
<1> QED
  BY <1>3, <1>4

\* The lines of such hunks are lines of the files, at their numbers.
LEMMA HunksView ==
    ASSUME NEW old, NEW new, NEW i, NEW j, NEW E, Covers(old, new, E, i, j),
           NEW hunks, NEW W, ShowsAll(E, hunks, W, old, new),
           NEW g \in DOMAIN hunks, NEW x \in DOMAIN hunks[g].lines
    PROVE  Views(hunks[g], x, old, new)
<1> DEFINE a == W[g].from
           b == W[g].to
           h == hunks[g]
           z == a - 1
           top == b + 1 - a
           Moves(op) == {y \in 1 .. top : h.lines[y].op # op}
           upto(op, k) == {y \in 1 .. k : y \in Moves(op)}
<1>1. W \in Seq(Window) /\ g \in 1 .. Len(W) /\ 1 <= a /\ a <= b /\ b <= Len(E) /\ h = HunkOf(E, a, b, old, new)
  BY DEF ShowsAll, Shows
<1>2. a \in Nat /\ b \in Nat
  <2>1. W[g] \in Window
    BY <1>1
  <2> QED
    BY <2>1 DEF Window
<1>3. /\ h.oldStart = E[a].old + 1 /\ h.newStart = E[a].new + 1
      /\ DOMAIN h.lines = 1 .. top /\ \A y \in 1 .. top : h.lines[y] = LineOf(E[a + y - 1], old, new)
  <2> HIDE DEF h
  <2> QED
    BY <1>1 DEF HunkOf
<1>4. E \in Seq(EditSet) /\ Len(E) \in Nat
      /\ \A y \in 1 .. Len(E) : E[y].old = OldAt(E, y - 1) /\ E[y].new = NewAt(E, y - 1)
  BY DEF Covers
<1>5. /\ \A y \in 0 .. Len(E) : OldAt(E, y) \in Nat /\ NewAt(E, y) \in Nat
      /\ \A y \in 1 .. Len(E) :
           /\ OldAt(E, y) = OldAt(E, y - 1) + (IF E[y].op = "insert" THEN 0 ELSE 1)
           /\ NewAt(E, y) = NewAt(E, y - 1) + (IF E[y].op = "delete" THEN 0 ELSE 1)
  <2>1. /\ i \in Nat /\ j \in Nat
        /\ \A y \in 0 .. Len(E) : OldAt(E, y) \in 0 .. i /\ NewAt(E, y) \in 0 .. j
        /\ \A y \in 1 .. Len(E) :
           /\ OldAt(E, y) = OldAt(E, y - 1) + (IF E[y].op = "insert" THEN 0 ELSE 1)
           /\ NewAt(E, y) = NewAt(E, y - 1) + (IF E[y].op = "delete" THEN 0 ELSE 1)
    BY EditsAdvance
  <2> QED
    BY <2>1
<1>6. z \in Nat /\ top \in Nat /\ a = z + 1 /\ z + top = b /\ x \in 1 .. top
  <2>1. x \in 1 .. top
    BY <1>3
  <2>2. z \in Nat /\ top \in Nat /\ a = z + 1 /\ z + top = b
    <3> HIDE DEF a, b
    <3> QED
      BY <1>1, <1>2
  <2> QED
    BY <2>1, <2>2
<1>7. \A y \in 1 .. top : a + y - 1 = z + y /\ z + y \in 1 .. Len(E) /\ (z + y) - 1 = z + (y - 1)
  BY <1>1, <1>2, SMTT(40)
<1> HIDE DEF a, b, h, z, top
<1>8. \A y \in 1 .. top : h.lines[y] = LineOf(E[z + y], old, new) /\ h.lines[y].op = E[z + y].op
  <2>1. ASSUME NEW y \in 1 .. top
        PROVE  h.lines[y] = LineOf(E[z + y], old, new)
    BY <1>3, <1>7
  <2>2. \A e : LineOf(e, old, new).op = e.op
    BY DEF LineOf
  <2> QED
    BY <2>1, <2>2
<1>9. \A op : \A y \in 1 .. top : y \in Moves(op) <=> E[z + y].op # op
  BY <1>8
<1>10. \A op : \A m \in Nat : /\ IsFiniteSet(upto(op, m)) /\ Cardinality(upto(op, m)) \in Nat
                              /\ Cardinality(upto(op, m + 1))
                                   = Cardinality(upto(op, m)) + IF m + 1 \in Moves(op) THEN 1 ELSE 0
  <2> HIDE DEF Moves
  <2> QED
    BY CountOneMore
<1>11. \A op : Cardinality(upto(op, 0)) = 0
  <2>1. \A op : upto(op, 0) = {}
    OBVIOUS
  <2> HIDE DEF upto
  <2> QED
    BY <2>1, FS_EmptySet
<1>12. \A op : \A k \in 0 .. top : upto(op, k) = {y \in 1 .. k : h.lines[y].op # op}
  BY <1>6
<1> HIDE DEF upto, Moves
<1> DEFINE Right(m) == /\ OldAt(E, z + m) = OldAt(E, z) + Cardinality(upto("insert", m))
                       /\ NewAt(E, z + m) = NewAt(E, z) + Cardinality(upto("delete", m))
           S == {m \in Nat : m <= top => Right(m)}
<1>13. z \in 0 .. Len(E) /\ OldAt(E, z) \in Nat /\ NewAt(E, z) \in Nat
  BY <1>1, <1>2, <1>4, <1>5, <1>6
<1>14. 0 \in S
  BY <1>6, <1>11, <1>13
<1>15. ASSUME NEW m \in Nat, m \in S
       PROVE  m + 1 \in S
  <2> DEFINE k == m + 1
  <2>1. CASE k <= top
    <3>1. k \in 1 .. top /\ m <= top /\ k - 1 = m
      BY <1>6, <2>1
    <3>2. Right(m)
      BY <1>15, <3>1
    <3>3. /\ Cardinality(upto("insert", k)) = Cardinality(upto("insert", m)) + IF k \in Moves("insert") THEN 1 ELSE 0
          /\ Cardinality(upto("delete", k)) = Cardinality(upto("delete", m)) + IF k \in Moves("delete") THEN 1 ELSE 0
          /\ Cardinality(upto("insert", m)) \in Nat /\ Cardinality(upto("delete", m)) \in Nat
      BY <1>10
    <3> HIDE DEF k
    <3>4. /\ k \in Moves("insert") <=> E[z + k].op # "insert"
          /\ k \in Moves("delete") <=> E[z + k].op # "delete"
      BY <1>9, <3>1
    <3>5. z + k \in 1 .. Len(E) /\ (z + k) - 1 = z + m
      BY <1>7, <3>1
    <3>6. /\ OldAt(E, z + k) = OldAt(E, z + m) + (IF E[z + k].op = "insert" THEN 0 ELSE 1)
          /\ NewAt(E, z + k) = NewAt(E, z + m) + (IF E[z + k].op = "delete" THEN 0 ELSE 1)
      BY <1>5, <3>5
    <3>7. Right(k)
      <4>1. OldAt(E, z + k) = OldAt(E, z) + Cardinality(upto("insert", k))
        <5>1. OldAt(E, z + m) = OldAt(E, z) + Cardinality(upto("insert", m))
          BY <3>2
        <5>2. CASE E[z + k].op = "insert"
          <6>1. OldAt(E, z + k) = OldAt(E, z + m) + 0 /\ Cardinality(upto("insert", k)) = Cardinality(upto("insert", m)) + 0
            BY <3>3, <3>4, <3>6, <5>2
          <6> QED
            BY <1>13, <3>3, <5>1, <6>1
        <5>3. CASE E[z + k].op # "insert"
          <6>1. OldAt(E, z + k) = OldAt(E, z + m) + 1 /\ Cardinality(upto("insert", k)) = Cardinality(upto("insert", m)) + 1
            BY <3>3, <3>4, <3>6, <5>3
          <6> QED
            BY <1>13, <3>3, <5>1, <6>1
        <5> QED
          BY <5>2, <5>3
      <4>2. NewAt(E, z + k) = NewAt(E, z) + Cardinality(upto("delete", k))
        <5>1. NewAt(E, z + m) = NewAt(E, z) + Cardinality(upto("delete", m))
          BY <3>2
        <5>2. CASE E[z + k].op = "delete"
          <6>1. NewAt(E, z + k) = NewAt(E, z + m) + 0 /\ Cardinality(upto("delete", k)) = Cardinality(upto("delete", m)) + 0
            BY <3>3, <3>4, <3>6, <5>2
          <6> QED
            BY <1>13, <3>3, <5>1, <6>1
        <5>3. CASE E[z + k].op # "delete"
          <6>1. NewAt(E, z + k) = NewAt(E, z + m) + 1 /\ Cardinality(upto("delete", k)) = Cardinality(upto("delete", m)) + 1
            BY <3>3, <3>4, <3>6, <5>3
          <6> QED
            BY <1>13, <3>3, <5>1, <6>1
        <5> QED
          BY <5>2, <5>3
      <4> QED
        BY <4>1, <4>2
    <3> HIDE DEF Right
    <3> QED
      BY <3>7 DEF k
  <2>2. CASE ~(k <= top)
    BY <2>2
  <2> QED
    BY <2>1, <2>2
<1> HIDE DEF Right
<1> DEFINE m == x - 1
<1>16. m \in 0 .. top /\ m \in Nat /\ m <= top
  BY <1>6
<1>17. Right(m)
  <2> HIDE DEF m
  <2>1. m \in S
    <3> HIDE DEF S
    <3>1. Nat \subseteq S
      BY <1>14, <1>15, NatSetInduction
    <3> QED
      BY <1>16, <3>1
  <2> QED
    BY <1>16, <2>1
<1>18. Before(h, x, "insert") = Cardinality(upto("insert", m)) /\ Before(h, x, "delete") = Cardinality(upto("delete", m))
  BY <1>12, <1>16 DEF Before
<1> DEFINE e == E[z + x]
<1>19. h.lines[x] = LineOf(e, old, new) /\ e.old = OldAt(E, z + m) /\ e.new = NewAt(E, z + m)
  BY <1>4, <1>6, <1>7, <1>8
<1>20. h.oldStart = OldAt(E, z) + 1 /\ h.newStart = NewAt(E, z) + 1
  <2>1. a \in 1 .. Len(E) /\ a - 1 = z
    BY <1>1, <1>2, <1>4, <1>6
  <2> QED
    BY <1>3, <1>4, <2>1
<1>21. Cardinality(upto("insert", m)) \in Nat /\ Cardinality(upto("delete", m)) \in Nat
  BY <1>10, <1>16
<1> HIDE DEF e, m
<1>22. /\ e.old + 1 = h.oldStart + Before(h, x, "insert")
       /\ e.new + 1 = h.newStart + Before(h, x, "delete")
  BY <1>13, <1>17, <1>18, <1>19, <1>20, <1>21 DEF Right
<1>23. Views(h, x, old, new)
  <2> DEFINE line == h.lines[x]
  <2>1. line.op = e.op
    BY <1>19 DEF LineOf
  <2>2. e.op # "insert" => line.oldNo = e.old + 1 /\ line.text = old[e.old + 1]
    BY <1>19 DEF LineOf
  <2>3. e.op # "delete" => line.newNo = e.new + 1
    BY <1>19 DEF LineOf
  <2>4. e.op = "insert" => line.text = new[e.new + 1]
    BY <1>19 DEF LineOf
  <2>5. e.op \notin {"insert", "delete"} => old[e.old + 1] = new[e.new + 1]
    <3>1. z + x \in 1 .. Len(E)
      BY <1>6, <1>7
    <3>2. e \in EditSet /\ (e.op = "equal" => old[OldAt(E, z + x)] = new[NewAt(E, z + x)])
      BY <1>4, <3>1 DEF Covers, e
    <3>3. e.op = "equal" => OldAt(E, z + x) = e.old + 1 /\ NewAt(E, z + x) = e.new + 1
      <4>1. z + x # 0
        BY <1>6
      <4> QED
        BY <4>1 DEF OldAt, NewAt, e
    <3> QED
      BY <3>2, <3>3 DEF EditSet
  <2>6. e.op # "delete" => line.text = new[e.new + 1]
    BY <2>2, <2>4, <2>5
  <2> HIDE DEF line
  <2> QED
    BY <1>22, <2>1, <2>2, <2>3, <2>6 DEF Views, line
<1> QED
  BY <1>23 DEF h

\* The answer to a diff is set by the diff alone.
LEMMA DiffRuns ==
    ASSUME [Next]_vars, Done("diff")'
    PROVE  (Done("diff") /\ UNCHANGED vars) \/ Diff
BY DEF Next, vars, Done, Glob, RefGlob, Diff, PreviewMerge, PreviewPick, PreviewSeries, ReadLog,
       ReadAncestors, PreviewRebase, ReadTree, DiffOfTrees

\* A diff's two files are sequences of lines.
LEMMA DiffInputs ==
    ASSUME input \in Inputs, input.kind = "diff"
    PROVE  input.old \in Seq(Lines) /\ input.new \in Seq(Lines) /\ input.context \in Nat
<1>1. input.old \in Texts /\ input.new \in Texts /\ input.context \in Contexts
  BY DEF Inputs, ReadInputs
<1> QED
  BY <1>1, InputAssumption, BoundedSequences DEF Texts

\* The hunks of any two files, with any context, are a patch: the lines they delete and
\* add are each listed once, in order, and leave the same of both (diff.rs:469-653).
THEOREM HunksArePatches == Spec => []HunksRebuildTheFile
<1>1. Init => HunksRebuildTheFile
  BY DEF Init, HunksRebuildTheFile, Done, Pending
<1>2. ASSUME input \in Inputs, HunksRebuildTheFile, [Next]_vars
      PROVE  HunksRebuildTheFile'
  <2>1. CASE UNCHANGED vars
    <3>1. HunksRebuildTheFile' <=> HunksRebuildTheFile
      BY <2>1 DEF HunksRebuildTheFile, vars, Done
    <3> QED
      BY <1>2, <3>1
  <2>2. CASE Diff
    <3> DEFINE hunks == ComputeDiffHunks(input.old, input.new, input.context)
    <3>1. input' = input /\ output'[1] = hunks
      BY <2>2 DEF Diff
    <3>2. input.old \in Seq(Lines) /\ input.new \in Seq(Lines) /\ input.context \in Nat
      BY <1>2, <2>2, DiffInputs DEF Diff
    <3>3. \E E, W : /\ Covers(input.old, input.new, E, Len(input.old), Len(input.new))
                    /\ ShowsAll(E, hunks, W, input.old, input.new)
      BY <3>2, DiffIs
    <3> HIDE DEF hunks
    <3>4. Rebuild(hunks, input.old, input.new)
      BY <3>2, <3>3, HunksRebuild
    <3> QED
      BY <3>1, <3>4 DEF HunksRebuildTheFile, Rebuild, NumberOf
  <2>3. CASE ~Done("diff")'
    BY <2>3 DEF HunksRebuildTheFile
  <2> QED
    BY <1>2, <2>1, <2>2, <2>3, DiffRuns
<1> QED
  BY <1>1, <1>2, InputStays, PTL DEF Spec

\* Each hunk of any two files shows all lines of both from the ones its header names,
\* without a gap (diff.rs:545-594).
THEOREM HunksHold == Spec => []HunksAreWindows
<1>1. Init => HunksAreWindows
  BY DEF Init, HunksAreWindows, Done, Pending
<1>2. ASSUME input \in Inputs, HunksAreWindows, [Next]_vars
      PROVE  HunksAreWindows'
  <2>1. CASE UNCHANGED vars
    <3>1. HunksAreWindows' <=> HunksAreWindows
      BY <2>1 DEF HunksAreWindows, vars, Done
    <3> QED
      BY <1>2, <3>1
  <2>2. CASE Diff
    <3> DEFINE hunks == ComputeDiffHunks(input.old, input.new, input.context)
    <3>1. input' = input /\ output'[1] = hunks
      BY <2>2 DEF Diff
    <3>2. input.old \in Seq(Lines) /\ input.new \in Seq(Lines) /\ input.context \in Nat
      BY <1>2, <2>2, DiffInputs DEF Diff
    <3>3. \E E, W : /\ Covers(input.old, input.new, E, Len(input.old), Len(input.new))
                    /\ ShowsAll(E, hunks, W, input.old, input.new)
      BY <3>2, DiffIs
    <3> HIDE DEF hunks
    <3>4. ASSUME NEW h \in Range(hunks), NEW x \in DOMAIN h.lines
          PROVE  Views(h, x, input.old, input.new)
      <4>1. PICK g \in DOMAIN hunks : h = hunks[g]
        BY DEF Range
      <4> QED
        BY <3>3, <4>1, HunksView
    <3> QED
      BY <3>1, <3>4 DEF HunksAreWindows, Views, Before
  <2>3. CASE ~Done("diff")'
    BY <2>3 DEF HunksAreWindows
  <2> QED
    BY <1>2, <2>1, <2>2, <2>3, DiffRuns
<1> QED
  BY <1>1, <1>2, InputStays, PTL DEF Spec

\* No shorter edit script exists for any two files that are not too large to look for
\* one (diff.rs:476-514).
THEOREM DiffsAreMinimal == Spec => []DiffIsMinimal
<1>1. Init => DiffIsMinimal
  BY DEF Init, DiffIsMinimal, Done, Pending
<1>2. ASSUME input \in Inputs, DiffIsMinimal, [Next]_vars
      PROVE  DiffIsMinimal'
  <2>1. CASE UNCHANGED vars
    <3>1. DiffIsMinimal' <=> DiffIsMinimal
      BY <2>1 DEF DiffIsMinimal, vars, Done
    <3> QED
      BY <1>2, <3>1
  <2>2. CASE Diff
    <3> DEFINE hunks == ComputeDiffHunks(input.old, input.new, input.context)
               old == input.old
               new == input.new
               dp == LcsTable(old, new)
    <3>1. input' = input /\ output'[1] = hunks
      BY <2>2 DEF Diff
    <3>2. old \in Seq(Lines) /\ new \in Seq(Lines) /\ input.context \in Nat
      BY <1>2, <2>2, DiffInputs DEF Diff
    <3>3. CASE ~TooLarge(old, new)
      <4>1. PICK E, W : /\ Covers(old, new, E, Len(old), Len(new))
                        /\ ShowsAll(E, hunks, W, old, new)
                        /\ TooLarge(old, new) \/ Counted(dp, E)
        BY <3>2, DiffIs
      <4>2. dp[<<0, 0>>] = 0
        <5>1. 0 \in 0 .. Len(old) /\ 0 \in 0 .. Len(new)
          BY <3>2
        <5>2. dp[<<0, 0>>] = LcsCell(old, new, dp, 0, 0)
          BY <3>2, <5>1, TableIs
        <5> QED
          BY <5>2 DEF LcsCell
      <4> HIDE DEF hunks, dp
      <4>3. LeavesCount(old, new, E, Deleted(hunks))
        BY <3>2, <4>1, HunksRebuild
      <4>4. Len(Left(old, Deleted(hunks))) = dp[<<Len(old), Len(new)>>]
        BY <3>3, <4>1, <4>2, <4>3 DEF LeavesCount
      <4>5. ASSUME NEW s \in Subsequences(old) \cap Subsequences(new)
            PROVE  Len(s) <= Len(Left(old, Deleted(hunks)))
        <5>1. PICK gone \in SUBSET DOMAIN old : s = Left(old, gone)
          BY DEF Subsequences
        <5>2. PICK come \in SUBSET DOMAIN new : s = Left(new, come)
          BY DEF Subsequences
        <5>3. Len(Left(old, gone)) <= dp[<<Len(old), Len(new)>>]
          BY <3>2, <5>1, <5>2, TableIsMaximal DEF dp
        <5> QED
          BY <4>4, <5>1, <5>3
      <4> QED
        BY <3>1, <4>5 DEF DiffIsMinimal
    <3>4. CASE TooLarge(old, new)
      <4> HIDE DEF hunks, dp
      <4> QED
        BY <3>1, <3>4 DEF DiffIsMinimal
    <3> QED
      BY <3>3, <3>4
  <2>3. CASE ~Done("diff")'
    BY <2>3 DEF DiffIsMinimal
  <2> QED
    BY <1>2, <2>1, <2>2, <2>3, DiffRuns
<1> QED
  BY <1>1, <1>2, InputStays, PTL DEF Spec

(***************************************************************************)
(* TreeReads: listings of a tree.                                          *)
(***************************************************************************)

\* An order that tells any two apart, and the ways to list a set in it.
StrictOrder(S, R) ==
    /\ \A x \in S : <<x, x>> \notin R
    /\ \A x, y, z \in S : <<x, y>> \in R /\ <<y, z>> \in R => <<x, z>> \in R
    /\ \A x, y \in S : x = y \/ <<x, y>> \in R \/ <<y, x>> \in R

Sorts(S, R) ==
    {s \in [1 .. Cardinality(S) -> S] : \A i, j \in DOMAIN s : i < j => <<s[i], s[j]>> \in R}

\* A sequence that has each element of a set once.
Lists(s, S) == s \in Seq(S) /\ Len(s) = Cardinality(S) /\ Range(s) = S /\ IsInjective(s)

\* A finite set can be listed in a strict order: each element at the place after all that
\* are before it.
LEMMA SortExists ==
    ASSUME NEW S, IsFiniteSet(S), NEW R, StrictOrder(S, R)
    PROVE  Sorts(S, R) # {}
<1> DEFINE n == Cardinality(S)
           under(x) == {y \in S : <<y, x>> \in R}
           f == [x \in S |-> Cardinality(under(x)) + 1]
<1>1. n \in Nat
  BY FS_CardinalityType
<1> HIDE DEF n
<1>2. ASSUME NEW x \in S
      PROVE  IsFiniteSet(under(x)) /\ Cardinality(under(x)) \in Nat /\ Cardinality(under(x)) + 1 <= n
  <2>1. under(x) \in SUBSET (S \ {x})
    BY DEF StrictOrder
  <2>2. IsFiniteSet(S \ {x}) /\ Cardinality(S \ {x}) = n - 1
    BY FS_RemoveElement DEF n
  <2> HIDE DEF under
  <2>3. IsFiniteSet(under(x)) /\ Cardinality(under(x)) <= Cardinality(S \ {x})
    BY <2>1, <2>2, FS_Subset
  <2>4. Cardinality(under(x)) \in Nat
    BY <2>3, FS_CardinalityType
  <2> QED
    BY <1>1, <2>2, <2>3, <2>4
<1>3. ASSUME NEW x \in S, NEW y \in S, <<x, y>> \in R
      PROVE  f[x] < f[y]
  <2>1. under(x) \cup {x} \in SUBSET under(y) /\ x \notin under(x)
    BY <1>3 DEF StrictOrder
  <2>2. f[x] = Cardinality(under(x)) + 1 /\ f[y] = Cardinality(under(y)) + 1
    OBVIOUS
  <2> HIDE DEF under, f
  <2>3. Cardinality(under(x) \cup {x}) = Cardinality(under(x)) + 1
    BY <1>2, <2>1, FS_AddElement
  <2>4. Cardinality(under(x) \cup {x}) <= Cardinality(under(y))
    BY <1>2, <2>1, FS_Subset
  <2> QED
    BY <1>2, <2>2, <2>3, <2>4
<1>4. \A x \in S : f[x] \in 1 .. n
  <2> SUFFICES ASSUME NEW x \in S PROVE f[x] \in 1 .. n
    OBVIOUS
  <2>1. f[x] = Cardinality(under(x)) + 1
    OBVIOUS
  <2> HIDE DEF f, under
  <2> QED
    BY <1>1, <1>2, <2>1
<1>5. f \in [S -> 1 .. n] /\ DOMAIN f = S
  <2>1. f = [x \in S |-> f[x]] /\ DOMAIN f = S
    OBVIOUS
  <2> HIDE DEF f
  <2> QED
    BY <1>4, <2>1
<1> HIDE DEF under, f
<1>6. f \in Injection(S, 1 .. n)
  <2>1. ASSUME NEW x \in S, NEW y \in S, f[x] = f[y]
        PROVE  x = y
    <3>1. f[x] \in Int /\ f[y] \in Int
      BY <1>1, <1>4
    <3>2. ~(f[x] < f[y]) /\ ~(f[y] < f[x])
      BY <2>1, <3>1
    <3>3. <<x, y>> \notin R /\ <<y, x>> \notin R
      BY <1>3, <3>2
    <3> QED
      BY <3>3 DEF StrictOrder
  <2> QED
    BY <1>5, <2>1 DEF Injection, IsInjective
<1>7. \A i \in 1 .. n : \E x \in S : f[x] = i
  <2>1. IsFiniteSet(1 .. n) /\ Cardinality(1 .. n) = n
    BY <1>1, FS_Interval
  <2>2. f \in Surjection(S, 1 .. n)
    BY <1>6, <2>1, FS_Injection DEF n
  <2> QED
    BY <2>2 DEF Surjection
<1> DEFINE s == [i \in 1 .. n |-> CHOOSE x \in S : f[x] = i]
<1>8. s \in [1 .. n -> S] /\ \A i \in 1 .. n : f[s[i]] = i
  BY <1>7
<1>9. \A i, j \in 1 .. n : i < j => <<s[i], s[j]>> \in R
  <2> HIDE DEF s
  <2> SUFFICES ASSUME NEW i \in 1 .. n, NEW j \in 1 .. n, i < j PROVE <<s[i], s[j]>> \in R
    OBVIOUS
  <2>1. s[i] \in S /\ s[j] \in S /\ f[s[i]] = i /\ f[s[j]] = j
    BY <1>8
  <2>2. s[i] # s[j]
    BY <2>1
  <2>3. <<s[j], s[i]>> \notin R
    BY <1>3, <2>1
  <2> QED
    BY <2>1, <2>2, <2>3 DEF StrictOrder
<1> HIDE DEF s
<1>10. s \in Sorts(S, R)
  BY <1>8, <1>9 DEF Sorts, n
<1> QED
  BY <1>10

\* What is listed in a strict order is listed once, and all of it.
LEMMA SortLists ==
    ASSUME NEW S, IsFiniteSet(S), NEW R, StrictOrder(S, R), NEW s \in Sorts(S, R)
    PROVE  Lists(s, S)
<1> DEFINE n == Cardinality(S)
<1>1. n \in Nat
  BY FS_CardinalityType
<1>2. s \in [1 .. n -> S] /\ \A i, j \in 1 .. n : i < j => <<s[i], s[j]>> \in R
  BY DEF Sorts
<1> HIDE DEF n
<1>3. \A i, j \in 1 .. n : s[i] = s[j] => i = j
  <2> SUFFICES ASSUME NEW i \in 1 .. n, NEW j \in 1 .. n, s[i] = s[j], i # j PROVE FALSE
    OBVIOUS
  <2>1. <<s[i], s[i]>> \in R
    BY <1>1, <1>2
  <2>2. s[i] \in S
    BY <1>2
  <2> QED
    BY <2>1, <2>2 DEF StrictOrder
<1>4. s \in Injection(1 .. n, S) /\ IsInjective(s)
  BY <1>2, <1>3 DEF Injection, IsInjective
<1>5. IsFiniteSet(1 .. n) /\ Cardinality(1 .. n) = n
  BY <1>1, FS_Interval
<1>6. s \in Surjection(1 .. n, S)
  BY <1>4, <1>5, FS_Injection DEF n
<1>7. \A x \in S : \E i \in 1 .. n : s[i] = x
  BY <1>6 DEF Surjection
<1>8. Range(s) = S
  BY <1>2, <1>7 DEF Range
<1>9. s \in Seq(S) /\ Len(s) = n
  BY <1>1, <1>2
<1> QED
  BY <1>4, <1>8, <1>9 DEF Lists, n

\* Paths, and the root with them.
AllPaths == Seq(DOMAIN NameRank)

\* The place of an entry in a tree object.
Place(tree, p) == IF Node(tree, p).kind = "tree" THEN DirRank[Last(p)] ELSE NameRank[Last(p)]

IsDir(tree, p) == Node(tree, p).kind = "tree"

\* A directory is before what is in it, the root too.
LEMMA BelowDirectory ==
    ASSUME NEW dir \in AllPaths, NEW q \in PathSeqs
    PROVE  IsStrictPrefix(dir, q) <=> Len(dir) < Len(q) /\ \A i \in 1 .. Len(dir) : dir[i] = q[i]
<1>1. Len(dir) \in Nat /\ Len(q) \in Nat
  BY DEF AllPaths, PathSeqs
<1>2. IsPrefix(dir, q) <=> Len(dir) <= Len(q) /\ \A i \in 1 .. Len(dir) : dir[i] = q[i]
  BY PrefixIs DEF AllPaths, PathSeqs
<1>3. Len(dir) = Len(q) /\ (\A i \in 1 .. Len(dir) : dir[i] = q[i]) => dir = q
  BY DEF AllPaths, PathSeqs
<1>4. IsStrictPrefix(dir, q) <=> IsPrefix(dir, q) /\ dir # q
  BY DEF IsStrictPrefix
<1> QED
  BY <1>1, <1>2, <1>3, <1>4

\* The children of a directory: what is in the tree one level below it.
LEMMA ChildrenAre ==
    ASSUME NEW leaves, NEW tree \in TreesOf(leaves), NEW dir \in AllPaths
    PROVE  LET S == ChildrenOf(tree, dir) IN
           /\ S = {p \in Nodes(tree) : Len(p) = Len(dir) + 1 /\ IsStrictPrefix(dir, p)}
           /\ S \subseteq PathSeqs /\ IsFiniteSet(S)
           /\ \A p, q \in S : Last(p) = Last(q) => p = q
           /\ \A p \in S : Last(p) \in DOMAIN NameRank
<1> DEFINE S == ChildrenOf(tree, dir)
           n == Len(dir) + 1
<1>1. /\ DOMAIN tree \subseteq PathSeqs /\ Nodes(tree) \subseteq PathSeqs
      /\ \A p : p \in Nodes(tree) <=> \E q \in DOMAIN tree : \E k \in 1 .. Len(q) : p = SubSeq(q, 1, k)
  <2>1. DOMAIN tree \subseteq PathSeqs
    BY ReadTreesAre
  <2>2. Nodes(tree) \subseteq PathSeqs
    BY <2>1, NodesAre
  <2> QED
    BY <2>1, <2>2 DEF Nodes
<1>2. n \in Nat /\ n >= 1 /\ Len(dir) = n - 1 /\ Len(dir) \in Nat
  BY DEF AllPaths
<1> HIDE DEF n
<1>3. ASSUME NEW q \in PathSeqs, NEW k \in 1 .. Len(q)
      PROVE  /\ SubSeq(q, 1, k) \in PathSeqs /\ Len(SubSeq(q, 1, k)) = k
             /\ \A i \in 1 .. k : SubSeq(q, 1, k)[i] = q[i]
  <2>1. SubSeq(q, 1, k) \in PathSeqs /\ Len(SubSeq(q, 1, k)) = k
    BY PartsOfPath
  <2>2. \A i \in 1 .. k : SubSeq(q, 1, k)[i] = q[i]
    BY DEF PathSeqs
  <2> QED
    BY <2>1, <2>2
<1>4. ASSUME NEW q \in DOMAIN tree, IsStrictPrefix(dir, q)
      PROVE  SubSeq(q, 1, n) \in {p \in Nodes(tree) : Len(p) = n /\ IsStrictPrefix(dir, p)}
  <2>1. q \in PathSeqs /\ Len(q) \in Nat /\ Len(dir) < Len(q) /\ \A i \in 1 .. Len(dir) : dir[i] = q[i]
    <3>1. q \in PathSeqs /\ Len(q) \in Nat
      BY <1>1 DEF PathSeqs
    <3> QED
      BY <1>4, <3>1, BelowDirectory
  <2>2. n \in 1 .. Len(q)
    BY <1>2, <2>1
  <2>3. SubSeq(q, 1, n) \in PathSeqs /\ Len(SubSeq(q, 1, n)) = n
        /\ \A i \in 1 .. n : SubSeq(q, 1, n)[i] = q[i]
    BY <1>3, <2>1, <2>2
  <2> DEFINE p == SubSeq(q, 1, n)
  <2>4. p \in Nodes(tree)
    BY <1>1, <2>2
  <2> HIDE DEF p
  <2>5. IsStrictPrefix(dir, p)
    <3>1. p \in PathSeqs /\ Len(p) = n /\ \A i \in 1 .. n : p[i] = q[i]
      BY <2>3 DEF p
    <3>2. Len(dir) < Len(p) /\ \A i \in 1 .. Len(dir) : dir[i] = p[i]
      BY <1>2, <2>1, <3>1
    <3> QED
      BY <3>1, <3>2, BelowDirectory
  <2> QED
    BY <2>3, <2>4, <2>5 DEF p
<1>5. ASSUME NEW p \in Nodes(tree), Len(p) = n, IsStrictPrefix(dir, p)
      PROVE  p \in S
  <2>1. PICK q \in DOMAIN tree : \E k \in 1 .. Len(q) : p = SubSeq(q, 1, k)
    BY <1>1
  <2>2. PICK k \in 1 .. Len(q) : p = SubSeq(q, 1, k)
    BY <2>1
  <2>3. q \in PathSeqs /\ p \in PathSeqs
    BY <1>1
  <2>4. k = n /\ \A i \in 1 .. n : p[i] = q[i]
    BY <1>3, <1>5, <2>2, <2>3
  <2>5. Len(q) \in Nat /\ Len(dir) < Len(q) /\ \A i \in 1 .. Len(dir) : dir[i] = q[i]
    <3>1. \A i \in 1 .. Len(dir) : dir[i] = p[i]
      BY <1>5, <2>3, BelowDirectory
    <3>2. Len(q) \in Nat
      BY <2>3 DEF PathSeqs
    <3> QED
      BY <1>2, <2>4, <3>1, <3>2
  <2>6. q \in LeavesBelow(tree, dir)
    BY <2>3, <2>5, BelowDirectory DEF LeavesBelow
  <2> QED
    BY <2>2, <2>4, <2>6 DEF ChildrenOf, n
<1>6. S = {p \in Nodes(tree) : Len(p) = n /\ IsStrictPrefix(dir, p)}
  <2>1. ASSUME NEW p \in S
        PROVE  p \in Nodes(tree) /\ Len(p) = n /\ IsStrictPrefix(dir, p)
    <3>1. PICK q \in LeavesBelow(tree, dir) : p = SubSeq(q, 1, n)
      BY DEF ChildrenOf, n
    <3>2. q \in DOMAIN tree /\ IsStrictPrefix(dir, q)
      BY DEF LeavesBelow
    <3> QED
      BY <1>4, <3>1, <3>2
  <2> HIDE DEF S
  <2> QED
    BY <1>5, <2>1
<1>7. IsFiniteSet(S)
  <2> DEFINE L == LeavesBelow(tree, dir)
             f == [q \in L |-> SubSeq(q, 1, n)]
  <2>1. IsFiniteSet(L)
    <3>1. PICK ps \in SUBSET Paths : tree \in [ps -> leaves]
      BY DEF TreesOf
    <3>2. L \in SUBSET Paths
      BY <3>1 DEF LeavesBelow
    <3> HIDE DEF L
    <3> QED
      BY <3>2, ReadsAssumption, FS_Subset
  <2>2. f \in Surjection(L, S)
    BY DEF Surjection, ChildrenOf, n
  <2> HIDE DEF L, S, f
  <2> QED
    BY <2>1, <2>2, FS_Surjection
<1>8. ASSUME NEW p \in S, NEW q \in S, Last(p) = Last(q)
      PROVE  p = q
  <2> HIDE DEF S
  <2>1. p \in PathSeqs /\ q \in PathSeqs /\ Len(p) = n /\ Len(q) = n
    BY <1>1, <1>6
  <2>2. \A i \in 1 .. Len(dir) : p[i] = dir[i] /\ q[i] = dir[i]
    BY <1>6, <2>1, BelowDirectory
  <2>3. p[n] = q[n]
    BY <1>8, <2>1 DEF Last
  <2>4. \A i \in 1 .. n : p[i] = q[i]
    BY <1>2, <2>2, <2>3
  <2> QED
    BY <2>1, <2>4 DEF PathSeqs
<1>9. S \subseteq PathSeqs
  <2> HIDE DEF S
  <2> QED
    BY <1>1, <1>6
<1>10. \A p \in PathSeqs : Last(p) \in DOMAIN NameRank
  BY DEF PathSeqs, Last
<1> QED
  <2> HIDE DEF S
  <2>1. \A p \in S : Last(p) \in DOMAIN NameRank
    BY <1>9, <1>10
  <2> QED
    BY <1>6, <1>7, <1>8, <1>9, <2>1 DEF S, n

\* The two orders of the entries of a directory.
TreeOrder(tree, S) == {r \in S \X S : Place(tree, r[1]) < Place(tree, r[2])}

LevelOrder(tree, S) ==
    {r \in S \X S : IF IsDir(tree, r[1]) = IsDir(tree, r[2])
                    THEN NameRank[Last(r[1])] < NameRank[Last(r[2])] ELSE IsDir(tree, r[1])}

\* Both tell any two entries apart, as no two have the same name.
LEMMA BothAreOrders ==
    ASSUME NEW tree, NEW S, \A p, q \in S : Last(p) = Last(q) => p = q,
           \A p \in S : Last(p) \in DOMAIN NameRank
    PROVE  StrictOrder(S, TreeOrder(tree, S)) /\ StrictOrder(S, LevelOrder(tree, S))
<1>1. ASSUME NEW p \in S
      PROVE  Place(tree, p) \in Nat /\ Place(tree, p) \in {NameRank[Last(p)], DirRank[Last(p)]}
             /\ NameRank[Last(p)] \in Nat
  <2>1. NameRank[Last(p)] \in Nat /\ DirRank[Last(p)] \in Nat
    BY ReadsAssumption
  <2> QED
    BY <2>1 DEF Place
<1>2. ASSUME NEW p \in S, NEW q \in S, p # q
      PROVE  Place(tree, p) # Place(tree, q) /\ NameRank[Last(p)] # NameRank[Last(q)]
  <2>1. Last(p) # Last(q) /\ Last(p) \in DOMAIN NameRank /\ Last(q) \in DOMAIN NameRank
    BY <1>2
  <2>2. {NameRank[Last(p)], DirRank[Last(p)]} \cap {NameRank[Last(q)], DirRank[Last(q)]} = {}
    BY <2>1, ReadsAssumption
  <2> QED
    BY <1>1, <2>2
<1>3. StrictOrder(S, TreeOrder(tree, S))
  <2>1. \A x, y \in S : <<x, y>> \in TreeOrder(tree, S) <=> Place(tree, x) < Place(tree, y)
    BY DEF TreeOrder
  <2>2. \A x \in S : <<x, x>> \notin TreeOrder(tree, S)
    BY <1>1, <2>1
  <2>3. \A x, y, z \in S : Place(tree, x) < Place(tree, y) /\ Place(tree, y) < Place(tree, z)
                              => Place(tree, x) < Place(tree, z)
    BY <1>1
  <2>4. \A x, y \in S : x = y \/ Place(tree, x) < Place(tree, y) \/ Place(tree, y) < Place(tree, x)
    BY <1>1, <1>2
  <2> QED
    BY <2>1, <2>2, <2>3, <2>4 DEF StrictOrder
<1>4. StrictOrder(S, LevelOrder(tree, S))
  <2> DEFINE rank(p) == NameRank[Last(p)]
             dir(p) == IsDir(tree, p)
             R(x, y) == IF dir(x) = dir(y) THEN rank(x) < rank(y) ELSE dir(x)
  <2>1. \A x, y \in S : <<x, y>> \in LevelOrder(tree, S) <=> R(x, y)
    BY DEF LevelOrder
  <2>2. \A x, y \in S : rank(x) \in Nat /\ (x # y => rank(x) # rank(y))
    BY <1>1, <1>2
  <2>3. \A x \in S : dir(x) \in BOOLEAN
    BY DEF IsDir
  <2> HIDE DEF rank, dir
  <2>4. \A x \in S : ~R(x, x)
    BY <2>2
  <2>5. \A x, y, z \in S : R(x, y) /\ R(y, z) => R(x, z)
    <3> SUFFICES ASSUME NEW x \in S, NEW y \in S, NEW z \in S, R(x, y), R(y, z) PROVE R(x, z)
      OBVIOUS
    <3>1. rank(x) \in Nat /\ rank(y) \in Nat /\ rank(z) \in Nat
      BY <2>2
    <3>2. dir(x) \in BOOLEAN /\ dir(y) \in BOOLEAN /\ dir(z) \in BOOLEAN
      BY <2>3
    <3> QED
      BY <3>1, <3>2
  <2>6. \A x, y \in S : x = y \/ R(x, y) \/ R(y, x)
    <3> SUFFICES ASSUME NEW x \in S, NEW y \in S, x # y PROVE R(x, y) \/ R(y, x)
      OBVIOUS
    <3>1. rank(x) \in Nat /\ rank(y) \in Nat /\ rank(x) # rank(y)
      BY <2>2
    <3>2. dir(x) \in BOOLEAN /\ dir(y) \in BOOLEAN
      BY <2>3
    <3> QED
      BY <3>1, <3>2
  <2> HIDE DEF R
  <2> QED
    BY <2>1, <2>4, <2>5, <2>6 DEF StrictOrder
<1> QED
  BY <1>3, <1>4

\* The entries of a directory are its children, each one once.
LEMMA EntriesListed ==
    ASSUME NEW leaves, NEW tree \in TreesOf(leaves), NEW dir \in AllPaths
    PROVE  Lists(Entries(tree, dir), ChildrenOf(tree, dir))
<1> DEFINE S == ChildrenOf(tree, dir)
           R == TreeOrder(tree, S)
           Ordered(s) == \A i, j \in DOMAIN s : i < j => Place(tree, s[i]) < Place(tree, s[j])
<1>1. Entries(tree, dir) = CHOOSE s \in [1 .. Cardinality(S) -> S] : Ordered(s)
  BY DEF Entries, InOrder, Place
<1>2. IsFiniteSet(S) /\ StrictOrder(S, R)
  <2>1. /\ \A p, q \in S : Last(p) = Last(q) => p = q
        /\ \A p \in S : Last(p) \in DOMAIN NameRank
        /\ IsFiniteSet(S)
    BY ChildrenAre
  <2> HIDE DEF S
  <2> QED
    BY <2>1, BothAreOrders
<1>3. \A s \in [1 .. Cardinality(S) -> S] : Ordered(s) <=> s \in Sorts(S, R)
  <2> SUFFICES ASSUME NEW s \in [1 .. Cardinality(S) -> S] PROVE Ordered(s) <=> s \in Sorts(S, R)
    OBVIOUS
  <2>1. \A i, j \in DOMAIN s : <<s[i], s[j]>> \in R <=> Place(tree, s[i]) < Place(tree, s[j])
    <3> HIDE DEF S
    <3>1. \A i \in DOMAIN s : s[i] \in S
      OBVIOUS
    <3> QED
      BY <3>1 DEF R, TreeOrder
  <2> HIDE DEF S, R
  <2> QED
    BY <2>1 DEF Sorts
<1> HIDE DEF S, R, Ordered
<1>4. PICK s \in Sorts(S, R) : TRUE
  BY <1>2, SortExists
<1>5. s \in [1 .. Cardinality(S) -> S]
  BY DEF Sorts
<1>6. Entries(tree, dir) \in Sorts(S, R)
  BY <1>1, <1>3, <1>4, <1>5
<1> QED
  BY <1>2, <1>6, SortLists DEF S

\* A level is the children of a directory, each one once, directories first.
LEMMA LevelIs ==
    ASSUME NEW leaves, NEW tree \in TreesOf(leaves), NEW dir \in AllPaths
    PROVE  LET list == GetLevel(tree, dir) IN
           /\ Lists(list, ChildrenOf(tree, dir))
           /\ \A i, j \in DOMAIN list : i < j => IsDir(tree, list[i]) \/ ~IsDir(tree, list[j])
<1> DEFINE S == ChildrenOf(tree, dir)
           list == GetLevel(tree, dir)
           R == LevelOrder(tree, S)
           First(p, q) == IF IsDir(tree, p) = IsDir(tree, q) THEN NameRank[Last(p)] < NameRank[Last(q)]
                          ELSE IsDir(tree, p)
           Ordered(s) == \A i, j \in DOMAIN s : i < j => First(s[i], s[j])
<1>1. list = CHOOSE s \in [1 .. Cardinality(S) -> S] : Ordered(s)
  <2>1. Range(Entries(tree, dir)) = S
    BY EntriesListed DEF Lists
  <2>2. GetLevel(tree, dir)
          = CHOOSE s \in [1 .. Cardinality(Range(Entries(tree, dir))) -> Range(Entries(tree, dir))] : Ordered(s)
    BY DEF GetLevel, InOrder, IsDir
  <2> HIDE DEF S, Ordered
  <2> QED
    BY <2>1, <2>2
<1>2. IsFiniteSet(S) /\ StrictOrder(S, R)
  <2>1. /\ \A p, q \in S : Last(p) = Last(q) => p = q
        /\ \A p \in S : Last(p) \in DOMAIN NameRank
        /\ IsFiniteSet(S)
    BY ChildrenAre
  <2> HIDE DEF S
  <2> QED
    BY <2>1, BothAreOrders
<1>3. \A s \in [1 .. Cardinality(S) -> S] : Ordered(s) <=> s \in Sorts(S, R)
  <2> SUFFICES ASSUME NEW s \in [1 .. Cardinality(S) -> S] PROVE Ordered(s) <=> s \in Sorts(S, R)
    OBVIOUS
  <2>1. \A i, j \in DOMAIN s : <<s[i], s[j]>> \in R <=> First(s[i], s[j])
    <3> HIDE DEF S
    <3>1. \A i \in DOMAIN s : s[i] \in S
      OBVIOUS
    <3> QED
      BY <3>1 DEF R, LevelOrder
  <2> HIDE DEF S, R, First
  <2> QED
    BY <2>1 DEF Sorts
<1> HIDE DEF S, R, Ordered, list
<1>4. PICK s \in Sorts(S, R) : TRUE
  BY <1>2, SortExists
<1>5. s \in [1 .. Cardinality(S) -> S]
  BY DEF Sorts
<1>6. list \in Sorts(S, R) /\ Ordered(list)
  BY <1>1, <1>3, <1>4, <1>5
<1>7. Lists(list, S)
  BY <1>2, <1>6, SortLists
<1>8. \A i, j \in DOMAIN list : i < j => IsDir(tree, list[i]) \/ ~IsDir(tree, list[j])
  <2> SUFFICES ASSUME NEW i \in DOMAIN list, NEW j \in DOMAIN list, i < j
               PROVE  IsDir(tree, list[i]) \/ ~IsDir(tree, list[j])
    OBVIOUS
  <2>1. First(list[i], list[j])
    BY <1>6 DEF Ordered
  <2> QED
    BY <2>1, Zenon DEF IsDir
<1> QED
  BY <1>7, <1>8 DEF S, list

\* Two sequences in a row.
LEMMA JoinedOnce ==
    ASSUME NEW T, NEW s \in Seq(T), NEW t \in Seq(T)
    PROVE  /\ s \o t \in Seq(T) /\ Range(s \o t) = Range(s) \cup Range(t)
           /\ IsInjective(s) /\ IsInjective(t) /\ Range(s) \cap Range(t) = {} => IsInjective(s \o t)
<1> DEFINE u == s \o t
           n == Len(s)
           m == Len(t)
<1>1. n \in Nat /\ m \in Nat /\ DOMAIN s = 1 .. n /\ DOMAIN t = 1 .. m
  OBVIOUS
<1>2. u \in Seq(T) /\ Len(u) = n + m /\ \A i \in 1 .. n + m : u[i] = IF i <= n THEN s[i] ELSE t[i - n]
  BY ConcatProperties
<1>3. DOMAIN u = 1 .. n + m
  BY <1>2
<1> HIDE DEF u, n, m
<1>4. /\ \A i \in 1 .. n : i \in 1 .. n + m /\ u[i] = s[i]
      /\ \A i \in 1 .. m : n + i \in 1 .. n + m /\ u[n + i] = t[i]
      /\ \A i \in 1 .. n + m : i \in 1 .. n \/ (i - n \in 1 .. m /\ n + (i - n) = i)
  <2>1. \A i \in 1 .. n : i \in 1 .. n + m /\ i <= n
    BY <1>1
  <2>2. \A i \in 1 .. m : n + i \in 1 .. n + m /\ ~(n + i <= n) /\ n + i - n = i
    BY <1>1
  <2>3. \A i \in 1 .. n + m : i \in 1 .. n \/ (i - n \in 1 .. m /\ n + (i - n) = i)
    BY <1>1
  <2>4. \A i \in 1 .. n : u[i] = s[i]
    BY <1>2, <2>1
  <2>5. \A i \in 1 .. m : u[n + i] = t[i]
    <3> SUFFICES ASSUME NEW i \in 1 .. m PROVE u[n + i] = t[i]
      OBVIOUS
    <3> DEFINE k == n + i
    <3>1. k \in 1 .. n + m /\ ~(k <= n) /\ k - n = i
      BY <1>1
    <3> HIDE DEF k
    <3>2. u[k] = t[k - n]
      BY <1>2, <3>1
    <3> QED
      BY <3>1, <3>2 DEF k
  <2> QED
    BY <2>1, <2>2, <2>3, <2>4, <2>5
<1>5. Range(u) = Range(s) \cup Range(t)
  <2>1. ASSUME NEW x \in Range(u) PROVE x \in Range(s) \cup Range(t)
    <3>1. PICK i \in 1 .. n + m : x = u[i]
      BY <1>3 DEF Range
    <3>2. CASE i \in 1 .. n
      BY <1>1, <1>4, <3>1, <3>2 DEF Range
    <3>3. CASE i - n \in 1 .. m /\ n + (i - n) = i
      <4>1. x = t[i - n]
        BY <1>4, <3>1, <3>3
      <4> QED
        BY <1>1, <3>3, <4>1 DEF Range
    <3> QED
      BY <1>4, <3>2, <3>3
  <2>2. Range(s) \subseteq Range(u)
    BY <1>1, <1>3, <1>4 DEF Range
  <2>3. ASSUME NEW x \in Range(t) PROVE x \in Range(u)
    <3>1. PICK i \in 1 .. m : x = t[i]
      BY <1>1 DEF Range
    <3>2. n + i \in DOMAIN u /\ u[n + i] = x
      BY <1>3, <1>4, <3>1
    <3> QED
      BY <3>2 DEF Range
  <2> QED
    BY <2>1, <2>2, <2>3
<1>6. ASSUME IsInjective(s), IsInjective(t), Range(s) \cap Range(t) = {}
      PROVE  IsInjective(u)
  <2> SUFFICES ASSUME NEW i \in 1 .. n + m, NEW j \in 1 .. n + m, u[i] = u[j] PROVE i = j
    BY <1>3 DEF IsInjective
  <2>1. /\ \A x \in 1 .. n + m : \/ x \in 1 .. n /\ u[x] = s[x] /\ u[x] \in Range(s)
                                 \/ x - n \in 1 .. m /\ u[x] = t[x - n] /\ u[x] \in Range(t)
    <3> SUFFICES ASSUME NEW x \in 1 .. n + m
                 PROVE  \/ x \in 1 .. n /\ u[x] = s[x] /\ u[x] \in Range(s)
                        \/ x - n \in 1 .. m /\ u[x] = t[x - n] /\ u[x] \in Range(t)
      OBVIOUS
    <3>1. CASE x \in 1 .. n
      BY <1>1, <1>4, <3>1 DEF Range
    <3>2. CASE x - n \in 1 .. m /\ n + (x - n) = x
      <4>1. u[x] = t[x - n]
        BY <1>4, <3>2
      <4> QED
        BY <1>1, <3>2, <4>1 DEF Range
    <3> QED
      BY <1>4, <3>1, <3>2
  <2>2. CASE i \in 1 .. n /\ j \in 1 .. n
    BY <1>1, <1>4, <1>6, <2>2 DEF IsInjective
  <2>3. CASE i - n \in 1 .. m /\ j - n \in 1 .. m /\ u[i] = t[i - n] /\ u[j] = t[j - n]
    <3>1. i - n = j - n
      BY <1>1, <1>6, <2>3 DEF IsInjective
    <3> QED
      BY <1>1, <3>1
  <2>4. ~(u[i] \in Range(s) /\ u[i] \in Range(t))
    BY <1>6
  <2> QED
    BY <2>1, <2>2, <2>3, <2>4
<1> QED
  BY <1>2, <1>5, <1>6 DEF u

\* Sequences in a row: what is in one of them is in the row, and once if it is in no other
\* and once there.
LEMMA FlattenIs ==
    ASSUME NEW T, NEW ss \in Seq(Seq(T))
    PROVE  /\ FlattenSeq(ss) \in Seq(T)
           /\ Range(FlattenSeq(ss)) = UNION {Range(ss[i]) : i \in DOMAIN ss}
           /\ /\ \A i \in DOMAIN ss : IsInjective(ss[i])
              /\ \A i, j \in DOMAIN ss : i # j => Range(ss[i]) \cap Range(ss[j]) = {}
              => IsInjective(FlattenSeq(ss))
<1> DEFINE n == Len(ss)
           D == 1 .. n
           V == Seq(T)
           value(f, i) == IF i = 1 THEN ss[i] ELSE f[i - 1] \o ss[i]
           rank == [i \in D |-> i]
           G == [a \in [D -> V] \X D |-> value(a[1], a[2])]
           row == CHOOSE f : f = [i \in D |-> value(f, i)]
<1>1. n \in Nat /\ DOMAIN ss = D /\ \A i \in D : ss[i] \in V
  OBVIOUS
<1>2. FlattenSeq(ss) = IF n = 0 THEN ss ELSE row[n]
  BY DEF FlattenSeq
<1> HIDE DEF V
<1>3. \E f \in [D -> V] : f = [i \in D |-> value(f, i)]
  <2>1. rank \in [D -> 0 .. n] /\ \A i \in D : rank[i] = i
    BY <1>1
  <2>2. V # {}
    BY DEF V
  <2>3. ASSUME NEW f \in [D -> V], NEW i \in D
        PROVE  value(f, i) \in V
    <3>1. CASE i = 1
      BY <1>1, <3>1
    <3>2. CASE i # 1
      <4>1. i - 1 \in D
        BY <1>1, <3>2
      <4>2. f[i - 1] \in V
        <5> HIDE DEF D
        <5> QED
          BY <4>1
      <4>3. ss[i] \in V
        BY <1>1
      <4> QED
        BY <3>2, <4>2, <4>3, ConcatProperties DEF V
    <3> QED
      BY <3>1, <3>2
  <2>4. ASSUME NEW f \in [D -> V], NEW g \in [D -> V], NEW i \in D,
               \A j \in D : rank[j] < rank[i] => f[j] = g[j]
        PROVE  value(f, i) = value(g, i)
    <3>1. i # 1 => i - 1 \in D /\ i - 1 < i
      BY <1>1
    <3>2. i # 1 => f[i - 1] = g[i - 1]
      BY <2>1, <2>4, <3>1
    <3> QED
      BY <3>2
  <2> HIDE DEF D, rank, value
  <2>5. G \in [[D -> V] \X D -> V] /\ \A f \in [D -> V], i \in D : G[<<f, i>>] = value(f, i)
    BY <2>3
  <2> HIDE DEF G
  <2>6. G \in Local(D, V, rank)
    <3>1. ASSUME NEW f \in [D -> V], NEW g \in [D -> V], NEW i \in D,
                 \A j \in D : rank[j] < rank[i] => f[j] = g[j]
          PROVE  G[<<f, i>>] = G[<<g, i>>]
      <4>1. value(f, i) = value(g, i)
        BY <2>4, <3>1
      <4> QED
        BY <2>5, <4>1
    <3> QED
      BY <2>5, <3>1 DEF Local
  <2>7. Solutions(D, V, G) # {}
    BY <1>1, <2>1, <2>2, <2>6, RecursionHasSolution
  <2>8. PICK f \in [D -> V] : f = [i \in D |-> G[<<f, i>>]]
    BY <2>7 DEF Solutions
  <2>9. f = [i \in D |-> value(f, i)]
    BY <2>5, <2>8
  <2> QED
    BY <2>9
<1>4. row = [i \in D |-> value(row, i)]
  <2> HIDE DEF value, D
  <2> QED
    BY <1>3
<1> HIDE DEF row
<1>5. \A i \in D : row[i] = IF i = 1 THEN ss[i] ELSE row[i - 1] \o ss[i]
  <2>1. \A i \in D : row[i] = value(row, i)
    <3> HIDE DEF value, D
    <3> QED
      BY <1>4
  <2> QED
    BY <2>1
<1> DEFINE apart == /\ \A i \in D : IsInjective(ss[i])
                    /\ \A i, j \in D : i # j => Range(ss[i]) \cap Range(ss[j]) = {}
           Good(i) == /\ row[i] \in V /\ Range(row[i]) = UNION {Range(ss[j]) : j \in 1 .. i}
                      /\ apart => IsInjective(row[i])
           S == {i \in Nat : i + 1 \in D => Good(i + 1)}
<1>6. ASSUME 1 \in D PROVE Good(1)
  <2>1. row[1] = ss[1] /\ ss[1] \in V
    BY <1>1, <1>5, <1>6
  <2>2. UNION {Range(ss[j]) : j \in 1 .. 1} = Range(ss[1])
    <3>1. 1 .. 1 = {1}
      OBVIOUS
    <3> QED
      BY <3>1
  <2> HIDE DEF D
  <2> QED
    BY <1>6, <2>1, <2>2
<1>7. ASSUME NEW i \in D, i + 1 \in D, Good(i)
      PROVE  Good(i + 1)
  <2> DEFINE s == row[i]
             t == ss[i + 1]
  <2>1. row[i + 1] = s \o t /\ s \in V /\ t \in V
    <3>1. i + 1 # 1 /\ (i + 1) - 1 = i
      BY <1>1
    <3> QED
      BY <1>1, <1>5, <1>7, <3>1
  <2>2. Range(s) = UNION {Range(ss[j]) : j \in 1 .. i} /\ (apart => IsInjective(s))
    BY <1>7
  <2> HIDE DEF s, t
  <2>3. s \o t \in V /\ Range(s \o t) = Range(s) \cup Range(t)
        /\ (IsInjective(s) /\ IsInjective(t) /\ Range(s) \cap Range(t) = {} => IsInjective(s \o t))
    BY <2>1, JoinedOnce DEF V
  <2>4. UNION {Range(ss[j]) : j \in 1 .. i + 1} = Range(s) \cup Range(t)
    <3>1. 1 .. i + 1 = (1 .. i) \cup {i + 1}
      BY <1>1
    <3> QED
      BY <2>2, <3>1 DEF t
  <2>5. ASSUME apart
        PROVE  IsInjective(t) /\ Range(s) \cap Range(t) = {}
    <3>1. \A j \in 1 .. i : j \in D /\ j # i + 1
      BY <1>1
    <3>2. \A j \in 1 .. i : Range(ss[j]) \cap Range(t) = {}
      BY <1>7, <2>5, <3>1 DEF t
    <3>3. IsInjective(t)
      BY <1>7, <2>5 DEF t
    <3> QED
      BY <2>2, <3>2, <3>3
  <2> HIDE DEF apart
  <2> QED
    BY <2>1, <2>2, <2>3, <2>4, <2>5
<1> HIDE DEF Good
<1>8. 0 \in S
  <2>1. 0 + 1 = 1
    OBVIOUS
  <2> QED
    BY <1>6, <2>1
<1>9. ASSUME NEW i \in Nat, i \in S PROVE i + 1 \in S
  <2>1. (i + 1) + 1 \in D => i + 1 \in D
    BY <1>1
  <2> QED
    BY <1>7, <1>9, <2>1
<1>10. n # 0 => Good(n)
  <2>1. n # 0 => n - 1 \in Nat /\ (n - 1) + 1 = n /\ n \in D
    BY <1>1
  <2>2. n # 0 => n - 1 \in S
    <3> HIDE DEF S
    <3>1. Nat \subseteq S
      BY <1>8, <1>9, NatSetInduction
    <3> QED
      BY <2>1, <3>1
  <2> QED
    BY <2>1, <2>2
<1>11. CASE n = 0
  <2>1. ss = <<>> /\ D = {} /\ FlattenSeq(ss) = <<>>
    BY <1>1, <1>2, <1>11
  <2>2. <<>> \in Seq(T) /\ Range(<<>>) = {} /\ IsInjective(<<>>)
    BY DEF Range, IsInjective
  <2> QED
    BY <1>1, <2>1, <2>2
<1>12. CASE n # 0
  <2>1. FlattenSeq(ss) = row[n] /\ Good(n)
    BY <1>2, <1>10, <1>12
  <2> QED
    BY <1>1, <2>1 DEF Good, V
<1> QED
  BY <1>11, <1>12

\* What the recursive listing of a directory holds: all below it, to its depth.
Under(tree, dir) == {q \in Nodes(tree) : IsStrictPrefix(dir, q) /\ Len(q) <= MaxDepth + 1}

\* A child of a directory and what is below it, and only for a directory is there any.
LEMMA UnderIs ==
    ASSUME NEW leaves, NEW tree \in TreesOf(leaves), NEW dir \in AllPaths, Len(dir) <= MaxDepth
    PROVE  LET S == ChildrenOf(tree, dir) IN
           /\ Under(tree, dir) = UNION {{e} \cup Under(tree, e) : e \in S}
           /\ \A e, d \in S : e # d => ({e} \cup Under(tree, e)) \cap ({d} \cup Under(tree, d)) = {}
           /\ \A e \in S : /\ e \notin Under(tree, e)
                           /\ ~IsDir(tree, e) \/ Len(e) > MaxDepth => Under(tree, e) = {}
<1> DEFINE S == ChildrenOf(tree, dir)
           n == Len(dir) + 1
<1>1. n \in Nat /\ n >= 1 /\ Len(dir) = n - 1 /\ n <= MaxDepth + 1 /\ MaxDepth \in Nat
  BY ReadsAssumption DEF AllPaths
<1>2. /\ DOMAIN tree \subseteq PathSeqs /\ Nodes(tree) \subseteq PathSeqs
      /\ \A p : p \in Nodes(tree) <=> \E q \in DOMAIN tree : \E k \in 1 .. Len(q) : p = SubSeq(q, 1, k)
  <2>1. DOMAIN tree \subseteq PathSeqs
    BY ReadTreesAre
  <2>2. Nodes(tree) \subseteq PathSeqs
    BY <2>1, NodesAre
  <2> QED
    BY <2>1, <2>2 DEF Nodes
<1>3. PathSeqs \subseteq AllPaths /\ \A q \in PathSeqs : Len(q) \in Nat /\ Len(q) >= 1
  BY DEF PathSeqs, AllPaths
<1>4. S = {p \in Nodes(tree) : Len(p) = n /\ IsStrictPrefix(dir, p)}
  BY ChildrenAre
<1> HIDE DEF n, S
<1>5. ASSUME NEW e \in S
      PROVE  /\ e \in Nodes(tree) /\ e \in PathSeqs /\ e \in AllPaths /\ Len(e) = n
             /\ \A i \in 1 .. Len(dir) : dir[i] = e[i]
             /\ \A q \in PathSeqs : IsStrictPrefix(e, q) <=> n < Len(q) /\ \A i \in 1 .. n : e[i] = q[i]
  <2>1. e \in Nodes(tree) /\ e \in PathSeqs /\ e \in AllPaths /\ Len(e) = n /\ IsStrictPrefix(dir, e)
    BY <1>2, <1>3, <1>4
  <2>2. \A i \in 1 .. Len(dir) : dir[i] = e[i]
    BY <2>1, BelowDirectory
  <2> QED
    BY <2>1, <2>2, BelowDirectory
<1>6. ASSUME NEW e \in S, NEW q \in {e} \cup Under(tree, e)
      PROVE  q \in Under(tree, dir) /\ \A i \in 1 .. n : e[i] = q[i]
  <2>1. q \in Nodes(tree) /\ q \in PathSeqs /\ Len(q) <= MaxDepth + 1 /\ Len(q) >= n
        /\ \A i \in 1 .. n : e[i] = q[i]
    <3>1. CASE q = e
      BY <1>1, <1>5, <3>1
    <3>2. CASE q \in Under(tree, e)
      <4>1. q \in Nodes(tree) /\ q \in PathSeqs /\ IsStrictPrefix(e, q) /\ Len(q) <= MaxDepth + 1
        BY <1>2, <3>2 DEF Under
      <4> QED
        BY <1>1, <1>3, <1>5, <4>1
    <3> QED
      BY <3>1, <3>2
  <2>2. Len(dir) < Len(q) /\ \A i \in 1 .. Len(dir) : dir[i] = q[i]
    BY <1>1, <1>3, <1>5, <2>1
  <2>3. IsStrictPrefix(dir, q)
    BY <2>1, <2>2, BelowDirectory
  <2> QED
    BY <2>1, <2>3 DEF Under
<1>7. ASSUME NEW q \in Under(tree, dir)
      PROVE  \E e \in S : q \in {e} \cup Under(tree, e)
  <2>1. q \in Nodes(tree) /\ q \in PathSeqs /\ IsStrictPrefix(dir, q) /\ Len(q) <= MaxDepth + 1
    BY <1>2 DEF Under
  <2>2. Len(q) \in Nat /\ n <= Len(q) /\ \A i \in 1 .. Len(dir) : dir[i] = q[i]
    BY <1>1, <1>3, <2>1, BelowDirectory
  <2>3. PICK p \in DOMAIN tree : \E k \in 1 .. Len(p) : q = SubSeq(p, 1, k)
    BY <1>2, <2>1
  <2>4. PICK k \in 1 .. Len(p) : q = SubSeq(p, 1, k)
    BY <2>3
  <2>5. p \in PathSeqs
    BY <1>2
  <2>6. k = Len(q) /\ k \in Nat /\ Len(p) \in Nat /\ k <= Len(p) /\ \A i \in 1 .. k : q[i] = p[i]
    <3>1. Len(q) = k
      BY <2>4, <2>5, PartsOfPath
    <3>2. Len(p) \in Nat
      BY <1>3, <2>5
    <3>3. \A i \in 1 .. k : q[i] = p[i]
      BY <2>4, <2>5, <3>2 DEF PathSeqs
    <3> QED
      BY <3>1, <3>2, <3>3
  <2>7. n \in 1 .. Len(p)
    BY <1>1, <2>2, <2>6
  <2> DEFINE e == SubSeq(p, 1, n)
  <2>8. e \in PathSeqs /\ Len(e) = n /\ e \in Nodes(tree)
    BY <1>2, <2>5, <2>7, PartsOfPath
  <2>9. \A i \in 1 .. n : e[i] = q[i]
    <3>1. \A i \in 1 .. n : e[i] = p[i]
      BY <1>1, <2>5, <2>7 DEF PathSeqs
    <3> QED
      BY <1>1, <2>2, <2>6, <3>1
  <2> HIDE DEF e
  <2>10. IsStrictPrefix(dir, e)
    <3>1. Len(dir) < Len(e) /\ \A i \in 1 .. Len(dir) : dir[i] = e[i]
      BY <1>1, <2>2, <2>8, <2>9
    <3> QED
      BY <2>8, <3>1, BelowDirectory
  <2>11. e \in S
    BY <1>4, <2>8, <2>10
  <2>12. CASE Len(q) = n
    <3>1. q = e
      BY <2>1, <2>8, <2>9, <2>12 DEF PathSeqs
    <3> QED
      BY <2>11, <3>1
  <2>13. CASE Len(q) # n
    <3>1. n < Len(q)
      BY <1>1, <2>2, <2>13
    <3>2. IsStrictPrefix(e, q)
      BY <1>5, <2>1, <2>9, <2>11, <3>1
    <3> QED
      BY <2>1, <2>11, <3>2 DEF Under
  <2> QED
    BY <2>12, <2>13
<1>8. Under(tree, dir) = UNION {{e} \cup Under(tree, e) : e \in S}
  BY <1>6, <1>7
<1>9. ASSUME NEW e \in S, NEW d \in S, e # d
      PROVE  ({e} \cup Under(tree, e)) \cap ({d} \cup Under(tree, d)) = {}
  <2> SUFFICES ASSUME NEW q \in {e} \cup Under(tree, e), q \in {d} \cup Under(tree, d) PROVE FALSE
    OBVIOUS
  <2>1. \A i \in 1 .. n : e[i] = d[i]
    BY <1>6
  <2>2. e \in PathSeqs /\ d \in PathSeqs /\ Len(e) = n /\ Len(d) = n
    BY <1>5
  <2> QED
    BY <1>9, <2>1, <2>2 DEF PathSeqs
<1>10. ASSUME NEW e \in S
       PROVE  e \notin Under(tree, e)
  BY DEF Under, IsStrictPrefix
<1>11. ASSUME NEW e \in S, ~IsDir(tree, e) \/ Len(e) > MaxDepth, NEW q \in Under(tree, e)
       PROVE  FALSE
  <2>1. q \in Nodes(tree) /\ q \in PathSeqs /\ IsStrictPrefix(e, q) /\ Len(q) <= MaxDepth + 1
    BY <1>2 DEF Under
  <2>2. Len(q) \in Nat /\ n < Len(q) /\ \A i \in 1 .. n : e[i] = q[i]
    BY <1>3, <1>5, <2>1
  <2>3. ~IsDir(tree, e) /\ Len(e) = n
    BY <1>1, <1>5, <1>11, <2>1, <2>2
  <2>4. PICK p \in DOMAIN tree : \E k \in 1 .. Len(p) : q = SubSeq(p, 1, k)
    BY <1>2, <2>1
  <2>5. PICK k \in 1 .. Len(p) : q = SubSeq(p, 1, k)
    BY <2>4
  <2>6. p \in PathSeqs /\ k = Len(q) /\ Len(p) \in Nat /\ k <= Len(p) /\ \A i \in 1 .. k : q[i] = p[i]
    <3>1. p \in PathSeqs
      BY <1>2
    <3>2. Len(q) = k
      BY <2>5, <3>1, PartsOfPath
    <3>3. Len(p) \in Nat
      BY <1>3, <3>1
    <3>4. \A i \in 1 .. k : q[i] = p[i]
      BY <2>5, <3>1, <3>3 DEF PathSeqs
    <3> QED
      BY <3>1, <3>2, <3>3, <3>4
  <2>7. n < Len(p) /\ \A i \in 1 .. n : e[i] = p[i]
    BY <1>1, <2>2, <2>6
  <2>8. IsStrictPrefix(e, p)
    BY <1>5, <2>6, <2>7
  <2>9. e \notin DOMAIN tree
    <3>1. \A a, b \in DOMAIN tree : ~IsStrictPrefix(a, b)
      BY DEF TreesOf
    <3> QED
      BY <2>8, <3>1
  <2>10. LeavesBelow(tree, e) # {}
    BY <2>8 DEF LeavesBelow
  <2>11. Node(tree, e).kind = "tree"
    BY <2>9, <2>10 DEF Node
  <2> QED
    BY <2>3, <2>11 DEF IsDir
<1> QED
  BY <1>8, <1>9, <1>10, <1>11 DEF S

\* Whether the recursive listing of a tree goes into an entry, and what it puts in a row
\* for a directory when each directory below has the listing f.
Into(tree, p) == IsDir(tree, p) /\ Len(p) <= Len(Root) + MaxDepth

Parts(tree, f, dir) ==
    [i \in DOMAIN Entries(tree, dir) |->
        <<Entries(tree, dir)[i]>> \o IF Into(tree, Entries(tree, dir)[i])
                                     THEN f[Entries(tree, dir)[i]] ELSE <<>>]

\* If the directories that are gone into are listed as they should be, so is their parent.
LEMMA PartsList ==
    ASSUME NEW leaves, NEW tree \in TreesOf(leaves), NEW dir \in AllPaths, NEW f,
           \A e \in ChildrenOf(tree, dir) : Into(tree, e) => f[e] \in Seq(PathSeqs)
    PROVE  LET row == FlattenSeq(Parts(tree, f, dir)) IN
           /\ row \in Seq(PathSeqs)
           /\ /\ Len(dir) <= MaxDepth
              /\ \A e \in ChildrenOf(tree, dir) :
                    Into(tree, e) => IsInjective(f[e]) /\ Range(f[e]) = Under(tree, e)
              => IsInjective(row) /\ Range(row) = Under(tree, dir)
<1> DEFINE S == ChildrenOf(tree, dir)
           list == Entries(tree, dir)
           rest(e) == IF Into(tree, e) THEN f[e] ELSE <<>>
           ss == Parts(tree, f, dir)
<1>1. list \in Seq(S) /\ Range(list) = S /\ IsInjective(list)
  BY EntriesListed DEF Lists
<1>2. S \subseteq PathSeqs
  BY ChildrenAre
<1>3. \A e \in S : rest(e) \in Seq(PathSeqs)
  OBVIOUS
<1>4. DOMAIN list = 1 .. Len(list) /\ Len(list) \in Nat /\ \A i \in DOMAIN list : list[i] \in S
  <2> HIDE DEF list, S
  <2> QED
    BY <1>1
<1>5. ss = [i \in DOMAIN list |-> <<list[i]>> \o rest(list[i])]
  BY DEF Parts
<1> DEFINE given == \A e \in S : Into(tree, e) => IsInjective(f[e]) /\ Range(f[e]) = Under(tree, e)
<1>6. given => \A e \in S : Into(tree, e) => IsInjective(rest(e)) /\ Range(rest(e)) = Under(tree, e)
  OBVIOUS
<1>7. \A e \in S : ~Into(tree, e) => rest(e) = <<>>
  OBVIOUS
<1> HIDE DEF S, list, rest, ss, given
<1>8. ASSUME NEW e \in S
      PROVE  <<e>> \o rest(e) \in Seq(PathSeqs)
  <2>1. <<e>> \in Seq(PathSeqs) /\ rest(e) \in Seq(PathSeqs)
    BY <1>2, <1>3
  <2> HIDE DEF rest
  <2> QED
    BY <2>1, ConcatProperties
<1>9. ss \in Seq(Seq(PathSeqs)) /\ DOMAIN ss = DOMAIN list /\ \A i \in DOMAIN ss : ss[i] = <<list[i]>> \o rest(list[i])
  <2>1. \A i \in 1 .. Len(list) : <<list[i]>> \o rest(list[i]) \in Seq(PathSeqs)
    BY <1>4, <1>8
  <2> DEFINE part(i) == <<list[i]>> \o rest(list[i])
  <2>2. ss = [i \in 1 .. Len(list) |-> part(i)] /\ \A i \in 1 .. Len(list) : part(i) \in Seq(PathSeqs)
    BY <1>4, <1>5, <2>1
  <2> HIDE DEF part
  <2>3. ss \in Seq(Seq(PathSeqs)) /\ DOMAIN ss = 1 .. Len(list) /\ \A i \in DOMAIN ss : ss[i] = part(i)
    BY <1>4, <2>2
  <2> QED
    BY <1>4, <2>3 DEF part
<1>10. /\ FlattenSeq(ss) \in Seq(PathSeqs)
       /\ Range(FlattenSeq(ss)) = UNION {Range(ss[i]) : i \in DOMAIN ss}
       /\ /\ \A i \in DOMAIN ss : IsInjective(ss[i])
          /\ \A i, j \in DOMAIN ss : i # j => Range(ss[i]) \cap Range(ss[j]) = {}
          => IsInjective(FlattenSeq(ss))
  BY <1>9, FlattenIs
<1>11. ASSUME Len(dir) <= MaxDepth, given
       PROVE  IsInjective(FlattenSeq(ss)) /\ Range(FlattenSeq(ss)) = Under(tree, dir)
  <2>1. /\ Under(tree, dir) = UNION {{e} \cup Under(tree, e) : e \in S}
        /\ \A e, d \in S : e # d => ({e} \cup Under(tree, e)) \cap ({d} \cup Under(tree, d)) = {}
        /\ \A e \in S : /\ e \notin Under(tree, e)
                        /\ ~IsDir(tree, e) \/ Len(e) > MaxDepth => Under(tree, e) = {}
    BY <1>11, UnderIs DEF S
  <2>2. ASSUME NEW e \in S
        PROVE  IsInjective(<<e>> \o rest(e)) /\ Range(<<e>> \o rest(e)) = {e} \cup Under(tree, e)
    <3>1. <<e>> \in Seq(PathSeqs) /\ Range(<<e>>) = {e} /\ IsInjective(<<e>>)
      BY <1>2 DEF Range, IsInjective
    <3>2. rest(e) \in Seq(PathSeqs) /\ IsInjective(rest(e)) /\ Range(rest(e)) = Under(tree, e)
      <4>1. CASE Into(tree, e)
        BY <1>3, <1>6, <1>11, <4>1
      <4>2. CASE ~Into(tree, e)
        <5>1. Under(tree, e) = {}
          <6>1. Len(Root) = 0 /\ MaxDepth \in Nat /\ Len(e) \in Nat
            BY <1>2, ReadsAssumption DEF Root, PathSeqs
          <6>2. ~IsDir(tree, e) \/ Len(e) > MaxDepth
            BY <4>2, <6>1 DEF Into
          <6> QED
            BY <2>1, <6>2
        <5>2. <<>> \in Seq(PathSeqs) /\ IsInjective(<<>>) /\ Range(<<>>) = {}
          BY DEF Range, IsInjective
        <5> QED
          BY <1>7, <4>2, <5>1, <5>2
      <4> QED
        BY <4>1, <4>2
    <3>3. {e} \cap Under(tree, e) = {}
      BY <2>1
    <3> DEFINE s == <<e>>
               t == rest(e)
    <3>5. s \in Seq(PathSeqs) /\ t \in Seq(PathSeqs)
      BY <3>1, <3>2
    <3> HIDE DEF s, t
    <3>4. /\ Range(s \o t) = Range(s) \cup Range(t)
          /\ IsInjective(s) /\ IsInjective(t) /\ Range(s) \cap Range(t) = {} => IsInjective(s \o t)
      BY <3>5, JoinedOnce
    <3> QED
      BY <3>1, <3>2, <3>3, <3>4 DEF s, t
  <2>3. \A i \in DOMAIN ss : /\ list[i] \in S /\ IsInjective(ss[i])
                             /\ Range(ss[i]) = {list[i]} \cup Under(tree, list[i])
    BY <1>4, <1>9, <2>2
  <2>4. \A i, j \in DOMAIN ss : i # j => Range(ss[i]) \cap Range(ss[j]) = {}
    <3> SUFFICES ASSUME NEW i \in DOMAIN ss, NEW j \in DOMAIN ss, i # j
                 PROVE  Range(ss[i]) \cap Range(ss[j]) = {}
      OBVIOUS
    <3>1. list[i] # list[j]
      BY <1>1, <1>9 DEF IsInjective
    <3> QED
      BY <2>1, <2>3, <3>1
  <2>5. UNION {Range(ss[i]) : i \in DOMAIN ss} = UNION {{e} \cup Under(tree, e) : e \in S}
    <3>1. \A e \in S : \E i \in DOMAIN ss : list[i] = e
      BY <1>1, <1>9 DEF Range
    <3>2. ASSUME NEW x \in UNION {Range(ss[i]) : i \in DOMAIN ss}
          PROVE  x \in UNION {{e} \cup Under(tree, e) : e \in S}
      BY <2>3, <3>2
    <3>3. ASSUME NEW e \in S
          PROVE  {e} \cup Under(tree, e) \subseteq UNION {Range(ss[i]) : i \in DOMAIN ss}
      <4>1. PICK i \in DOMAIN ss : list[i] = e
        BY <3>1
      <4>2. Range(ss[i]) = {e} \cup Under(tree, e)
        BY <2>3, <4>1
      <4> QED
        BY <4>2
    <3> QED
      BY <3>2, <3>3
  <2> QED
    BY <1>10, <2>1, <2>3, <2>4, <2>5
<1> QED
  BY <1>10, <1>11 DEF S, ss, given

\* The recursive listing of a tree has each node of it once, down to its depth.
LEMMA CollectLists ==
    ASSUME NEW leaves, NEW tree \in TreesOf(leaves)
    PROVE  /\ Collect(tree, Root) \in Seq(PathSeqs) /\ IsInjective(Collect(tree, Root))
           /\ Range(Collect(tree, Root)) = {q \in Nodes(tree) : Len(q) <= MaxDepth + 1}
<1> DEFINE D == Nodes(tree) \cup {Root}
           V == Seq(PathSeqs)
           value(f, dir) == FlattenSeq(Parts(tree, f, dir))
           top == MaxDepth + 1
           rank == [p \in D |-> IF Len(p) <= MaxDepth THEN MaxDepth + 1 - Len(p) ELSE 0]
           G == [a \in [D -> V] \X D |-> value(a[1], a[2])]
           collect == CHOOSE f : f = [dir \in D |-> value(f, dir)]
<1>1. /\ Nodes(tree) \subseteq PathSeqs
      /\ \A p \in D : p \in AllPaths /\ Len(p) \in Nat
      /\ Root \in D /\ Len(Root) = 0
  <2>1. Nodes(tree) \subseteq PathSeqs
    BY ReadTreesAre, NodesAre
  <2>2. PathSeqs \subseteq AllPaths /\ \A p \in AllPaths : Len(p) \in Nat
    BY DEF PathSeqs, AllPaths
  <2>3. Root \in AllPaths /\ Len(Root) = 0
    BY DEF AllPaths, Root
  <2> QED
    BY <2>1, <2>2, <2>3
<1>2. MaxDepth \in Nat
  BY ReadsAssumption
<1>3. Collect(tree, Root) = collect[Root]
  <2>1. \A f, dir : value(f, dir) =
          FlattenSeq([i \in DOMAIN Entries(tree, dir) |->
              <<Entries(tree, dir)[i]>> \o
                 IF Node(tree, Entries(tree, dir)[i]).kind = "tree"
                    /\ Len(Entries(tree, dir)[i]) <= Len(Root) + MaxDepth
                 THEN f[Entries(tree, dir)[i]] ELSE <<>>])
    BY DEF Parts, Into, IsDir
  <2> QED
    BY DEF Collect, Parts, Into, IsDir
<1>4. \A dir \in D : \A e \in ChildrenOf(tree, dir) :
         e \in D /\ Len(e) = Len(dir) + 1 /\ (Into(tree, e) => Len(e) <= MaxDepth)
  <2>1. \A dir \in D : \A e \in ChildrenOf(tree, dir) : e \in Nodes(tree) /\ Len(e) = Len(dir) + 1
    BY <1>1, ChildrenAre
  <2>2. \A e \in D : Into(tree, e) => Len(e) <= MaxDepth
    BY <1>1, <1>2 DEF Into
  <2> QED
    BY <2>1, <2>2
<1> HIDE DEF V, D
<1>5. \E f \in [D -> V] : f = [dir \in D |-> value(f, dir)]
  <2>1. top \in Nat /\ rank \in [D -> 0 .. top] /\ \A dir \in D : \A e \in ChildrenOf(tree, dir) :
           Into(tree, e) => rank[e] < rank[dir]
    <3>1. \A p \in D : rank[p] = IF Len(p) <= MaxDepth THEN MaxDepth + 1 - Len(p) ELSE 0
      OBVIOUS
    <3>2. \A p \in D : rank[p] \in 0 .. top
      BY <1>1, <1>2, <3>1
    <3>3. rank \in [D -> 0 .. top]
      <4>1. \A p \in D : (IF Len(p) <= MaxDepth THEN MaxDepth + 1 - Len(p) ELSE 0) \in 0 .. top
        BY <1>1, <1>2
      <4> HIDE DEF top
      <4> QED
        BY <4>1
    <3> HIDE DEF rank
    <3>4. ASSUME NEW dir \in D, NEW e \in ChildrenOf(tree, dir), Into(tree, e)
          PROVE  rank[e] < rank[dir]
      <4>1. e \in D /\ Len(e) = Len(dir) + 1 /\ Len(e) <= MaxDepth /\ Len(dir) \in Nat
        BY <1>1, <1>4, <3>4
      <4> QED
        BY <1>2, <3>1, <4>1
    <3> QED
      BY <1>2, <3>3, <3>4
  <2>2. V # {}
    <3>1. <<>> \in Seq(PathSeqs)
      OBVIOUS
    <3> QED
      BY <3>1 DEF V
  <2>3. ASSUME NEW f \in [D -> V], NEW dir \in D
        PROVE  value(f, dir) \in V
    <3>1. dir \in AllPaths /\ \A e \in ChildrenOf(tree, dir) : f[e] \in Seq(PathSeqs)
      BY <1>1, <1>4 DEF V
    <3>2. value(f, dir) \in Seq(PathSeqs)
      BY <3>1, PartsList
    <3> HIDE DEF value
    <3> QED
      BY <3>2 DEF V
  <2>4. ASSUME NEW f \in [D -> V], NEW g \in [D -> V], NEW dir \in D,
               \A p \in D : rank[p] < rank[dir] => f[p] = g[p]
        PROVE  value(f, dir) = value(g, dir)
    <3>1. \A i \in DOMAIN Entries(tree, dir) : Entries(tree, dir)[i] \in ChildrenOf(tree, dir)
      <4>1. Range(Entries(tree, dir)) = ChildrenOf(tree, dir)
        BY <1>1, EntriesListed DEF Lists
      <4> QED
        BY <4>1 DEF Range
    <3>2. \A e \in ChildrenOf(tree, dir) : Into(tree, e) => f[e] = g[e]
      <4> HIDE DEF rank
      <4> QED
        BY <1>4, <2>1, <2>4
    <3>3. \A i \in DOMAIN Entries(tree, dir) :
            Into(tree, Entries(tree, dir)[i]) => f[Entries(tree, dir)[i]] = g[Entries(tree, dir)[i]]
      BY <3>1, <3>2
    <3>4. Parts(tree, f, dir) = Parts(tree, g, dir)
      BY <3>3 DEF Parts
    <3> QED
      BY <3>4
  <2> HIDE DEF rank, value, top
  <2>5. G \in [[D -> V] \X D -> V] /\ \A f \in [D -> V], dir \in D : G[<<f, dir>>] = value(f, dir)
    BY <2>3
  <2> HIDE DEF G
  <2>6. G \in Local(D, V, rank)
    <3>1. ASSUME NEW f \in [D -> V], NEW g \in [D -> V], NEW dir \in D,
                 \A p \in D : rank[p] < rank[dir] => f[p] = g[p]
          PROVE  G[<<f, dir>>] = G[<<g, dir>>]
      <4>1. value(f, dir) = value(g, dir)
        BY <2>4, <3>1
      <4> QED
        BY <2>5, <4>1
    <3> QED
      BY <2>5, <3>1 DEF Local
  <2>7. Solutions(D, V, G) # {}
    BY <2>1, <2>2, <2>6, RecursionHasSolution
  <2>8. PICK f \in [D -> V] : f = [dir \in D |-> G[<<f, dir>>]]
    BY <2>7 DEF Solutions
  <2>9. f = [dir \in D |-> value(f, dir)]
    BY <2>5, <2>8
  <2> QED
    BY <2>9
<1>6. collect = [dir \in D |-> value(collect, dir)]
  <2> HIDE DEF value
  <2> QED
    BY <1>5
<1> HIDE DEF collect
<1>7. \A dir \in D : collect[dir] = value(collect, dir)
  <2> HIDE DEF value
  <2> QED
    BY <1>6
<1> DEFINE Good(dir) == /\ collect[dir] \in Seq(PathSeqs) /\ IsInjective(collect[dir])
                        /\ Range(collect[dir]) = Under(tree, dir)
           S == {k \in Nat : \A dir \in D : Len(dir) + k = MaxDepth => Good(dir)}
<1>8. ASSUME NEW dir \in D, Len(dir) <= MaxDepth,
             \A e \in ChildrenOf(tree, dir) : Into(tree, e) => Good(e)
      PROVE  Good(dir)
  <2>1. dir \in AllPaths /\ collect[dir] = FlattenSeq(Parts(tree, collect, dir))
    BY <1>1, <1>7
  <2> HIDE DEF collect
  <2> QED
    BY <1>8, <2>1, PartsList
<1> HIDE DEF Good
<1>9. 0 \in S
  <2> SUFFICES ASSUME NEW dir \in D, Len(dir) + 0 = MaxDepth PROVE Good(dir)
    OBVIOUS
  <2>1. \A e \in ChildrenOf(tree, dir) : ~Into(tree, e)
    BY <1>1, <1>2, <1>4
  <2> QED
    BY <1>1, <1>2, <1>8, <2>1
<1>10. ASSUME NEW k \in Nat, k \in S PROVE k + 1 \in S
  <2> SUFFICES ASSUME NEW dir \in D, Len(dir) + (k + 1) = MaxDepth PROVE Good(dir)
    OBVIOUS
  <2>1. \A e \in ChildrenOf(tree, dir) : e \in D /\ Len(e) + k = MaxDepth
    BY <1>1, <1>2, <1>4
  <2>2. \A e \in ChildrenOf(tree, dir) : Good(e)
    BY <1>10, <2>1
  <2>3. Len(dir) <= MaxDepth
    BY <1>1, <1>2
  <2> QED
    BY <1>8, <2>2, <2>3
<1>11. Good(Root)
  <2>1. Nat \subseteq S
    <3> HIDE DEF S
    <3> QED
      BY <1>9, <1>10, NatSetInduction
  <2>2. MaxDepth \in S
    BY <1>2, <2>1
  <2>3. Len(Root) + MaxDepth = MaxDepth
    BY <1>1, <1>2
  <2> QED
    BY <1>1, <2>2, <2>3
<1>12. Under(tree, Root) = {q \in Nodes(tree) : Len(q) <= MaxDepth + 1}
  <2>1. \A q \in Nodes(tree) : IsStrictPrefix(Root, q)
    <3> SUFFICES ASSUME NEW q \in Nodes(tree) PROVE IsStrictPrefix(Root, q)
      OBVIOUS
    <3>1. q \in PathSeqs /\ Root \in AllPaths /\ Len(q) \in Nat /\ Len(q) >= 1
      BY <1>1 DEF PathSeqs, AllPaths, Root
    <3>2. Len(Root) < Len(q) /\ \A i \in 1 .. Len(Root) : Root[i] = q[i]
      BY <1>1, <3>1
    <3> QED
      BY <3>1, <3>2, BelowDirectory
  <2> QED
    BY <2>1 DEF Under
<1> QED
  BY <1>3, <1>11, <1>12 DEF Good

\* The places of a sequence that hold one of several elements are as many as these.
LEMMA PlacesOf ==
    ASSUME NEW T, NEW s \in Seq(T), IsInjective(s), NEW U \in SUBSET Range(s)
    PROVE  Cardinality({i \in DOMAIN s : s[i] \in U}) = Cardinality(U)
<1> DEFINE I == {i \in DOMAIN s : s[i] \in U}
           f == [i \in I |-> s[i]]
<1>1. Len(s) \in Nat /\ DOMAIN s = 1 .. Len(s)
  OBVIOUS
<1>2. IsFiniteSet(I)
  <2>1. IsFiniteSet(1 .. Len(s))
    BY <1>1, FS_Interval
  <2>2. I \in SUBSET (1 .. Len(s))
    BY <1>1
  <2> HIDE DEF I
  <2> QED
    BY <2>1, <2>2, FS_Subset
<1>3. f \in Injection(I, U)
  BY DEF Injection, IsInjective
<1>4. f \in Surjection(I, U)
  <2>1. f \in [I -> U]
    OBVIOUS
  <2>2. \A x \in U : \E i \in I : f[i] = x
    BY DEF Range
  <2> QED
    BY <2>1, <2>2 DEF Surjection
<1> HIDE DEF f, I
<1>5. Cardinality(U) = Cardinality(I)
  BY <1>2, <1>3, <1>4, FS_Surjection
<1> QED
  BY <1>5 DEF I

\* The answer about a tree is set by its reading alone.
LEMMA TreeReadRuns ==
    ASSUME [Next]_vars, Done("read")'
    PROVE  (Done("read") /\ UNCHANGED vars) \/ ReadTree
BY DEF Next, vars, Done, Glob, RefGlob, Diff, PreviewMerge, PreviewPick, PreviewSeries, ReadLog,
       ReadAncestors, PreviewRebase, ReadTree, DiffOfTrees

\* What is to be told of a directory, of all of a tree, and of a path.
LevelRight(tree, dir, answer) ==
    LET children == {p \in Nodes(tree) : Len(p) = Len(dir) + 1 /\ IsStrictPrefix(dir, p)} IN
    /\ answer.ok <=> dir \in Directories(tree)
    /\ answer.ok =>
         /\ Len(answer.entries) = Cardinality(children)
         /\ \A p \in children : \E i \in DOMAIN answer.entries :
              answer.entries[i].name = Last(p) /\ answer.entries[i].node = Node(tree, p)
         /\ \A i, j \in DOMAIN answer.entries :
              i < j => answer.entries[i].node.kind = "tree" \/ ~(answer.entries[j].node.kind = "tree")

WholeRight(tree, whole) ==
    LET down == {q \in Nodes(tree) : Len(q) <= MaxDepth + 1} IN
    /\ \A p \in down :
          Cardinality({i \in DOMAIN whole : whole[i].name = Last(p) /\ whole[i].node = Node(tree, p)})
            = Cardinality({q \in down : Last(q) = Last(p) /\ Node(tree, q) = Node(tree, p)})
    /\ Len(whole) = Cardinality(down)

InfoRight(tree, p, info) ==
    /\ info.ok <=> p \in Nodes(tree) /\ IsBlob(Node(tree, p))
    /\ info.ok => info.size = Len(tree[p].content)

AllRight(in, out) ==
    in.kind = "read" /\ out # <<>> =>
        /\ \A dir \in DOMAIN out[1].level : LevelRight(in.tree, dir, out[1].level[dir])
        /\ WholeRight(in.tree, out[1].whole.entries)
        /\ \A p \in Paths : InfoRight(in.tree, p, out[1].info[p])

\* One level of a tree: what GetTree says of a directory, and of anything else.
LEMMA LevelAnswers ==
    ASSUME NEW tree \in TreesOf(ReadLeaves), NEW dir \in Paths \cup Directories(tree)
    PROVE  LevelRight(tree, dir, GetTree(tree, dir, FALSE))
<1> DEFINE list == GetLevel(tree, dir)
           children == {p \in Nodes(tree) : Len(p) = Len(dir) + 1 /\ IsStrictPrefix(dir, p)}
           entry(p) == [name |-> Last(p), node |-> Node(tree, p), sized |-> IsBlob(Node(tree, p))]
           answer == GetTree(tree, dir, FALSE)
<1>1. Nodes(tree) \subseteq PathSeqs /\ Paths \subseteq PathSeqs /\ PathSeqs \subseteq AllPaths
      /\ Root \in AllPaths
  <2>1. Nodes(tree) \subseteq PathSeqs
    BY ReadTreesAre, NodesAre
  <2>2. Paths \subseteq PathSeqs
    BY ReadsAssumption DEF PathSeqs
  <2>3. PathSeqs \subseteq AllPaths /\ Root \in AllPaths
    BY DEF PathSeqs, AllPaths, Root
  <2> QED
    BY <2>1, <2>2, <2>3
<1>2. dir \in AllPaths
  BY <1>1 DEF Directories
<1>3. /\ Lists(list, children)
      /\ \A i, j \in DOMAIN list : i < j => IsDir(tree, list[i]) \/ ~IsDir(tree, list[j])
  <2>1. ChildrenOf(tree, dir) = children
    BY <1>2, ChildrenAre
  <2> HIDE DEF children, list
  <2> QED
    BY <1>2, <2>1, LevelIs DEF list
<1>4. /\ answer.ok <=> dir = <<>> \/ Node(tree, dir).kind = "tree"
      /\ answer.entries = [i \in DOMAIN list |-> entry(list[i])]
  BY DEF GetTree
<1>5. answer.ok <=> dir \in Directories(tree)
  <2>1. \A leaf \in ReadLeaves : leaf.kind \in {"file", "exec", "link", "submodule"}
    BY ReadsAssumption
  <2>2. Missing.kind = "none"
    BY DEF Missing, Leaf
  <2>3. \A p \in PathSeqs : Node(tree, p).kind = "tree" => p \in Nodes(tree)
    BY <2>1, <2>2, NodeIsThere
  <2>4. dir \in PathSeqs \/ dir = Root
    BY <1>1 DEF Directories
  <2> HIDE DEF answer
  <2> QED
    BY <1>4, <2>3, <2>4 DEF Directories, Root
<1> HIDE DEF list, children, answer
<1>6. /\ DOMAIN list = 1 .. Len(list) /\ Len(list) \in Nat /\ Len(list) = Cardinality(children)
      /\ \A p \in children : \E i \in DOMAIN list : list[i] = p
  BY <1>3 DEF Lists, Range
<1>7. /\ answer.entries = [i \in 1 .. Len(list) |-> entry(list[i])]
      /\ DOMAIN answer.entries = DOMAIN list /\ \A i \in DOMAIN list : answer.entries[i] = entry(list[i])
  BY <1>4, <1>6
<1>8. Len(answer.entries) = Cardinality(children)
  <2> HIDE DEF entry
  <2> QED
    BY <1>6, <1>7
<1>9. \A p : entry(p).name = Last(p) /\ entry(p).node = Node(tree, p)
             /\ (entry(p).node.kind = "tree" <=> IsDir(tree, p))
  BY DEF IsDir
<1> HIDE DEF entry
<1>10. \A p \in children : \E i \in DOMAIN answer.entries :
          answer.entries[i].name = Last(p) /\ answer.entries[i].node = Node(tree, p)
  <2> SUFFICES ASSUME NEW p \in children
               PROVE  \E i \in DOMAIN answer.entries :
                        answer.entries[i].name = Last(p) /\ answer.entries[i].node = Node(tree, p)
    OBVIOUS
  <2>1. PICK i \in DOMAIN list : list[i] = p
    BY <1>6
  <2>2. i \in DOMAIN answer.entries /\ answer.entries[i] = entry(p)
    BY <1>7, <2>1
  <2> QED
    BY <1>9, <2>2
<1>11. \A i, j \in DOMAIN answer.entries :
          i < j => answer.entries[i].node.kind = "tree" \/ ~(answer.entries[j].node.kind = "tree")
  BY <1>3, <1>7, <1>9
<1> QED
  BY <1>5, <1>8, <1>10, <1>11 DEF answer, children, LevelRight

\* The whole of a tree: each of its nodes, down to a depth, is listed as often as there are
\* nodes that look like it.
LEMMA WholeAnswers ==
    ASSUME NEW leaves, NEW tree \in TreesOf(leaves)
    PROVE  WholeRight(tree, GetTree(tree, Root, TRUE).entries)
<1> DEFINE list == Collect(tree, Root)
           down == {q \in Nodes(tree) : Len(q) <= MaxDepth + 1}
           entry(p) == [name |-> Last(p), node |-> Node(tree, p), sized |-> IsBlob(Node(tree, p))]
           whole == GetTree(tree, Root, TRUE).entries
<1>1. list \in Seq(PathSeqs) /\ IsInjective(list) /\ Range(list) = down
  BY CollectLists
<1>2. whole = [i \in DOMAIN list |-> entry(list[i])]
  BY DEF GetTree
<1> HIDE DEF list, down, whole
<1>3. DOMAIN list = 1 .. Len(list) /\ Len(list) \in Nat /\ \A i \in DOMAIN list : list[i] \in down
  BY <1>1 DEF Range
<1>4. /\ whole = [i \in 1 .. Len(list) |-> entry(list[i])]
      /\ DOMAIN whole = DOMAIN list /\ \A i \in DOMAIN list : whole[i] = entry(list[i])
  BY <1>2, <1>3
<1>5. \A p : entry(p).name = Last(p) /\ entry(p).node = Node(tree, p)
  OBVIOUS
<1> HIDE DEF entry
<1>6. ASSUME NEW p \in down
      PROVE  Cardinality({i \in DOMAIN whole : whole[i].name = Last(p) /\ whole[i].node = Node(tree, p)})
               = Cardinality({q \in down : Last(q) = Last(p) /\ Node(tree, q) = Node(tree, p)})
  <2> DEFINE U == {q \in down : Last(q) = Last(p) /\ Node(tree, q) = Node(tree, p)}
             I == {i \in DOMAIN whole : whole[i].name = Last(p) /\ whole[i].node = Node(tree, p)}
  <2>1. U \in SUBSET Range(list)
    BY <1>1
  <2>2. I = {i \in DOMAIN list : list[i] \in U}
    BY <1>3, <1>4, <1>5
  <2> HIDE DEF U, I
  <2>3. Cardinality({i \in DOMAIN list : list[i] \in U}) = Cardinality(U)
    BY <1>1, <2>1, PlacesOf
  <2> QED
    BY <2>2, <2>3 DEF U, I
<1>7. Len(whole) = Cardinality(down)
  <2>1. Cardinality({i \in DOMAIN list : list[i] \in down}) = Cardinality(down)
    BY <1>1, PlacesOf
  <2>2. {i \in DOMAIN list : list[i] \in down} = 1 .. Len(list)
    BY <1>3
  <2>3. Cardinality(1 .. Len(list)) = Len(list)
    BY <1>3, FS_Interval
  <2>4. Len(whole) = Len(list)
    BY <1>3, <1>4
  <2> QED
    BY <2>1, <2>2, <2>3, <2>4
<1> QED
  BY <1>6, <1>7 DEF whole, down, WholeRight

\* What GetBlobInfo says of a path.
LEMMA InfoAnswers ==
    ASSUME NEW tree \in TreesOf(ReadLeaves), NEW p \in Paths
    PROVE  InfoRight(tree, p, GetBlobInfo(tree, p))
<1> DEFINE info == GetBlobInfo(tree, p)
           node == Node(tree, p)
<1>1. p \in PathSeqs
  BY ReadsAssumption DEF PathSeqs
<1>2. \A leaf \in ReadLeaves : leaf.kind \in {"file", "exec", "link", "submodule"}
  BY ReadsAssumption
<1>3. /\ p \in Nodes(tree) <=> node # Missing
      /\ p \in DOMAIN tree => node = tree[p]
      /\ p \in Nodes(tree) \ DOMAIN tree => node.kind = "tree"
  BY <1>1, <1>2, NodeIsThere
<1>4. IsBlob(node) => p \in Nodes(tree) /\ node = tree[p]
  <2>1. Missing.kind = "none"
    BY DEF Missing, Leaf
  <2> HIDE DEF node
  <2> QED
    BY <1>3, <2>1 DEF IsBlob
<1>5. /\ info.ok <=> IsBlob(node)
      /\ info.ok => info.size = Len(node.content)
  <2>1. CASE IsBlob(node)
    <3>1. GetBlobByPath(tree, p) = <<node.content>>
      BY <2>1 DEF GetBlobByPath
    <3>2. <<node.content>> # <<>> /\ <<node.content>>[1] = node.content
      OBVIOUS
    <3>3. info.ok = TRUE /\ info.size = Len(node.content)
      BY <3>1, <3>2 DEF GetBlobInfo
    <3> QED
      BY <2>1, <3>3
  <2>2. CASE ~IsBlob(node)
    <3>1. GetBlobByPath(tree, p) = <<>>
      BY <2>2 DEF GetBlobByPath
    <3>2. info.ok = FALSE
      BY <3>1 DEF GetBlobInfo
    <3> QED
      BY <2>2, <3>2
  <2> QED
    BY <2>1, <2>2
<1> QED
  <2> HIDE DEF info, node
  <2>1. /\ info.ok <=> p \in Nodes(tree) /\ IsBlob(node)
        /\ info.ok => info.size = Len(tree[p].content)
    BY <1>4, <1>5
  <2> QED
    BY <2>1 DEF info, node, InfoRight

\* GetTree lists what is in a directory once, directories first, and refuses anything
\* else; listed with all below it, each entry of each directory is there, as deep as the
\* listing goes; and GetBlobInfo knows the size of what is a blob (trees.rs:53-345,
\* service.rs:785-905).  So for any tree, however deep.
THEOREM ListingsHold == Spec => []ListingsAgree
<1>1. Init => ListingsAgree
  BY DEF Init, ListingsAgree, Done, Pending
<1>2. ASSUME input \in Inputs, ListingsAgree, [Next]_vars
      PROVE  ListingsAgree'
  <2>1. ListingsAgree <=> AllRight(input, output)
    BY Zenon DEF ListingsAgree, Done, Count, AllRight, LevelRight, WholeRight, InfoRight
  <2>2. ListingsAgree' <=> AllRight(input', output')
    BY Zenon DEF ListingsAgree, Done, Count, AllRight, LevelRight, WholeRight, InfoRight
  <2>3. CASE UNCHANGED vars
    BY <1>2, <2>3, <2>1, <2>2 DEF vars
  <2>4. CASE ReadTree
    <3> DEFINE tree == input.tree
    <3>1. tree \in TreesOf(ReadLeaves)
      BY <1>2, <2>4 DEF ReadTree, Inputs, ReadInputs
    <3>2. /\ input' = input
          /\ output'[1].level = [p \in Paths \cup Directories(tree) |-> GetTree(tree, p, FALSE)]
          /\ output'[1].whole = GetTree(tree, Root, TRUE)
          /\ output'[1].info = [p \in Paths |-> GetBlobInfo(tree, p)]
      BY <2>4 DEF ReadTree
    <3>3. /\ DOMAIN output'[1].level = Paths \cup Directories(tree)
          /\ \A dir \in Paths \cup Directories(tree) : output'[1].level[dir] = GetTree(tree, dir, FALSE)
          /\ \A p \in Paths : output'[1].info[p] = GetBlobInfo(tree, p)
      BY <3>2
    <3>4. \A dir \in DOMAIN output'[1].level : LevelRight(tree, dir, output'[1].level[dir])
      <4>1. \A dir \in Paths \cup Directories(tree) : LevelRight(tree, dir, GetTree(tree, dir, FALSE))
        BY <3>1, LevelAnswers
      <4> QED
        BY <3>3, <4>1
    <3>5. WholeRight(tree, output'[1].whole.entries)
      BY <3>1, <3>2, WholeAnswers
    <3>6. \A p \in Paths : InfoRight(tree, p, output'[1].info[p])
      <4>1. \A p \in Paths : InfoRight(tree, p, GetBlobInfo(tree, p))
        BY <3>1, InfoAnswers
      <4> QED
        BY <3>3, <4>1
    <3> QED
      BY <2>2, <3>2, <3>4, <3>5, <3>6 DEF AllRight
  <2>5. CASE ~Done("read")'
    BY <2>5 DEF ListingsAgree
  <2> QED
    BY <1>2, <2>3, <2>4, <2>5, TreeReadRuns
<1> QED
  BY <1>1, <1>2, InputStays, PTL DEF Spec

(***************************************************************************)
(* TreeMerge: previews of merges and cherry-picks.                         *)
(***************************************************************************)

\* The changes at one path are those of the two nodes there.
LEMMA ChangesAt ==
    ASSUME NEW old, NEW new, NEW p \in Nodes(old) \cup Nodes(new)
    PROVE  {c \in TreeChanges(old, new) : c.path = p} = NodeChanges(p, Node(old, p), Node(new, p))
<1>1. \A q, a, b : \A c \in NodeChanges(q, a, b) : c.path = q
  BY DEF NodeChanges
<1>2. \A c : c \in TreeChanges(old, new) <=>
               \E q \in Nodes(old) \cup Nodes(new) : c \in NodeChanges(q, Node(old, q), Node(new, q))
  BY DEF TreeChanges
<1> QED
  BY <1>1, <1>2

\* There is one, unless a directory comes for something else, or the other way round.
LEMMA OneChange ==
    ASSUME NEW p, NEW a, NEW b, a # b, a = Missing \/ b = Missing \/ (a.kind = "tree" <=> b.kind = "tree")
    PROVE  NodeChanges(p, a, b) = {[path |-> p, old |-> a, new |-> b]}
<1> DEFINE change(from, to) == [path |-> p, old |-> from, new |-> to]
           replaced == (a.kind = "tree") # (b.kind = "tree")
<1>1. NodeChanges(p, a, b)
        = IF replaced THEN {c \in {change(a, Missing), change(Missing, b)} : c.old # c.new}
          ELSE {change(a, b)}
  BY DEF NodeChanges
<1>2. \A from, to : change(from, to).old = from /\ change(from, to).new = to
  OBVIOUS
<1> HIDE DEF change
<1>3. CASE ~replaced
  BY <1>1, <1>3 DEF change
<1>4. CASE replaced /\ a = Missing
  <2>1. {c \in {change(a, Missing), change(Missing, b)} : c.old # c.new} = {change(a, b)}
    BY <1>2, <1>4
  <2> QED
    BY <1>1, <1>4, <2>1 DEF change
<1>5. CASE replaced /\ b = Missing
  <2>1. {c \in {change(a, Missing), change(Missing, b)} : c.old # c.new} = {change(a, b)}
    BY <1>2, <1>5
  <2> QED
    BY <1>1, <1>5, <2>1 DEF change
<1> QED
  BY <1>3, <1>4, <1>5

\* A path that is a directory in one of two trees, and something else in the other.
ReplacedAt(from, tree, p) ==
    p \in Nodes(from) \cap Nodes(tree) /\ (Node(from, p).kind = "tree") # (Node(tree, p).kind = "tree")

\* The one change of any other path that changed.
LEMMA PlainChange ==
    ASSUME \A leaf \in MergeLeaves : leaf.kind \in {"file", "exec", "link", "submodule"},
           NEW from \in TreesOf(MergeLeaves), NEW tree \in TreesOf(MergeLeaves), NEW p \in PathSeqs,
           ~ReplacedAt(from, tree, p), Node(tree, p) # Node(from, p)
    PROVE  {c \in TreeChanges(from, tree) : c.path = p}
             = {[path |-> p, old |-> Node(from, p), new |-> Node(tree, p)]}
<1>1. /\ p \in Nodes(from) <=> Node(from, p) # Missing
      /\ p \in Nodes(tree) <=> Node(tree, p) # Missing
  BY NodeIsThere
<1>2. p \in Nodes(from) \cup Nodes(tree)
  BY <1>1
<1>3. \/ Node(from, p) = Missing \/ Node(tree, p) = Missing
      \/ Node(from, p).kind = "tree" <=> Node(tree, p).kind = "tree"
  BY <1>1 DEF ReplacedAt
<1> QED
  BY <1>2, <1>3, ChangesAt, OneChange

\* What a map tells of a tree: nothing of what did not change, and of each other path
\* its node, unless it is an end of a rename, or replaced.
MapTells(map, from, tree, renames) ==
    /\ \A c \in map : /\ c.path \in Nodes(from) \cup Nodes(tree)
                      /\ Node(tree, c.path) # Node(from, c.path)
    /\ \A p \in PathSeqs : ~ReplacedAt(from, tree, p) =>
         /\ (\E c \in map : c.path = p) <=> Node(tree, p) # Node(from, p) /\ p \notin Ends(renames)
         /\ \A c \in map : c.path = p => c.new = Node(tree, p)

LEMMA MapsTell ==
    ASSUME \A leaf \in MergeLeaves : leaf.kind \in {"file", "exec", "link", "submodule"},
           NEW from \in TreesOf(MergeLeaves), NEW tree \in TreesOf(MergeLeaves),
           NEW renames \in RenameSets(TreeChanges(from, tree)),
           NEW map \in ChangeMaps(TreeChanges(from, tree), renames)
    PROVE  MapTells(map, from, tree, renames)
<1> DEFINE changes == TreeChanges(from, tree)
           kept == {c \in changes : \A r \in renames : c \notin {r[1], r[2]}}
<1>1. map \subseteq kept /\ {c.path : c \in map} = {c.path : c \in kept}
  BY DEF ChangeMaps
<1>2. \A r \in renames : r[1] \in changes /\ r[2] \in changes
  BY RenamesAre
<1>3. \A c \in changes : c.path \in Nodes(from) \cup Nodes(tree) /\ Node(from, c.path) # Node(tree, c.path)
  BY ChangesAre
<1>4. ASSUME NEW p \in PathSeqs, ~ReplacedAt(from, tree, p)
      PROVE  /\ (\E c \in map : c.path = p) <=> Node(tree, p) # Node(from, p) /\ p \notin Ends(renames)
             /\ \A c \in map : c.path = p => c.new = Node(tree, p)
  <2>1. CASE Node(tree, p) = Node(from, p)
    BY <1>1, <1>3, <2>1
  <2>2. CASE Node(tree, p) # Node(from, p)
    <3> DEFINE change == [path |-> p, old |-> Node(from, p), new |-> Node(tree, p)]
    <3>1. {c \in changes : c.path = p} = {change} /\ change.new = Node(tree, p)
      BY <1>4, <2>2, PlainChange
    <3> HIDE DEF change, changes
    <3>2. change \in changes /\ change.path = p /\ \A c \in changes : c.path = p => c = change
      BY <3>1
    <3>3. change \in kept <=> p \notin Ends(renames)
      <4>1. p \in Ends(renames) <=> \E r \in renames : r[1].path = p \/ r[2].path = p
        BY DEF Ends
      <4>2. \A r \in renames : (r[1].path = p <=> r[1] = change) /\ (r[2].path = p <=> r[2] = change)
        BY <1>2, <3>2
      <4> QED
        BY <3>2, <4>1, <4>2
    <3>4. (\E c \in map : c.path = p) <=> change \in kept
      <4>1. (\E c \in map : c.path = p) <=> \E c \in kept : c.path = p
        <5>1. (\E c \in map : c.path = p) <=> p \in {c.path : c \in map}
          OBVIOUS
        <5>2. (\E c \in kept : c.path = p) <=> p \in {c.path : c \in kept}
          OBVIOUS
        <5> HIDE DEF kept
        <5> QED
          BY <1>1, <5>1, <5>2
      <4> QED
        BY <3>2, <4>1
    <3>5. \A c \in map : c.path = p => c.new = Node(tree, p)
      BY <1>1, <3>1, <3>2
    <3> QED
      BY <2>2, <3>3, <3>4, <3>5
  <2> QED
    BY <2>1, <2>2
<1>5. \A c \in map : c.path \in Nodes(from) \cup Nodes(tree) /\ Node(tree, c.path) # Node(from, c.path)
  BY <1>1, <1>3
<1> QED
  BY <1>4, <1>5 DEF MapTells

\* A preview's three trees are trees.
LEMMA MergeInputs ==
    ASSUME input \in Inputs, input.kind \in {"merge", "pick"}
    PROVE  /\ input.from \in TreesOf(MergeLeaves)
           /\ input.ours \in TreesOf(MergeLeaves) /\ input.theirs \in TreesOf(MergeLeaves)
BY DEF Inputs, ReadInputs, PreviewTrees

\* What PreviewsAreExact asks of an answer.
Exact(answer, ourRenames, theirRenames) ==
    LET ours == Changed(input.ours) \ Ends(ourRenames)
        theirs == Changed(input.theirs) \ Ends(theirRenames)
        apart == {p \in ours \cap theirs : Oid(Node(input.ours, p)) # Oid(Node(input.theirs, p))}
        either == Replaced(input.ours) \cup Replaced(input.theirs)
    IN /\ answer.result.conflicts \ either = apart \ either
       /\ answer.result.merged \ either = (ours \cup theirs) \ (apart \cup either)
       /\ answer.result.conflicts \subseteq Changed(input.ours) \cap Changed(input.theirs)
       /\ answer.result.merged \subseteq Changed(input.ours) \cup Changed(input.theirs)
       /\ answer.status \in {"Success", "EmptyCommit"} => apart \subseteq either

\* What merge_trees makes of two maps is exact, if they tell of the two sides.
LEMMA ExactAnswers ==
    ASSUME input \in Inputs, input.kind \in {"merge", "pick"},
           NEW rs \in Renames(input.from, input.ours), NEW ss \in Renames(input.from, input.theirs),
           NEW ours \in ChangeMaps(TreeChanges(input.from, input.ours), rs),
           NEW theirs \in ChangeMaps(TreeChanges(input.from, input.theirs), ss),
           NEW answer, answer.result = MergeTrees(ours, theirs),
           answer.status \in {"Success", "EmptyCommit"} => answer.result.conflicts = {}
    PROVE  Exact(answer, rs, ss)
<1> DEFINE us == Changed(input.ours) \ Ends(rs)
           them == Changed(input.theirs) \ Ends(ss)
           apart == {p \in us \cap them : Oid(Node(input.ours, p)) # Oid(Node(input.theirs, p))}
           either == Replaced(input.ours) \cup Replaced(input.theirs)
           conflicts == answer.result.conflicts
           merged == answer.result.merged
<1>1. /\ MapTells(ours, input.from, input.ours, rs)
      /\ MapTells(theirs, input.from, input.theirs, ss)
  BY MergeInputs, MapsTell, InputAssumption DEF Renames
<1>2. MergeEntries \subseteq PathSeqs
  BY MergeInputs, ReadTreesAre, NodesAre DEF MergeEntries
<1>3. \A p : /\ p \in Changed(input.ours) <=> p \in MergeEntries /\ Node(input.ours, p) # Node(input.from, p)
             /\ p \in Changed(input.theirs) <=> p \in MergeEntries /\ Node(input.theirs, p) # Node(input.from, p)
  BY DEF Changed
<1>4. \A p : p \notin either => ~ReplacedAt(input.from, input.ours, p) /\ ~ReplacedAt(input.from, input.theirs, p)
  BY DEF Replaced, ReplacedAt
<1>5. \A p : /\ p \in conflicts <=> \E c \in ours : \E d \in theirs :
                                      c.path = p /\ d.path = p /\ Oid(d.new) # Oid(c.new)
             /\ p \in merged <=> (\/ \E c \in ours : c.path = p
                                  \/ \E c \in theirs : c.path = p) /\ p \notin conflicts
  BY DEF MergeTrees
<1>6. /\ \A c \in ours : c.path \in Changed(input.ours)
      /\ \A c \in theirs : c.path \in Changed(input.theirs)
  BY <1>1, <1>3 DEF MapTells, MergeEntries
<1> HIDE DEF conflicts, merged, either
<1>7. ASSUME NEW p \in MergeEntries, p \notin either
      PROVE  /\ (\E c \in ours : c.path = p) <=> p \in us
             /\ (\E c \in theirs : c.path = p) <=> p \in them
             /\ \A c \in ours : c.path = p => c.new = Node(input.ours, p)
             /\ \A c \in theirs : c.path = p => c.new = Node(input.theirs, p)
  BY <1>1, <1>2, <1>3, <1>4, <1>7 DEF MapTells
<1> HIDE DEF us, them
<1>8. ASSUME NEW p \in MergeEntries, p \notin either
      PROVE  p \in conflicts <=> p \in apart
  BY <1>5, <1>7, <1>8
<1>9. conflicts \subseteq Changed(input.ours) \cap Changed(input.theirs)
      /\ merged \subseteq Changed(input.ours) \cup Changed(input.theirs)
  BY <1>5, <1>6
<1>10. Changed(input.ours) \subseteq MergeEntries /\ Changed(input.theirs) \subseteq MergeEntries
       /\ us \subseteq MergeEntries /\ them \subseteq MergeEntries
  BY <1>3 DEF us, them
<1>11. conflicts \ either = apart \ either
  BY <1>8, <1>9, <1>10
<1>12. merged \ either = (us \cup them) \ (apart \cup either)
  <2>1. ASSUME NEW p \in MergeEntries, p \notin either
        PROVE  p \in merged <=> (p \in us \/ p \in them) /\ p \notin apart
    BY <1>5, <1>7, <1>8, <2>1
  <2> HIDE DEF apart
  <2> QED
    BY <1>9, <1>10, <2>1
<1>13. answer.status \in {"Success", "EmptyCommit"} => apart \subseteq either
  <2> HIDE DEF apart
  <2> QED
    BY <1>11 DEF conflicts
<1> HIDE DEF apart
<1> QED
  BY <1>9, <1>11, <1>12, <1>13 DEF Exact, us, them, apart, either, conflicts, merged

\* Previews are exact, whatever the trees: there is a conflict at each entry that both
\* sides changed to another object and at no other, but for the ends of a rename, and
\* for a file that became a directory or the other way round; a preview succeeds only
\* without one (operations.rs:350-470).
THEOREM PreviewsHold == Spec => []PreviewsAreExact
<1>1. Init => PreviewsAreExact
  BY DEF Init, PreviewsAreExact, Done, Pending
<1>2. ASSUME input \in Inputs, PreviewsAreExact, [Next]_vars
      PROVE  PreviewsAreExact'
  <2>1. CASE UNCHANGED vars
    <3>1. input' = input /\ output' = output
      BY <2>1 DEF vars
    <3>2. PreviewsAreExact' <=> PreviewsAreExact
      BY <3>1 DEF PreviewsAreExact, Done, Changed, Replaced, MergeEntries
    <3> QED
      BY <1>2, <3>2
  <2>2. ASSUME NEW rs \in Renames(input.from, input.ours), NEW ss \in Renames(input.from, input.theirs),
               NEW ours \in ChangeMaps(TreeChanges(input.from, input.ours), rs),
               NEW theirs \in ChangeMaps(TreeChanges(input.from, input.theirs), ss),
               NEW answer, output' = <<answer, rs, ss>>, input' = input,
               input.kind \in {"merge", "pick"},
               \/ answer.status = "FastForward"
               \/ /\ answer.result = MergeTrees(ours, theirs)
                  /\ answer.status \in {"Success", "EmptyCommit"} => answer.result.conflicts = {}
        PROVE  PreviewsAreExact'
    <3>1. output'[1] = answer /\ output'[2] = rs /\ output'[3] = ss
      BY <2>2
    <3>2. answer.status = "FastForward" \/ Exact(answer, rs, ss)
      BY <1>2, <2>2, ExactAnswers
    <3>3. (answer.status # "FastForward" => Exact(answer, rs, ss)) => PreviewsAreExact'
      BY <2>2, <3>1 DEF PreviewsAreExact, Exact, Changed, Replaced, MergeEntries
    <3> QED
      BY <3>2, <3>3
  <2>3. CASE PreviewMerge
    <3>1. PICK rs \in Renames(input.from, input.ours), ss \in Renames(input.from, input.theirs) :
          \E ours \in ChangeMaps(TreeChanges(input.from, input.ours), rs),
             theirs \in ChangeMaps(TreeChanges(input.from, input.theirs), ss) :
          \E mergeBase \in {"third", "base", "head"} :
            output' = <<Merge("base", "head", mergeBase, ours, theirs), rs, ss>>
      BY <2>3 DEF PreviewMerge
    <3>2. PICK ours \in ChangeMaps(TreeChanges(input.from, input.ours), rs),
               theirs \in ChangeMaps(TreeChanges(input.from, input.theirs), ss),
               mergeBase \in {"third", "base", "head"} :
            output' = <<Merge("base", "head", mergeBase, ours, theirs), rs, ss>>
      BY <3>1
    <3> DEFINE answer == Merge("base", "head", mergeBase, ours, theirs)
    <3>3. input' = input /\ input.kind = "merge"
      BY <2>3 DEF PreviewMerge
    <3>4. \/ answer.status = "FastForward"
          \/ /\ answer.result = MergeTrees(ours, theirs)
             /\ answer.status \in {"Success", "EmptyCommit"} => answer.result.conflicts = {}
      BY DEF Merge
    <3> HIDE DEF answer
    <3>5. output' = <<answer, rs, ss>>
      BY <3>2 DEF answer
    <3> QED
      BY <2>2, <3>3, <3>4, <3>5
  <2>4. CASE PreviewPick
    <3>1. PICK rs \in Renames(input.from, input.ours), ss \in Renames(input.from, input.theirs) :
          \E ours \in ChangeMaps(TreeChanges(input.from, input.ours), rs),
             theirs \in ChangeMaps(TreeChanges(input.from, input.theirs), ss) :
            output' = <<CherryPick(ours, theirs), rs, ss>>
      BY <2>4 DEF PreviewPick
    <3>2. PICK ours \in ChangeMaps(TreeChanges(input.from, input.ours), rs),
               theirs \in ChangeMaps(TreeChanges(input.from, input.theirs), ss) :
            output' = <<CherryPick(ours, theirs), rs, ss>>
      BY <3>1
    <3> DEFINE answer == CherryPick(ours, theirs)
    <3>3. input' = input /\ input.kind = "pick"
      BY <2>4 DEF PreviewPick
    <3>4. /\ answer.result = MergeTrees(ours, theirs)
          /\ answer.status \in {"Success", "EmptyCommit"} => answer.result.conflicts = {}
      BY DEF CherryPick
    <3> HIDE DEF answer
    <3>5. output' = <<answer, rs, ss>>
      BY <3>2 DEF answer
    <3> QED
      BY <2>2, <3>3, <3>4, <3>5
  <2>5. CASE ~(Done("merge")' \/ Done("pick")')
    BY <2>5 DEF PreviewsAreExact
  <2> QED
    BY <1>2, <2>1, <2>3, <2>4, <2>5, MergeRuns
<1> QED
  BY <1>1, <1>2, InputStays, PTL DEF Spec

(***************************************************************************)
(* TreeMerge: series of picks.                                             *)
(***************************************************************************)
AnyPick == [parent : TreesOf(PickedLeaves), tree : TreesOf(PickedLeaves)]

\* What a series makes of a tree may have a leaf below another.
AnyTrees == UNION {[ps -> PickedLeaves] : ps \in SUBSET Paths}

\* Two trees that have the same at a path and below it.
AgreeAt(t, u, p) ==
    \A q \in PathSeqs : q = p \/ IsStrictPrefix(p, q) =>
        /\ q \in DOMAIN t <=> q \in DOMAIN u
        /\ q \in DOMAIN t => t[q] = u[q]

LEMMA PrefixesChain ==
    ASSUME NEW p \in PathSeqs, NEW q \in PathSeqs, NEW r \in PathSeqs,
           IsStrictPrefix(p, q), IsStrictPrefix(q, r)
    PROVE  IsStrictPrefix(p, r)
<1>1. /\ Len(p) < Len(q) /\ p = SubSeq(q, 1, Len(p)) /\ Len(p) \in Nat
      /\ Len(q) < Len(r) /\ q = SubSeq(r, 1, Len(q)) /\ Len(q) \in Nat /\ Len(r) \in Nat
  BY PrefixOfPath DEF PathSeqs
<1>2. r \in Seq(DOMAIN NameRank) /\ q \in Seq(DOMAIN NameRank) /\ p \in Seq(DOMAIN NameRank)
  BY DEF PathSeqs
<1>3. \A i \in 1 .. Len(q) : q[i] = r[i]
  BY <1>1, <1>2, SubSeqProperties
<1>4. \A i \in 1 .. Len(p) : p[i] = q[i]
  BY <1>1, <1>2, SubSeqProperties
<1>5. SubSeq(r, 1, Len(p)) \in Seq(DOMAIN NameRank) /\ Len(SubSeq(r, 1, Len(p))) = Len(p)
      /\ \A i \in 1 .. Len(p) : SubSeq(r, 1, Len(p))[i] = r[i]
  BY <1>1, <1>2, SubSeqProperties
<1>6. \A i \in 1 .. Len(p) : p[i] = SubSeq(r, 1, Len(p))[i]
  BY <1>1, <1>3, <1>4, <1>5
<1>7. p = SubSeq(r, 1, Len(p))
  BY <1>2, <1>5, <1>6, SeqEqual
<1> QED
  BY <1>1, <1>7, PrefixOfPath

\* So there is the same node.
LEMMA AgreeingNodes ==
    ASSUME NEW t, NEW u, DOMAIN t \subseteq PathSeqs, DOMAIN u \subseteq PathSeqs,
           NEW p \in PathSeqs, AgreeAt(t, u, p)
    PROVE  Node(t, p) = Node(u, p)
<1>1. p \in DOMAIN t <=> p \in DOMAIN u
  BY DEF AgreeAt
<1>2. LeavesBelow(t, p) = LeavesBelow(u, p) /\ \A q \in LeavesBelow(t, p) : t[q] = u[q]
  BY DEF AgreeAt, LeavesBelow
<1>3. CASE p \in DOMAIN t
  BY <1>1, <1>3 DEF AgreeAt, Node
<1>4. CASE p \notin DOMAIN t
  <2>1. {<<q, t[q]>> : q \in LeavesBelow(t, p)} = {<<q, u[q]>> : q \in LeavesBelow(u, p)}
    BY <1>2
  <2> QED
    BY <1>1, <1>2, <1>4, <2>1 DEF Node
<1> QED
  BY <1>3, <1>4

\* And the other way round, for trees.
LEMMA SameNodesAgree ==
    ASSUME NEW leaves, \A leaf \in leaves : leaf.kind \in {"file", "exec", "link", "submodule"},
           NEW t \in TreesOf(leaves), NEW u \in TreesOf(leaves), NEW p \in PathSeqs,
           Node(t, p) = Node(u, p)
    PROVE  AgreeAt(t, u, p)
<1>1. /\ p \in Nodes(t) <=> Node(t, p) # Missing
      /\ p \in DOMAIN t => Node(t, p) = t[p] /\ Node(t, p).kind # "tree"
      /\ p \in Nodes(t) \ DOMAIN t => Node(t, p).kind = "tree"
      /\ p \in Nodes(u) <=> Node(u, p) # Missing
      /\ p \in DOMAIN u => Node(u, p) = u[p] /\ Node(u, p).kind # "tree"
      /\ p \in Nodes(u) \ DOMAIN u => Node(u, p).kind = "tree"
  BY NodeIsThere
<1>2. /\ DOMAIN t \subseteq PathSeqs /\ DOMAIN u \subseteq PathSeqs
      /\ p \in Nodes(t) <=> p \in DOMAIN t \/ LeavesBelow(t, p) # {}
      /\ p \in Nodes(u) <=> p \in DOMAIN u \/ LeavesBelow(u, p) # {}
  BY ReadTreesAre, NodesAre
<1>3. p \in DOMAIN t <=> p \in DOMAIN u
  BY <1>1, <1>2
<1>4. \A q \in LeavesBelow(t, p) \cup LeavesBelow(u, p) : p \notin DOMAIN t
  BY <1>3 DEF TreesOf, LeavesBelow
<1>5. CASE p \in DOMAIN t
  BY <1>1, <1>2, <1>3, <1>4, <1>5 DEF AgreeAt, LeavesBelow
<1>6. CASE p \notin DOMAIN t
  <2>1. {<<q, t[q]>> : q \in LeavesBelow(t, p)} = {<<q, u[q]>> : q \in LeavesBelow(u, p)}
    <3>1. CASE LeavesBelow(t, p) = {}
      BY <1>1, <1>2, <1>3, <1>6, <3>1
    <3>2. CASE LeavesBelow(t, p) # {}
      <4>1. LeavesBelow(u, p) # {}
        BY <1>1, <1>2, <1>3, <1>6, <3>2
      <4>2. /\ Node(t, p).below = {<<q, t[q]>> : q \in LeavesBelow(t, p)}
            /\ Node(u, p).below = {<<q, u[q]>> : q \in LeavesBelow(u, p)}
        BY <1>3, <1>6, <3>2, <4>1 DEF Node
      <4> QED
        BY <4>2
    <3> QED
      BY <3>1, <3>2
  <2>2. ASSUME NEW q \in PathSeqs, IsStrictPrefix(p, q)
        PROVE  /\ q \in DOMAIN t => q \in DOMAIN u /\ t[q] = u[q]
               /\ q \in DOMAIN u => q \in DOMAIN t
    <3>1. q \in DOMAIN t => <<q, t[q]>> \in {<<r, t[r]>> : r \in LeavesBelow(t, p)}
      BY <2>2 DEF LeavesBelow
    <3>2. q \in DOMAIN u => <<q, u[q]>> \in {<<r, u[r]>> : r \in LeavesBelow(u, p)}
      BY <2>2 DEF LeavesBelow
    <3>3. q \in DOMAIN t => \E r \in LeavesBelow(u, p) : <<q, t[q]>> = <<r, u[r]>>
      BY <2>1, <3>1
    <3>4. q \in DOMAIN u => \E r \in LeavesBelow(t, p) : <<q, u[q]>> = <<r, t[r]>>
      BY <2>1, <3>2
    <3> QED
      BY <3>3, <3>4 DEF LeavesBelow
  <2> QED
    BY <1>3, <1>6, <2>2 DEF AgreeAt
<1> QED
  BY <1>5, <1>6

\* What a pick does not touch, it leaves as it is, with all that is in it.
LEMMA UntouchedByOne ==
    ASSUME NEW pick \in AnyPick, NEW t \in AnyTrees, NEW p \in PathSeqs, p \notin Touched(pick)
    PROVE  AgreeAt(Apply(pick, t), t, p)
<1>1. pick.parent \in TreesOf(PickedLeaves) /\ pick.tree \in TreesOf(PickedLeaves)
  BY DEF AnyPick
<1>2. \A leaf \in PickedLeaves : leaf.kind \in {"file", "exec", "link", "submodule"}
  BY InputAssumption
<1>3. DOMAIN pick.parent \subseteq PathSeqs /\ DOMAIN pick.tree \subseteq PathSeqs
  BY <1>1, ReadTreesAre
<1>4. \A q \in PathSeqs : q \in Touched(pick) <=> Node(pick.parent, q) # Node(pick.tree, q)
  <2>1. ASSUME NEW q \in PathSeqs
        PROVE  /\ q \in Nodes(pick.parent) <=> Node(pick.parent, q) # Missing
               /\ q \in Nodes(pick.tree) <=> Node(pick.tree, q) # Missing
    BY <1>1, <1>2, NodeIsThere
  <2>2. \A c \in TreeChanges(pick.parent, pick.tree) : Node(pick.parent, c.path) # Node(pick.tree, c.path)
    BY ChangesAre
  <2>3. \A q \in Nodes(pick.parent) \cup Nodes(pick.tree) : Node(pick.parent, q) # Node(pick.tree, q) =>
           /\ Node(pick.parent, q) # Missing => \E c \in TreeChanges(pick.parent, pick.tree) : c.path = q
           /\ Node(pick.tree, q) # Missing => \E c \in TreeChanges(pick.parent, pick.tree) : c.path = q
    BY ChangesAre
  <2> QED
    BY <2>1, <2>2, <2>3 DEF Touched
<1>5. AgreeAt(pick.parent, pick.tree, p)
  BY <1>1, <1>2, <1>4, SameNodesAgree
<1>6. ASSUME NEW q \in PathSeqs, q = p \/ IsStrictPrefix(p, q)
      PROVE  q \notin Touched(pick)
  <2>1. CASE q = p
    BY <2>1
  <2>2. CASE IsStrictPrefix(p, q)
    <3>1. \A r \in PathSeqs : r = q \/ IsStrictPrefix(q, r) => IsStrictPrefix(p, r)
      BY <2>2, PrefixesChain
    <3>2. AgreeAt(pick.parent, pick.tree, q)
      BY <1>5, <3>1 DEF AgreeAt
    <3>3. Node(pick.parent, q) = Node(pick.tree, q)
      BY <1>3, <3>2, AgreeingNodes
    <3> QED
      BY <1>4, <3>3
  <2> QED
    BY <1>6, <2>1, <2>2
<1> QED
  BY <1>6 DEF Apply, AgreeAt

\* The trees on the way, by the definition of Targets.
LEMMA TargetsAre ==
    ASSUME NEW picks \in Seq(AnyPick), NEW onto \in AnyTrees
    PROVE  LET after == Targets(picks, onto) IN
           /\ after \in [0 .. Len(picks) -> AnyTrees]
           /\ after[0] = onto
           /\ \A n \in 1 .. Len(picks) : after[n] = Apply(picks[n], after[n - 1])
<1> DEFINE top == Len(picks)
           after == Targets(picks, onto)
           value(h, n) == IF n = 0 THEN onto ELSE Apply(picks[n], h[n - 1])
           Step == [a \in (1 .. top) \X AnyTrees |-> Apply(picks[a[1]], a[2])]
<1>1. top \in Nat
  OBVIOUS
<1>2. \A n \in 1 .. top, t \in AnyTrees : Apply(picks[n], t) \in AnyTrees
  <2> SUFFICES ASSUME NEW n \in 1 .. top, NEW t \in AnyTrees PROVE Apply(picks[n], t) \in AnyTrees
    OBVIOUS
  <2> DEFINE pick == picks[n]
             touched == Touched(pick)
             ps == (DOMAIN t \ touched) \cup (DOMAIN pick.tree \cap touched)
  <2>1. pick \in AnyPick
    OBVIOUS
  <2>2. DOMAIN pick.tree \in SUBSET Paths /\ \A p \in DOMAIN pick.tree : pick.tree[p] \in PickedLeaves
    BY <2>1 DEF AnyPick, TreesOf
  <2>3. DOMAIN t \in SUBSET Paths /\ \A p \in DOMAIN t : t[p] \in PickedLeaves
    BY DEF AnyTrees
  <2>4. Apply(pick, t) = [p \in ps |-> IF p \in touched THEN pick.tree[p] ELSE t[p]]
    BY DEF Apply
  <2> HIDE DEF pick, touched
  <2>5. ps \in SUBSET Paths
    BY <2>2, <2>3
  <2>6. \A p \in ps : (IF p \in touched THEN pick.tree[p] ELSE t[p]) \in PickedLeaves
    BY <2>2, <2>3
  <2> HIDE DEF ps
  <2>7. Apply(pick, t) \in [ps -> PickedLeaves]
    BY <2>4, <2>6
  <2> QED
    BY <2>5, <2>7 DEF AnyTrees, pick
<1>3. Step \in [(1 .. top) \X AnyTrees -> AnyTrees]
      /\ \A n \in 1 .. top, t \in AnyTrees : Step[<<n, t>>] = Apply(picks[n], t)
  BY <1>2
<1>4. after = CHOOSE h : h = [n \in 0 .. top |-> value(h, n)]
  BY DEF Targets
<1>5. PICK f \in [0 .. top -> AnyTrees] :
        f = [n \in 0 .. top |-> IF n = 0 THEN onto ELSE Step[<<n, f[n - 1]>>]]
  <2> HIDE DEF Step, top
  <2> QED
    <3>1. Chains(AnyTrees, onto, top, Step) # {}
      BY <1>1, <1>3, NatRecursion
    <3> QED
      BY <3>1 DEF Chains
<1>6. f = [n \in 0 .. top |-> value(f, n)]
  <2>1. \A n \in 0 .. top : n # 0 => n \in 1 .. top /\ f[n - 1] \in AnyTrees
    BY <1>1
  <2> HIDE DEF Step, top
  <2> QED
    BY <1>3, <1>5, <2>1
<1>7. after = [n \in 0 .. top |-> value(after, n)]
  <2> HIDE DEF value, top, Step, after
  <2> QED
    BY <1>4, <1>6
<1>8. /\ after[0] = onto
      /\ \A n \in 1 .. top : after[n] = Apply(picks[n], after[n - 1])
  <2>1. \A n \in 0 .. top : after[n] = value(after, n)
    <3> HIDE DEF value, top, Step, after
    <3> QED
      BY <1>7
  <2> HIDE DEF after
  <2> QED
    BY <1>1, <2>1
<1> DEFINE S == {n \in Nat : n <= top => after[n] \in AnyTrees}
<1>9. Nat \subseteq S
  <2> HIDE DEF after
  <2>1. 0 \in S
    BY <1>8
  <2>2. ASSUME NEW n \in Nat, n \in S PROVE n + 1 \in S
    BY <1>1, <1>2, <1>8, <2>2
  <2> HIDE DEF S
  <2> QED
    BY <2>1, <2>2, NatSetInduction
<1>10. after \in [0 .. top -> AnyTrees]
  <2>1. \A n \in 0 .. top : after[n] \in AnyTrees
    BY <1>1, <1>9
  <2> HIDE DEF value, after
  <2> QED
    BY <1>7, <2>1
<1> QED
  BY <1>8, <1>10

\* What is at a path that a pick touches, no other pick has changed, if none touches it.
LEMMA UntouchedStays ==
    ASSUME NEW picks \in Seq(AnyPick), NEW onto \in AnyTrees,
           \A i, j \in DOMAIN picks : i # j => Touched(picks[i]) \cap Touched(picks[j]) = {},
           NEW i \in DOMAIN picks, NEW path \in Touched(picks[i]), path \in PathSeqs
    PROVE  Node(Targets(picks, onto)[i - 1], path) = Node(onto, path)
<1> DEFINE after == Targets(picks, onto)
           S == {n \in Nat : n < i => AgreeAt(after[n], onto, path)}
<1>1. /\ after \in [0 .. Len(picks) -> AnyTrees] /\ after[0] = onto
      /\ \A n \in 1 .. Len(picks) : after[n] = Apply(picks[n], after[n - 1])
  BY TargetsAre
<1> HIDE DEF after
<1>2. i \in 1 .. Len(picks) /\ Len(picks) \in Nat /\ DOMAIN picks = 1 .. Len(picks)
  OBVIOUS
<1>3. Nat \subseteq S
  <2>1. 0 \in S
    BY <1>1 DEF AgreeAt
  <2>2. ASSUME NEW n \in Nat, n \in S PROVE n + 1 \in S
    <3> SUFFICES ASSUME n + 1 < i PROVE AgreeAt(after[n + 1], onto, path)
      OBVIOUS
    <3>1. n + 1 \in 1 .. Len(picks) /\ n + 1 # i /\ (n + 1) - 1 = n /\ n < i /\ n \in 0 .. Len(picks)
      BY <1>2
    <3>2. after[n + 1] = Apply(picks[n + 1], after[n])
      BY <1>1, <3>1
    <3>3. after[n] \in AnyTrees
      BY <1>1, <3>1
    <3>4. path \notin Touched(picks[n + 1]) /\ picks[n + 1] \in AnyPick
      BY <1>2, <3>1
    <3>5. AgreeAt(after[n + 1], after[n], path)
      BY <3>2, <3>3, <3>4, UntouchedByOne
    <3>6. AgreeAt(after[n], onto, path)
      BY <2>2, <3>1
    <3> QED
      BY <3>5, <3>6 DEF AgreeAt
  <2> HIDE DEF S
  <2> QED
    BY <2>1, <2>2, NatSetInduction
<1>4. i - 1 \in Nat /\ i - 1 < i /\ i - 1 \in 0 .. Len(picks)
  BY <1>2
<1>5. AgreeAt(after[i - 1], onto, path) /\ after[i - 1] \in AnyTrees
  BY <1>1, <1>3, <1>4
<1>6. \A t \in AnyTrees : DOMAIN t \subseteq PathSeqs
  BY ReadsAssumption DEF AnyTrees, PathSeqs
<1>7. Node(after[i - 1], path) = Node(onto, path)
  BY <1>5, <1>6, AgreeingNodes
<1> QED
  BY <1>7 DEF after

\* The changes at a path, also when nothing is there.
LEMMA ChangesAtPath ==
    ASSUME NEW old, NEW new, DOMAIN old \subseteq PathSeqs, DOMAIN new \subseteq PathSeqs, NEW p \in PathSeqs
    PROVE  {c \in TreeChanges(old, new) : c.path = p} = NodeChanges(p, Node(old, p), Node(new, p))
<1>1. CASE p \in Nodes(old) \cup Nodes(new)
  BY <1>1, ChangesAt
<1>2. CASE p \notin Nodes(old) \cup Nodes(new)
  <2>1. Node(old, p) = Missing /\ Node(new, p) = Missing
    BY <1>2, NodesAre DEF Node
  <2>2. NodeChanges(p, Missing, Missing) = {}
    BY DEF NodeChanges
  <2>3. \A c \in TreeChanges(old, new) : c.path \in Nodes(old) \cup Nodes(new)
    BY ChangesAre
  <2> QED
    BY <1>2, <2>1, <2>2, <2>3
<1> QED
  BY <1>1, <1>2

\* A pick is in conflict with a tree.
ClashesWith(pick, t) ==
    CherryPick(TreeChanges(pick.parent, t), TreeChanges(pick.parent, pick.tree)).status = "Conflict"

\* One is with what the picks before it left if it is with the branch.
LEMMA ClashesStay ==
    ASSUME NEW picks \in Seq(AnyPick), NEW onto \in AnyTrees,
           \A i, j \in DOMAIN picks : i # j => Touched(picks[i]) \cap Touched(picks[j]) = {},
           NEW i \in DOMAIN picks
    PROVE  ClashesWith(picks[i], Targets(picks, onto)[i - 1]) <=> ClashesWith(picks[i], onto)
<1> DEFINE pick == picks[i]
           now == Targets(picks, onto)[i - 1]
           mine == TreeChanges(pick.parent, pick.tree)
           clash(t) == \E c \in TreeChanges(pick.parent, t) : \E d \in mine :
                          d.path = c.path /\ Oid(d.new) # Oid(c.new)
<1>1. \A t : ClashesWith(pick, t) <=> clash(t)
  BY DEF ClashesWith, CherryPick, MergeTrees
<1>2. \A t \in AnyTrees : DOMAIN t \subseteq PathSeqs
  BY ReadsAssumption DEF AnyTrees, PathSeqs
<1>3. now \in AnyTrees
  <2>1. i - 1 \in 0 .. Len(picks)
    OBVIOUS
  <2> QED
    BY <2>1, TargetsAre
<1>4. DOMAIN pick.parent \subseteq PathSeqs /\ DOMAIN pick.tree \subseteq PathSeqs
  <2>1. pick \in AnyPick
    OBVIOUS
  <2> QED
    BY <2>1, ReadTreesAre DEF AnyPick
<1>5. \A d \in mine : d.path \in PathSeqs
  BY <1>4, NodesAre, ChangesAre
<1>6. ASSUME NEW d \in mine
      PROVE  {c \in TreeChanges(pick.parent, now) : c.path = d.path}
               = {c \in TreeChanges(pick.parent, onto) : c.path = d.path}
  <2>1. d.path \in Touched(pick)
    BY <1>6 DEF Touched
  <2>2. Node(now, d.path) = Node(onto, d.path)
    BY <1>5, <2>1, UntouchedStays
  <2> HIDE DEF pick, now, mine
  <2> QED
    BY <1>2, <1>3, <1>4, <1>5, <2>2, ChangesAtPath
<1>7. clash(now) <=> clash(onto)
  <2> HIDE DEF pick, now, mine
  <2> QED
    BY <1>6
<1> QED
  BY <1>1, <1>7

\* Without renames, and with one change for each path, the map is what changed.
LEMMA PlainMaps ==
    ASSUME NEW old, NEW new, Plain(TreeChanges(old, new)), NEW map \in Maps(old, new)
    PROVE  map = TreeChanges(old, new)
<1> DEFINE changes == TreeChanges(old, new)
<1>1. PICK rs \in RenameSets(changes) : map \in ChangeMaps(changes, rs)
  BY DEF Maps, Renames
<1>2. rs = {}
  BY <1>1 DEF RenameSets, Plain
<1> HIDE DEF changes
<1>3. map \subseteq changes /\ {c.path : c \in map} = {c.path : c \in changes}
  BY <1>1, <1>2 DEF ChangeMaps
<1>4. \A c, d \in changes : c.path = d.path => c = d
  BY DEF Plain, changes
<1>5. changes \subseteq map
  BY <1>3, <1>4
<1> QED
  BY <1>3, <1>5 DEF changes

\* The answer to a series is set by its preview alone.
LEMMA SeriesRuns ==
    ASSUME [Next]_vars, Done("series")'
    PROVE  (Done("series") /\ UNCHANGED vars) \/ PreviewSeries
BY DEF Next, vars, Done, Glob, RefGlob, Diff, PreviewMerge, PreviewPick, PreviewSeries, ReadLog,
       ReadAncestors, PreviewRebase, ReadTree, DiffOfTrees

\* A preview of a series of any length is that of its picks one after the other, though
\* each is compared with the branch as it is: as long as no two change the same file or
\* directory, nothing is renamed, and no file becomes a directory or the other way
\* round (service.rs:1168-1204).
THEOREM SeriesHold == Spec => []SeriesIsSequential
<1>1. Init => SeriesIsSequential
  BY DEF Init, SeriesIsSequential, Done, Pending
<1>2. ASSUME input \in Inputs, SeriesIsSequential, [Next]_vars
      PROVE  SeriesIsSequential'
  <2>1. CASE UNCHANGED vars
    <3>1. input' = input /\ output' = output
      BY <2>1 DEF vars
    <3>2. SeriesIsSequential' <=> SeriesIsSequential
      BY <3>1 DEF SeriesIsSequential, Done
    <3> QED
      BY <1>2, <3>2
  <2>2. CASE PreviewSeries
    <3> DEFINE picks == input.picks
               onto == input.onto
               after == Targets(picks, onto)
               apart == \A i, j \in DOMAIN picks : i # j => Touched(picks[i]) \cap Touched(picks[j]) = {}
               kept == \A i \in DOMAIN picks : \A t \in {onto, after[i - 1], picks[i].tree} :
                          Plain(TreeChanges(picks[i].parent, t))
               clashing == {i \in DOMAIN picks :
                   CherryPick(TreeChanges(picks[i].parent, after[i - 1]),
                              TreeChanges(picks[i].parent, picks[i].tree)).status = "Conflict"}
               answer == IF clashing = {} THEN [tried |-> Len(picks), success |-> TRUE]
                         ELSE [tried |-> CHOOSE i \in clashing : \A j \in clashing : i <= j,
                               success |-> FALSE]
    <3>1. PICK maps \in [DOMAIN picks -> UNION {SeriesMaps(p) : p \in Range(picks)}] :
            /\ \A i \in DOMAIN maps : maps[i] \in SeriesMaps(picks[i])
            /\ output' = <<PickSeries(maps)>>
      BY <2>2 DEF PreviewSeries
    <3>2. picks \in Seq(AnyPick) /\ onto \in AnyTrees
      <4>1. picks \in Series /\ onto \in SmallTrees
        BY <1>2, <2>2 DEF Inputs, ReadInputs, PreviewSeries
      <4>2. picks \in Seq(Picks)
        BY <4>1, BoundedSequences, InputAssumption DEF Series
      <4>3. SmallTrees \subseteq TreesOf(PickedLeaves) /\ TreesOf(PickedLeaves) \subseteq AnyTrees
        BY DEF SmallTrees, TreesOf, AnyTrees
      <4>4. Picks \subseteq AnyPick
        BY <4>3 DEF Picks, AnyPick
      <4> QED
        BY <4>1, <4>2, <4>3, <4>4
    <3>3. ASSUME apart, kept
          PROVE  PickSeries(maps) = answer
      <4> DEFINE status(i) == CherryPick(maps[i].onto, maps[i].pick).status
                 found == {i \in DOMAIN maps : status(i) = "Conflict"}
      <4>1. ASSUME NEW i \in DOMAIN picks
            PROVE  status(i) = "Conflict" <=> ClashesWith(picks[i], onto)
        <5>1. maps[i] \in SeriesMaps(picks[i])
          BY <3>1
        <5>2. Plain(TreeChanges(picks[i].parent, onto)) /\ Plain(TreeChanges(picks[i].parent, picks[i].tree))
          BY <3>3
        <5>3. maps[i].onto \in Maps(picks[i].parent, onto) /\ maps[i].pick \in Maps(picks[i].parent, picks[i].tree)
          BY <5>1 DEF SeriesMaps
        <5>4. /\ maps[i].onto = TreeChanges(picks[i].parent, onto)
              /\ maps[i].pick = TreeChanges(picks[i].parent, picks[i].tree)
          BY <5>2, <5>3, PlainMaps
        <5> QED
          BY <5>4 DEF ClashesWith
      <4>2. found = clashing
        <5>1. \A i \in DOMAIN picks : ClashesWith(picks[i], after[i - 1]) <=> ClashesWith(picks[i], onto)
          BY <3>2, <3>3, ClashesStay
        <5>2. clashing = {i \in DOMAIN picks : ClashesWith(picks[i], after[i - 1])}
          BY DEF ClashesWith
        <5>3. DOMAIN maps = DOMAIN picks
          BY <3>1
        <5> HIDE DEF status, after, clashing
        <5> QED
          BY <4>1, <5>1, <5>2, <5>3
      <4>3. PickSeries(maps)
              = IF found = {} THEN [tried |-> Len(maps), success |-> TRUE]
                ELSE [tried |-> CHOOSE i \in found : \A j \in found : i <= j, success |-> FALSE]
        BY DEF PickSeries
      <4>4. Len(maps) = Len(picks)
        BY <3>1, <3>2
      <4> HIDE DEF found, clashing
      <4> QED
        BY <4>2, <4>3, <4>4
    <3>4. input' = input /\ output'[1] = PickSeries(maps)
      BY <2>2, <3>1 DEF PreviewSeries
    <3>5. SeriesIsSequential' <=> (Done("series")' /\ apart /\ kept => output'[1] = answer)
      BY <3>4, ZenonT(30) DEF SeriesIsSequential
    <3> HIDE DEF apart, kept, answer
    <3> QED
      BY <3>3, <3>4, <3>5
  <2>3. CASE ~Done("series")'
    BY <2>3 DEF SeriesIsSequential
  <2> QED
    BY <1>2, <2>1, <2>2, <2>3, SeriesRuns
<1> QED
  BY <1>1, <1>2, InputStays, PTL DEF Spec
=============================================================================
