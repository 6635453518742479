---------------------------- MODULE CommitGraph ----------------------------
(***************************************************************************)
(* The object database seen as an immutable graph.  An object id names its *)
(* content, so parents, tree and ancestry of a commit are constants: only  *)
(* which objects are present (RefStore's objs) ever changes.               *)
(***************************************************************************)
EXTENDS Sequences

CONSTANTS
    Commits,     \* every commit id that can occur, merge commits included
    NonCommits,  \* ids of trees, blobs and tag objects
    NoOid,       \* the zero id: "no such ref"
    Parents,     \* commit -> sequence of parents
    Anc,         \* commit -> its ancestors, itself included
    TreeOf       \* commit -> its tree

Objects == Commits \cup NonCommits

\* What being a commit graph means: Anc is the reflexive, transitive closure
\* of Parents, as far as the proofs need it, and history has no cycle.
ASSUME GraphAssumption ==
    /\ NoOid \notin Objects
    /\ Commits \cap NonCommits = {}
    /\ Parents \in [Commits -> Seq(Commits)]
    /\ Anc \in [Commits -> SUBSET Commits]
    /\ \A c \in Commits :
           Anc[c] = {c} \cup UNION {Anc[Parents[c][i]] : i \in DOMAIN Parents[c]}
    /\ \A a, b \in Commits : a \in Anc[b] => Anc[a] \subseteq Anc[b]
    /\ \A a, b \in Commits : a \in Anc[b] /\ b \in Anc[a] => a = b

\* Commits `git commit-tree <tree of change> -p tip -p change` can produce: the
\* time stamp is part of the content, so there may be several.
LandingMerges(tip, change) ==
    {m \in Commits : Parents[m] = <<tip, change>> /\ TreeOf[m] = TreeOf[change]}

\* The members of a set of objects that are commits, and everything below them.
History(oids) == UNION {Anc[c] : c \in oids \cap Commits}
=============================================================================
