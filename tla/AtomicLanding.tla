---------------------------- MODULE AtomicLanding ----------------------------
(***************************************************************************)
(* What MergeChange promises its caller, with no handler in sight: a change *)
(* lands in one step, and a success is only answered for a tip that the    *)
(* branch still contains.                                                  *)
(***************************************************************************)
EXTENDS CommitGraph

CONSTANTS Callers, Branches, InitTips, NoAnswer

VARIABLES
    tip,      \* branch -> its tip, or NoOid
    promised  \* caller -> the last success answered to it, as [branch, commit, sha]

Init == tip = InitTips /\ promised = [l \in Callers |-> NoAnswer]

\* The branch fast-forwards to the change, or takes a merge of the change.
Land(b, c) ==
    /\ tip[b] \in Commits
    /\ c \in Commits \ Anc[tip[b]]
    /\ \/ tip[b] \in Anc[c] /\ tip' = [tip EXCEPT ![b] = c]
       \/ \E m \in LandingMerges(tip[b], c) : tip' = [tip EXCEPT ![b] = m]
    /\ UNCHANGED promised

\* A success names a tip that contains the change and that the branch contains.
Promise(l, b, c) ==
    /\ tip[b] \in Commits
    /\ \E sha \in Anc[tip[b]] :
         /\ c \in Anc[sha]
         /\ promised' = [promised EXCEPT ![l] = [branch |-> b, commit |-> c, sha |-> sha]]
    /\ UNCHANGED tip

Next ==
    \E b \in Branches, c \in Commits :
        Land(b, c) \/ \E l \in Callers : Promise(l, b, c)

Spec == Init /\ [][Next]_<<tip, promised>>
=============================================================================
