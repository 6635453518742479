---------------------------- MODULE MovedRepository ----------------------------
(***************************************************************************)
(* Landings while repositories are renamed.  A handler holds the path of    *)
(* its repository, not the repository: each of its git commands runs in     *)
(* the one that has the name by then, which may be another one than that    *)
(* of the command before, a new one, or none at all.  (Each command, and    *)
(* each rename, is one step; Repository has the races among the renames.)   *)
(***************************************************************************)
EXTENDS MergeChange

CONSTANTS
    Places,  \* the other names of the owner
    Others   \* place -> the repository of that name when the service starts

Repositories ==
    [objs : SUBSET Objects, refs : [Refs -> Objects \cup {NoOid}],
     head : [ref : Heads \cup {NoRef}, len : Nat]]

\* A name nothing has: git opens no repository there.
NoRepository ==
    [objs |-> {}, refs |-> [r \in Refs |-> NoOid], head |-> [ref |-> NoRef, len |-> 0]]

Fresh == [NoRepository EXCEPT !.head = HeadFor(InitHead)]

Complete(repo) ==
    \A r \in Refs : repo.refs[r] # NoOid =>
        repo.refs[r] \in repo.objs /\ History({repo.refs[r]}) \subseteq repo.objs

ASSUME OthersAssumption ==
    /\ Others \in [Places -> Repositories]
    /\ \A p \in Places : Complete(Others[p]) /\ History(Others[p].objs) \subseteq Others[p].objs

VARIABLE elsewhere  \* place -> the repository of that name, or NoRepository

\* The repository of the name that the landings ask for.
Here == [objs |-> objs, refs |-> refs, head |-> head]
Becomes(repo) == objs' = repo.objs /\ refs' = repo.refs /\ head' = repo.head

\* The repository gets another name, or another one gets its name.
Rename(p) ==
    /\ (Here = NoRepository) # (elsewhere[p] = NoRepository)
    /\ Becomes(elsewhere[p])
    /\ elsewhere' = [elsewhere EXCEPT ![p] = Here]
    /\ UNCHANGED landVars

\* A new repository is made under the name.
InitHere ==
    /\ Here = NoRepository /\ Becomes(Fresh)
    /\ UNCHANGED <<elsewhere, landVars>>

movedVars == <<storeVars, landVars, elsewhere>>

MovedNext ==
    \/ LandNext /\ UNCHANGED elsewhere
    \/ \E p \in Places : Rename(p)
    \/ InitHere

MovedSpec == LandStart /\ elsewhere = Others /\ [][MovedNext]_movedVars
-----------------------------------------------------------------------------
Everywhere == {Here} \cup {elsewhere[p] : p \in Places}

\* A landing whose commands ran in several repositories leaves each of them whole: a
\* ref never names an object of another repository, such as a merge commit
\* that was written before the rename (service.rs:295-352).
EachIsComplete == \A repo \in Everywhere : Complete(repo)

\* What was answered to have landed is in some repository, whichever of them the
\* commands ran in; no rename makes a landing promise what no branch has
\* (service.rs:284-357).
LandedSomewhere ==
    \A l \in Landers : LET a == landed[l] IN a # NoAnswer =>
        /\ a.sha \in Commits /\ a.commit \in Anc[a.sha]
        /\ \E repo \in Everywhere :
               repo.refs[a.branch] \in Commits /\ a.sha \in Anc[repo.refs[a.branch]]

\* No repository's branch is taken back by a landing that began in another one: the
\* compare-and-swap is on the branch of the repository it runs in
\* (service.rs:300-352).
ForwardInEach ==
    [][UNCHANGED elsewhere /\ Here # NoRepository =>
         \A b \in Heads : refs'[b] # refs[b] =>
             {refs[b], refs'[b]} \subseteq Commits /\ refs[b] \in Anc[refs'[b]]]_movedVars
=============================================================================
