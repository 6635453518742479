----------------------------- MODULE MergeChange -----------------------------
(***************************************************************************)
(* The MergeChange RPC: land a change's commit onto a target branch.  The  *)
(* handler is one async function that runs six git commands one after the  *)
(* other and reads the repository afresh in each; between any two of them  *)
(* another handler may run, and at each await the call may be dropped by   *)
(* a client that went away.  A dropped call does not kill the git command  *)
(* it was waiting for.                                                     *)
(***************************************************************************)
EXTENDS RefStore

CONSTANTS
    Landers,  \* concurrent MergeChange calls
    Ask       \* lander -> the <<target branch, commit id>> pairs its caller sends

ASSUME AskAssumption == Ask \in [Landers -> SUBSET (Heads \X Objects)]

VARIABLES
    land,   \* what each call holds in its local variables
    landed  \* history: the last success answered to each caller

landVars == <<land, landed>>

LandPc == {"idle", "resolve", "contained", "fastForward", "advance", "tree",
           "commitTree", "advanced", "refused", "orphaned"}

\* What the caller sent and the sha it was answered.
Answers == [branch : Heads, commit : Objects, sha : Objects]
NoAnswer == [branch |-> NoRef, commit |-> NoOid, sha |-> NoOid]

NoCall == [pc |-> "idle", branch |-> NoRef, commit |-> NoOid, tip |-> NoOid, new |-> NoOid]

LandTypeOK ==
    /\ land \in [Landers -> [pc : LandPc, branch : Heads \cup {NoRef},
                             commit : Objects \cup {NoOid}, tip : Objects \cup {NoOid},
                             new : Commits \cup {NoOid}]]
    /\ \A l \in Landers :
           \/ land[l] = NoCall
           \/ /\ land[l].pc # "idle"
              /\ land[l].branch \in Heads
              /\ land[l].commit \in Objects
              /\ land[l].tip = NoOid <=> land[l].pc = "resolve"
              /\ land[l].new # NoOid <=>
                     land[l].pc \in {"advance", "advanced", "refused", "orphaned"}
    /\ landed \in [Landers -> Answers \cup {NoAnswer}]

LandInit ==
    /\ land = [l \in Landers |-> NoCall]
    /\ landed = [l \in Landers |-> NoAnswer]

\* The handler is about to run the git command that `pc` names.
At(l, pc) == land[l].pc = pc

Goto(l, pc) == land' = [land EXCEPT ![l].pc = pc]

\* The call is over, and its local variables are gone.
End(l) == land' = [land EXCEPT ![l] = NoCall]

\* The handler returns an error status: the call promises nothing.
Fail(l) == End(l) /\ UNCHANGED landed

\* The handler returns (sha, mode).
Answer(l, sha) ==
    /\ End(l)
    /\ landed' = [landed EXCEPT ![l] =
                    [branch |-> land[l].branch, commit |-> land[l].commit, sha |-> sha]]
-----------------------------------------------------------------------------
\* arbor-api sends the request, or sends it again after an error or no answer.
Call(l) ==
    /\ At(l, "idle")
    /\ \E ask \in Ask[l] :
         land' = [land EXCEPT ![l] =
                    [NoCall EXCEPT !.pc = "resolve", !.branch = ask[1], !.commit = ask[2]]]
    /\ UNCHANGED <<storeVars, landed>>

\* Mutant of Resolve: a missing branch is not reported, the handler goes on.
ResolveUnchecked(l) ==
    /\ At(l, "resolve")
    /\ land' = [land EXCEPT ![l].pc = "contained", ![l].tip = refs[land[l].branch]]
    /\ UNCHANGED <<storeVars, landed>>

\* Mutant of Resolve: the tip comes from a cache filled when the service started.
ResolveCached(l) ==
    /\ At(l, "resolve")
    /\ InitRefs[land[l].branch] # NoOid
    /\ land' = [land EXCEPT ![l].pc = "contained", ![l].tip = InitRefs[land[l].branch]]
    /\ UNCHANGED <<storeVars, landed>>

\* `git rev-parse --verify refs/heads/<target>`.
Resolve(l) ==
    /\ At(l, "resolve")
    /\ UNCHANGED storeVars
    /\ LET tip == refs[land[l].branch] IN
       IF tip = NoOid \/ ~Readable
       THEN Fail(l)
       ELSE /\ land' = [land EXCEPT ![l].pc = "contained", ![l].tip = tip]
            /\ UNCHANGED landed

\* Mutant of CheckContained: the already-merged shortcut is gone.
SkipContained(l) ==
    /\ At(l, "contained")
    /\ Goto(l, "fastForward")
    /\ UNCHANGED <<storeVars, landed>>

\* `git merge-base --is-ancestor <commit> <tip>`: already merged?
CheckContained(l) ==
    /\ At(l, "contained")
    /\ UNCHANGED storeVars
    /\ IF IsAncestor(objs, land[l].commit, land[l].tip) = "yes"
       THEN Answer(l, land[l].tip)
       ELSE Goto(l, "fastForward") /\ UNCHANGED landed

\* Mutant of CheckFastForward: every exit status but 0 counts as a fast-forward.
FastForwardAlways(l) ==
    /\ At(l, "fastForward")
    /\ land' = [land EXCEPT ![l].pc = "advance", ![l].new = land[l].commit]
    /\ land[l].commit \in Commits
    /\ UNCHANGED <<storeVars, landed>>

\* `git merge-base --is-ancestor <tip> <commit>`: does the change build on the tip?
CheckFastForward(l) ==
    /\ At(l, "fastForward")
    /\ UNCHANGED <<storeVars, landed>>
    /\ IF IsAncestor(objs, land[l].tip, land[l].commit) = "yes"
       THEN land' = [land EXCEPT ![l].pc = "advance", ![l].new = land[l].commit]
       ELSE Goto(l, "tree")

\* `git rev-parse --verify <commit>^{tree}`.
ReadTree(l) ==
    /\ At(l, "tree")
    /\ UNCHANGED storeVars
    /\ IF Readable /\ land[l].commit \in objs THEN Goto(l, "commitTree") /\ UNCHANGED landed ELSE Fail(l)

\* `git commit-tree` writes the merge commit; no ref names it yet.
CommitTree(l) ==
    /\ At(l, "commitTree")
    /\ Readable /\ {land[l].tip, land[l].commit} \subseteq objs
    /\ \E m \in LandingMerges(land[l].tip, land[l].commit) :
         /\ objs' = objs \cup {m}
         /\ land' = [land EXCEPT ![l].pc = "advance", ![l].new = m]
    /\ UNCHANGED <<refs, head, landed>>

\* commit-tree refuses a parent that is not a commit; it can also fail by itself.
CommitTreeFails(l) ==
    /\ At(l, "commitTree")
    /\ Fail(l)
    /\ UNCHANGED storeVars

\* Mutant of UpdateRef: `git update-ref <ref> <new>`, without the old value.
UpdateRefBlindly(l) ==
    IF land[l].new \in objs THEN SetRef(land[l].branch, land[l].new) ELSE UNCHANGED refs

\* Mutant of UpdateRef: the ref file is written without a look at the object database.
UpdateRefUnchecked(l) ==
    IF Readable /\ refs[land[l].branch] = land[l].tip
    THEN SetRef(land[l].branch, land[l].new) ELSE UNCHANGED refs

\* The update-ref process compares the branch with the tip the handler read
\* first of all, and swaps it.
Swaps(l) == Readable /\ RefAccepts(land[l].branch, land[l].new, land[l].tip)

UpdateRef(l) == IF Swaps(l) THEN SetRef(land[l].branch, land[l].new) ELSE UNCHANGED refs

Advance(l) ==
    /\ At(l, "advance")
    /\ UpdateRef(l)
    /\ Goto(l, IF Swaps(l) THEN "advanced" ELSE "refused")
    /\ UNCHANGED <<objs, head, landed>>

\* Mutant of Reply: the exit status of update-ref is not looked at.
ReplyUnchecked(l) ==
    /\ UNCHANGED storeVars
    /\ At(l, "advanced") \/ At(l, "refused")
    /\ Answer(l, land[l].new)

\* The handler is woken with update-ref's exit status.
Reply(l) ==
    /\ UNCHANGED storeVars
    /\ \/ At(l, "advanced") /\ Answer(l, land[l].new)
       \/ At(l, "refused") /\ Fail(l)
-----------------------------------------------------------------------------
\* The client goes away and tonic drops the handler at its await.  A commit-tree
\* or update-ref that was started still runs; nobody reads its exit status.
Cancel(l) ==
    /\ ~At(l, "idle") /\ ~At(l, "orphaned")
    /\ IF At(l, "advance") THEN Goto(l, "orphaned") ELSE End(l)
    /\ \/ UNCHANGED objs
       \/ /\ At(l, "commitTree")
          /\ Readable /\ {land[l].tip, land[l].commit} \subseteq objs
          /\ \E m \in LandingMerges(land[l].tip, land[l].commit) : objs' = objs \cup {m}
    /\ UNCHANGED <<refs, head, landed>>

\* The orphaned update-ref runs after all...
OrphanAdvance(l) ==
    /\ At(l, "orphaned")
    /\ UpdateRef(l)
    /\ End(l)
    /\ UNCHANGED <<objs, head, landed>>

\* ...or dies with the service.
OrphanDies(l) == At(l, "orphaned") /\ Fail(l) /\ UNCHANGED storeVars

\* The steps of a call whose client waits and whose git commands work.
LandStep(l) ==
    \/ Call(l) \/ Resolve(l) \/ CheckContained(l) \/ CheckFastForward(l)
    \/ ReadTree(l) \/ CommitTree(l) \/ Advance(l) \/ Reply(l)

LandNext ==
    \E l \in Landers :
        LandStep(l) \/ CommitTreeFails(l) \/ Cancel(l) \/ OrphanAdvance(l) \/ OrphanDies(l)

\* Landing on its own repository.
LandStart == StoreInit /\ LandInit

LandSpec == LandStart /\ [][LandNext]_<<storeVars, landVars>>

\* Clients stay connected, git works, and the caller asks again until it is
\* answered: tokio then runs each call to its end.
LandFairSpec ==
    /\ LandStart /\ [][\E l \in Landers : LandStep(l)]_<<storeVars, landVars>>
    /\ \A l \in Landers : WF_<<storeVars, landVars>>(LandStep(l))
-----------------------------------------------------------------------------
\* A success answered to arbor-api is never lost: whatever was raced, cancelled
\* or retried since, the target still contains the tip that was answered, and
\* that tip contains the change (service.rs:284-357).
LandingsNeverLost ==
    \A l \in Landers : LET a == landed[l] IN a # NoAnswer =>
        /\ a.sha \in Commits
        /\ a.commit \in Anc[a.sha]
        /\ refs[a.branch] \in Commits
        /\ a.sha \in Anc[refs[a.branch]]

\* No change is merged into a target twice: a retry after a lost answer, or two
\* calls racing with the same change, leaves at most one merge commit of it in
\* the target's history (the containment check at service.rs:285 together with
\* the compare-and-swap at service.rs:350).
NoDoubleMerge ==
    \A b \in Heads : \A m, n \in History({refs[b]}) \ InitObjs :
        (Len(Parents[m]) = 2 /\ Len(Parents[n]) = 2 /\ Parents[m][2] = Parents[n][2]) => m = n

\* The handlers only ever move a branch forward, to a descendant of the tip
\* they replace, however stale the checks they did before (service.rs:295-352).
FastForwardOnly ==
    [][\A b \in Heads : refs'[b] # refs[b] =>
           /\ {refs[b], refs'[b]} \subseteq Commits
           /\ refs[b] \in Anc[refs'[b]]]_refs

\* However the calls collide, each caller that asks again after "failed to
\* advance the target branch" lands its change in the end: a lost race means
\* that another change landed (service.rs:300-356).
EveryChangeLands ==
    \A l \in Landers : \A ask \in Ask[l] :
        <>(refs[ask[1]] \in Commits /\ ask[2] \in Anc[refs[ask[1]]])
=============================================================================
