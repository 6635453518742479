-------------------------- MODULE MergeChangeProofs --------------------------
(***************************************************************************)
(* Proofs about MergeChange, for every commit graph, every set of branches *)
(* and any number of concurrent calls.                                     *)
(***************************************************************************)
EXTENDS LandingRefinement, TLAPS

\* Branches hold commits, and the repository has their history.
StoreInv ==
    /\ StoreTypeOK
    /\ \A b \in Heads : refs[b] \notin NonCommits
    /\ RefsConnected
    /\ ObjsClosed
    /\ Readable

\* The tip a call read is still below the branch's tip, and was stored then.
TipBelow(l) ==
    land[l].tip # NoOid =>
        /\ land[l].tip \in Commits
        /\ Anc[land[l].tip] \subseteq objs
        /\ refs[land[l].branch] \in Commits
        /\ land[l].tip \in Anc[refs[land[l].branch]]

\* What the ancestry checks established about immutable commits stays true.
Judged(l) ==
    /\ land[l].pc \notin {"idle", "resolve", "contained"} =>
           land[l].commit \notin Anc[land[l].tip]
    /\ land[l].new # NoOid =>
           /\ land[l].commit \in Commits
           /\ land[l].tip \in Anc[land[l].new]
           /\ land[l].commit \in Anc[land[l].new]
           /\ \/ land[l].new = land[l].commit
              \/ land[l].new \in LandingMerges(land[l].tip, land[l].commit)
    /\ land[l].pc = "advanced" => land[l].new \in Anc[refs[land[l].branch]]

LandInv ==
    /\ StoreInv
    /\ LandTypeOK
    /\ \A l \in Landers : TipBelow(l) /\ Judged(l)
    /\ LandingsNeverLost
-----------------------------------------------------------------------------
\* The commit graph.

\* A commit is its own ancestor, and ancestors of ancestors are ancestors.
LEMMA AncBasics ==
    ASSUME NEW a \in Commits, NEW b \in Commits, a \in Anc[b]
    PROVE  a \in Anc[a] /\ Anc[a] \subseteq Anc[b] /\ Anc[b] \subseteq Commits
BY GraphAssumption

LEMMA AncSelf == ASSUME NEW c \in Commits PROVE c \in Anc[c] /\ Anc[c] \subseteq Commits
BY GraphAssumption

\* A merge made by commit-tree is above both its parents and nothing else.
LEMMA MergeAncestry ==
    ASSUME NEW t, NEW c, NEW m \in LandingMerges(t, c)
    PROVE  /\ {m, t, c} \subseteq Commits
           /\ t \in Anc[m] /\ c \in Anc[m]
           /\ Anc[m] = {m} \cup Anc[t] \cup Anc[c]
<1>1. m \in Commits /\ Parents[m] = <<t, c>>
  BY DEF LandingMerges
<1>2. Parents[m] \in Seq(Commits)
  BY <1>1, GraphAssumption
<1>3. t \in Commits /\ c \in Commits
  <2>1. Len(Parents[m]) = 2 /\ Parents[m][1] = t /\ Parents[m][2] = c
    BY <1>1
  <2> QED BY <2>1, <1>2
<1>4. DOMAIN Parents[m] = {1, 2}
  BY <1>1
<1>5. Anc[m] = {m} \cup UNION {Anc[Parents[m][i]] : i \in DOMAIN Parents[m]}
  BY <1>1, GraphAssumption
<1>6. Anc[m] = {m} \cup Anc[t] \cup Anc[c]
  BY <1>1, <1>4, <1>5
<1> QED BY <1>1, <1>3, <1>6, AncSelf
-----------------------------------------------------------------------------
\* The store only grows under MergeChange: branches move forward, no object goes.
Forward ==
    /\ objs \subseteq objs'
    /\ \A b \in Heads : refs[b] \in Commits =>
           refs'[b] \in Commits /\ refs[b] \in Anc[refs'[b]]

LEMMA ForwardKeeps ==
    ASSUME Forward, NEW b \in Heads, NEW c \in Commits,
           refs[b] \in Commits, c \in Anc[refs[b]]
    PROVE  refs'[b] \in Commits /\ c \in Anc[refs'[b]]
BY AncBasics DEF Forward

\* A call that did not move keeps what it knows.
LEMMA Bystander ==
    ASSUME LandInv, Forward, NEW k \in Landers, land'[k] = land[k]
    PROVE  TipBelow(k)' /\ Judged(k)'
<1>1. land[k].tip # NoOid => land[k].branch \in Heads
  BY DEF LandInv, LandTypeOK, NoCall
<1>2. TipBelow(k)'
  BY <1>1, ForwardKeeps DEF LandInv, TipBelow, Forward
<1>3. ASSUME land[k].pc = "advanced" PROVE land[k].new \in Anc[refs'[land[k].branch]]
  <2>1. /\ land[k].tip # NoOid /\ land[k].new \in Commits /\ land[k].branch \in Heads
    BY <1>3 DEF LandInv, LandTypeOK, NoCall
  <2>2. refs[land[k].branch] \in Commits /\ land[k].new \in Anc[refs[land[k].branch]]
    BY <1>3, <2>1 DEF LandInv, TipBelow, Judged
  <2> QED BY <2>1, <2>2, ForwardKeeps
<1>4. Judged(k)'
  BY <1>3 DEF LandInv, Judged
<1> QED BY <1>2, <1>4

\* So do the answers already sent.
LEMMA AnswersKept ==
    ASSUME LandInv, Forward, landed' = landed
    PROVE  LandingsNeverLost'
<1> SUFFICES ASSUME NEW l \in Landers, landed[l] # NoAnswer
             PROVE  /\ landed[l].sha \in Commits
                    /\ landed[l].commit \in Anc[landed[l].sha]
                    /\ refs'[landed[l].branch] \in Commits
                    /\ landed[l].sha \in Anc[refs'[landed[l].branch]]
  BY DEF LandingsNeverLost
<1>1. landed[l] \in Answers /\ landed[l].branch \in Heads
  BY DEF LandInv, LandTypeOK, Answers
<1> QED BY <1>1, ForwardKeeps DEF LandInv, LandingsNeverLost

\* Reading steps leave the store as it is.
LEMMA StoreStays ==
    ASSUME StoreInv, UNCHANGED storeVars
    PROVE  StoreInv' /\ Forward
BY AncSelf DEF StoreInv, StoreTypeOK, RefsConnected, ObjsClosed, History, storeVars, Forward, Refs, Readable

\* The local variables of a call in progress.
LEMMA Locals ==
    ASSUME LandTypeOK, NEW l \in Landers, ~At(l, "idle")
    PROVE  /\ land[l] \in [pc : LandPc, branch : Heads, commit : Objects,
                            tip : Objects \cup {NoOid}, new : Commits \cup {NoOid}]
           /\ land[l].tip = NoOid <=> land[l].pc = "resolve"
           /\ land[l].new # NoOid <=>
                  land[l].pc \in {"advance", "advanced", "refused", "orphaned"}
BY DEF LandTypeOK, At, NoCall

\* A call that is over knows nothing, and needs nothing.
LEMMA Ended ==
    ASSUME LandTypeOK, NEW l \in Landers, End(l)
    PROVE  /\ \A k \in Landers \ {l} : land'[k] = land[k]
           /\ land'[l] = NoCall
           /\ TipBelow(l)' /\ Judged(l)'
BY DEF LandTypeOK, End, NoCall, TipBelow, Judged

\* From one call to all of them.
LEMMA AllCalls ==
    ASSUME LandInv, Forward, NEW l \in Landers,
           \A k \in Landers \ {l} : land'[k] = land[k],
           TipBelow(l)', Judged(l)'
    PROVE  \A k \in Landers : TipBelow(k)' /\ Judged(k)'
BY Bystander

\* The compare-and-swap, whether or not the handler still waits for it: it moves
\* the branch, if at all, from the tip that was judged to a descendant of it.
LEMMA UpdateRefMoves ==
    ASSUME LandInv, NEW l \in Landers, land[l].pc \in {"advance", "orphaned"},
           UpdateRef(l), UNCHANGED <<objs, head>>
    PROVE  /\ StoreInv' /\ Forward
           /\ Swaps(l) =>
                  land[l].new \in Anc[refs'[land[l].branch]]
           /\ \A b \in Heads : refs'[b] # refs[b] =>
                  /\ {refs[b], refs'[b]} \subseteq Commits
                  /\ refs[b] \in Anc[refs'[b]]
<1> DEFINE b0 == land[l].branch
           new == land[l].new
           tip == land[l].tip
<1>1. /\ b0 \in Heads /\ new \in Commits /\ tip \in Commits
      /\ tip \in Anc[new]
  <2>1. ~At(l, "idle") /\ LandTypeOK
    BY DEF LandInv, At
  <2>2. b0 \in Heads /\ new \in Commits \cup {NoOid} /\ new # NoOid /\ tip # NoOid
    BY <2>1, Locals
  <2> QED BY <2>2 DEF LandInv, TipBelow, Judged
<1>2. CASE Swaps(l)
  <2>1. /\ refs' = [refs EXCEPT ![b0] = new]
        /\ refs[b0] = tip /\ new \in objs
    BY <1>2 DEF UpdateRef, Swaps, RefAccepts, SetRef
  <2>2. refs \in [Refs -> Objects \cup {NoOid}] /\ b0 \in Refs
    BY <1>1 DEF LandInv, StoreInv, StoreTypeOK, Refs
  <2>3. refs'[b0] = new /\ \A r \in Refs \ {b0} : refs'[r] = refs[r]
    BY <2>1, <2>2
  <2>4. Forward
    BY <1>1, <2>1, <2>3, AncSelf DEF Forward, Refs
  <2>5. StoreTypeOK'
    BY <1>1, <2>1, <2>2 DEF LandInv, StoreInv, StoreTypeOK, Objects
  <2>6. \A b \in Heads : refs'[b] \notin NonCommits
    BY <1>1, <2>3, GraphAssumption DEF LandInv, StoreInv, Refs
  <2>7. Anc[new] \subseteq objs
    BY <1>1, <2>1 DEF LandInv, StoreInv, ObjsClosed, History
  <2>8. RefsConnected'
    BY <1>1, <2>1, <2>3, <2>7 DEF LandInv, StoreInv, RefsConnected, History
  <2>9. ObjsClosed'
    BY DEF LandInv, StoreInv, ObjsClosed
  <2> QED BY <1>1, <2>1, <2>3, <2>4, <2>5, <2>6, <2>8, <2>9, AncSelf
        DEF LandInv, StoreInv, Refs, Readable
<1>3. CASE ~Swaps(l)
  <2>1. UNCHANGED storeVars
    BY <1>3 DEF UpdateRef, storeVars
  <2> QED BY <2>1, <1>3, StoreStays DEF LandInv, storeVars
<1> QED BY <1>2, <1>3
-----------------------------------------------------------------------------
\* One lemma per step of the handler.

\* A call that ends without a success.
LEMMA FailStep ==
    ASSUME LandInv, NEW l \in Landers, End(l), UNCHANGED landed, StoreInv', Forward
    PROVE  LandInv'
<1>1. LandTypeOK'
  BY DEF LandInv, LandTypeOK, End, NoCall, LandPc
<1>2. \A k \in Landers : TipBelow(k)' /\ Judged(k)'
  BY Ended, AllCalls DEF LandInv
<1>3. LandingsNeverLost'
  BY AnswersKept
<1> QED BY <1>1, <1>2, <1>3 DEF LandInv

\* A success, for a tip that the branch still contains.
LEMMA AnswerStep ==
    ASSUME LandInv, NEW l \in Landers, ~At(l, "idle"), NEW sha \in Commits,
           Answer(l, sha), UNCHANGED storeVars,
           land[l].commit \in Anc[sha],
           refs[land[l].branch] \in Commits, sha \in Anc[refs[land[l].branch]]
    PROVE  LandInv'
<1>1. StoreInv' /\ Forward /\ End(l)
  BY StoreStays DEF LandInv, Answer
<1>2. land[l].branch \in Heads /\ land[l].commit \in Objects
  BY Locals DEF LandInv
<1>3. /\ landed' \in [Landers -> Answers \cup {NoAnswer}]
      /\ landed'[l] = [branch |-> land[l].branch, commit |-> land[l].commit, sha |-> sha]
      /\ \A k \in Landers \ {l} : landed'[k] = landed[k]
  BY <1>2 DEF Answer, Answers, LandInv, LandTypeOK, Objects
<1>4. LandTypeOK'
  BY <1>1, <1>3 DEF LandInv, LandTypeOK, End, NoCall, LandPc
<1>5. \A k \in Landers : TipBelow(k)' /\ Judged(k)'
  BY <1>1, Ended, AllCalls DEF LandInv
<1>6. LandingsNeverLost'
  <2> SUFFICES ASSUME NEW k \in Landers, landed'[k] # NoAnswer
               PROVE  /\ landed'[k].sha \in Commits
                      /\ landed'[k].commit \in Anc[landed'[k].sha]
                      /\ refs[landed'[k].branch] \in Commits
                      /\ landed'[k].sha \in Anc[refs[landed'[k].branch]]
    BY DEF LandingsNeverLost, storeVars
  <2>1. CASE k = l
    BY <2>1, <1>3
  <2>2. CASE k # l
    BY <2>2, <1>3 DEF LandInv, LandingsNeverLost
  <2> QED BY <2>1, <2>2
<1> QED BY <1>1, <1>4, <1>5, <1>6 DEF LandInv

\* A step that goes on, having learned something.
LEMMA GoOnStep ==
    ASSUME LandInv, NEW l \in Landers, UNCHANGED landed, StoreInv', Forward, LandTypeOK',
           \A k \in Landers \ {l} : land'[k] = land[k],
           TipBelow(l)', Judged(l)'
    PROVE  LandInv'
BY AllCalls, AnswersKept DEF LandInv

LEMMA CallStep == ASSUME LandInv, NEW l \in Landers, Call(l) PROVE LandInv'
<1>1. PICK ask \in Ask[l] :
        land' = [land EXCEPT ![l] =
                   [NoCall EXCEPT !.pc = "resolve", !.branch = ask[1], !.commit = ask[2]]]
  BY DEF Call
<1>2. ask[1] \in Heads /\ ask[2] \in Objects
  BY AskAssumption
<1>3. /\ land'[l] = [pc |-> "resolve", branch |-> ask[1], commit |-> ask[2],
                     tip |-> NoOid, new |-> NoOid]
      /\ \A k \in Landers \ {l} : land'[k] = land[k]
  BY <1>1 DEF LandInv, LandTypeOK, NoCall
<1>4. LandTypeOK'
  BY <1>1, <1>2, <1>3 DEF LandInv, LandTypeOK, LandPc, NoCall, Call
<1>5. TipBelow(l)' /\ Judged(l)'
  BY <1>3 DEF TipBelow, Judged
<1> QED BY <1>3, <1>4, <1>5, StoreStays, GoOnStep DEF Call, LandInv, storeVars

LEMMA ResolveStep == ASSUME LandInv, NEW l \in Landers, Resolve(l) PROVE LandInv'
<1> DEFINE tip == refs[land[l].branch]
<1>1. StoreInv' /\ Forward
  BY StoreStays DEF Resolve, LandInv
<1>2. land[l].branch \in Heads /\ land[l].new = NoOid /\ land[l].pc = "resolve"
  BY Locals DEF Resolve, At, LandInv
<1>3. CASE tip = NoOid
  BY <1>1, <1>3, FailStep DEF Resolve, Fail
<1>4. CASE tip # NoOid
  <2>1. /\ land' = [land EXCEPT ![l].pc = "contained", ![l].tip = tip]
        /\ landed' = landed
    BY <1>4 DEF Resolve, LandInv, StoreInv
  <2>2. /\ tip \in Commits
        /\ Anc[tip] \subseteq objs
    BY <1>2, <1>4 DEF LandInv, StoreInv, StoreTypeOK, Refs, Objects, RefsConnected, History
  <2>3. LandTypeOK'
    BY <1>2, <1>4, <2>1, <2>2 DEF LandInv, LandTypeOK, LandPc, NoCall, Objects
  <2>4. /\ land'[l].pc = "contained" /\ land'[l].tip = tip /\ land'[l].new = NoOid
        /\ land'[l].branch = land[l].branch
        /\ \A k \in Landers \ {l} : land'[k] = land[k]
    BY <1>2, <2>1 DEF LandInv, LandTypeOK
  <2>5. TipBelow(l)' /\ Judged(l)'
    BY <2>2, <2>4, AncSelf DEF TipBelow, Judged, Resolve, storeVars
  <2> QED BY <1>1, <2>1, <2>3, <2>4, <2>5, GoOnStep
<1> QED BY <1>3, <1>4

\* Of a stored tip, an unsuccessful containment check proves non-containment.
LEMMA NotContained ==
    ASSUME Readable, NEW c, NEW t \in Commits, Anc[t] \subseteq objs, IsAncestor(objs, c, t) # "yes"
    PROVE  c \notin Anc[t]
<1> SUFFICES ASSUME c \in Anc[t] PROVE FALSE
  OBVIOUS
<1>1. c \in Commits /\ Anc[c] \subseteq Anc[t]
  BY GraphAssumption
<1> QED BY <1>1 DEF IsAncestor

LEMMA CheckContainedStep ==
    ASSUME LandInv, NEW l \in Landers, CheckContained(l) PROVE LandInv'
<1>1. StoreInv' /\ Forward
  BY StoreStays DEF CheckContained, LandInv
<1>2. /\ ~At(l, "idle") /\ land[l].pc = "contained"
      /\ land[l].branch \in Heads /\ land[l].tip # NoOid /\ land[l].new = NoOid
  BY Locals DEF CheckContained, At, LandInv
<1>3. /\ land[l].tip \in Commits /\ Anc[land[l].tip] \subseteq objs
      /\ refs[land[l].branch] \in Commits /\ land[l].tip \in Anc[refs[land[l].branch]]
  BY <1>2 DEF LandInv, TipBelow
<1>4. CASE IsAncestor(objs, land[l].commit, land[l].tip) = "yes"
  <2>1. land[l].commit \in Anc[land[l].tip]
    BY <1>4 DEF IsAncestor
  <2> QED BY <1>2, <1>3, <1>4, <2>1, AnswerStep DEF CheckContained
<1>5. CASE IsAncestor(objs, land[l].commit, land[l].tip) # "yes"
  <2>1. Goto(l, "fastForward") /\ landed' = landed
    BY <1>5 DEF CheckContained
  <2>2. /\ land'[l] = [land[l] EXCEPT !.pc = "fastForward"]
        /\ \A k \in Landers \ {l} : land'[k] = land[k]
    BY <2>1 DEF Goto, LandInv, LandTypeOK
  <2>3. LandTypeOK'
    BY <1>2, <2>1 DEF LandInv, LandTypeOK, LandPc, NoCall, Goto
  <2>4. land[l].commit \notin Anc[land[l].tip]
    BY <1>3, <1>5, NotContained DEF LandInv, StoreInv
  <2>5. /\ land'[l].pc = "fastForward" /\ land'[l].tip = land[l].tip
        /\ land'[l].branch = land[l].branch /\ land'[l].commit = land[l].commit
        /\ land'[l].new = NoOid
    BY <1>2, <2>2 DEF LandInv, LandTypeOK
  <2>6. TipBelow(l)' /\ Judged(l)'
    BY <1>3, <2>4, <2>5 DEF TipBelow, Judged, CheckContained, storeVars
  <2> QED BY <1>1, <2>1, <2>2, <2>3, <2>6, GoOnStep
<1> QED BY <1>4, <1>5

\* A tip that was below the branch's tip stays below it.
LEMMA TipStaysBelow ==
    ASSUME LandInv, Forward, NEW l \in Landers, ~At(l, "idle"), land[l].tip # NoOid
    PROVE  /\ land[l].tip \in Commits
           /\ Anc[land[l].tip] \subseteq objs'
           /\ refs'[land[l].branch] \in Commits
           /\ land[l].tip \in Anc[refs'[land[l].branch]]
BY Locals, ForwardKeeps DEF LandInv, TipBelow, Forward

LEMMA CheckFastForwardStep ==
    ASSUME LandInv, NEW l \in Landers, CheckFastForward(l) PROVE LandInv'
<1>1. StoreInv' /\ Forward
  BY StoreStays DEF CheckFastForward, LandInv, storeVars
<1>2. /\ ~At(l, "idle") /\ land[l].pc = "fastForward"
      /\ land[l].branch \in Heads /\ land[l].tip # NoOid /\ land[l].new = NoOid
  BY Locals DEF CheckFastForward, At, LandInv
<1>3. land[l].commit \notin Anc[land[l].tip]
  BY <1>2 DEF LandInv, Judged
<1>4. CASE IsAncestor(objs, land[l].tip, land[l].commit) = "yes"
  <2>1. land' = [land EXCEPT ![l].pc = "advance", ![l].new = land[l].commit]
    BY <1>4 DEF CheckFastForward
  <2>2. land[l].commit \in Commits /\ land[l].tip \in Anc[land[l].commit]
    BY <1>4 DEF IsAncestor
  <2>3. /\ land'[l].pc = "advance" /\ land'[l].tip = land[l].tip
        /\ land'[l].branch = land[l].branch /\ land'[l].commit = land[l].commit
        /\ land'[l].new = land[l].commit
        /\ \A k \in Landers \ {l} : land'[k] = land[k]
    BY <2>1 DEF LandInv, LandTypeOK
  <2>4. LandTypeOK'
    BY <1>2, <2>1, <2>2, GraphAssumption
    DEF LandInv, LandTypeOK, LandPc, NoCall, Objects, CheckFastForward
  <2>5. TipBelow(l)' /\ Judged(l)'
    BY <1>1, <1>2, <1>3, <2>2, <2>3, AncSelf, TipStaysBelow DEF TipBelow, Judged
  <2> QED BY <1>1, <2>3, <2>4, <2>5, GoOnStep DEF CheckFastForward
<1>5. CASE IsAncestor(objs, land[l].tip, land[l].commit) # "yes"
  <2>1. Goto(l, "tree")
    BY <1>5 DEF CheckFastForward
  <2>2. /\ land'[l].pc = "tree" /\ land'[l].tip = land[l].tip
        /\ land'[l].branch = land[l].branch /\ land'[l].commit = land[l].commit
        /\ land'[l].new = NoOid
        /\ \A k \in Landers \ {l} : land'[k] = land[k]
    BY <1>2, <2>1 DEF Goto, LandInv, LandTypeOK
  <2>3. LandTypeOK'
    BY <1>2, <2>1 DEF LandInv, LandTypeOK, LandPc, NoCall, Goto, CheckFastForward
  <2>4. TipBelow(l)' /\ Judged(l)'
    BY <1>1, <1>2, <1>3, <2>2, TipStaysBelow DEF TipBelow, Judged
  <2> QED BY <1>1, <2>2, <2>3, <2>4, GoOnStep DEF CheckFastForward
<1> QED BY <1>4, <1>5

LEMMA ReadTreeStep == ASSUME LandInv, NEW l \in Landers, ReadTree(l) PROVE LandInv'
<1>1. StoreInv' /\ Forward
  BY StoreStays DEF ReadTree, LandInv
<1>2. /\ ~At(l, "idle") /\ land[l].pc = "tree"
      /\ land[l].branch \in Heads /\ land[l].tip # NoOid /\ land[l].new = NoOid
  BY Locals DEF ReadTree, At, LandInv
<1>3. land[l].commit \notin Anc[land[l].tip]
  BY <1>2 DEF LandInv, Judged
<1>4. CASE land[l].commit \in objs
  <2>1. Goto(l, "commitTree") /\ landed' = landed
    BY <1>4 DEF ReadTree, LandInv, StoreInv
  <2>2. /\ land'[l].pc = "commitTree" /\ land'[l].tip = land[l].tip
        /\ land'[l].branch = land[l].branch /\ land'[l].commit = land[l].commit
        /\ land'[l].new = NoOid
        /\ \A k \in Landers \ {l} : land'[k] = land[k]
    BY <1>2, <2>1 DEF Goto, LandInv, LandTypeOK
  <2>3. LandTypeOK'
    BY <1>2, <2>1 DEF LandInv, LandTypeOK, LandPc, NoCall, Goto
  <2>4. TipBelow(l)' /\ Judged(l)'
    BY <1>1, <1>2, <1>3, <2>2, TipStaysBelow DEF TipBelow, Judged
  <2> QED BY <1>1, <2>1, <2>2, <2>3, <2>4, GoOnStep
<1>5. CASE land[l].commit \notin objs
  BY <1>1, <1>5, FailStep DEF ReadTree, Fail
<1> QED BY <1>4, <1>5

\* A merge commit of stored parents keeps the object database closed.
LEMMA MergeStored ==
    ASSUME LandInv, NEW t \in objs, NEW c \in objs, NEW m \in LandingMerges(t, c),
           objs' = objs \cup {m}, UNCHANGED <<refs, head>>
    PROVE  StoreInv' /\ Forward
<1>1. {m, t, c} \subseteq Commits /\ Anc[m] = {m} \cup Anc[t] \cup Anc[c]
  BY MergeAncestry
<1>2. Anc[t] \subseteq objs /\ Anc[c] \subseteq objs
  BY <1>1 DEF LandInv, StoreInv, ObjsClosed, History
<1>3. ObjsClosed'
  BY <1>1, <1>2 DEF LandInv, StoreInv, ObjsClosed, History
<1>4. RefsConnected'
  BY DEF LandInv, StoreInv, RefsConnected, History
<1>5. StoreTypeOK'
  BY <1>1 DEF LandInv, StoreInv, StoreTypeOK, Objects
<1> QED BY <1>3, <1>4, <1>5, AncSelf DEF LandInv, StoreInv, Forward, Readable

LEMMA CommitTreeStep == ASSUME LandInv, NEW l \in Landers, CommitTree(l) PROVE LandInv'
<1>1. /\ ~At(l, "idle") /\ land[l].pc = "commitTree"
      /\ land[l].branch \in Heads /\ land[l].tip # NoOid
      /\ land[l].commit \in objs /\ land[l].tip \in objs
  BY Locals DEF CommitTree, At, LandInv
<1>2. PICK m \in LandingMerges(land[l].tip, land[l].commit) :
        /\ objs' = objs \cup {m}
        /\ land' = [land EXCEPT ![l].pc = "advance", ![l].new = m]
  BY DEF CommitTree
<1>3. StoreInv' /\ Forward
  BY <1>1, <1>2, MergeStored DEF CommitTree
<1>4. /\ m \in Commits /\ m # NoOid /\ land[l].commit \in Commits
      /\ land[l].tip \in Anc[m] /\ land[l].commit \in Anc[m]
  BY MergeAncestry, GraphAssumption DEF Objects
<1>5. /\ land'[l].pc = "advance" /\ land'[l].tip = land[l].tip
      /\ land'[l].branch = land[l].branch /\ land'[l].commit = land[l].commit
      /\ land'[l].new = m
      /\ \A k \in Landers \ {l} : land'[k] = land[k]
  BY <1>2 DEF LandInv, LandTypeOK
<1>6. LandTypeOK'
  BY <1>1, <1>2, <1>4 DEF LandInv, LandTypeOK, LandPc, NoCall, CommitTree
<1>7. land[l].commit \notin Anc[land[l].tip]
  BY <1>1 DEF LandInv, Judged
<1>8. TipBelow(l)' /\ Judged(l)'
  BY <1>1, <1>3, <1>4, <1>5, <1>7, TipStaysBelow DEF TipBelow, Judged
<1> QED BY <1>3, <1>5, <1>6, <1>8, GoOnStep DEF CommitTree

LEMMA CommitTreeFailsStep ==
    ASSUME LandInv, NEW l \in Landers, CommitTreeFails(l) PROVE LandInv'
BY StoreStays, FailStep DEF CommitTreeFails, Fail, LandInv

LEMMA AdvanceStep == ASSUME LandInv, NEW l \in Landers, Advance(l) PROVE LandInv'
<1> DEFINE accepted == Swaps(l)
<1>1. /\ ~At(l, "idle") /\ land[l].pc = "advance"
      /\ land[l].branch \in Heads /\ land[l].tip # NoOid /\ land[l].new # NoOid
  BY Locals DEF Advance, At, LandInv
<1>2. /\ StoreInv' /\ Forward
      /\ accepted => land[l].new \in Anc[refs'[land[l].branch]]
  BY <1>1, UpdateRefMoves DEF Advance
<1>3. PICK pc \in {"advanced", "refused"} :
        Goto(l, pc) /\ (pc = "advanced" => accepted)
  BY DEF Advance
<1>4. /\ land'[l].pc = pc /\ land'[l].tip = land[l].tip
      /\ land'[l].branch = land[l].branch /\ land'[l].commit = land[l].commit
      /\ land'[l].new = land[l].new
      /\ \A k \in Landers \ {l} : land'[k] = land[k]
  BY <1>3 DEF Goto, LandInv, LandTypeOK
<1>5. LandTypeOK'
  BY <1>1, <1>3 DEF LandInv, LandTypeOK, LandPc, NoCall, Goto, Advance
<1>6. TipBelow(l)'
  BY <1>1, <1>2, <1>4, TipStaysBelow DEF TipBelow
<1>7. Judged(l)'
  BY <1>1, <1>2, <1>3, <1>4 DEF LandInv, Judged
<1> QED BY <1>2, <1>4, <1>5, <1>6, <1>7, GoOnStep DEF Advance

LEMMA ReplyStep == ASSUME LandInv, NEW l \in Landers, Reply(l) PROVE LandInv'
<1>1. CASE At(l, "advanced") /\ Answer(l, land[l].new)
  <2>1. /\ ~At(l, "idle") /\ land[l].branch \in Heads
        /\ land[l].tip # NoOid /\ land[l].new # NoOid /\ land[l].new \in Commits
    BY <1>1, Locals DEF At, LandInv
  <2>2. /\ land[l].commit \in Anc[land[l].new]
        /\ refs[land[l].branch] \in Commits
        /\ land[l].new \in Anc[refs[land[l].branch]]
    BY <1>1, <2>1 DEF LandInv, TipBelow, Judged, At
  <2> QED BY <1>1, <2>1, <2>2, AnswerStep DEF Reply
<1>2. CASE At(l, "refused") /\ Fail(l)
  BY <1>2, StoreStays, FailStep DEF Fail, Reply, LandInv
<1> QED BY <1>1, <1>2 DEF Reply

LEMMA CancelStep == ASSUME LandInv, NEW l \in Landers, Cancel(l) PROVE LandInv'
<1>1. StoreInv' /\ Forward
  <2>1. CASE UNCHANGED objs
    BY <2>1, StoreStays DEF Cancel, LandInv, storeVars
  <2>2. CASE \E m \in LandingMerges(land[l].tip, land[l].commit) :
               {land[l].tip, land[l].commit} \subseteq objs /\ objs' = objs \cup {m}
    BY <2>2, MergeStored DEF Cancel
  <2> QED BY <2>1, <2>2 DEF Cancel
<1>2. CASE At(l, "advance")
  <2>1. Goto(l, "orphaned")
    BY <1>2 DEF Cancel
  <2>2. /\ ~At(l, "idle") /\ land[l].pc = "advance"
        /\ land[l].branch \in Heads /\ land[l].tip # NoOid /\ land[l].new # NoOid
    BY <1>2, Locals DEF At, LandInv
  <2>3. /\ land'[l].pc = "orphaned" /\ land'[l].tip = land[l].tip
        /\ land'[l].branch = land[l].branch /\ land'[l].commit = land[l].commit
        /\ land'[l].new = land[l].new
        /\ \A k \in Landers \ {l} : land'[k] = land[k]
    BY <2>1 DEF Goto, LandInv, LandTypeOK
  <2>4. LandTypeOK'
    BY <2>1, <2>2 DEF LandInv, LandTypeOK, LandPc, NoCall, Goto, Cancel
  <2>5. TipBelow(l)' /\ Judged(l)'
    BY <1>1, <2>2, <2>3, TipStaysBelow DEF LandInv, TipBelow, Judged
  <2> QED BY <1>1, <2>3, <2>4, <2>5, GoOnStep DEF Cancel
<1>3. CASE ~At(l, "advance")
  BY <1>1, <1>3, FailStep DEF Cancel
<1> QED BY <1>2, <1>3

LEMMA OrphanAdvanceStep ==
    ASSUME LandInv, NEW l \in Landers, OrphanAdvance(l) PROVE LandInv'
BY UpdateRefMoves, FailStep DEF OrphanAdvance, At

LEMMA OrphanDiesStep ==
    ASSUME LandInv, NEW l \in Landers, OrphanDies(l) PROVE LandInv'
BY StoreStays, FailStep DEF OrphanDies, Fail, LandInv
-----------------------------------------------------------------------------
LEMMA LandInvInit == StoreInit /\ LandInit => LandInv
<1> SUFFICES ASSUME StoreInit, LandInit PROVE LandInv
  OBVIOUS
<1>1. StoreTypeOK
  BY InitAssumption, RefNamesAssumption DEF StoreInit, StoreTypeOK, HeadFor
<1>2. (\A b \in Heads : refs[b] \notin NonCommits) /\ ObjsClosed
  BY InitAssumption DEF StoreInit, ObjsClosed
<1>3. RefsConnected
  BY InitAssumption DEF StoreInit, RefsConnected, History
<1>4. LandTypeOK
  BY DEF LandInit, LandTypeOK, NoCall, LandPc
<1>5. \A l \in Landers : TipBelow(l) /\ Judged(l)
  BY DEF LandInit, NoCall, TipBelow, Judged
<1>6. LandingsNeverLost
  BY DEF LandInit, LandingsNeverLost
<1>7. Readable
  BY InitAssumption, RefNamesAssumption DEF StoreInit, HeadFor, Readable
<1> QED BY <1>1, <1>2, <1>3, <1>4, <1>5, <1>6, <1>7 DEF LandInv, StoreInv

LEMMA LandInvNext == LandInv /\ [LandNext]_<<storeVars, landVars>> => LandInv'
<1> SUFFICES ASSUME LandInv, [LandNext]_<<storeVars, landVars>> PROVE LandInv'
  OBVIOUS
<1>1. ASSUME NEW l \in Landers, LandStep(l) PROVE LandInv'
  BY <1>1, CallStep, ResolveStep, CheckContainedStep, CheckFastForwardStep, ReadTreeStep,
     CommitTreeStep, AdvanceStep, ReplyStep DEF LandStep
<1>2. ASSUME NEW l \in Landers,
             CommitTreeFails(l) \/ Cancel(l) \/ OrphanAdvance(l) \/ OrphanDies(l)
      PROVE  LandInv'
  BY <1>2, CommitTreeFailsStep, CancelStep, OrphanAdvanceStep, OrphanDiesStep
<1>3. CASE UNCHANGED <<storeVars, landVars>>
  <2>1. StoreInv' /\ Forward
    BY <1>3, StoreStays DEF LandInv
  <2>2. \A l \in Landers : TipBelow(l)' /\ Judged(l)'
    BY <1>3, <2>1, Bystander DEF landVars
  <2>3. LandingsNeverLost'
    BY <1>3, <2>1, AnswersKept DEF landVars
  <2> QED BY <1>3, <2>1, <2>2, <2>3 DEF LandInv, LandTypeOK, landVars
<1> QED BY <1>1, <1>2, <1>3 DEF LandNext

\* What the handlers know of the repository stays true whatever the others do
\* (service.rs:260-358).
THEOREM LandInvariant == LandSpec => []LandInv
BY LandInvInit, LandInvNext, PTL DEF LandSpec, LandStart

\* Type correctness of the repository and of the handlers' local variables.
THEOREM LandTypes == LandSpec => []LandTypeOK
<1>1. LandInv => LandTypeOK
  BY DEF LandInv
<1> QED BY <1>1, LandInvariant, PTL

\* A success that MergeChange answered is never lost (service.rs:284-357).
THEOREM LandingsAreNeverLost == LandSpec => []LandingsNeverLost
<1>1. LandInv => LandingsNeverLost
  BY DEF LandInv
<1> QED BY <1>1, LandInvariant, PTL
-----------------------------------------------------------------------------
\* What a step does to the refs and to the answers.

\* Only the compare-and-swap writes a ref.
LEMMA RefWriters ==
    ASSUME NEW l \in Landers,
           LandStep(l) \/ CommitTreeFails(l) \/ Cancel(l) \/ OrphanAdvance(l) \/ OrphanDies(l)
    PROVE  \/ UNCHANGED refs
           \/ /\ land[l].pc \in {"advance", "orphaned"}
              /\ UpdateRef(l) /\ UNCHANGED <<objs, head, landed>>
<1>1. CASE Advance(l) \/ OrphanAdvance(l)
  BY <1>1 DEF Advance, OrphanAdvance, At
<1>2. CASE ~Advance(l) /\ ~OrphanAdvance(l)
  BY <1>2 DEF LandStep, Call, Resolve, CheckContained, CheckFastForward, ReadTree, CommitTree,
              Reply, CommitTreeFails, Cancel, OrphanDies, storeVars
<1> QED BY <1>1, <1>2

\* A branch is only ever moved to a descendant of its tip (service.rs:295-352).
THEOREM LandingsFastForward == LandSpec => FastForwardOnly
<1> DEFINE Moves == \A b \in Heads : refs'[b] # refs[b] =>
                       /\ {refs[b], refs'[b]} \subseteq Commits
                       /\ refs[b] \in Anc[refs'[b]]
<1>1. LandInv /\ [LandNext]_<<storeVars, landVars>> => [Moves]_refs
  <2> SUFFICES ASSUME LandInv, LandNext, ~UNCHANGED refs PROVE Moves
    BY DEF storeVars
  <2>1. PICK l \in Landers :
          LandStep(l) \/ CommitTreeFails(l) \/ Cancel(l) \/ OrphanAdvance(l) \/ OrphanDies(l)
    BY DEF LandNext
  <2> QED BY <2>1, RefWriters, UpdateRefMoves
<1> QED BY <1>1, LandInvariant, PTL DEF LandSpec, LandStart, FastForwardOnly

\* The two steps of the abstract specification.
LEMMA UpdateRefLands ==
    ASSUME LandInv, NEW l \in Landers, land[l].pc \in {"advance", "orphaned"},
           UpdateRef(l), UNCHANGED landed
    PROVE  [Landing!Next]_<<refs, landed>>
<1> DEFINE b0 == land[l].branch
           c  == land[l].commit
<1>1. /\ b0 \in Heads /\ c \in Commits /\ land[l].tip \in Commits
      /\ c \notin Anc[land[l].tip]
      /\ land[l].tip \in Anc[land[l].new]
      /\ land[l].new = c \/ land[l].new \in LandingMerges(land[l].tip, c)
  BY Locals DEF LandInv, TipBelow, Judged, At
<1>2. CASE Swaps(l)
  <2>1. refs[b0] = land[l].tip /\ refs' = [refs EXCEPT ![b0] = land[l].new]
    BY <1>2 DEF UpdateRef, Swaps, RefAccepts, SetRef
  <2>2. Landing!Land(b0, c)
    BY <1>1, <2>1 DEF Landing!Land, Landing!LandingMerges, LandingMerges
  <2> QED BY <1>1, <2>2 DEF Landing!Next
<1>3. CASE ~Swaps(l)
  BY <1>3 DEF UpdateRef
<1> QED BY <1>2, <1>3

LEMMA AnswerPromises ==
    ASSUME LandInv, NEW l \in Landers, NEW sha \in Commits, Answer(l, sha), UNCHANGED refs,
           land[l].branch \in Heads, land[l].commit \in Anc[sha],
           refs[land[l].branch] \in Commits, sha \in Anc[refs[land[l].branch]]
    PROVE  Landing!Next
<1>1. land[l].commit \in Commits
  BY AncSelf
<1>2. Landing!Promise(l, land[l].branch, land[l].commit)
  BY DEF Landing!Promise, Answer
<1> QED BY <1>1, <1>2 DEF Landing!Next

LEMMA LandingStep ==
    LandInv /\ [LandNext]_<<storeVars, landVars>> => [Landing!Next]_<<refs, landed>>
<1> SUFFICES ASSUME LandInv, LandNext, ~UNCHANGED <<refs, landed>>
             PROVE  Landing!Next
  BY DEF storeVars, landVars
<1>1. PICK l \in Landers :
        LandStep(l) \/ CommitTreeFails(l) \/ Cancel(l) \/ OrphanAdvance(l) \/ OrphanDies(l)
  BY DEF LandNext
<1>2. CASE ~UNCHANGED refs
  BY <1>1, <1>2, RefWriters, UpdateRefLands
<1>3. CASE UNCHANGED refs
  <2>1. ~UNCHANGED landed
    BY <1>3
  <2>2. CASE CheckContained(l)
    <3>1. IsAncestor(objs, land[l].commit, land[l].tip) = "yes" /\ Answer(l, land[l].tip)
      BY <2>1, <2>2 DEF CheckContained
    <3>2. land[l].commit \in Anc[land[l].tip]
      BY <3>1 DEF IsAncestor
    <3>3. land[l].branch \in Heads /\ land[l].tip # NoOid
      BY <2>2, Locals DEF CheckContained, At, LandInv
    <3> QED BY <1>3, <3>1, <3>2, <3>3, AnswerPromises DEF LandInv, TipBelow
  <2>3. CASE Reply(l)
    <3>1. At(l, "advanced") /\ Answer(l, land[l].new)
      BY <2>1, <2>3 DEF Reply, Fail
    <3>2. /\ land[l].branch \in Heads /\ land[l].tip # NoOid
          /\ land[l].new # NoOid /\ land[l].new \in Commits
      BY <3>1, Locals DEF At, LandInv
    <3>3. /\ land[l].commit \in Anc[land[l].new] /\ refs[land[l].branch] \in Commits
          /\ land[l].new \in Anc[refs[land[l].branch]]
      BY <3>1, <3>2 DEF LandInv, TipBelow, Judged, At
    <3> QED BY <1>3, <3>1, <3>2, <3>3, AnswerPromises
  <2> QED
    BY <1>1, <2>1, <2>2, <2>3
    DEF LandStep, Call, Resolve, CheckFastForward, ReadTree, CommitTree, Advance, Fail,
        CommitTreeFails, Cancel, OrphanAdvance, OrphanDies, landVars
<1> QED BY <1>2, <1>3

\* The handler's six git commands, interleaved with everything else and cancelled
\* anywhere, implement one atomic landing (service.rs:260-264).
THEOREM LandingRefines == LandSpec => LandingIsAtomic
<1>1. StoreInit /\ LandInit => Landing!Init
  BY DEF StoreInit, LandInit, Landing!Init
<1> QED BY <1>1, LandingStep, LandInvariant, PTL DEF LandSpec, LandStart, LandingIsAtomic, Landing!Spec
-----------------------------------------------------------------------------
\* No change is merged twice.

\* A change brings no merge of its own that was not in the repository from the start: in
\* particular it is not what an earlier landing made.  (Landed on a second branch, that
\* would come on top of a merge of the same change there.)
ChangesBringNoMerges ==
    \A l \in Landers : \A ask \in Ask[l] :
        \A m \in History({ask[2]}) \ InitObjs : Len(Parents[m]) # 2

\* A call works for what was asked of it.
WasAsked(l) == land[l].pc # "idle" => <<land[l].branch, land[l].commit>> \in Ask[l]

MergedOnce(tip) ==
    \A m, n \in Anc[tip] \ InitObjs :
        (Len(Parents[m]) = 2 /\ Len(Parents[n]) = 2 /\ Parents[m][2] = Parents[n][2]) => m = n

OnceInv ==
    /\ LandInv
    /\ \A l \in Landers : WasAsked(l)
    /\ NoDoubleMerge

LEMMA OnceIsMergedOnce ==
    ASSUME StoreInv
    PROVE  NoDoubleMerge <=> \A b \in Heads : refs[b] # NoOid => MergedOnce(refs[b])
<1>1. ASSUME NEW b \in Heads, refs[b] # NoOid PROVE refs[b] \in Commits /\ History({refs[b]}) = Anc[refs[b]]
  <2>1. refs[b] \in Commits
    BY <1>1 DEF StoreInv, StoreTypeOK, Refs, Objects
  <2> QED BY <2>1 DEF History
<1>2. ASSUME NEW b \in Heads, refs[b] = NoOid PROVE History({refs[b]}) = {}
  BY <1>2, GraphAssumption DEF History, Objects
<1> QED BY <1>1, <1>2 DEF NoDoubleMerge, MergedOnce

\* A merge of a change that its tip does not contain is the only one of it: the tip's
\* history has none, and the change's own history no merge at all.
LEMMA MergeIsOnly ==
    ASSUME NEW t, NEW c, NEW m \in LandingMerges(t, c), c \notin Anc[t], MergedOnce(t),
           \A n \in Anc[c] \ InitObjs : Len(Parents[n]) # 2
    PROVE  MergedOnce(m)
<1>1. {m, t, c} \subseteq Commits /\ Anc[m] = {m} \cup Anc[t] \cup Anc[c]
  BY MergeAncestry
<1>2. Parents[m][2] = c
  BY DEF LandingMerges
<1>3. ASSUME NEW n \in Anc[t], Len(Parents[n]) = 2 PROVE Parents[n][2] # c
  <2>1. n \in Commits /\ Anc[n] \subseteq Anc[t]
    BY <1>1, GraphAssumption
  <2>2. Parents[n] \in Seq(Commits)
    BY <2>1, GraphAssumption
  <2>3. 2 \in DOMAIN Parents[n] /\ Parents[n][2] \in Commits
    BY <1>3, <2>2
  <2>4. Anc[Parents[n][2]] \subseteq Anc[n]
    BY <2>1, <2>3, GraphAssumption
  <2>5. Parents[n][2] \in Anc[t]
    BY <2>1, <2>3, <2>4, AncSelf
  <2> QED BY <2>5
<1>4. \A n \in Anc[m] \ InitObjs : Len(Parents[n]) = 2 => n = m \/ n \in Anc[t]
  BY <1>1
<1> QED BY <1>2, <1>3, <1>4 DEF MergedOnce

LEMMA SwapMergesOnce ==
    ASSUME ChangesBringNoMerges, OnceInv, StoreInv', NEW l \in Landers,
           land[l].pc \in {"advance", "orphaned"}, UpdateRef(l)
    PROVE  NoDoubleMerge'
<1> DEFINE tip == land[l].tip
           new == land[l].new
           commit == land[l].commit
           branch == land[l].branch
<1>1. /\ branch \in Heads /\ new \in Commits /\ tip # NoOid /\ commit \in Commits
      /\ commit \notin Anc[tip]
      /\ new = commit \/ new \in LandingMerges(tip, commit)
  BY Locals DEF OnceInv, LandInv, Judged, At
<1>2. \A n \in Anc[commit] \ InitObjs : Len(Parents[n]) # 2
  <2>1. <<branch, commit>> \in Ask[l]
    BY DEF OnceInv, WasAsked
  <2>2. \A m \in History({<<branch, commit>>[2]}) \ InitObjs : Len(Parents[m]) # 2
    BY <2>1 DEF ChangesBringNoMerges
  <2> QED BY <1>1, <2>2 DEF History
<1>3. \A b \in Heads : refs[b] # NoOid => MergedOnce(refs[b])
  BY OnceIsMergedOnce DEF OnceInv, LandInv
<1>4. \A b \in Heads : refs'[b] # NoOid => MergedOnce(refs'[b])
  <2>1. CASE ~Swaps(l)
    BY <1>3, <2>1 DEF UpdateRef
  <2>2. CASE Swaps(l)
    <3>1. refs[branch] = tip /\ refs' = [refs EXCEPT ![branch] = new]
      BY <2>2 DEF UpdateRef, Swaps, RefAccepts, SetRef
    <3>2. refs'[branch] = new /\ \A b \in Heads \ {branch} : refs'[b] = refs[b]
      BY <1>1, <3>1 DEF OnceInv, LandInv, StoreInv, StoreTypeOK, Refs
    <3>3. MergedOnce(new)
      <4>1. CASE new = commit
        BY <1>2, <4>1 DEF MergedOnce
      <4>2. CASE new \in LandingMerges(tip, commit)
        <5>1. MergedOnce(tip)
          BY <1>1, <1>3, <3>1
        <5> QED BY <1>1, <1>2, <4>2, <5>1, MergeIsOnly
      <4> QED BY <1>1, <4>1, <4>2
    <3> QED BY <1>3, <3>2, <3>3
  <2> QED BY <2>1, <2>2
<1>5. NoDoubleMerge' <=> \A b \in Heads : refs'[b] # NoOid => MergedOnce(refs'[b])
  <2>1. ASSUME NEW b \in Heads, refs'[b] # NoOid
        PROVE  refs'[b] \in Commits /\ History({refs'[b]}) = Anc[refs'[b]]
    <3>1. refs'[b] \in Commits
      BY <2>1 DEF StoreInv, StoreTypeOK, Refs, Objects
    <3> QED BY <3>1 DEF History
  <2>2. ASSUME NEW b \in Heads, refs'[b] = NoOid PROVE History({refs'[b]}) = {}
    BY <2>2, GraphAssumption DEF History, Objects
  <2> QED BY <2>1, <2>2 DEF NoDoubleMerge, MergedOnce
<1> QED BY <1>4, <1>5

LEMMA AskedStep ==
    ASSUME LandTypeOK, NEW l \in Landers, \A k \in Landers : WasAsked(k),
           LandStep(l) \/ CommitTreeFails(l) \/ Cancel(l) \/ OrphanAdvance(l) \/ OrphanDies(l)
    PROVE  \A k \in Landers : WasAsked(k)'
<1>1. /\ \A k \in Landers \ {l} : land'[k] = land[k]
      /\ \/ land'[l].pc = "idle"
         \/ land'[l].branch = land[l].branch /\ land'[l].commit = land[l].commit /\ land[l].pc # "idle"
         \/ \E ask \in Ask[l] : land'[l].branch = ask[1] /\ land'[l].commit = ask[2]
  <2>1. CASE Call(l)
    BY <2>1 DEF Call, LandTypeOK, NoCall
  <2>2. CASE End(l)
    BY <2>2 DEF End, LandTypeOK, NoCall
  <2>3. CASE land[l].pc # "idle" /\ \E pc, tip, new : land' = [land EXCEPT ![l].pc = pc, ![l].tip = tip, ![l].new = new]
    BY <2>3 DEF LandTypeOK
  <2>4. CASE land[l].pc # "idle" /\ \E pc : Goto(l, pc)
    BY <2>4 DEF LandTypeOK, Goto
  <2>5. CASE CommitTree(l) \/ Resolve(l) \/ CheckFastForward(l)
    BY <2>2, <2>4, <2>5 DEF LandTypeOK, CommitTree, Resolve, CheckFastForward, Fail, At
  <2> QED
    BY <2>1, <2>2, <2>4, <2>5
    DEF LandStep, CheckContained, ReadTree, Advance, Reply, CommitTreeFails, Cancel, OrphanAdvance,
        OrphanDies, Fail, Answer, At
<1>2. \A ask \in Ask[l] : <<ask[1], ask[2]>> = ask
  BY AskAssumption
<1> QED BY <1>1, <1>2 DEF WasAsked

LEMMA OnceInvInit == ASSUME LandStart PROVE OnceInv
<1>1. LandInv
  BY LandInvInit DEF LandStart
<1>2. \A l \in Landers : WasAsked(l)
  BY DEF LandStart, LandInit, NoCall, WasAsked
<1>3. ASSUME NEW b \in Heads PROVE History({refs[b]}) \subseteq InitObjs
  <2>1. refs[b] = InitRefs[b] /\ (refs[b] # NoOid => refs[b] \in InitObjs)
    BY InitAssumption DEF LandStart, StoreInit, Refs
  <2>2. NoOid \notin Commits
    BY GraphAssumption DEF Objects
  <2>3. \A c \in InitObjs \cap Commits : Anc[c] \subseteq InitObjs
    BY InitAssumption DEF History
  <2> QED BY <2>1, <2>2, <2>3 DEF History
<1>4. NoDoubleMerge
  BY <1>3 DEF NoDoubleMerge
<1> QED BY <1>1, <1>2, <1>4 DEF OnceInv

LEMMA OnceInvNext ==
    ASSUME ChangesBringNoMerges, OnceInv, [LandNext]_<<storeVars, landVars>> PROVE OnceInv'
<1>1. LandInv'
  BY LandInvNext DEF OnceInv
<1>2. CASE UNCHANGED <<storeVars, landVars>>
  BY <1>1, <1>2 DEF OnceInv, WasAsked, NoDoubleMerge, History, storeVars, landVars
<1>3. CASE LandNext
  <2>1. PICK l \in Landers :
          LandStep(l) \/ CommitTreeFails(l) \/ Cancel(l) \/ OrphanAdvance(l) \/ OrphanDies(l)
    BY <1>3 DEF LandNext
  <2>2. \A k \in Landers : WasAsked(k)'
    BY <2>1, AskedStep DEF OnceInv, LandInv
  <2>3. NoDoubleMerge'
    <3>1. CASE UNCHANGED refs
      BY <3>1 DEF OnceInv, NoDoubleMerge, History
    <3>2. CASE land[l].pc \in {"advance", "orphaned"} /\ UpdateRef(l)
      BY <1>1, <3>2, SwapMergesOnce DEF LandInv
    <3> QED BY <2>1, <3>1, <3>2, RefWriters
  <2> QED BY <1>1, <2>2, <2>3 DEF OnceInv
<1> QED BY <1>2, <1>3

\* However calls for the same change race and are repeated, a branch gets at most one
\* merge of it (service.rs:285, 350).
THEOREM ChangesMergeOnce == ASSUME ChangesBringNoMerges PROVE LandSpec => []NoDoubleMerge
<1>1. LandStart => OnceInv
  BY OnceInvInit
<1>2. OnceInv /\ [LandNext]_<<storeVars, landVars>> => OnceInv'
  BY OnceInvNext
<1>3. OnceInv => NoDoubleMerge
  BY DEF OnceInv
<1> QED BY <1>1, <1>2, <1>3, PTL DEF LandSpec
=============================================================================
