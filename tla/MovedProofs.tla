------------------------------ MODULE MovedProofs ------------------------------
(***************************************************************************)
(* Proofs about MovedRepository, for any repositories, names and calls.     *)
(***************************************************************************)
EXTENDS MovedRepository, MergeChangeProofs

Sound(repo) ==
    repo \in Repositories /\ Complete(repo) /\ History(repo.objs) \subseteq repo.objs

\* Some repository has commit c in its branch b.
Held(b, c) == \E repo \in Everywhere : repo.refs[b] \in Commits /\ c \in Anc[repo.refs[b]]

\* What a call established about immutable commits, whichever repositories it asked;
\* and what it is going to answer is in one of them.
Known(l) ==
    /\ land[l].tip \in Commits => Held(land[l].branch, land[l].tip)
    /\ land[l].new # NoOid =>
           /\ {land[l].tip, land[l].commit} \subseteq Commits
           /\ land[l].tip \in Anc[land[l].new]
           /\ land[l].commit \in Anc[land[l].new]
    /\ land[l].pc = "advanced" => Held(land[l].branch, land[l].new)

MovedInv ==
    /\ LandTypeOK
    /\ Sound(Here) /\ \A p \in Places : Sound(elsewhere[p])
    /\ DOMAIN elsewhere = Places /\ elsewhere = [p \in Places |-> elsewhere[p]]
    /\ \A l \in Landers : Known(l)
    /\ LandedSomewhere
-----------------------------------------------------------------------------
\* What is in some repository stays in one.
HeldNext(b, c) == \E repo \in Everywhere' : repo.refs[b] \in Commits /\ c \in Anc[repo.refs[b]]
Keeps == \A b \in Heads, c \in Commits : Held(b, c) => HeldNext(b, c)

\* A landing's step goes on in the repository of this name, and moves it forward.
MovesHere ==
    /\ UNCHANGED elsewhere /\ Sound(Here)'
    /\ \A b \in Heads : refs[b] \in Commits => refs'[b] \in Commits /\ refs[b] \in Anc[refs'[b]]

LEMMA MovesHereKeeps == ASSUME MovesHere PROVE Keeps
<1> SUFFICES ASSUME NEW b \in Heads, NEW c \in Commits, Held(b, c) PROVE HeldNext(b, c)
  BY DEF Keeps
<1>1. PICK repo \in Everywhere : repo.refs[b] \in Commits /\ c \in Anc[repo.refs[b]]
  BY DEF Held
<1>2. CASE repo = Here
  <2>1. refs[b] \in Commits /\ c \in Anc[refs[b]]
    BY <1>1, <1>2 DEF Here
  <2>2. refs'[b] \in Commits /\ refs[b] \in Anc[refs'[b]]
    BY <2>1 DEF MovesHere
  <2>3. c \in Anc[refs'[b]]
    BY <2>1, <2>2, AncBasics
  <2>4. Here' \in Everywhere' /\ Here'.refs = refs'
    BY DEF Everywhere, Here
  <2> QED BY <2>2, <2>3, <2>4 DEF HeldNext
<1>3. CASE \E p \in Places : repo = elsewhere[p]
  <2>1. repo \in Everywhere'
    BY <1>3 DEF Everywhere, MovesHere
  <2> QED BY <1>1, <2>1 DEF HeldNext
<1> QED BY <1>1, <1>2, <1>3 DEF Everywhere

\* A call that did not move keeps what it knows; so does an answer already sent.
LEMMA KnownStays ==
    ASSUME MovedInv, Keeps, NEW k \in Landers, land'[k] = land[k]
    PROVE  Known(k)'
<1>1. land[k].tip \in Commits \/ land[k].new # NoOid => land[k].branch \in Heads
  BY GraphAssumption DEF MovedInv, LandTypeOK, NoCall, Objects
<1>2. land[k].pc = "advanced" => land[k].new \in Commits /\ land[k].new # NoOid
  BY DEF MovedInv, LandTypeOK, NoCall
<1> QED BY <1>1, <1>2 DEF MovedInv, Known, Keeps, Held, HeldNext

LEMMA LandedStays ==
    ASSUME MovedInv, Keeps, landed' = landed
    PROVE  LandedSomewhere'
<1> SUFFICES ASSUME NEW l \in Landers, landed[l] # NoAnswer
             PROVE  /\ landed[l].sha \in Commits /\ landed[l].commit \in Anc[landed[l].sha]
                    /\ HeldNext(landed[l].branch, landed[l].sha)
  BY DEF LandedSomewhere, HeldNext
<1>1. landed[l].branch \in Heads
  BY DEF MovedInv, LandTypeOK, Answers
<1>2. /\ landed[l].sha \in Commits /\ landed[l].commit \in Anc[landed[l].sha]
      /\ Held(landed[l].branch, landed[l].sha)
  BY DEF MovedInv, LandedSomewhere, Held
<1> QED BY <1>1, <1>2 DEF Keeps

LEMMA Stays == ASSUME MovedInv, UNCHANGED <<storeVars, elsewhere>> PROVE MovesHere
<1>1. Here' = Here
  BY DEF Here, storeVars
<1>2. Sound(Here)'
  BY <1>1 DEF MovedInv, Sound, Complete
<1> QED BY <1>2, AncSelf DEF MovesHere, storeVars

\* The three ways a step of a call can go: it goes on, it ends with nothing answered, or
\* it answers a commit that some repository has.
LEMMA GoesOn ==
    ASSUME MovedInv, MovesHere, NEW l \in Landers, LandTypeOK', landed' = landed,
           \A k \in Landers \ {l} : land'[k] = land[k],
           NEW b, land'[l].branch = b, NEW tip, land'[l].tip = tip, NEW new, land'[l].new = new,
           tip \in Commits => HeldNext(b, tip),
           new # NoOid => {tip, land'[l].commit} \subseteq Commits
                          /\ {tip, land'[l].commit} \subseteq Anc[new],
           land'[l].pc = "advanced" => HeldNext(b, new)
    PROVE  MovedInv'
<1>1. Keeps
  BY MovesHereKeeps
<1>2. Known(l)'
  BY DEF Known, Held, HeldNext
<1>3. \A k \in Landers : Known(k)'
  BY <1>1, <1>2, KnownStays
<1>4. LandedSomewhere'
  BY <1>1, LandedStays
<1> QED BY <1>3, <1>4 DEF MovedInv, MovesHere, Sound, Complete

LEMMA Ends ==
    ASSUME MovedInv, MovesHere, NEW l \in Landers, End(l), landed' = landed
    PROVE  MovedInv'
<1>1. LandTypeOK' /\ land'[l] = NoCall /\ \A k \in Landers \ {l} : land'[k] = land[k]
  BY DEF MovedInv, LandTypeOK, End, NoCall, LandPc
<1>2. Keeps
  BY MovesHereKeeps
<1>3. Known(l)'
  BY <1>1, GraphAssumption DEF Known, NoCall, Objects
<1>4. (\A k \in Landers : Known(k)') /\ LandedSomewhere'
  BY <1>1, <1>2, <1>3, KnownStays, LandedStays
<1> QED BY <1>1, <1>4 DEF MovedInv, MovesHere, Sound, Complete

LEMMA AnswersCall ==
    ASSUME MovedInv, NEW l \in Landers, ~At(l, "idle"), NEW sha \in Commits, Answer(l, sha),
           UNCHANGED <<storeVars, elsewhere>>, land[l].commit \in Anc[sha], Held(land[l].branch, sha)
    PROVE  MovedInv'
<1>1. land[l].branch \in Heads /\ land[l].commit \in Objects
  BY Locals DEF MovedInv
<1>2. MovesHere /\ Keeps
  BY Stays, MovesHereKeeps
<1>3. /\ landed' \in [Landers -> Answers \cup {NoAnswer}]
      /\ landed'[l] = [branch |-> land[l].branch, commit |-> land[l].commit, sha |-> sha]
      /\ \A k \in Landers \ {l} : landed'[k] = landed[k]
  BY <1>1 DEF Answer, Answers, MovedInv, LandTypeOK, Objects
<1>4. LandTypeOK' /\ land'[l] = NoCall /\ \A k \in Landers \ {l} : land'[k] = land[k]
  BY <1>3 DEF Answer, MovedInv, LandTypeOK, End, NoCall, LandPc
<1>5. \A k \in Landers : Known(k)'
  <2>1. Known(l)'
    BY <1>4, GraphAssumption DEF Known, NoCall, Objects
  <2> QED BY <1>2, <1>4, <2>1, KnownStays
<1>6. LandedSomewhere'
  <2> SUFFICES ASSUME NEW k \in Landers, landed'[k] # NoAnswer
               PROVE  /\ landed'[k].sha \in Commits /\ landed'[k].commit \in Anc[landed'[k].sha]
                      /\ HeldNext(landed'[k].branch, landed'[k].sha)
    BY DEF LandedSomewhere, HeldNext
  <2>1. CASE k = l
    BY <1>1, <1>2, <1>3, <2>1 DEF Keeps
  <2>2. CASE k # l
    <3>1. landed'[k] = landed[k] /\ landed[k].branch \in Heads
      BY <1>3, <2>2 DEF MovedInv, LandTypeOK, Answers
    <3>2. /\ landed[k].sha \in Commits /\ landed[k].commit \in Anc[landed[k].sha]
          /\ Held(landed[k].branch, landed[k].sha)
      BY <3>1 DEF MovedInv, LandedSomewhere, Held
    <3> QED BY <1>2, <3>1, <3>2 DEF Keeps
  <2> QED BY <2>1, <2>2
<1> QED BY <1>2, <1>4, <1>5, <1>6 DEF MovedInv, MovesHere, Sound, Complete
-----------------------------------------------------------------------------
\* What the git commands do to the repository they run in.

LEMMA SoundHere == Sound(Here) <=>
    /\ objs \subseteq Objects /\ refs \in [Refs -> Objects \cup {NoOid}]
    /\ head \in [ref : Heads \cup {NoRef}, len : Nat]
    /\ RefsConnected /\ ObjsClosed
BY DEF Sound, Here, Repositories, Complete, RefsConnected, ObjsClosed

LEMMA SoundHereNext == Sound(Here)' <=>
    /\ objs' \subseteq Objects /\ refs' \in [Refs -> Objects \cup {NoOid}]
    /\ head' \in [ref : Heads \cup {NoRef}, len : Nat]
    /\ RefsConnected' /\ ObjsClosed'
BY DEF Sound, Here, Repositories, Complete, RefsConnected, ObjsClosed

\* The compare-and-swap, in whichever repository it runs: the swapped branch is that of
\* the tip that was judged, wherever that was.
LEMMA SwapsForward ==
    ASSUME MovedInv, NEW l \in Landers, land[l].pc \in {"advance", "orphaned"},
           UpdateRef(l), UNCHANGED <<objs, head, elsewhere>>
    PROVE  /\ MovesHere
           /\ Swaps(l) => HeldNext(land[l].branch, land[l].new)
           /\ \A b \in Heads : refs'[b] # refs[b] =>
                  {refs[b], refs'[b]} \subseteq Commits /\ refs[b] \in Anc[refs'[b]]
<1> DEFINE b0 == land[l].branch
           new == land[l].new
<1>1. /\ ~At(l, "idle") /\ b0 \in Heads /\ new \in Commits /\ land[l].tip \in Commits
      /\ land[l].tip \in Anc[new]
  <2>1. ~At(l, "idle") /\ LandTypeOK
    BY DEF At, MovedInv
  <2>2. b0 \in Heads /\ new \in Commits \cup {NoOid} /\ new # NoOid
    BY <2>1, Locals
  <2> QED BY <2>1, <2>2 DEF MovedInv, Known
<1>2. Sound(Here)
  BY DEF MovedInv
<1>3. CASE Swaps(l)
  <2>1. refs' = [refs EXCEPT ![b0] = new] /\ refs[b0] = land[l].tip /\ new \in objs
    BY <1>3 DEF UpdateRef, Swaps, RefAccepts, SetRef
  <2>2. refs \in [Refs -> Objects \cup {NoOid}] /\ b0 \in Refs
    BY <1>1, <1>2, SoundHere DEF Refs
  <2>3. refs'[b0] = new /\ \A r \in Refs \ {b0} : refs'[r] = refs[r]
    BY <2>1, <2>2
  <2>4. Anc[new] \subseteq objs
    BY <1>1, <1>2, <2>1, SoundHere DEF ObjsClosed, History
  <2>5. RefsConnected' /\ ObjsClosed'
    BY <1>1, <1>2, <2>1, <2>3, <2>4, SoundHere DEF RefsConnected, ObjsClosed, History
  <2>6. Sound(Here)'
    BY <1>1, <1>2, <2>1, <2>2, <2>5, SoundHere, SoundHereNext DEF Objects
  <2>7. MovesHere
    BY <1>1, <2>1, <2>3, <2>6, AncSelf DEF MovesHere, Refs
  <2>8. Here' \in Everywhere' /\ Here'.refs = refs'
    BY DEF Everywhere, Here
  <2>9. HeldNext(b0, new)
    BY <1>1, <2>3, <2>8, AncSelf DEF HeldNext
  <2> QED BY <1>1, <2>1, <2>3, <2>7, <2>9 DEF Refs
<1>4. CASE ~Swaps(l)
  BY <1>4, Stays DEF UpdateRef, storeVars
<1> QED BY <1>3, <1>4

\* A merge commit of two stored parents keeps the object database closed.
LEMMA MergeStoredHere ==
    ASSUME MovedInv, NEW t \in objs, NEW c \in objs, NEW m \in LandingMerges(t, c),
           objs' = objs \cup {m}, UNCHANGED <<refs, head, elsewhere>>
    PROVE  MovesHere
<1>1. {m, t, c} \subseteq Commits /\ Anc[m] = {m} \cup Anc[t] \cup Anc[c]
  BY MergeAncestry
<1>2. Sound(Here)
  BY DEF MovedInv
<1>3. Anc[t] \subseteq objs /\ Anc[c] \subseteq objs
  BY <1>1, <1>2, SoundHere DEF ObjsClosed, History
<1>4. ObjsClosed' /\ RefsConnected'
  BY <1>1, <1>2, <1>3, SoundHere DEF ObjsClosed, RefsConnected, History
<1>5. Sound(Here)'
  BY <1>1, <1>2, <1>4, SoundHere, SoundHereNext DEF Objects
<1> QED BY <1>5, AncSelf DEF MovesHere
-----------------------------------------------------------------------------
\* One lemma per step of the handler.

LEMMA MovedCall ==
    ASSUME MovedInv, NEW l \in Landers, Call(l), UNCHANGED elsewhere PROVE MovedInv'
<1>1. PICK ask \in Ask[l] :
        land' = [land EXCEPT ![l] =
                   [NoCall EXCEPT !.pc = "resolve", !.branch = ask[1], !.commit = ask[2]]]
  BY DEF Call
<1>2. ask[1] \in Heads /\ ask[2] \in Objects
  BY AskAssumption
<1>3. /\ land'[l] = [pc |-> "resolve", branch |-> ask[1], commit |-> ask[2],
                     tip |-> NoOid, new |-> NoOid]
      /\ \A k \in Landers \ {l} : land'[k] = land[k]
  BY <1>1 DEF MovedInv, LandTypeOK, NoCall
<1>4. LandTypeOK'
  BY <1>1, <1>2, <1>3 DEF MovedInv, LandTypeOK, LandPc, NoCall, Call
<1>5. MovesHere /\ Keeps
  BY Stays, MovesHereKeeps DEF Call
<1>6. Known(l)'
  BY <1>3, GraphAssumption DEF Known, Objects
<1>7. (\A k \in Landers : Known(k)') /\ LandedSomewhere'
  BY <1>3, <1>5, <1>6, KnownStays, LandedStays DEF Call
<1> QED BY <1>4, <1>5, <1>7 DEF MovedInv, MovesHere, Sound, Complete

LEMMA MovedResolve ==
    ASSUME MovedInv, NEW l \in Landers, Resolve(l), UNCHANGED elsewhere PROVE MovedInv'
<1>1. MovesHere
  BY Stays DEF Resolve
<1>2. land[l].pc = "resolve" /\ land[l].branch \in Heads /\ land[l].new = NoOid
  BY Locals DEF Resolve, At, MovedInv
<1>3. CASE Fail(l)
  BY <1>1, <1>3, Ends DEF Fail
<1>4. CASE ~Fail(l)
  <2>1. PICK tip \in Objects \cup {NoOid} : tip = refs[land[l].branch]
    BY <1>2, SoundHere DEF MovedInv, Refs
  <2>2. /\ tip # NoOid /\ landed' = landed
        /\ land' = [land EXCEPT ![l].pc = "contained", ![l].tip = tip]
    BY <1>4, <2>1 DEF Resolve
  <2>3. LandTypeOK'
    BY <1>2, <2>1, <2>2 DEF MovedInv, LandTypeOK, LandPc, NoCall, Objects
  <2>4. /\ land'[l].pc = "contained" /\ land'[l].tip = tip /\ land'[l].new = NoOid
        /\ land'[l].branch = land[l].branch /\ \A k \in Landers \ {l} : land'[k] = land[k]
    BY <1>2, <2>2 DEF MovedInv, LandTypeOK
  <2>5. tip \in Commits => HeldNext(land[l].branch, tip)
    <3>1. Here' \in Everywhere' /\ Here'.refs = refs'
      BY DEF Everywhere, Here
    <3> QED BY <2>1, <3>1, AncSelf DEF HeldNext, Resolve, storeVars
  <2> QED BY <1>1, <2>2, <2>3, <2>4, <2>5, GoesOn
<1> QED BY <1>3, <1>4

\* What a call in progress at a step after the first has.
LEMMA LocalsMoved ==
    ASSUME MovedInv, NEW l \in Landers, land[l].pc \notin {"idle", "resolve"}
    PROVE  /\ ~At(l, "idle") /\ land[l].branch \in Heads /\ land[l].tip # NoOid
           /\ land[l].new \in Commits \cup {NoOid} /\ land[l].commit \in Objects
           /\ land[l].new # NoOid <=> land[l].pc \in {"advance", "advanced", "refused", "orphaned"}
           /\ Known(l)
BY Locals DEF MovedInv, At

\* A step that only moves the call on.
LEMMA MovesOn ==
    ASSUME MovedInv, NEW l \in Landers, NEW pc, Goto(l, pc), MovesHere, landed' = landed,
           \/ land[l].pc \in {"contained", "fastForward", "tree"} /\ pc \in {"fastForward", "tree", "commitTree"}
           \/ land[l].pc = "advance" /\ pc \in {"refused", "orphaned"}
           \/ land[l].pc = "advance" /\ pc = "advanced" /\ HeldNext(land[l].branch, land[l].new)
    PROVE  MovedInv'
<1>1. land[l].pc \notin {"idle", "resolve"}
  OBVIOUS
<1>2. LandTypeOK'
  BY <1>1, LocalsMoved DEF Goto, MovedInv, LandTypeOK, LandPc, NoCall
<1>3. /\ land'[l].pc = pc /\ land'[l].tip = land[l].tip /\ land'[l].branch = land[l].branch
      /\ land'[l].commit = land[l].commit /\ land'[l].new = land[l].new
      /\ \A k \in Landers \ {l} : land'[k] = land[k]
  BY DEF Goto, MovedInv, LandTypeOK
<1>4. Keeps
  BY MovesHereKeeps
<1>5. land[l].tip \in Commits => HeldNext(land[l].branch, land[l].tip)
  BY <1>1, <1>4, LocalsMoved DEF Known, Keeps
<1>6. land[l].new # NoOid => /\ {land[l].tip, land[l].commit} \subseteq Commits
                             /\ {land[l].tip, land[l].commit} \subseteq Anc[land[l].new]
  BY <1>1, LocalsMoved DEF Known
<1> QED BY <1>2, <1>3, <1>5, <1>6, GoesOn

LEMMA MovedCheckContained ==
    ASSUME MovedInv, NEW l \in Landers, CheckContained(l), UNCHANGED elsewhere PROVE MovedInv'
<1>1. MovesHere /\ land[l].pc = "contained"
  BY Stays DEF CheckContained, At
<1>2. CASE IsAncestor(objs, land[l].commit, land[l].tip) = "yes"
  <2>1. land[l].commit \in Anc[land[l].tip] /\ land[l].tip \in Commits
    BY <1>2 DEF IsAncestor
  <2>2. ~At(l, "idle") /\ Held(land[l].branch, land[l].tip)
    BY <1>1, <2>1, LocalsMoved DEF Known
  <2> QED BY <1>2, <2>1, <2>2, AnswersCall DEF CheckContained
<1>3. CASE IsAncestor(objs, land[l].commit, land[l].tip) # "yes"
  BY <1>1, <1>3, MovesOn DEF CheckContained
<1> QED BY <1>2, <1>3

LEMMA MovedCheckFastForward ==
    ASSUME MovedInv, NEW l \in Landers, CheckFastForward(l), UNCHANGED elsewhere PROVE MovedInv'
<1>1. MovesHere /\ land[l].pc = "fastForward" /\ landed' = landed
  BY Stays DEF CheckFastForward, At
<1>2. CASE IsAncestor(objs, land[l].tip, land[l].commit) = "yes"
  <2>1. land' = [land EXCEPT ![l].pc = "advance", ![l].new = land[l].commit]
    BY <1>2 DEF CheckFastForward
  <2>2. {land[l].tip, land[l].commit} \subseteq Commits /\ land[l].tip \in Anc[land[l].commit]
    BY <1>2 DEF IsAncestor
  <2>3. LandTypeOK'
    <3>1. land[l].branch \in Heads /\ land[l].tip # NoOid /\ land[l].commit # NoOid /\ LandTypeOK
      BY <1>1, LocalsMoved, GraphAssumption DEF MovedInv
    <3> QED BY <1>1, <2>1, <2>2, <3>1 DEF LandTypeOK, LandPc, NoCall
  <2>4. /\ land'[l].pc = "advance" /\ land'[l].tip = land[l].tip
        /\ land'[l].branch = land[l].branch /\ land'[l].commit = land[l].commit
        /\ land'[l].new = land[l].commit /\ \A k \in Landers \ {l} : land'[k] = land[k]
    BY <2>1 DEF MovedInv, LandTypeOK
  <2>5. HeldNext(land[l].branch, land[l].tip)
    BY <1>1, <2>2, LocalsMoved, MovesHereKeeps DEF Known, Keeps
  <2> QED BY <1>1, <2>2, <2>3, <2>4, <2>5, GoesOn, AncSelf
<1>3. CASE IsAncestor(objs, land[l].tip, land[l].commit) # "yes"
  BY <1>1, <1>3, MovesOn DEF CheckFastForward
<1> QED BY <1>2, <1>3

LEMMA MovedReadTree ==
    ASSUME MovedInv, NEW l \in Landers, ReadTree(l), UNCHANGED elsewhere PROVE MovedInv'
<1>1. MovesHere /\ land[l].pc = "tree"
  BY Stays DEF ReadTree, At
<1>2. CASE Fail(l)
  BY <1>1, <1>2, Ends DEF Fail
<1> QED BY <1>1, <1>2, MovesOn DEF ReadTree

LEMMA MovedCommitTree ==
    ASSUME MovedInv, NEW l \in Landers, CommitTree(l), UNCHANGED elsewhere PROVE MovedInv'
<1>1. land[l].pc = "commitTree" /\ {land[l].tip, land[l].commit} \subseteq objs /\ landed' = landed
  BY DEF CommitTree, At
<1>2. PICK m \in LandingMerges(land[l].tip, land[l].commit) :
        /\ objs' = objs \cup {m}
        /\ land' = [land EXCEPT ![l].pc = "advance", ![l].new = m]
  BY DEF CommitTree
<1>3. MovesHere
  BY <1>1, <1>2, MergeStoredHere DEF CommitTree
<1>4. /\ {m, land[l].tip, land[l].commit} \subseteq Commits /\ m # NoOid
      /\ {land[l].tip, land[l].commit} \subseteq Anc[m]
  BY MergeAncestry, GraphAssumption DEF Objects
<1>5. LandTypeOK'
  BY <1>1, <1>2, <1>4, LocalsMoved DEF MovedInv, LandTypeOK, LandPc, NoCall
<1>6. /\ land'[l].pc = "advance" /\ land'[l].tip = land[l].tip
      /\ land'[l].branch = land[l].branch /\ land'[l].commit = land[l].commit
      /\ land'[l].new = m /\ \A k \in Landers \ {l} : land'[k] = land[k]
  BY <1>2 DEF MovedInv, LandTypeOK
<1>7. HeldNext(land[l].branch, land[l].tip)
  BY <1>1, <1>3, <1>4, LocalsMoved, MovesHereKeeps DEF Known, Keeps
<1> QED BY <1>1, <1>3, <1>4, <1>5, <1>6, <1>7, GoesOn

LEMMA MovedAdvance ==
    ASSUME MovedInv, NEW l \in Landers, Advance(l), UNCHANGED elsewhere PROVE MovedInv'
<1>1. MovesHere /\ land[l].pc = "advance" /\ (Swaps(l) => HeldNext(land[l].branch, land[l].new))
  BY SwapsForward DEF Advance, At
<1> QED BY <1>1, MovesOn DEF Advance

LEMMA MovedReply ==
    ASSUME MovedInv, NEW l \in Landers, Reply(l), UNCHANGED elsewhere PROVE MovedInv'
<1>1. CASE At(l, "advanced") /\ Answer(l, land[l].new)
  <2>1. /\ ~At(l, "idle") /\ land[l].new \in Commits /\ land[l].commit \in Anc[land[l].new]
        /\ Held(land[l].branch, land[l].new)
    BY <1>1, LocalsMoved DEF At, Known
  <2> QED BY <1>1, <2>1, AnswersCall DEF Reply
<1>2. CASE At(l, "refused") /\ Fail(l)
  BY <1>2, Stays, Ends DEF Fail, Reply
<1> QED BY <1>1, <1>2 DEF Reply

LEMMA MovedCancel ==
    ASSUME MovedInv, NEW l \in Landers, Cancel(l), UNCHANGED elsewhere PROVE MovedInv'
<1>1. MovesHere
  <2>1. CASE UNCHANGED objs
    BY <2>1, Stays DEF Cancel, storeVars
  <2>2. CASE \E m \in LandingMerges(land[l].tip, land[l].commit) :
               {land[l].tip, land[l].commit} \subseteq objs /\ objs' = objs \cup {m}
    BY <2>2, MergeStoredHere DEF Cancel
  <2> QED BY <2>1, <2>2 DEF Cancel
<1>2. CASE At(l, "advance")
  BY <1>1, <1>2, MovesOn DEF Cancel, At
<1>3. CASE ~At(l, "advance")
  BY <1>1, <1>3, Ends DEF Cancel
<1> QED BY <1>2, <1>3

LEMMA MovedOrphanAdvance ==
    ASSUME MovedInv, NEW l \in Landers, OrphanAdvance(l), UNCHANGED elsewhere PROVE MovedInv'
BY SwapsForward, Ends DEF OrphanAdvance, At

LEMMA MovedFails ==
    ASSUME MovedInv, NEW l \in Landers, CommitTreeFails(l) \/ OrphanDies(l), UNCHANGED elsewhere
    PROVE  MovedInv'
BY Stays, Ends DEF CommitTreeFails, OrphanDies, Fail
-----------------------------------------------------------------------------
\* A step of a call, wherever it runs.

LEMMA MovedLandNext == ASSUME MovedInv, LandNext, UNCHANGED elsewhere PROVE MovedInv'
<1>1. PICK l \in Landers :
        LandStep(l) \/ CommitTreeFails(l) \/ Cancel(l) \/ OrphanAdvance(l) \/ OrphanDies(l)
  BY DEF LandNext
<1> QED BY <1>1, MovedCall, MovedResolve, MovedCheckContained, MovedCheckFastForward, MovedReadTree,
           MovedCommitTree, MovedAdvance, MovedReply, MovedCancel, MovedOrphanAdvance, MovedFails
        DEF LandStep

\* The calls are where they were: what they know of is still in some repository.
LEMMA CallsStay ==
    ASSUME MovedInv, UNCHANGED landVars, Keeps, Sound(Here)',
           \A p \in Places : Sound(elsewhere[p])', DOMAIN elsewhere' = Places,
           elsewhere' = [p \in Places |-> elsewhere'[p]]
    PROVE  MovedInv'
<1>1. LandTypeOK'
  BY DEF MovedInv, LandTypeOK, landVars
<1>2. (\A k \in Landers : Known(k)') /\ LandedSomewhere'
  BY KnownStays, LandedStays DEF landVars
<1> QED BY <1>1, <1>2 DEF MovedInv

\* A rename moves whole repositories: the same ones are there before and after.
LEMMA MovedRename == ASSUME MovedInv, NEW p \in Places, Rename(p) PROVE MovedInv'
<1>1. Sound(Here) /\ \A q \in Places : Sound(elsewhere[q])
  BY DEF MovedInv
<1>2. elsewhere[p] = [objs |-> elsewhere[p].objs, refs |-> elsewhere[p].refs, head |-> elsewhere[p].head]
  BY <1>1 DEF Sound, Repositories
<1>3. Here' = elsewhere[p]
  BY <1>2 DEF Rename, Becomes, Here
<1>4. elsewhere'[p] = Here /\ \A q \in Places \ {p} : elsewhere'[q] = elsewhere[q]
  BY DEF Rename, MovedInv
<1>5. DOMAIN elsewhere' = Places /\ elsewhere' = [q \in Places |-> elsewhere'[q]]
  BY DEF Rename, MovedInv
<1>6. Everywhere' = Everywhere
  BY <1>3, <1>4 DEF Everywhere
<1>7. Keeps
  BY <1>6 DEF Keeps, Held, HeldNext
<1>8. Sound(Here)' /\ \A q \in Places : Sound(elsewhere[q])'
  BY <1>1, <1>3, <1>4 DEF Sound, Complete
<1> QED BY <1>5, <1>7, <1>8, CallsStay DEF Rename

\* A new repository takes the place of none.
LEMMA MovedInitHere == ASSUME MovedInv, InitHere PROVE MovedInv'
<1>1. elsewhere' = elsewhere
  BY DEF InitHere
<1>2. \A b \in Heads : refs[b] \notin Commits
  BY GraphAssumption DEF InitHere, Here, NoRepository, Refs, Objects
<1>3. Keeps
  <2> SUFFICES ASSUME NEW b \in Heads, NEW c \in Commits, Held(b, c) PROVE HeldNext(b, c)
    BY DEF Keeps
  <2>1. PICK repo \in Everywhere : repo.refs[b] \in Commits /\ c \in Anc[repo.refs[b]]
    BY DEF Held
  <2>2. repo # Here
    BY <1>2, <2>1 DEF Here
  <2>3. repo \in Everywhere'
    BY <1>1, <2>1, <2>2 DEF Everywhere
  <2> QED BY <2>1, <2>3 DEF HeldNext
<1>4. Sound(Here)'
  <2>1. /\ objs' = {} /\ refs' = [r \in Refs |-> NoOid] /\ head' = HeadFor(InitHead)
    BY DEF InitHere, Becomes, Fresh, NoRepository
  <2>2. head' \in [ref : Heads \cup {NoRef}, len : Nat]
    BY <2>1, InitAssumption, RefNamesAssumption DEF HeadFor
  <2> QED BY <2>1, <2>2, SoundHereNext DEF RefsConnected, ObjsClosed, History
<1>5. \A p \in Places : Sound(elsewhere[p])'
  BY <1>1 DEF MovedInv, Sound, Complete
<1> QED BY <1>1, <1>3, <1>4, <1>5, CallsStay DEF InitHere, MovedInv

LEMMA MovedInvInit == ASSUME LandStart, elsewhere = Others PROVE MovedInv
<1>1. LandInv
  BY LandInvInit DEF LandStart
<1>2. Sound(Here)
  BY <1>1, SoundHere DEF LandInv, StoreInv, StoreTypeOK
<1>3. /\ \A p \in Places : Sound(elsewhere[p])
      /\ DOMAIN elsewhere = Places /\ elsewhere = [p \in Places |-> elsewhere[p]]
  BY OthersAssumption DEF Sound
<1>4. \A l \in Landers : Known(l)
  BY GraphAssumption DEF LandStart, LandInit, NoCall, Known, Objects
<1>5. LandedSomewhere
  BY DEF LandStart, LandInit, LandedSomewhere
<1> QED BY <1>1, <1>2, <1>3, <1>4, <1>5 DEF MovedInv, LandInv

LEMMA MovedInvNext == MovedInv /\ [MovedNext]_movedVars => MovedInv'
<1> SUFFICES ASSUME MovedInv, [MovedNext]_movedVars PROVE MovedInv'
  OBVIOUS
<1>1. CASE UNCHANGED movedVars
  BY <1>1, Stays, MovesHereKeeps, CallsStay DEF movedVars, MovesHere, MovedInv, Sound, Complete
<1> QED BY <1>1, MovedLandNext, MovedRename, MovedInitHere DEF MovedNext
-----------------------------------------------------------------------------
\* The inductive invariant: every repository is whole, and what a call knows or was
\* answered is about immutable commits, or about some repository.
THEOREM MovedInvariant == MovedSpec => []MovedInv
BY MovedInvInit, MovedInvNext, PTL DEF MovedSpec

\* A landing whose commands ran in several repositories leaves each of them whole
\* (service.rs:295-352).
THEOREM MovedComplete == MovedSpec => []EachIsComplete
<1>1. MovedInv => EachIsComplete
  BY DEF MovedInv, Sound, EachIsComplete, Everywhere
<1> QED BY <1>1, MovedInvariant, PTL

\* What was answered to have landed is in some repository, whatever was renamed
\* meanwhile (service.rs:284-357).
THEOREM MovedLandings == MovedSpec => []LandedSomewhere
<1>1. MovedInv => LandedSomewhere
  BY DEF MovedInv
<1> QED BY <1>1, MovedInvariant, PTL

\* A landing moves the branch of no repository backwards, wherever it read the tip
\* (service.rs:300-352).
THEOREM MovedForward == MovedSpec => ForwardInEach
<1> DEFINE Moves == UNCHANGED elsewhere /\ Here # NoRepository =>
                       \A b \in Heads : refs'[b] # refs[b] =>
                           {refs[b], refs'[b]} \subseteq Commits /\ refs[b] \in Anc[refs'[b]]
<1>1. MovedInv /\ [MovedNext]_movedVars => [Moves]_movedVars
  <2> SUFFICES ASSUME MovedInv, MovedNext, UNCHANGED elsewhere, Here # NoRepository,
                      NEW b \in Heads, refs'[b] # refs[b]
               PROVE  {refs[b], refs'[b]} \subseteq Commits /\ refs[b] \in Anc[refs'[b]]
    OBVIOUS
  <2>1. CASE LandNext
    <3>1. PICK l \in Landers :
            LandStep(l) \/ CommitTreeFails(l) \/ Cancel(l) \/ OrphanAdvance(l) \/ OrphanDies(l)
      BY <2>1 DEF LandNext
    <3> QED BY <3>1, RefWriters, SwapsForward
  <2>2. ASSUME NEW p \in Places, Rename(p) PROVE FALSE
    <3>1. elsewhere'[p] = Here
      BY <2>2 DEF Rename, MovedInv
    <3>2. Here = elsewhere[p]
      BY <3>1
    <3> QED BY <2>2, <3>2 DEF Rename
  <2> QED BY <2>1, <2>2 DEF MovedNext, InitHere
<1> QED BY <1>1, MovedInvariant, PTL DEF MovedSpec, ForwardInEach
=============================================================================
