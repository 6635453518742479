---------------------------- MODULE GitServiceProofs ----------------------------
(***************************************************************************)
(* Proofs about GitService: landings, pushes and ref RPCs together, any     *)
(* number of each, and crashes of the service between any two steps.        *)
(***************************************************************************)
EXTENDS GitService, MergeChangeProofs, ReceivePackProofs

\* What a call is about to swap in is above the tip that it compares with: a fact about
\* immutable commits, which no push and no ref RPC can take away.
Above(l) ==
    land[l].new # NoOid => land[l].tip \in Commits /\ land[l].tip \in Anc[land[l].new]

\* The hook let nothing pass that deletes or rewrites a protected branch, as long as no
\* push meets a script that is being rewritten.
GuardedPush(p) == \A i \in Passed(p) : Guarded(push[p].req, Cmds(p)[i])

ServiceInv ==
    /\ StoreTypeOK /\ LandTypeOK /\ PushTypeOK /\ RefTypeOK /\ DOMAIN call = Clients
    /\ \A l \in Landers : Above(l)
    /\ ~Overlap => \A p \in Pushers : Unread(p) /\ GuardedPush(p)
-----------------------------------------------------------------------------
\* Landings.  Unlike in MergeChangeProofs a branch may hold anything by now, and may go
\* back or away between two git commands.

\* The repository's types, under everything a landing does to it.
LEMMA LandStoreTypes ==
    ASSUME StoreTypeOK, LandTypeOK, LandNext PROVE StoreTypeOK' /\ objs \subseteq objs'
<1>1. PICK l \in Landers :
        LandStep(l) \/ CommitTreeFails(l) \/ Cancel(l) \/ OrphanAdvance(l) \/ OrphanDies(l)
  BY DEF LandNext
<1>2. CASE Advance(l) \/ OrphanAdvance(l)
  <2>1. land[l].new \in Commits /\ UpdateRef(l) /\ UNCHANGED <<objs, head>>
    BY <1>2, Locals DEF Advance, OrphanAdvance, At
  <2> QED BY <2>1 DEF UpdateRef, SetRef, StoreTypeOK, Objects
<1>3. CASE CommitTree(l) \/ Cancel(l)
  <2>1. objs' = objs \/ \E m \in Commits : objs' = objs \cup {m}
    BY <1>3 DEF CommitTree, Cancel, LandingMerges
  <2> QED BY <1>3, <2>1 DEF CommitTree, Cancel, StoreTypeOK, Objects
<1>4. CASE ~(Advance(l) \/ OrphanAdvance(l) \/ CommitTree(l) \/ Cancel(l))
  <2>1. UNCHANGED storeVars
    BY <1>1, <1>4 DEF LandStep, Call, Resolve, CheckContained, CheckFastForward, ReadTree,
                      Reply, CommitTreeFails, OrphanDies
  <2> QED BY <2>1 DEF storeVars, StoreTypeOK
<1> QED BY <1>2, <1>3, <1>4

\* A call that is over, or that goes on.
LEMMA LandEnds ==
    ASSUME LandTypeOK, \A k \in Landers : Above(k), NEW l \in Landers, End(l),
           landed' \in [Landers -> Answers \cup {NoAnswer}]
    PROVE  LandTypeOK' /\ \A k \in Landers : Above(k)'
<1>1. land'[l] = NoCall /\ \A k \in Landers \ {l} : land'[k] = land[k]
  BY DEF LandTypeOK, End
<1> QED BY <1>1 DEF LandTypeOK, End, NoCall, LandPc, Above

LEMMA LandGoesOn ==
    ASSUME \A k \in Landers : Above(k), NEW l \in Landers, LandTypeOK',
           \A k \in Landers \ {l} : land'[k] = land[k], Above(l)'
    PROVE  LandTypeOK' /\ \A k \in Landers : Above(k)'
BY DEF Above

LEMMA LandMoves ==
    ASSUME LandTypeOK, \A k \in Landers : Above(k), NEW l \in Landers, NEW pc, Goto(l, pc),
           UNCHANGED landed,
           \/ land[l].pc \in {"contained", "fastForward", "tree"} /\ pc \in {"fastForward", "tree", "commitTree"}
           \/ land[l].pc = "advance" /\ pc \in {"advanced", "refused", "orphaned"}
    PROVE  LandTypeOK' /\ \A k \in Landers : Above(k)'
<1>1. /\ land'[l].pc = pc /\ land'[l].tip = land[l].tip /\ land'[l].new = land[l].new
      /\ \A k \in Landers \ {l} : land'[k] = land[k]
  BY DEF Goto, LandTypeOK
<1>2. LandTypeOK'
  BY Locals DEF Goto, LandTypeOK, LandPc, NoCall, At
<1>3. Above(l)'
  BY <1>1 DEF Above
<1> QED BY <1>1, <1>2, <1>3, LandGoesOn

LEMMA LandKeepsAbove ==
    ASSUME StoreTypeOK, LandTypeOK, \A l \in Landers : Above(l), LandNext
    PROVE  LandTypeOK' /\ \A l \in Landers : Above(l)'
<1> DEFINE Goal == LandTypeOK' /\ \A l \in Landers : Above(l)'
<1>1. PICK l \in Landers :
        LandStep(l) \/ CommitTreeFails(l) \/ Cancel(l) \/ OrphanAdvance(l) \/ OrphanDies(l)
  BY DEF LandNext
<1>2. ASSUME Fail(l) PROVE Goal
  BY <1>2, LandEnds DEF Fail, LandTypeOK
<1>3. ASSUME NEW sha \in Commits, Answer(l, sha), ~At(l, "idle") PROVE Goal
  <2>1. land[l].branch \in Heads /\ land[l].commit \in Objects /\ End(l)
    BY <1>3, Locals DEF Answer
  <2>2. landed' \in [Landers -> Answers \cup {NoAnswer}]
    BY <1>3, <2>1 DEF Answer, Answers, LandTypeOK, Objects
  <2> QED BY <2>1, <2>2, LandEnds
<1>4. CASE Call(l)
  <2>1. PICK ask \in Ask[l] :
          land' = [land EXCEPT ![l] =
                     [NoCall EXCEPT !.pc = "resolve", !.branch = ask[1], !.commit = ask[2]]]
    BY <1>4 DEF Call
  <2>2. ask[1] \in Heads /\ ask[2] \in Objects
    BY AskAssumption
  <2>3. /\ land'[l] = [pc |-> "resolve", branch |-> ask[1], commit |-> ask[2],
                       tip |-> NoOid, new |-> NoOid]
        /\ \A k \in Landers \ {l} : land'[k] = land[k]
    BY <2>1 DEF LandTypeOK, NoCall
  <2>4. LandTypeOK'
    BY <1>4, <2>1, <2>2, <2>3 DEF LandTypeOK, LandPc, NoCall, Call
  <2>5. Above(l)'
    BY <2>3 DEF Above
  <2> QED BY <2>3, <2>4, <2>5, LandGoesOn
<1>5. CASE Resolve(l)
  <2>1. land[l].pc = "resolve" /\ land[l].branch \in Heads /\ land[l].new = NoOid
    BY <1>5, Locals DEF Resolve, At
  <2>2. PICK tip \in Objects \cup {NoOid} : tip = refs[land[l].branch]
    BY <2>1 DEF StoreTypeOK, Refs
  <2>3. CASE ~Fail(l)
    <3>1. /\ tip # NoOid /\ landed' = landed
          /\ land' = [land EXCEPT ![l].pc = "contained", ![l].tip = tip]
      BY <1>5, <2>2, <2>3 DEF Resolve
    <3>2. LandTypeOK'
      BY <2>1, <2>2, <3>1 DEF LandTypeOK, LandPc, NoCall
    <3>3. land'[l].new = NoOid /\ \A k \in Landers \ {l} : land'[k] = land[k]
      BY <2>1, <3>1 DEF LandTypeOK
    <3>4. Above(l)'
      BY <3>3 DEF Above
    <3> QED BY <3>2, <3>3, <3>4, LandGoesOn
  <2> QED BY <1>2, <2>3
<1>6. CASE CheckContained(l)
  <2>1. land[l].pc = "contained" /\ ~At(l, "idle")
    BY <1>6 DEF CheckContained, At
  <2>2. CASE IsAncestor(objs, land[l].commit, land[l].tip) = "yes"
    <3>1. land[l].tip \in Commits
      BY <2>2 DEF IsAncestor
    <3> QED BY <1>3, <1>6, <2>1, <2>2, <3>1 DEF CheckContained
  <2>3. CASE IsAncestor(objs, land[l].commit, land[l].tip) # "yes"
    BY <1>6, <2>1, <2>3, LandMoves DEF CheckContained
  <2> QED BY <2>2, <2>3
<1>7. CASE CheckFastForward(l)
  <2>1. land[l].pc = "fastForward" /\ ~At(l, "idle") /\ landed' = landed
    BY <1>7 DEF CheckFastForward, At
  <2>2. CASE IsAncestor(objs, land[l].tip, land[l].commit) = "yes"
    <3>1. land' = [land EXCEPT ![l].pc = "advance", ![l].new = land[l].commit]
      BY <1>7, <2>2 DEF CheckFastForward
    <3>2. {land[l].tip, land[l].commit} \subseteq Commits /\ land[l].tip \in Anc[land[l].commit]
      BY <2>2 DEF IsAncestor
    <3>3. land[l].branch \in Heads /\ land[l].tip # NoOid /\ land[l].commit # NoOid
      BY <2>1, <3>2, Locals, GraphAssumption DEF Objects
    <3>4. LandTypeOK'
      BY <2>1, <3>1, <3>2, <3>3 DEF LandTypeOK, LandPc, NoCall
    <3>5. /\ land'[l].tip = land[l].tip /\ land'[l].new = land[l].commit
          /\ \A k \in Landers \ {l} : land'[k] = land[k]
      BY <3>1 DEF LandTypeOK
    <3>6. Above(l)'
      BY <3>2, <3>5 DEF Above
    <3> QED BY <3>4, <3>5, <3>6, LandGoesOn
  <2>3. CASE IsAncestor(objs, land[l].tip, land[l].commit) # "yes"
    BY <1>7, <2>1, <2>3, LandMoves DEF CheckFastForward
  <2> QED BY <2>2, <2>3
<1>8. CASE ReadTree(l)
  BY <1>2, <1>8, LandMoves DEF ReadTree, At
<1>9. CASE CommitTree(l)
  <2>1. land[l].pc = "commitTree" /\ ~At(l, "idle") /\ landed' = landed
    BY <1>9 DEF CommitTree, At
  <2>2. PICK m \in LandingMerges(land[l].tip, land[l].commit) :
          land' = [land EXCEPT ![l].pc = "advance", ![l].new = m]
    BY <1>9 DEF CommitTree
  <2>3. {m, land[l].tip} \subseteq Commits /\ m # NoOid /\ land[l].tip \in Anc[m]
    BY MergeAncestry, GraphAssumption DEF Objects
  <2>4. land[l].branch \in Heads /\ land[l].tip # NoOid
    BY <2>1, Locals
  <2>5. LandTypeOK'
    BY <2>1, <2>2, <2>3, <2>4 DEF LandTypeOK, LandPc, NoCall
  <2>6. /\ land'[l].tip = land[l].tip /\ land'[l].new = m
        /\ \A k \in Landers \ {l} : land'[k] = land[k]
    BY <2>2 DEF LandTypeOK
  <2>7. Above(l)'
    BY <2>3, <2>6 DEF Above
  <2> QED BY <2>5, <2>6, <2>7, LandGoesOn
<1>10. CASE Advance(l)
  BY <1>10, LandMoves DEF Advance, At
<1>11. CASE Reply(l)
  <2>1. CASE At(l, "advanced") /\ Answer(l, land[l].new)
    <3>1. ~At(l, "idle") /\ land[l].new \in Commits
      BY <2>1, Locals DEF At
    <3> QED BY <1>3, <2>1, <3>1
  <2> QED BY <1>2, <1>11, <2>1 DEF Reply
<1>12. CASE Cancel(l)
  <2>1. landed' \in [Landers -> Answers \cup {NoAnswer}] /\ UNCHANGED landed
    BY <1>12 DEF Cancel, LandTypeOK
  <2>2. CASE At(l, "advance")
    BY <1>12, <2>1, <2>2, LandMoves DEF Cancel, At
  <2> QED BY <1>12, <2>1, <2>2, LandEnds DEF Cancel
<1>13. CASE CommitTreeFails(l) \/ OrphanAdvance(l) \/ OrphanDies(l)
  BY <1>2, <1>13 DEF CommitTreeFails, OrphanAdvance, OrphanDies, Fail
<1> QED BY <1>1, <1>4, <1>5, <1>6, <1>7, <1>8, <1>9, <1>10, <1>11, <1>12, <1>13 DEF LandStep
-----------------------------------------------------------------------------
\* Ref RPCs.

\* A request in progress.
LEMMA RefInProgress ==
    ASSUME RefTypeOK, NEW k \in Clients, call[k].pc # "idle"
    PROVE  /\ call[k] \in [pc : {"find", "create", "head", "delete", "truncate", "write"},
                           req : RefAsk[k], oid : Objects \cup {NoOid}]
           /\ call[k].oid # NoOid <=> call[k].pc \in {"create", "head", "delete"}
           /\ Req(k) \in RefRequests /\ Req(k).name \in Refs
           /\ Req(k).op = "setDefault" => Req(k).name \in Heads
<1>1. call[k] # NoRequest
  BY DEF NoRequest
<1>2. call[k].req \in RefAsk[k]
  BY <1>1 DEF RefTypeOK
<1>3. Req(k) \in RefRequests
  BY <1>2, RefAskAssumption DEF Req
<1> QED BY <1>1, <1>3 DEF RefTypeOK, RefRequests

\* A handler that goes on, or returns.
LEMMA RefReturns ==
    ASSUME RefTypeOK, DOMAIN call = Clients, NEW k \in Clients, Return(k)
    PROVE  RefTypeOK' /\ DOMAIN call' = Clients
BY DEF RefTypeOK, Return

LEMMA RefGoesOn ==
    ASSUME RefTypeOK, DOMAIN call = Clients, NEW k \in Clients, call[k].pc # "idle",
           NEW pc \in {"find", "create", "head", "delete", "truncate", "write"},
           NEW oid \in Objects \cup {NoOid}, GoOn(k, pc, oid),
           oid # NoOid <=> pc \in {"create", "head", "delete"}
    PROVE  RefTypeOK' /\ DOMAIN call' = Clients
<1>1. /\ call'[k].pc = pc /\ call'[k].oid = oid /\ call'[k] = [pc |-> pc, req |-> call[k].req, oid |-> oid]
      /\ \A j \in Clients \ {k} : call'[j] = call[j]
  BY RefInProgress DEF GoOn
<1>2. call[k].req \in RefAsk[k]
  BY RefInProgress
<1>3. /\ call'[k] \in [pc : {"find", "create", "head", "delete", "truncate", "write"},
                        req : RefAsk[k], oid : Objects \cup {NoOid}]
      /\ call'[k].oid # NoOid <=> call'[k].pc \in {"create", "head", "delete"}
  BY <1>1, <1>2
<1>4. DOMAIN call' = Clients
  BY DEF GoOn
<1> QED BY <1>1, <1>3, <1>4 DEF RefTypeOK

LEMMA RefTypesStep ==
    ASSUME StoreTypeOK, RefTypeOK, DOMAIN call = Clients, NEW k \in Clients, RefStep(k)
    PROVE  RefTypeOK' /\ DOMAIN call' = Clients
<1> USE DEF Does
<1>1. CASE AskRef(k)
  <2>1. PICK req \in RefAsk[k] : call' = [call EXCEPT ![k] = [NoRequest EXCEPT !.pc = "find", !.req = req]]
    BY <1>1 DEF AskRef
  <2>2. /\ call'[k] = [pc |-> "find", req |-> req, oid |-> NoOid]
        /\ \A j \in Clients \ {k} : call'[j] = call[j]
    BY <2>1 DEF NoRequest
  <2>3. /\ call'[k] \in [pc : {"find", "create", "head", "delete", "truncate", "write"},
                          req : RefAsk[k], oid : Objects \cup {NoOid}]
        /\ call'[k].oid # NoOid <=> call'[k].pc \in {"create", "head", "delete"}
    BY <2>2
  <2>4. DOMAIN call' = Clients
    BY <2>1
  <2> QED BY <2>2, <2>3, <2>4 DEF RefTypeOK
<1>2. CASE ResolveStart(k)
  <2>1. call[k].pc = "find"
    BY <1>2 DEF ResolveStart
  <2>2. RevParse(Req(k)) \in Objects \cup {NoOid}
    BY <2>1, RefInProgress DEF RevParse, StoreTypeOK, RefRequests
  <2> QED BY <1>2, <2>1, <2>2, RefReturns, RefGoesOn DEF ResolveStart
<1>3. CASE FindRef(k)
  <2>1. call[k].pc = "find"
    BY <1>3 DEF FindRef
  <2>2. refs[Req(k).name] \in Objects \cup {NoOid}
    BY <2>1, RefInProgress DEF StoreTypeOK
  <2> QED BY <1>3, <2>1, <2>2, RefReturns, RefGoesOn DEF FindRef
<1>4. CASE CheckHead(k)
  <2>1. call[k].pc = "head"
    BY <1>4 DEF CheckHead
  <2>2. call[k].oid \in Objects \cup {NoOid} /\ call[k].oid # NoOid
    BY <2>1, RefInProgress
  <2> QED BY <1>4, <2>1, <2>2, RefReturns, RefGoesOn DEF CheckHead
<1>5. CASE FindDefault(k) \/ TruncateHead(k)
  <2>1. call[k].pc # "idle" /\ (Return(k) \/ \E pc \in {"truncate", "write"} : GoOn(k, pc, NoOid))
    BY <1>5 DEF FindDefault, TruncateHead
  <2> QED BY <2>1, RefReturns, RefGoesOn
<1>6. CASE CreateRef(k) \/ DeleteRef(k) \/ WriteHead(k)
  BY <1>6, RefReturns DEF CreateRef, DeleteRef, WriteHead
<1> QED BY <1>1, <1>2, <1>3, <1>4, <1>5, <1>6 DEF RefStep

LEMMA RefStoreTypes ==
    ASSUME StoreTypeOK, RefTypeOK, NEW k \in Clients, RefStep(k)
    PROVE  StoreTypeOK' /\ objs' = objs
<1> USE DEF Does
<1>1. CASE CreateRef(k) \/ DeleteRef(k)
  <2>1. call[k].oid \in Objects \cup {NoOid} /\ Req(k).name \in Refs
    BY <1>1, RefInProgress DEF CreateRef, DeleteRef
  <2> QED BY <1>1, <2>1 DEF CreateRef, DeleteRef, SetRef, StoreTypeOK
<1>2. CASE TruncateHead(k)
  BY <1>2 DEF TruncateHead, StoreTypeOK
<1>3. CASE WriteHead(k)
  <2>1. Req(k).name \in Heads
    BY <1>3, RefInProgress DEF WriteHead
  <2>2. head'.len \in Nat
    BY <1>3, <2>1, RefNamesAssumption DEF WriteHead, StoreTypeOK
  <2>3. head' = [ref |-> Req(k).name, len |-> head'.len]
    BY <1>3 DEF WriteHead
  <2> QED BY <1>3, <2>1, <2>2, <2>3 DEF WriteHead, StoreTypeOK
<1>4. CASE ~(CreateRef(k) \/ DeleteRef(k) \/ TruncateHead(k) \/ WriteHead(k))
  BY <1>4 DEF RefStep, AskRef, ResolveStart, FindRef, CheckHead, FindDefault, storeVars, StoreTypeOK
<1> QED BY <1>1, <1>2, <1>3, <1>4
-----------------------------------------------------------------------------
\* Pushes.

LEMMA GuardedStep ==
    ASSUME ~Overlap, PushTypeOK, NEW p \in Pushers, Unread(p), GuardedPush(p), PushStep(p)
    PROVE  GuardedPush(p)'
<1> SUFFICES ASSUME NEW i \in Passed(p)' PROVE Guarded(push[p].req, Cmds(p)[i])'
  BY DEF GuardedPush
<1>1. /\ push'[p].req = push[p].req /\ Cmds(p)' = Cmds(p) /\ push[p].req \in Send[p] /\ i \in DOMAIN Cmds(p)
      /\ i \in Passed(p) \/ ~Enforced(push[p].req) \/ (JudgedFine(p) /\ i = push[p].line)
  BY PassedGrows
<1>2. Guarded(push[p].req, Cmds(p)[i])
  <2>1. CASE i \in Passed(p)
    BY <2>1 DEF GuardedPush
  <2>2. CASE ~Enforced(push[p].req)
    BY <2>2 DEF Enforced, Guarded
  <2>3. CASE JudgedFine(p) /\ i = push[p].line
    BY <2>3, JudgedIsGuarded DEF Cmd
  <2> QED BY <1>1, <2>1, <2>2, <2>3
<1> QED BY <1>1, <1>2 DEF Guarded

LEMMA PushesStay ==
    ASSUME push' = push, \A p \in Pushers : Unread(p) /\ GuardedPush(p)
    PROVE  \A p \in Pushers : Unread(p)' /\ GuardedPush(p)'
BY DEF Unread, GuardedPush, Guarded, Passed, In, Cmds

\* Objects may come in meanwhile, none ever goes.
LEMMA PushTypesStay ==
    ASSUME PushTypeOK, UNCHANGED pushVars, objs \subseteq objs' PROVE PushTypeOK'
BY DEF PushTypeOK, pushVars, In, Cmds
-----------------------------------------------------------------------------
LEMMA ServiceInvInit == ServiceInit => ServiceInv
<1> SUFFICES ASSUME ServiceInit PROVE ServiceInv
  OBVIOUS
<1>1. StoreTypeOK /\ LandTypeOK
  BY LandInvInit DEF ServiceInit, LandInv, StoreInv
<1>2. PushTypeOK
  BY BaseInvInit DEF ServiceInit, BaseInv
<1>3. RefTypeOK /\ DOMAIN call = Clients
  BY DEF ServiceInit, RefInit, RefTypeOK
<1>4. \A l \in Landers : Above(l)
  BY DEF ServiceInit, LandInit, NoCall, Above
<1>5. \A p \in Pushers : Unread(p) /\ GuardedPush(p)
  BY DEF ServiceInit, PushInit, NoPush, Unread, GuardedPush, Passed, In
<1> QED BY <1>1, <1>2, <1>3, <1>4, <1>5 DEF ServiceInv

LEMMA ServiceInvNext == ServiceInv /\ [ServiceNext]_serviceVars => ServiceInv'
<1> SUFFICES ASSUME ServiceInv, [ServiceNext]_serviceVars PROVE ServiceInv'
  OBVIOUS
<1>1. CASE LandNext /\ UNCHANGED <<pushVars, call>>
  <2>1. StoreTypeOK' /\ objs \subseteq objs' /\ LandTypeOK' /\ \A l \in Landers : Above(l)'
    BY <1>1, LandStoreTypes, LandKeepsAbove DEF ServiceInv
  <2>2. PushTypeOK' /\ (~Overlap => \A p \in Pushers : Unread(p)' /\ GuardedPush(p)')
    BY <1>1, <2>1, PushTypesStay, PushesStay DEF ServiceInv, pushVars
  <2> QED BY <1>1, <2>1, <2>2 DEF ServiceInv, RefTypeOK
<1>2. ASSUME NEW p \in Pushers, PushStep(p), UNCHANGED <<landVars, call>> PROVE ServiceInv'
  <2>1. StoreTypeOK' /\ PushTypeOK'
    BY <1>2, StoreTypeStep, TypeStep DEF ServiceInv
  <2>2. ASSUME ~Overlap PROVE \A q \in Pushers : Unread(q)' /\ GuardedPush(q)'
    <3>1. Unread(p)' /\ GuardedPush(p)'
      BY <1>2, <2>2, UnreadStep, GuardedStep DEF ServiceInv
    <3>2. ASSUME NEW q \in Pushers \ {p} PROVE Unread(q)' /\ GuardedPush(q)'
      <4>1. push'[q] = push[q] /\ Unread(q) /\ GuardedPush(q)
        BY <1>2, <2>2, Others DEF ServiceInv
      <4> QED BY <4>1 DEF Unread, GuardedPush, Guarded, Passed, In, Cmds
    <3> QED BY <3>1, <3>2
  <2>3. LandTypeOK' /\ \A l \in Landers : Above(l)'
    BY <1>2 DEF ServiceInv, LandTypeOK, Above, landVars
  <2> QED BY <1>2, <2>1, <2>2, <2>3 DEF ServiceInv, RefTypeOK
<1>3. ASSUME NEW k \in Clients, RefStep(k), UNCHANGED <<landVars, pushVars>> PROVE ServiceInv'
  <2>1. StoreTypeOK' /\ objs' = objs /\ RefTypeOK' /\ DOMAIN call' = Clients
    BY <1>3, RefStoreTypes, RefTypesStep DEF ServiceInv
  <2>2. PushTypeOK' /\ (~Overlap => \A p \in Pushers : Unread(p)' /\ GuardedPush(p)')
    BY <1>3, <2>1, PushTypesStay, PushesStay DEF ServiceInv, pushVars
  <2>3. LandTypeOK' /\ \A l \in Landers : Above(l)'
    BY <1>3 DEF ServiceInv, LandTypeOK, Above, landVars
  <2> QED BY <2>1, <2>2, <2>3 DEF ServiceInv
<1>4. CASE Restart
  <2>1. StoreTypeOK' /\ LandTypeOK' /\ \A l \in Landers : Above(l)'
    BY <1>4 DEF Restart, ServiceInv, StoreTypeOK, storeVars, LandTypeOK, LandPc, NoCall, Above
  <2>2. PushTypeOK' /\ (~Overlap => \A p \in Pushers : Unread(p)' /\ GuardedPush(p)')
    BY <1>4 DEF Restart, PushTypeOK, NoPush, Unread, GuardedPush, Passed, In
  <2> QED BY <1>4, <2>1, <2>2 DEF Restart, ServiceInv, RefTypeOK
<1>5. CASE UNCHANGED serviceVars
  <2>1. PushTypeOK' /\ (~Overlap => \A p \in Pushers : Unread(p)' /\ GuardedPush(p)')
    BY <1>5, PushTypesStay, PushesStay DEF ServiceInv, pushVars, serviceVars, storeVars
  <2> QED BY <1>5, <2>1 DEF serviceVars, ServiceInv, StoreTypeOK, storeVars, LandTypeOK, landVars,
                            Above, RefTypeOK
<1> QED BY <1>1, <1>2, <1>3, <1>4, <1>5 DEF ServiceNext, PushNext, RefNext

\* The inductive invariant of the composition: types, and what landings and pushes have
\* established for good.
THEOREM ServiceInvariant == ServiceSpec => []ServiceInv
BY ServiceInvInit, ServiceInvNext, PTL DEF ServiceSpec

\* A ref RPC holds an object exactly while it is about to write a ref, also with
\* landings, pushes and crashes around it.
THEOREM ServiceRefTypes == ServiceSpec => []RefTypeOK
<1>1. ServiceInv => RefTypeOK
  BY DEF ServiceInv
<1> QED BY <1>1, ServiceInvariant, PTL

\* The history of a branch that every push protects only grows, whoever moves it, and
\* only a delete RPC that found this very tip takes the branch away
\* (service.rs:350, hook.rs:140-154, refs.rs:147, refs.rs:189-211).
THEOREM ServiceProtects == ASSUME ~Overlap PROVE ServiceSpec => ProtectedHistory
<1> DEFINE Kept == \A b \in AlwaysProtected : refs[b] \in Commits /\ refs'[b] # refs[b] =>
                     \/ refs'[b] \in Commits /\ refs[b] \in Anc[refs'[b]]
                     \/ refs'[b] = NoOid /\ DeletesAt(b, refs[b])
<1>1. ServiceInv /\ [ServiceNext]_serviceVars => [Kept]_refs
  <2> SUFFICES ASSUME ServiceInv, [ServiceNext]_serviceVars, NEW b \in AlwaysProtected,
                      refs[b] \in Commits, refs'[b] # refs[b]
               PROVE  \/ refs'[b] \in Commits /\ refs[b] \in Anc[refs'[b]]
                      \/ refs'[b] = NoOid /\ DeletesAt(b, refs[b])
    BY DEF serviceVars, storeVars
  <2>1. b \in Heads /\ b \in Refs /\ refs[b] # NoOid /\ DOMAIN refs = Refs
    BY GraphAssumption DEF AlwaysProtected, Refs, Objects, ServiceInv, StoreTypeOK
  <2>2. CASE LandNext
    <3>1. PICK l \in Landers : land[l].pc \in {"advance", "orphaned"} /\ UpdateRef(l)
      BY <2>2, RefWriters DEF LandNext
    <3>2. land[l].new \in Commits /\ land[l].new # NoOid
      BY <3>1, Locals DEF ServiceInv, At
    <3>3. refs' = [refs EXCEPT ![land[l].branch] = land[l].new] /\ refs[land[l].branch] = land[l].tip
      BY <3>1 DEF UpdateRef, Swaps, RefAccepts, SetRef
    <3> QED BY <2>1, <3>2, <3>3 DEF ServiceInv, Above
  <2>3. ASSUME NEW p \in Pushers, PushStep(p) PROVE refs'[b] \in Commits /\ refs[b] \in Anc[refs'[b]]
    <3> DEFINE c == Cmd(p)
    <3>1. /\ push[p].pc = "apply" /\ push[p].line \in DOMAIN Cmds(p)
          /\ c = Cmds(p)[push[p].line] /\ c.ref = b /\ refs'[b] = c.new
          /\ Deletes(p, c) \/ Updates(c)
      BY <2>1, <2>3, PushRefWriters DEF ServiceInv
    <3>2. b \in push[p].req.protected
      BY <3>1, InProgress DEF ServiceInv, AlwaysProtected
    <3>3. /\ c.new # NoOid
          /\ c.old # NoOid => {c.old, c.new} \subseteq Commits /\ c.old \in Anc[c.new]
      BY <3>1, <3>2 DEF ServiceInv, GuardedPush, Guarded, Passed, In
    <3>4. refs[b] = c.old
      BY <3>1, <3>3 DEF Deletes, Updates, RefAccepts
    <3> QED BY <2>1, <3>1, <3>3, <3>4
  <2>4. ASSUME NEW k \in Clients, RefStep(k) PROVE refs'[b] = NoOid /\ DeletesAt(b, refs[b])
    <3>1. ~UNCHANGED refs
      OBVIOUS
    <3>2. CASE CreateRef(k)
      BY <2>1, <3>2 DEF CreateRef, SetRef
    <3>3. CASE DeleteRef(k)
      BY <2>1, <3>3 DEF DeleteRef, SetRef, DeletesAt
    <3> QED BY <2>4, <3>1, <3>2, <3>3 DEF RefStep, AskRef, ResolveStart, FindRef, CheckHead,
                                       FindDefault, TruncateHead, WriteHead, storeVars
  <2> QED BY <2>2, <2>3, <2>4 DEF ServiceNext, PushNext, RefNext, Restart, serviceVars, storeVars
<1> QED BY <1>1, ServiceInvariant, PTL DEF ServiceSpec, ProtectedHistory
=============================================================================
