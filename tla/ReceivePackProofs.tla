-------------------------- MODULE ReceivePackProofs --------------------------
(***************************************************************************)
(* Proofs about ReceivePack, for every commit graph, every set of refs, any *)
(* number of concurrent pushes and whatever they send.                      *)
(***************************************************************************)
EXTENDS ReceivePack, TLAPS

\* A command that was not found broken has its whole history at hand.
Connected(p) ==
    push[p].pc \in {"hook", "judge", "migrate", "apply"} =>
        \A i \in DOMAIN Cmds(p) \ push[p].broken :
            LET new == Cmds(p)[i].new IN
            new # NoOid => {new} \cup History({new}) \subseteq Visible(p)

BaseInv ==
    /\ StoreTypeOK
    /\ PushTypeOK
    /\ RefsConnected
    /\ \A p \in Pushers : Connected(p)

\* The commands the hook has let pass so far.
Passed(p) ==
    IF In(p, "judge") THEN IF push[p].bad THEN {} ELSE 1 .. push[p].line - 1
    ELSE IF push[p].pc \in {"migrate", "apply"} THEN DOMAIN Cmds(p) ELSE {}

\* What it established of each: a fact about immutable commits and the claimed
\* old value, which stays true whatever other pushes do.
Guarded(req, c) ==
    c.ref \in req.protected =>
        /\ c.new # NoOid
        /\ c.old # NoOid => {c.old, c.new} \subseteq Commits /\ c.old \in Anc[c.new]

Clean(req, c) == Guarded(req, c) /\ \A k \in History({c.new}) : Allowed(k)

\* The hook starts with the first line.
Unread(p) ==
    push[p].pc \in {"install", "installing", "unpack", "hook"} => push[p].line = 1

JudgeInv ==
    /\ PathsConfined
    /\ \A p \in Pushers : Unread(p)
    /\ \A p \in Pushers : \A i \in Passed(p) : Clean(push[p].req, Cmds(p)[i])
-----------------------------------------------------------------------------
\* A push in progress.
LEMMA InProgress ==
    ASSUME PushTypeOK, NEW p \in Pushers, push[p].pc # "idle"
    PROVE  /\ push[p] \in [pc : {"install", "installing", "unpack", "hook", "judge",
                                 "migrate", "apply"},
                           req : Send[p], broken : SUBSET DOMAIN Cmds(p),
                           line : 1 .. Len(Cmds(p)) + 1, bad : BOOLEAN,
                           headSeen : Heads \cup {NoRef}]
           /\ In(p, "apply") => push[p].req.pack \subseteq objs
           /\ push[p].req \in Requests
           /\ Cmds(p) \in Seq(Commands)
           /\ DOMAIN Cmds(p) = 1 .. Len(Cmds(p))
           /\ \A i \in DOMAIN Cmds(p) : Cmds(p)[i] \in Commands
<1>1. push[p] # NoPush
  BY DEF NoPush
<1>2. push[p].req \in Send[p]
  BY <1>1 DEF PushTypeOK
<1>3. push[p].req \in Requests
  BY <1>2, SendAssumption
<1>4. Cmds(p) \in Seq(Commands)
  BY <1>3 DEF Requests, Cmds
<1> QED BY <1>1, <1>3, <1>4 DEF PushTypeOK

\* Every step changes one push, in one of these ways.
LEMMA Others ==
    ASSUME PushTypeOK, NEW p \in Pushers, PushStep(p)
    PROVE  \A q \in Pushers \ {p} : push'[q] = push[q]
BY DEF PushTypeOK, PushStep, Receive, TruncateHook, WriteHook, Unpack, RunHook, JudgeLine,
       Verdict, Migrate, Apply, Report, Abort, Step, Over

\* The database only grows, by the pack of the push that leaves quarantine.
LEMMA ObjsGrow ==
    ASSUME NEW p \in Pushers, PushStep(p) PROVE objs \subseteq objs'
BY DEF PushStep, Receive, TruncateHook, WriteHook, Unpack, RunHook, JudgeLine,
       Verdict, Migrate, Apply, Report, Abort, storeVars

\* What a push that does not move has established stays.
LEMMA ConnectedStays ==
    ASSUME NEW q \in Pushers, Connected(q), push'[q] = push[q], objs \subseteq objs'
    PROVE  Connected(q)'
BY DEF Connected, Visible, Cmds

LEMMA PassedStays ==
    ASSUME NEW q \in Pushers, push'[q] = push[q],
           \A i \in Passed(q) : Clean(push[q].req, Cmds(q)[i])
    PROVE  (\A i \in Passed(q) : Clean(push[q].req, Cmds(q)[i]))'
BY DEF Passed, In, Cmds, Clean, Guarded, Allowed
-----------------------------------------------------------------------------
\* Types.

LEMMA TypeStep ==
    ASSUME StoreTypeOK, PushTypeOK, NEW p \in Pushers, PushStep(p)
    PROVE  PushTypeOK'
<1> USE DEF In
<1>1. ASSUME NEW q \in Pushers \ {p}
      PROVE  /\ push'[q] = push[q]
             /\ In(q, "apply")' => (push[q].req.pack \subseteq objs)'
  BY <1>1, Others, ObjsGrow, InProgress
<1>2. hookFile' \in {"whole", "empty"}
  BY DEF PushTypeOK, PushStep, Receive, TruncateHook, WriteHook, Unpack, RunHook, JudgeLine,
         Verdict, Migrate, Apply, Report, Abort
<1>5. DOMAIN push' = Pushers
  BY DEF PushTypeOK, PushStep, Receive, TruncateHook, WriteHook, Unpack, RunHook, JudgeLine,
         Verdict, Migrate, Apply, Report, Abort, Step, Over
<1> DEFINE Live(q) ==
      /\ push[q] \in [pc : {"install", "installing", "unpack", "hook", "judge",
                            "migrate", "apply"},
                      req : Send[q], broken : SUBSET DOMAIN Cmds(q),
                      line : 1 .. Len(Cmds(q)) + 1, bad : BOOLEAN,
                      headSeen : Heads \cup {NoRef}]
      /\ In(q, "apply") => push[q].req.pack \subseteq objs
<1>3. push'[p] = NoPush \/ Live(p)'
  <2>1. CASE Receive(p)
    <3>1. PICK req \in Send[p] : push'[p] =
            [NoPush EXCEPT !.pc = IF Enforced(req) THEN "install" ELSE "unpack", !.req = req]
      BY <2>1 DEF Receive, PushTypeOK
    <3>2. Cmds(p)' = req.cmds /\ req.cmds \in Seq(Commands)
      BY <3>1, SendAssumption DEF Cmds, NoPush, Requests
    <3>3. Len(Cmds(p))' \in Nat
      BY <3>2
    <3>4. PICK pc \in {"install", "unpack"} :
            push'[p] = [pc |-> pc, req |-> req, broken |-> {}, line |-> 1,
                        bad |-> FALSE, headSeen |-> NoRef]
      BY <3>1 DEF NoPush
    <3>5. 1 \in 1 .. Len(Cmds(p))' + 1
      BY <3>3
    <3> QED BY <3>4, <3>5
  <2>2. CASE TruncateHook(p) \/ WriteHook(p)
    <3>1. push[p].pc # "idle"
      BY <2>2 DEF TruncateHook, WriteHook
    <3>2. PICK pc \in {"installing", "unpack"} : push' = [push EXCEPT ![p].pc = pc]
      BY <2>2 DEF TruncateHook, WriteHook, Step
    <3>3. push'[p] = [push[p] EXCEPT !.pc = pc] /\ Cmds(p)' = Cmds(p)
      BY <3>1, <3>2, InProgress DEF PushTypeOK, Cmds
    <3> QED BY <3>1, <3>3, InProgress
  <2>3. CASE Unpack(p)
    <3>1. push[p].pc # "idle"
      BY <2>3 DEF Unpack
    <3>2. CASE Readable
      <4>1. PICK pc \in {"hook", "migrate"}, broken \in SUBSET DOMAIN Cmds(p) :
              push' = [push EXCEPT ![p].pc = pc, ![p].broken = broken]
        BY <2>3, <3>2 DEF Unpack
      <4>2. push'[p] = [push[p] EXCEPT !.pc = pc, !.broken = broken] /\ Cmds(p)' = Cmds(p)
        BY <3>1, <4>1, InProgress DEF PushTypeOK, Cmds
      <4> QED BY <3>1, <4>2, InProgress
    <3>3. CASE ~Readable
      BY <2>3, <3>3 DEF Unpack, Over, PushTypeOK
    <3> QED BY <3>2, <3>3
  <2>4. CASE RunHook(p) \/ Verdict(p) \/ Report(p) \/ Abort(p)
    <3>1. push[p].pc # "idle"
      BY <2>4 DEF RunHook, Verdict, Report, Abort
    <3> QED BY <2>4, <3>1, InProgress
            DEF RunHook, Verdict, Report, Abort, Step, Over, Cmds, PushTypeOK
  <2>5. CASE JudgeLine(p)
    <3>1. push[p].pc # "idle"
      BY <2>5 DEF JudgeLine
    <3>2. /\ push[p].line + 1 \in 1 .. Len(Cmds(p)) + 1
      BY <2>5, <3>1, InProgress DEF JudgeLine
    <3>3. CASE GitFails(p, Cmd(p))
      BY <2>5, <3>3 DEF JudgeLine, Over, PushTypeOK
    <3>4. CASE ~GitFails(p, Cmd(p))
      <4>1. PICK bad \in BOOLEAN : push' = [push EXCEPT ![p].line = @ + 1, ![p].bad = bad]
        BY <2>5, <3>1, <3>4, InProgress DEF JudgeLine
      <4> QED BY <2>5, <3>1, <3>2, <4>1, InProgress DEF JudgeLine, Cmds, PushTypeOK
    <3> QED BY <3>3, <3>4
  <2>6. CASE Migrate(p)
    <3>1. push[p].pc # "idle" /\ GitHead \in Heads \cup {NoRef}
      BY <2>6 DEF Migrate, GitHead
    <3>2. Len(Cmds(p)) \in Nat
      BY <3>1, InProgress
    <3>3. PICK seen \in Heads \cup {NoRef} :
            push' = [push EXCEPT ![p].pc = "apply", ![p].line = 1, ![p].headSeen = seen]
      BY <2>6, <3>1 DEF Migrate
    <3>4. /\ push'[p] = [push[p] EXCEPT !.pc = "apply", !.line = 1, !.headSeen = seen]
          /\ Cmds(p)' = Cmds(p)
      BY <3>1, <3>3, InProgress DEF PushTypeOK, Cmds
    <3>5. push'[p].req.pack \subseteq objs'
      <4>1. push'[p].req = push[p].req
        BY <3>1, <3>4, InProgress
      <4>2. push[p].req.pack \subseteq objs'
        BY <2>6 DEF Migrate
      <4> QED BY <4>1, <4>2
    <3>6. 1 \in 1 .. Len(Cmds(p)) + 1
      BY <3>2
    <3> QED BY <3>1, <3>4, <3>5, <3>6, InProgress
  <2>7. CASE Apply(p)
    <3>1. push[p].pc # "idle"
      BY <2>7 DEF Apply
    <3>2. /\ push[p].line + 1 \in 1 .. Len(Cmds(p)) + 1
      BY <2>7, <3>1, InProgress DEF Apply
    <3> QED BY <2>7, <3>1, <3>2, InProgress DEF Apply, Cmds, PushTypeOK
  <2> QED BY <2>1, <2>2, <2>3, <2>4, <2>5, <2>6, <2>7 DEF PushStep
<1>4. ASSUME NEW q \in Pushers \ {p} PROVE push'[q] = NoPush \/ Live(q)'
  BY <1>1 DEF PushTypeOK, Cmds
<1> QED BY <1>2, <1>3, <1>4, <1>5 DEF PushTypeOK

LEMMA StoreTypeStep ==
    ASSUME StoreTypeOK, PushTypeOK, NEW p \in Pushers, PushStep(p)
    PROVE  StoreTypeOK'
<1>1. CASE Migrate(p)
  <2>1. push[p].pc # "idle"
    BY <1>1 DEF Migrate, In
  <2>2. push[p].req.pack \subseteq Objects
    BY <2>1, InProgress DEF Requests
  <2> QED BY <1>1, <2>2 DEF Migrate, StoreTypeOK
<1>2. CASE Apply(p)
  <2>1. push[p].pc # "idle"
    BY <1>2 DEF Apply, In
  <2>2. push[p].line \in DOMAIN Cmds(p)
    BY <1>2, <2>1, InProgress DEF Apply
  <2>3. Cmd(p).new \in Objects \cup {NoOid}
    BY <2>1, <2>2, InProgress DEF Cmd, Commands
  <2> QED BY <1>2, <2>3 DEF Apply, SetRef, StoreTypeOK
<1>3. CASE ~Migrate(p) /\ ~Apply(p)
  BY <1>3 DEF PushStep, Receive, TruncateHook, WriteHook, Unpack, RunHook, JudgeLine,
       Verdict, Report, Abort, storeVars, StoreTypeOK
<1> QED BY <1>1, <1>2, <1>3
-----------------------------------------------------------------------------
\* What one step of a push does.

\* Only a command that is not broken moves a ref, and only the one it names.
LEMMA PushRefWriters ==
    ASSUME StoreTypeOK, PushTypeOK, NEW p \in Pushers, PushStep(p), ~UNCHANGED refs
    PROVE  LET c == Cmd(p) IN
           /\ Apply(p) /\ push[p].pc = "apply" /\ objs' = objs
           /\ push[p].line \in DOMAIN Cmds(p) \ push[p].broken
           /\ c \in Commands /\ c = Cmds(p)[push[p].line]
           /\ Deletes(p, c) \/ Updates(c)
           /\ refs'[c.ref] = c.new
           /\ \A r \in Refs \ {c.ref} : refs'[r] = refs[r]
<1>1. Apply(p)
  BY DEF PushStep, Receive, TruncateHook, WriteHook, Unpack, RunHook, JudgeLine,
         Verdict, Migrate, Report, Abort, storeVars
<1>2. push[p].pc = "apply" /\ push[p].pc # "idle" /\ objs' = objs
  BY <1>1 DEF Apply, In
<1>3. push[p].line \in DOMAIN Cmds(p)
  BY <1>1, <1>2, InProgress DEF Apply
<1>4. Cmd(p) \in Commands /\ Cmd(p).ref \in Refs
  BY <1>2, <1>3, InProgress DEF Cmd, Commands
<1>5. /\ push[p].line \notin push[p].broken
      /\ Deletes(p, Cmd(p)) \/ Updates(Cmd(p))
      /\ refs' = [refs EXCEPT ![Cmd(p).ref] = Cmd(p).new]
  BY <1>1 DEF Apply, SetRef
<1>6. DOMAIN refs = Refs
  BY DEF StoreTypeOK
<1> QED BY <1>1, <1>2, <1>3, <1>4, <1>5, <1>6 DEF Cmd

LEMMA RefsConnectedStep ==
    ASSUME BaseInv, NEW p \in Pushers, PushStep(p)
    PROVE  RefsConnected'
<1> SUFFICES ASSUME NEW r \in Refs, refs'[r] # NoOid
             PROVE  {refs'[r]} \cup History({refs'[r]}) \subseteq objs'
  BY DEF RefsConnected
<1>1. CASE refs'[r] = refs[r]
  BY <1>1, ObjsGrow DEF BaseInv, RefsConnected
<1>2. CASE refs'[r] # refs[r]
  <2>1. /\ push[p].pc = "apply" /\ objs' = objs
        /\ push[p].line \in DOMAIN Cmds(p) \ push[p].broken
        /\ refs'[r] = Cmds(p)[push[p].line].new
    BY <1>2, PushRefWriters DEF BaseInv
  <2>2. {refs'[r]} \cup History({refs'[r]}) \subseteq Visible(p)
    BY <2>1 DEF BaseInv, Connected
  <2>3. Visible(p) \subseteq objs
    BY <2>1, InProgress DEF Visible, BaseInv, In
  <2> QED BY <2>1, <2>2, <2>3
<1> QED BY <1>1, <1>2

\* What the refs reach is stored already.
LEMMA ReachedStored == ASSUME BaseInv PROVE History(RefValues) \subseteq objs
<1> SUFFICES ASSUME NEW k \in History(RefValues) PROVE k \in objs
  OBVIOUS
<1>1. PICK r \in Refs : refs[r] \in Commits /\ k \in Anc[refs[r]]
  BY DEF History, RefValues
<1>2. refs[r] # NoOid /\ k \in History({refs[r]})
  BY <1>1, GraphAssumption DEF History, Objects
<1> QED BY <1>2 DEF BaseInv, RefsConnected

LEMMA ConnectedStep ==
    ASSUME BaseInv, NEW p \in Pushers, PushStep(p)
    PROVE  Connected(p)'
<1> USE DEF In
<1>1. DOMAIN push = Pushers
  BY DEF BaseInv, PushTypeOK
<1>2. CASE Receive(p) \/ TruncateHook(p) \/ WriteHook(p) \/ Report(p) \/ Abort(p)
  <2>1. push'[p].pc \in {"idle", "install", "installing", "unpack"}
    <3>1. CASE TruncateHook(p) \/ WriteHook(p)
      BY <1>1, <3>1, InProgress DEF TruncateHook, WriteHook, Step, BaseInv
    <3>2. CASE Receive(p)
      BY <1>1, <3>2 DEF Receive, NoPush
    <3>3. CASE Report(p) \/ Abort(p)
      BY <1>1, <3>3 DEF Report, Abort, Over, NoPush
    <3> QED BY <1>2, <3>1, <3>2, <3>3
  <2> QED BY <2>1 DEF Connected
<1>3. CASE Unpack(p)
  <2>1. push[p].pc # "idle" /\ objs' = objs
    BY <1>3 DEF Unpack, storeVars
  <2>5. CASE ~Readable
    BY <1>1, <1>3, <2>5 DEF Unpack, Over, NoPush, Connected
  <2>6. SUFFICES ASSUME Readable PROVE Connected(p)'
    BY <2>5
  <2> DEFINE broken == {i \in DOMAIN Cmds(p) :
              LET new == Cmds(p)[i].new IN
              new # NoOid /\ ~({new} \cup NewCommits(new) \subseteq Visible(p))}
  <2>2. push'[p].broken = broken /\ push'[p].req = push[p].req
    BY <1>1, <1>3, <2>1, <2>6, InProgress DEF Unpack, BaseInv
  <2>3. Cmds(p)' = Cmds(p) /\ Visible(p)' = Visible(p)
    BY <2>1, <2>2 DEF Cmds, Visible
  <2>4. ASSUME NEW i \in DOMAIN Cmds(p) \ broken, Cmds(p)[i].new # NoOid
        PROVE  {Cmds(p)[i].new} \cup History({Cmds(p)[i].new}) \subseteq Visible(p)
    <3>1. {Cmds(p)[i].new} \cup NewCommits(Cmds(p)[i].new) \subseteq Visible(p)
      BY <2>4
    <3>2. History(RefValues) \subseteq Visible(p)
      BY ReachedStored DEF Visible
    <3> QED BY <3>1, <3>2 DEF NewCommits
  <2> QED BY <2>2, <2>3, <2>4 DEF Connected
<1>4. CASE RunHook(p) \/ JudgeLine(p) \/ Verdict(p) \/ Migrate(p) \/ Apply(p)
  <2>1. push[p].pc \in {"hook", "judge", "migrate", "apply"} /\ push[p].pc # "idle"
    BY <1>4 DEF RunHook, JudgeLine, Verdict, Migrate, Apply
  <2>2. \/ push'[p].pc = "idle"
        \/ push'[p].req = push[p].req /\ push'[p].broken = push[p].broken
    <3>1. CASE RunHook(p) \/ Verdict(p)
      BY <1>1, <2>1, <3>1, InProgress DEF RunHook, Verdict, Step, Over, NoPush, BaseInv
    <3>2. CASE JudgeLine(p)
      BY <1>1, <2>1, <3>2, InProgress DEF JudgeLine, Over, NoPush, BaseInv
    <3>3. CASE Migrate(p) \/ Apply(p)
      BY <1>1, <2>1, <3>3, InProgress DEF Migrate, Apply, BaseInv
    <3> QED BY <1>4, <3>1, <3>2, <3>3
  <2>3. CASE push'[p].pc = "idle"
    BY <2>3 DEF Connected
  <2>4. CASE push'[p].req = push[p].req /\ push'[p].broken = push[p].broken
    BY <2>1, <2>4, ObjsGrow DEF BaseInv, Connected, Cmds, Visible
  <2> QED BY <2>2, <2>3, <2>4
<1> QED BY <1>2, <1>3, <1>4 DEF PushStep

LEMMA BaseInvInit == StoreInit /\ PushInit => BaseInv
<1> SUFFICES ASSUME StoreInit, PushInit PROVE BaseInv
  OBVIOUS
<1>1. StoreTypeOK
  BY InitAssumption, RefNamesAssumption DEF StoreInit, StoreTypeOK, HeadFor
<1>2. RefsConnected
  BY InitAssumption DEF StoreInit, RefsConnected, History
<1>3. PushTypeOK /\ \A p \in Pushers : Connected(p)
  BY DEF PushInit, PushTypeOK, Connected, NoPush
<1> QED BY <1>1, <1>2, <1>3 DEF BaseInv

LEMMA BaseInvNext == BaseInv /\ [PushNext]_<<storeVars, pushVars>> => BaseInv'
<1> SUFFICES ASSUME BaseInv, [PushNext]_<<storeVars, pushVars>> PROVE BaseInv'
  OBVIOUS
<1>1. ASSUME NEW p \in Pushers, PushStep(p) PROVE BaseInv'
  <2>1. StoreTypeOK' /\ PushTypeOK' /\ RefsConnected'
    BY <1>1, TypeStep, StoreTypeStep, RefsConnectedStep DEF BaseInv
  <2>2. \A q \in Pushers : Connected(q)'
    BY <1>1, Others, ObjsGrow, ConnectedStays, ConnectedStep DEF BaseInv
  <2> QED BY <2>1, <2>2 DEF BaseInv
<1>2. CASE UNCHANGED <<storeVars, pushVars>>
  BY <1>2 DEF BaseInv, StoreTypeOK, PushTypeOK, RefsConnected, Connected, Visible, Cmds, In,
              storeVars, pushVars
<1> QED BY <1>1, <1>2 DEF PushNext

LEMMA BaseInvariant == PushSpec => []BaseInv
BY BaseInvInit, BaseInvNext, PTL DEF PushSpec, PushStart

\* Type correctness, and no ref moves before its push's objects are stored.
THEOREM PushTypes == PushSpec => []PushTypeOK
<1>1. BaseInv => PushTypeOK
  BY DEF BaseInv
<1> QED BY <1>1, BaseInvariant, PTL

\* Whatever packs are sent and however the pushes interleave or die, every ref's
\* whole history is in the database (receive-pack's connectivity check).
THEOREM PushesKeepRefsConnected == PushSpec => []RefsConnected
<1>1. BaseInv => RefsConnected
  BY DEF BaseInv
<1> QED BY <1>1, BaseInvariant, PTL
-----------------------------------------------------------------------------
\* The hook's verdict, when no push meets a script that is being rewritten.

\* A new value of a push whose paths are not confined is allowed to bring in
\* whatever is below it; one of a confined push, whatever stays in its paths.
LEMMA SentIsAllowed ==
    ASSUME NEW p \in Pushers, NEW req \in Send[p], NEW i \in DOMAIN req.cmds,
           NEW k \in History({req.cmds[i].new}),
           "paths" \in req.confined => Changed[k] \subseteq req.pathsIn
    PROVE  Allowed(k)
BY DEF Allowed

\* A line the hook finds no fault with.
JudgedFine(p) ==
    /\ push[p].pc = "judge" /\ push[p].line \in DOMAIN Cmds(p)
    /\ ~GitFails(p, Cmd(p)) /\ ~Rewrites(p, Cmd(p)) /\ ~OutOfBounds(p, Cmd(p))

\* With nothing to enforce there is nothing to establish.
LEMMA UnenforcedIsClean ==
    ASSUME NEW p \in Pushers, NEW req \in Send[p], ~Enforced(req), NEW i \in DOMAIN req.cmds
    PROVE  Clean(req, req.cmds[i])
BY SentIsAllowed DEF Enforced, Clean, Guarded

\* What the hook read from the refs is stale by the time of the update, what it concluded
\* is about commits only.
LEMMA JudgedIsGuarded ==
    ASSUME NEW p \in Pushers, JudgedFine(p) PROVE Guarded(push[p].req, Cmd(p))
<1> DEFINE c == Cmd(p)
<1> SUFFICES ASSUME c.ref \in push[p].req.protected
             PROVE  /\ c.new # NoOid
                    /\ c.old # NoOid => {c.old, c.new} \subseteq Commits /\ c.old \in Anc[c.new]
  BY DEF Guarded
<1>1. c.new # NoOid
  BY DEF Rewrites, JudgedFine
<1>2. ASSUME c.old # NoOid
      PROVE  {c.old, c.new} \subseteq Commits /\ c.old \in Anc[c.new]
  <2>1. /\ IsAncestor(Visible(p), c.old, c.new) # "no"
        /\ IsAncestor(Visible(p), c.old, c.new) # "error"
    BY <1>1, <1>2 DEF Rewrites, GitFails, JudgedFine
  <2> QED BY <2>1 DEF IsAncestor
<1> QED BY <1>1, <1>2

LEMMA JudgedIsClean ==
    ASSUME BaseInv, PathsConfined, NEW p \in Pushers, JudgedFine(p)
    PROVE  Clean(push[p].req, Cmd(p))
<1> DEFINE c == Cmd(p)
           req == push[p].req
<1>1. req \in Send[p] /\ c \in Commands /\ c = req.cmds[push[p].line]
  BY InProgress DEF BaseInv, Cmd, Cmds, JudgedFine
<1>2. Guarded(req, c)
  BY JudgedIsGuarded
<1>3. ASSUME NEW k \in History({c.new}) PROVE Allowed(k)
  <2>1. CASE k \in History(RefValues)
    BY <2>1 DEF PathsConfined
  <2>2. CASE k \notin History(RefValues)
    <3>1. k \in NewCommits(c.new)
      BY <1>3, <2>2 DEF NewCommits
    <3>2. c.new # NoOid
      BY <1>3, GraphAssumption DEF History, Objects
    <3>3. "paths" \in req.confined => Changed[k] \subseteq req.pathsIn
      BY <3>1, <3>2 DEF OutOfBounds, ConfinedPaths, JudgedFine
    <3>4. push[p].line \in DOMAIN req.cmds
      BY DEF Cmds, JudgedFine
    <3> QED BY <1>1, <1>3, <3>3, <3>4, SentIsAllowed
  <2> QED BY <2>1, <2>2
<1> QED BY <1>2, <1>3 DEF Clean

LEMMA UnreadStep ==
    ASSUME PushTypeOK, NEW p \in Pushers, Unread(p), PushStep(p)
    PROVE  Unread(p)'
<1> USE DEF In
<1> SUFFICES ASSUME push'[p].pc \in {"install", "installing", "unpack", "hook"}
             PROVE  push'[p].line = 1
  BY DEF Unread
<1>1. DOMAIN push = Pushers
  BY DEF PushTypeOK
<1>5. ~Over(p)
  BY <1>1 DEF Over, NoPush
<1>2. CASE Receive(p)
  BY <1>1, <1>2 DEF Receive, NoPush
<1>3. CASE TruncateHook(p) \/ WriteHook(p)
  <2>1. push[p].pc \in {"install", "installing"} /\ push[p].pc # "idle"
    BY <1>3 DEF TruncateHook, WriteHook
  <2>2. push'[p].line = push[p].line
    BY <1>1, <1>3, <2>1, InProgress DEF TruncateHook, WriteHook, Step
  <2> QED BY <2>1, <2>2 DEF Unread
<1>4. CASE Unpack(p)
  <2>1. push[p].pc = "unpack" /\ push'[p].line = push[p].line
    BY <1>1, <1>4, <1>5, InProgress DEF Unpack
  <2> QED BY <2>1 DEF Unread
<1>6. ASSUME RunHook(p) \/ Verdict(p) PROVE FALSE
  <2>1. push[p].pc # "idle"
    BY <1>6 DEF RunHook, Verdict
  <2>2. PICK pc \in {"judge", "migrate"} : Step(p, pc)
    BY <1>5, <1>6 DEF RunHook, Verdict
  <2> QED BY <1>1, <2>1, <2>2, InProgress DEF Step
<1>7. ASSUME JudgeLine(p) PROVE FALSE
  <2>1. push[p].pc = "judge"
    BY <1>7 DEF JudgeLine
  <2>2. push'[p].pc = "judge"
    BY <1>1, <1>5, <1>7, <2>1, InProgress DEF JudgeLine
  <2> QED BY <2>2
<1>8. ASSUME Migrate(p) \/ Apply(p) PROVE FALSE
  <2>1. push[p].pc # "idle"
    BY <1>8 DEF Migrate, Apply
  <2>2. push'[p].pc = "apply"
    BY <1>1, <1>8, <2>1, InProgress DEF Migrate, Apply
  <2> QED BY <2>2
<1> QED BY <1>2, <1>3, <1>4, <1>5, <1>6, <1>7, <1>8 DEF PushStep, Report, Abort

\* A step lets a command pass only when the hook found no fault with it, or when there is
\* nothing to enforce.
LEMMA PassedGrows ==
    ASSUME ~Overlap, PushTypeOK, NEW p \in Pushers, Unread(p), PushStep(p), NEW i \in Passed(p)'
    PROVE  /\ push[p].pc # "idle" /\ push'[p].req = push[p].req /\ Cmds(p)' = Cmds(p)
           /\ push[p].req \in Send[p] /\ i \in DOMAIN Cmds(p)
           /\ \/ i \in Passed(p)
              \/ ~Enforced(push[p].req)
              \/ (JudgedFine(p) /\ i = push[p].line)
<1> USE DEF In
<1>1. DOMAIN push = Pushers
  BY DEF PushTypeOK
<1>2. push'[p].pc \in {"judge", "migrate", "apply"}
  BY DEF Passed
<1>8. ~Over(p)
  BY <1>1, <1>2 DEF Over, NoPush
<1>9. RunHook(p) \/ Unpack(p) \/ JudgeLine(p) \/ Verdict(p) \/ Migrate(p) \/ Apply(p)
  <2>1. ~Receive(p)
    <3> SUFFICES ASSUME Receive(p) PROVE FALSE
      OBVIOUS
    <3>1. push'[p].pc \in {"install", "unpack"}
      BY <1>1 DEF Receive, NoPush
    <3> QED BY <1>2, <3>1
  <2>2. ~TruncateHook(p) /\ ~WriteHook(p)
    BY <1>1, <1>2, InProgress DEF TruncateHook, WriteHook, Step
  <2> QED BY <1>8, <2>1, <2>2 DEF PushStep, Report, Abort
<1>3. push[p].pc # "idle" /\ push'[p].req = push[p].req
  <2>2. push[p].pc # "idle"
    BY <1>9 DEF Unpack, RunHook, JudgeLine, Verdict, Migrate, Apply
  <2>3. CASE RunHook(p) \/ Verdict(p)
    <3>2. PICK pc \in {"judge", "migrate"} : Step(p, pc)
      BY <1>8, <2>3 DEF RunHook, Verdict
    <3> QED BY <1>1, <2>2, <3>2, InProgress DEF Step
  <2>4. CASE Unpack(p) \/ Migrate(p) \/ Apply(p)
    <3>1. CASE Unpack(p)
      BY <1>1, <1>8, <2>2, <3>1, InProgress DEF Unpack
    <3>2. CASE Migrate(p) \/ Apply(p)
      BY <1>1, <2>2, <3>2, InProgress DEF Migrate, Apply
    <3> QED BY <2>4, <3>1, <3>2
  <2>5. CASE JudgeLine(p)
    BY <1>1, <1>2, <2>2, <2>5, InProgress DEF JudgeLine, Over, NoPush
  <2> QED BY <1>9, <2>3, <2>4, <2>5
<1>4. Cmds(p)' = Cmds(p) /\ push[p].req \in Send[p] /\ DOMAIN Cmds(p) = 1 .. Len(Cmds(p))
  BY <1>3, InProgress DEF Cmds
<1>5. push[p].line \in 1 .. Len(Cmds(p)) + 1 /\ Len(Cmds(p)) \in Nat
  BY <1>3, InProgress
<1>6. CASE i \in Passed(p)
  <2>1. i \in DOMAIN Cmds(p)
    BY <1>4, <1>5, <1>6 DEF Passed
  <2> QED BY <1>3, <1>4, <1>6, <2>1
<1>7. CASE i \notin Passed(p)
  <2>2. CASE Unpack(p)
    <3>1. ~Enforced(push[p].req) /\ i \in DOMAIN Cmds(p)
      BY <1>1, <1>2, <1>3, <1>4, <1>8, <2>2, InProgress DEF Unpack, Passed
    <3> QED BY <1>3, <1>4, <3>1
  <2>3. CASE RunHook(p)
    <3>1. Step(p, "judge") /\ push[p].pc = "hook"
      BY <1>1, <1>2, <2>3 DEF RunHook, Over, NoPush
    <3>2. push'[p].pc = "judge" /\ push'[p].line = push[p].line
      BY <1>1, <1>3, <3>1, InProgress DEF Step
    <3>3. push'[p].line = 1
      BY <3>1, <3>2 DEF Unread
    <3>4. Passed(p)' = {}
      BY <3>2, <3>3 DEF Passed
    <3> QED BY <3>4
  <2>4. CASE JudgeLine(p)
    <3>1. push[p].pc = "judge" /\ push[p].line <= Len(Cmds(p)) /\ ~GitFails(p, Cmd(p))
      BY <1>1, <1>2, <2>4 DEF JudgeLine, Over, NoPush
    <3> DEFINE bad == push[p].bad \/ Rewrites(p, Cmd(p)) \/ OutOfBounds(p, Cmd(p))
    <3>2. push' = [push EXCEPT ![p].line = @ + 1, ![p].bad = bad]
      BY <2>4, <3>1 DEF JudgeLine
    <3>3. /\ push'[p].pc = "judge" /\ push'[p].line = push[p].line + 1
          /\ push'[p].bad = bad
      BY <1>1, <1>3, <3>1, <3>2, InProgress
    <3>4. push[p].line \in 1 .. Len(Cmds(p)) + 1 /\ Len(Cmds(p)) \in Nat
      BY <1>3, InProgress
    <3>8. ~push'[p].bad /\ i \in 1 .. push'[p].line - 1
      BY <3>3 DEF Passed
    <3>9. ~bad
      BY <3>3, <3>8, Zenon
    <3>10. i \in 1 .. push[p].line
      <4> HIDE DEF bad
      <4> QED BY <3>3, <3>4, <3>8
    <3>5. ~bad /\ i \in 1 .. push[p].line
      BY <3>9, <3>10
    <3>6. i = push[p].line
      BY <1>7, <3>1, <3>4, <3>5 DEF Passed
    <3>7. push[p].line \in DOMAIN Cmds(p)
      BY <1>4, <3>1, <3>4
    <3> QED BY <1>3, <1>4, <3>1, <3>5, <3>6, <3>7 DEF JudgedFine
  <2>5. CASE Verdict(p)
    <3>1. /\ push[p].pc = "judge" /\ ~push[p].bad /\ push[p].line > Len(Cmds(p))
          /\ push'[p].pc = "migrate"
      BY <1>1, <1>2, <1>3, <2>5, InProgress DEF Verdict, Over, Step, NoPush
    <3>2. i \in 1 .. Len(Cmds(p)) /\ push[p].line \in 1 .. Len(Cmds(p)) + 1
      BY <1>3, <1>4, <3>1, InProgress DEF Passed
    <3> QED BY <1>7, <3>1, <3>2 DEF Passed
  <2>6. CASE Migrate(p) \/ Apply(p)
    <3>1. push[p].pc \in {"migrate", "apply"} /\ push'[p].pc = "apply"
      BY <1>1, <1>3, <2>6, InProgress DEF Migrate, Apply
    <3> QED BY <1>4, <1>7, <3>1 DEF Passed
  <2> QED BY <1>9, <2>2, <2>3, <2>4, <2>5, <2>6
<1> QED BY <1>6, <1>7

LEMMA PassedStep ==
    ASSUME ~Overlap, BaseInv, JudgeInv, NEW p \in Pushers, PushStep(p),
           NEW i \in Passed(p)'
    PROVE  Clean(push[p].req, Cmds(p)[i])'
<1>1. /\ push'[p].req = push[p].req /\ Cmds(p)' = Cmds(p) /\ push[p].req \in Send[p] /\ i \in DOMAIN Cmds(p)
      /\ i \in Passed(p) \/ ~Enforced(push[p].req) \/ (JudgedFine(p) /\ i = push[p].line)
  BY PassedGrows DEF BaseInv, JudgeInv
<1>2. Clean(push[p].req, Cmds(p)[i])
  <2>1. CASE i \in Passed(p)
    BY <2>1 DEF JudgeInv
  <2>2. CASE ~Enforced(push[p].req)
    BY <1>1, <2>2, UnenforcedIsClean DEF Cmds
  <2>3. CASE JudgedFine(p) /\ i = push[p].line
    BY <2>3, JudgedIsClean DEF JudgeInv, Cmd
  <2> QED BY <1>1, <2>1, <2>2, <2>3
<1> QED BY <1>1, <1>2 DEF Clean, Guarded, Allowed

\* A new value that was let pass brings in allowed commits only.
LEMMA PathsConfinedStep ==
    ASSUME BaseInv, JudgeInv, NEW p \in Pushers, PushStep(p)
    PROVE  PathsConfined'
<1> SUFFICES ASSUME NEW r \in Refs, refs'[r] \in Commits, NEW k \in Anc[refs'[r]]
             PROVE  Allowed(k)
  BY DEF PathsConfined, History, RefValues, Allowed
<1>1. CASE refs'[r] = refs[r]
  BY <1>1 DEF JudgeInv, PathsConfined, History, RefValues
<1>2. CASE refs'[r] # refs[r]
  <2>1. /\ push[p].pc = "apply"
        /\ push[p].line \in DOMAIN Cmds(p)
        /\ refs'[r] = Cmds(p)[push[p].line].new
    BY <1>2, PushRefWriters DEF BaseInv
  <2>2. push[p].line \in Passed(p)
    BY <2>1 DEF Passed, In
  <2>3. Clean(push[p].req, Cmds(p)[push[p].line])
    BY <2>2 DEF JudgeInv
  <2>4. k \in History({refs'[r]})
    BY DEF History
  <2> QED BY <2>1, <2>3, <2>4 DEF Clean
<1> QED BY <1>1, <1>2

LEMMA JudgeInvInit == StoreInit /\ PushInit => JudgeInv
<1> SUFFICES ASSUME StoreInit, PushInit PROVE JudgeInv
  OBVIOUS
<1>1. PathsConfined
  BY DEF StoreInit, PathsConfined, Allowed, RefValues
<1>2. \A p \in Pushers : Unread(p) /\ Passed(p) = {}
  BY DEF PushInit, Unread, Passed, NoPush, In
<1> QED BY <1>1, <1>2 DEF JudgeInv

LEMMA JudgeInvNext ==
    ASSUME ~Overlap
    PROVE  BaseInv /\ JudgeInv /\ [PushNext]_<<storeVars, pushVars>> => JudgeInv'
<1> SUFFICES ASSUME BaseInv, JudgeInv, [PushNext]_<<storeVars, pushVars>> PROVE JudgeInv'
  OBVIOUS
<1>1. ASSUME NEW p \in Pushers, PushStep(p) PROVE JudgeInv'
  <2>1. PathsConfined'
    BY <1>1, PathsConfinedStep
  <2>2. ASSUME NEW q \in Pushers
        PROVE  Unread(q)' /\ (\A i \in Passed(q) : Clean(push[q].req, Cmds(q)[i]))'
    <3>1. CASE q = p
      BY <1>1, <3>1, UnreadStep, PassedStep DEF JudgeInv, BaseInv
    <3>2. CASE q # p
      <4>1. push'[q] = push[q]
        BY <1>1, <3>2, Others DEF BaseInv
      <4>2. Unread(q)'
        BY <4>1 DEF JudgeInv, Unread
      <4> QED BY <4>1, <4>2, PassedStays DEF JudgeInv
    <3> QED BY <3>1, <3>2
  <2> QED BY <2>1, <2>2 DEF JudgeInv
<1>2. CASE UNCHANGED <<storeVars, pushVars>>
  <2>1. PathsConfined'
    BY <1>2 DEF JudgeInv, PathsConfined, RefValues, Allowed, storeVars
  <2>2. ASSUME NEW q \in Pushers
        PROVE  Unread(q)' /\ (\A i \in Passed(q) : Clean(push[q].req, Cmds(q)[i]))'
    <3>1. push'[q] = push[q]
      BY <1>2 DEF pushVars
    <3> QED BY <3>1, PassedStays DEF JudgeInv, Unread
  <2> QED BY <2>1, <2>2 DEF JudgeInv
<1> QED BY <1>1, <1>2 DEF PushNext

LEMMA JudgeInvariant == ASSUME ~Overlap PROVE PushSpec => []JudgeInv
BY BaseInvariant, JudgeInvInit, JudgeInvNext, PTL DEF PushSpec, PushStart

\* Path confinement holds for the whole service's run (hook.rs:63-110).
THEOREM PushesKeepPathsConfined == ASSUME ~Overlap PROVE PushSpec => []PathsConfined
<1>1. JudgeInv => PathsConfined
  BY DEF JudgeInv
<1> QED BY <1>1, JudgeInvariant, PTL

\* The verdict on the old value the client claimed is enough, since the update
\* compares the ref with that same value (hook.rs:140-154).
THEOREM PushesKeepProtection == ASSUME ~Overlap PROVE PushSpec => ProtectedForward
<1> DEFINE Moves == \A p \in Pushers : push'[p] # push[p] /\ In(p, "apply") =>
             \A b \in push[p].req.protected : refs'[b] # refs[b] =>
                 \/ refs[b] = NoOid
                 \/ {refs[b], refs'[b]} \subseteq Commits /\ refs[b] \in Anc[refs'[b]]
<1>1. BaseInv /\ JudgeInv /\ [PushNext]_<<storeVars, pushVars>> => [Moves]_<<refs, push>>
  <2> SUFFICES ASSUME BaseInv, JudgeInv, NEW q \in Pushers, PushStep(q),
                      NEW p \in Pushers, push'[p] # push[p], In(p, "apply"),
                      NEW b \in push[p].req.protected, refs'[b] # refs[b], refs[b] # NoOid
               PROVE  {refs[b], refs'[b]} \subseteq Commits /\ refs[b] \in Anc[refs'[b]]
    BY DEF PushNext, storeVars, pushVars
  <2>1. PushStep(p)
    BY Others DEF BaseInv
  <2>2. b \in Refs
    BY InProgress DEF BaseInv, In, Requests, Refs
  <2> DEFINE c == Cmd(p)
  <2>3. /\ push[p].pc = "apply" /\ push[p].line \in DOMAIN Cmds(p)
        /\ c = Cmds(p)[push[p].line] /\ c.ref = b /\ refs'[b] = c.new
        /\ Deletes(p, c) \/ Updates(c)
    BY <2>1, <2>2, PushRefWriters DEF BaseInv
  <2>4. Clean(push[p].req, c)
    BY <2>3 DEF JudgeInv, Passed, In
  <2>5. /\ c.new # NoOid
        /\ c.old # NoOid => {c.old, c.new} \subseteq Commits /\ c.old \in Anc[c.new]
    BY <2>3, <2>4 DEF Clean, Guarded
  <2>6. refs[b] = c.old
    BY <2>3, <2>5 DEF Deletes, Updates, RefAccepts
  <2> QED BY <2>3, <2>5, <2>6
<1> QED BY <1>1, BaseInvariant, JudgeInvariant, PTL DEF PushSpec, PushStart, ProtectedForward
=============================================================================
