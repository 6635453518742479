--------------------------- MODULE RepositoryProofs ---------------------------
(***************************************************************************)
(* Proofs about Repository, for any number of names, directories and calls. *)
(***************************************************************************)
EXTENDS Repository, TLAPS

LifePc == {"idle", "check", "mkdir", "fill", "setHead", "move", "open", "empty", "rmdir"}

\* A call that is not idle has a request it may have; while it empties or removes a
\* directory, that directory is doomed.
CallInv(c) ==
    \/ life[c] = NoLife
    \/ /\ life[c].pc \in LifePc \ {"idle"}
       /\ life[c].req \in LifeAsk[c]
       /\ life[c].dir \in doomed \cup {NoDir}
       /\ life[c].pc \in {"mkdir", "fill", "setHead"} => life[c].req.op = "init"
       /\ life[c].pc = "move" => life[c].req.op = "rename"
       /\ life[c].pc \in {"open", "empty", "rmdir"} => life[c].req.op = "delete"
       /\ life[c].pc = "empty" => life[c].dir # NoDir

LifeInv ==
    /\ LifeTypeOK
    /\ life \in [Callers -> [pc : LifePc, req : LifeRequests \cup {<<>>}, dir : Dirs \cup {NoDir}]]
    /\ \A c \in Callers : CallInv(c)
    /\ KeptUntilDeleted

\* A directory with files in it is only emptied by a delete that opened it.
OnlyDoomedAreEmptied ==
    [][\A d \in Dirs : disk[d].filled /\ ~disk'[d].filled => d \in doomed]_lifeVars
-----------------------------------------------------------------------------
LEMMA RequestFields ==
    ASSUME NEW req \in LifeRequests
    PROVE  /\ req.name \in Names
           /\ req.op = "init" => req.branch \in Branches
           /\ req.op = "rename" => req.to \in Names
BY DEF LifeRequests

\* What an active call is about.
LEMMA Active ==
    ASSUME LifeInv, NEW c \in Callers, life[c].pc # "idle"
    PROVE  /\ life[c].req \in LifeAsk[c] /\ life[c].req \in LifeRequests
           /\ life[c].req.name \in Names
           /\ life[c].req.op = "init" => life[c].req.branch \in Branches
           /\ life[c].req.op = "rename" => life[c].req.to \in Names
           /\ life[c].dir \in doomed \cup {NoDir}
           /\ life[c].pc = "empty" => life[c].dir \in doomed
<1>1. life[c] # NoLife
  BY DEF NoLife
<1>2. /\ life[c].req \in LifeAsk[c] /\ life[c].dir \in doomed \cup {NoDir}
      /\ life[c].pc = "empty" => life[c].dir # NoDir
  BY <1>1 DEF LifeInv, CallInv
<1>3. LifeAsk[c] \subseteq LifeRequests
  BY LifeAssumption
<1> QED BY <1>2, <1>3, RequestFields

\* The calls after a step of one of them: it is over, or it goes on as it should.
CallsInv ==
    /\ life \in [Callers -> [pc : LifePc, req : LifeRequests \cup {<<>>}, dir : Dirs \cup {NoDir}]]
    /\ \A c \in Callers : CallInv(c)

LEMMA CallOver ==
    ASSUME LifeInv, NEW c \in Callers, Answered(c),
           \A k \in Callers : life[k].dir \in doomed => life[k].dir \in doomed'
    PROVE  CallsInv'
<1>1. life' \in [Callers -> [pc : LifePc, req : LifeRequests \cup {<<>>}, dir : Dirs \cup {NoDir}]]
  BY DEF LifeInv, Answered, NoLife, LifePc
<1>2. CallInv(c)'
  BY DEF LifeInv, Answered, CallInv
<1>3. ASSUME NEW k \in Callers \ {c} PROVE CallInv(k)'
  <2>1. life'[k] = life[k]
    BY DEF LifeInv, Answered
  <2> QED BY <2>1 DEF LifeInv, CallInv
<1> QED BY <1>1, <1>2, <1>3 DEF CallsInv

LEMMA CallGoesOn ==
    ASSUME LifeInv, NEW c \in Callers, life[c].pc # "idle",
           NEW pc \in LifePc \ {"idle"}, NEW dir \in Dirs \cup {NoDir},
           life' = [life EXCEPT ![c].pc = pc, ![c].dir = dir],
           dir \in doomed' \cup {NoDir}, pc = "empty" => dir # NoDir,
           pc \in {"mkdir", "fill", "setHead"} => life[c].req.op = "init",
           pc = "move" => life[c].req.op = "rename",
           pc \in {"open", "empty", "rmdir"} => life[c].req.op = "delete",
           \A k \in Callers : life[k].dir \in doomed => life[k].dir \in doomed'
    PROVE  CallsInv'
<1>1. life' \in [Callers -> [pc : LifePc, req : LifeRequests \cup {<<>>}, dir : Dirs \cup {NoDir}]]
  BY DEF LifeInv
<1>2. CallInv(c)'
  <2>1. life'[c].pc = pc /\ life'[c].dir = dir /\ life'[c].req = life[c].req
    BY DEF LifeInv
  <2> QED BY <2>1, Active DEF CallInv
<1>3. ASSUME NEW k \in Callers \ {c} PROVE CallInv(k)'
  <2>1. life'[k] = life[k]
    BY DEF LifeInv
  <2> QED BY <2>1 DEF LifeInv, CallInv
<1> QED BY <1>1, <1>2, <1>3 DEF CallsInv

LEMMA CallTo ==
    ASSUME LifeInv, NEW c \in Callers, life[c].pc # "idle",
           NEW pc \in LifePc \ {"idle", "empty"}, Then(c, pc),
           pc \in {"mkdir", "fill", "setHead"} => life[c].req.op = "init",
           pc = "move" => life[c].req.op = "rename",
           pc \in {"open", "empty", "rmdir"} => life[c].req.op = "delete",
           \A k \in Callers : life[k].dir \in doomed => life[k].dir \in doomed'
    PROVE  CallsInv'
<1>1. life[c].dir \in doomed' \cup {NoDir}
  BY Active
<1>2. life' = [life EXCEPT ![c].pc = pc, ![c].dir = life[c].dir]
  BY DEF Then, LifeInv
<1>3. life[c].dir \in Dirs \cup {NoDir}
  BY DEF LifeInv
<1> QED BY <1>1, <1>2, <1>3, CallGoesOn

\* The paths and directories.
DiskInv ==
    /\ at \in [Names -> Dirs \cup {NoDir}]
    /\ \A m, n \in Names : at[m] = at[n] => m = n \/ at[m] = NoDir
    /\ disk \in [Dirs -> [filled : BOOLEAN, head : Branches \cup {NoHead}]]
    /\ doomed \subseteq Dirs
    /\ KeptUntilDeleted

LEMMA InvParts ==
    (LifeInv <=> DiskInv /\ CallsInv) /\ (LifeInv' <=> DiskInv' /\ CallsInv')
BY DEF LifeInv, DiskInv, CallsInv, CallInv, LifeTypeOK

LEMMA DiskStays == LifeInv /\ UNCHANGED <<at, disk, doomed>> => DiskInv'
BY InvParts DEF DiskInv, KeptUntilDeleted

Emptied == \A d \in Dirs : disk[d].filled /\ ~disk'[d].filled => d \in doomed
-----------------------------------------------------------------------------
\* One lemma per action.

LEMMA NewRequest ==
    ASSUME NEW none, NEW req
    PROVE  [[pc |-> "idle", req |-> none, dir |-> NoDir] EXCEPT !.pc = "check", !.req = req]
             = [pc |-> "check", req |-> req, dir |-> NoDir]
<1>1. [[pc |-> "idle", req |-> none, dir |-> NoDir] EXCEPT !.pc = "check"]
        = [pc |-> "check", req |-> none, dir |-> NoDir]
  OBVIOUS
<1>2. [[pc |-> "check", req |-> none, dir |-> NoDir] EXCEPT !.req = req]
        = [pc |-> "check", req |-> req, dir |-> NoDir]
  OBVIOUS
<1>3. [[pc |-> "idle", req |-> none, dir |-> NoDir] EXCEPT !.pc = "check", !.req = req]
        = [[[pc |-> "idle", req |-> none, dir |-> NoDir] EXCEPT !.pc = "check"] EXCEPT !.req = req]
  OBVIOUS
<1> QED BY <1>1, <1>2, <1>3, Zenon

LEMMA AskStep ==
    ASSUME LifeInv, NEW c \in Callers, AskLife(c) PROVE LifeInv' /\ Emptied
<1>1. PICK req \in LifeAsk[c] :
        life' = [life EXCEPT ![c] = [NoLife EXCEPT !.pc = "check", !.req = req]]
  BY DEF AskLife
<1>2. req \in LifeRequests
  BY LifeAssumption
<1>3. [NoLife EXCEPT !.pc = "check", !.req = req] = [pc |-> "check", req |-> req, dir |-> NoDir]
  BY NewRequest, Zenon DEF NoLife
<1>4. life' = [life EXCEPT ![c] = [pc |-> "check", req |-> req, dir |-> NoDir]]
  BY <1>1, <1>3
<1>5. life' \in [Callers -> [pc : LifePc, req : LifeRequests \cup {<<>>}, dir : Dirs \cup {NoDir}]]
  BY <1>2, <1>4 DEF LifeInv, LifePc
<1>6. CallInv(c)'
  BY <1>4 DEF LifeInv, CallInv, LifePc
<1>7. ASSUME NEW k \in Callers \ {c} PROVE CallInv(k)'
  BY <1>1 DEF LifeInv, CallInv, AskLife
<1>8. CallsInv'
  BY <1>5, <1>6, <1>7 DEF CallsInv
<1> QED BY <1>8, InvParts, DiskStays DEF AskLife, Emptied

\* The steps that only look at the paths.
LEMMA LookStep ==
    ASSUME LifeInv, NEW c \in Callers,
           InitCheck(c) \/ InitFails(c) \/ RenameCheck(c) \/ DeleteCheck(c)
    PROVE  LifeInv' /\ Emptied
<1>1. UNCHANGED <<at, disk, doomed>>
  BY DEF InitCheck, InitFails, RenameCheck, DeleteCheck
<1>2. \/ Answered(c)
      \/ life[c].pc = "check" /\ life[c].req.op = "init" /\ Then(c, "mkdir")
      \/ life[c].pc = "check" /\ life[c].req.op = "rename" /\ Then(c, "move")
      \/ life[c].pc = "check" /\ life[c].req.op = "delete" /\ Then(c, "open")
  BY DEF InitCheck, InitFails, RenameCheck, DeleteCheck, Doing
<1>3. {"mkdir", "move", "open"} \subseteq LifePc \ {"idle", "empty"}
  BY DEF LifePc
<1>4. CallsInv'
  BY <1>1, <1>2, <1>3, CallOver, CallTo
<1> QED BY <1>1, <1>4, InvParts, DiskStays DEF Emptied

\* A new directory was under no name, so that no name loses one; and no delete holds
\* it, so that it may be taken from the doomed ones.
LEMMA MakeDirStep ==
    ASSUME LifeInv, NEW c \in Callers, MakeDir(c) PROVE LifeInv' /\ Emptied
<1> DEFINE n == life[c].req.name
<1>1. /\ life[c].pc = "mkdir" /\ life[c].req.op = "init" /\ n \in Names
      /\ "fill" \in LifePc \ {"idle", "empty"}
  BY Active DEF MakeDir, Doing, LifePc
<1>2. CASE Here(c) # NoDir
  <2>1. UNCHANGED <<at, disk, doomed>> /\ (Answered(c) \/ Then(c, "fill"))
    BY <1>2 DEF MakeDir
  <2>2. CallsInv'
    BY <1>1, <2>1, CallOver, CallTo
  <2> QED BY <2>1, <2>2, InvParts, DiskStays DEF Emptied
<1>3. CASE Here(c) = NoDir
  <2>1. PICK d \in Unused :
          /\ at' = [at EXCEPT ![n] = d] /\ disk' = [disk EXCEPT ![d] = Empty]
          /\ doomed' = doomed \ {d} /\ Then(c, "fill")
    BY <1>3 DEF MakeDir
  <2>2. /\ d \in Dirs /\ \A m \in Names : at[m] # d
        /\ \A k \in Callers : life[k].dir # d
    BY <2>1 DEF Unused
  <2>3. CallsInv'
    BY <1>1, <2>1, <2>2, CallTo
  <2>4. at[n] = NoDir
    BY <1>3 DEF Here
  <2>5. /\ at' \in [Names -> Dirs \cup {NoDir}]
        /\ \A m, o \in Names : at'[m] = at'[o] => m = o \/ at'[m] = NoDir
    BY <1>1, <2>1, <2>2 DEF LifeInv, LifeTypeOK
  <2>6. disk' \in [Dirs -> [filled : BOOLEAN, head : Branches \cup {NoHead}]] /\ doomed' \subseteq Dirs
    BY <2>1 DEF LifeInv, LifeTypeOK, Empty
  <2>7. ASSUME NEW e \in Dirs \ doomed', disk'[e].filled PROVE \E m \in Names : at'[m] = e
    <3>1. e # d /\ disk[e].filled /\ e \notin doomed
      BY <2>1, <2>2, <2>7 DEF LifeInv, LifeTypeOK, Empty
    <3>2. PICK m \in Names : at[m] = e
      BY <3>1 DEF LifeInv, KeptUntilDeleted
    <3>3. m # n /\ at'[m] = e
      BY <1>1, <2>1, <2>4, <3>1, <3>2, LifeAssumption DEF LifeInv, LifeTypeOK
    <3> QED BY <3>3
  <2>8. Emptied
    <3> SUFFICES ASSUME NEW e \in Dirs, disk[e].filled, ~disk'[e].filled PROVE e \in doomed
      BY DEF Emptied
    <3>1. e = d
      BY <2>1, <2>2 DEF LifeInv, LifeTypeOK
    <3> QED BY <2>2, <3>1 DEF LifeInv, KeptUntilDeleted
  <2>9. DiskInv'
    BY <2>5, <2>6, <2>7 DEF DiskInv, KeptUntilDeleted
  <2> QED BY <2>3, <2>8, <2>9, InvParts
<1> QED BY <1>2, <1>3

\* What is filled here is under the name that the call goes by.
LEMMA WriteStep ==
    ASSUME LifeInv, NEW c \in Callers, FillDir(c) \/ SetHead(c) PROVE LifeInv' /\ Emptied
<1> DEFINE n == life[c].req.name
<1>1. PICK branch \in Branches :
        /\ Here(c) # NoDir
        /\ disk' = [disk EXCEPT ![Here(c)] = [filled |-> TRUE, head |-> branch]]
        /\ UNCHANGED <<at, doomed>>
        /\ life[c].pc # "idle" /\ life[c].req.op = "init" /\ n \in Names
        /\ Answered(c) \/ Then(c, "setHead")
  <2>1. life[c].pc # "idle" /\ life[c].req.op = "init"
    BY DEF FillDir, SetHead, WriteFiles, Doing
  <2> QED BY <2>1, Active, LifeAssumption DEF FillDir, SetHead, WriteFiles
<1>2. CallsInv'
  <2>1. "setHead" \in LifePc \ {"idle", "empty"}
    BY DEF LifePc
  <2> QED BY <1>1, <2>1, CallOver, CallTo
<1>3. Here(c) \in Dirs /\ Here(c) = at[n]
  BY <1>1 DEF LifeInv, LifeTypeOK, Here
<1>4. disk' \in [Dirs -> [filled : BOOLEAN, head : Branches \cup {NoHead}]]
  BY <1>1, <1>3 DEF LifeInv, LifeTypeOK
<1>5. \A d \in Dirs : disk'[d] = IF d = Here(c) THEN [filled |-> TRUE, head |-> branch] ELSE disk[d]
  BY <1>1, <1>3 DEF LifeInv, LifeTypeOK
<1>6. KeptUntilDeleted'
  BY <1>1, <1>3, <1>5 DEF LifeInv, KeptUntilDeleted
<1>7. DiskInv'
  BY <1>1, <1>4, <1>6 DEF LifeInv, LifeTypeOK, DiskInv
<1> QED BY <1>2, <1>5, <1>7, InvParts DEF Emptied

\* rename(2) puts nothing aside but a directory without files.
LEMMA MoveStep ==
    ASSUME LifeInv, NEW c \in Callers, Move(c) PROVE LifeInv' /\ Emptied
<1> DEFINE n == life[c].req.name
           t == life[c].req.to
<1>1. n \in Names /\ t \in Names
  BY Active DEF Move, Doing
<1>2. CallsInv' /\ UNCHANGED <<disk, doomed>>
  BY CallOver DEF Move
<1>3. CASE at' = at
  BY <1>2, <1>3, InvParts, DiskStays DEF Emptied
<1>4. CASE /\ at[n] # NoDir /\ (at[t] = NoDir \/ ~disk[at[t]].filled)
           /\ at' = [at EXCEPT ![t] = at[n], ![n] = NoDir]
  <2>1. \A m \in Names : at'[m] = IF m = n THEN NoDir ELSE IF m = t THEN at[n] ELSE at[m]
    BY <1>1, <1>4 DEF LifeInv, LifeTypeOK
  <2>2. /\ at' \in [Names -> Dirs \cup {NoDir}]
        /\ \A m, o \in Names : at'[m] = at'[o] => m = o \/ at'[m] = NoDir
    BY <1>1, <1>4, <2>1 DEF LifeInv, LifeTypeOK
  <2>3. ASSUME NEW d \in Dirs \ doomed, disk[d].filled PROVE \E m \in Names : at'[m] = d
    <3>1. PICK m \in Names : at[m] = d
      BY <2>3 DEF LifeInv, KeptUntilDeleted
    <3>2. CASE m = n
      <4>1. n # t
        BY <1>4, <2>3, <3>1, <3>2, LifeAssumption
      <4> QED BY <1>1, <2>1, <3>1, <3>2, <4>1
    <3>3. CASE m # n
      <4>1. m # t
        BY <1>4, <2>3, <3>1, LifeAssumption
      <4> QED BY <2>1, <3>1, <3>3, <4>1
    <3> QED BY <3>2, <3>3
  <2>4. DiskInv'
    BY <1>2, <2>2, <2>3 DEF LifeInv, LifeTypeOK, DiskInv, KeptUntilDeleted
  <2> QED BY <1>2, <2>4, InvParts DEF Emptied
<1> QED BY <1>3, <1>4 DEF Move, Here, There

LEMMA OpenDirStep ==
    ASSUME LifeInv, NEW c \in Callers, OpenDir(c) PROVE LifeInv' /\ Emptied
<1>1. life[c].pc = "open" /\ life[c].req.op = "delete" /\ life[c].req.name \in Names
  BY Active DEF OpenDir, Doing
<1>2. CASE Here(c) = NoDir
  <2>1. UNCHANGED <<at, disk, doomed>> /\ Answered(c)
    BY <1>2 DEF OpenDir
  <2> QED BY <2>1, CallOver, InvParts, DiskStays DEF Emptied
<1>3. CASE Here(c) # NoDir
  <2>1. /\ life' = [life EXCEPT ![c].pc = "empty", ![c].dir = Here(c)]
        /\ doomed' = doomed \cup {Here(c)} /\ UNCHANGED <<at, disk>>
    BY <1>3 DEF OpenDir
  <2>2. Here(c) \in Dirs /\ "empty" \in LifePc \ {"idle"}
    BY <1>1, <1>3 DEF LifeInv, LifeTypeOK, Here, LifePc
  <2>3. CallsInv'
    BY <1>1, <1>3, <2>1, <2>2, CallGoesOn
  <2>4. DiskInv'
    BY <2>1, <2>2 DEF LifeInv, LifeTypeOK, DiskInv, KeptUntilDeleted
  <2> QED BY <2>1, <2>3, <2>4, InvParts DEF Emptied
<1> QED BY <1>2, <1>3

LEMMA UnlinkStep ==
    ASSUME LifeInv, NEW c \in Callers, Unlink(c) PROVE LifeInv' /\ Emptied
<1> DEFINE d0 == life[c].dir
<1>1. /\ life[c].pc = "empty" /\ life[c].req.op = "delete" /\ d0 \in doomed /\ d0 \in Dirs
      /\ UNCHANGED <<at, doomed>> /\ "rmdir" \in LifePc \ {"idle", "empty"}
  BY Active DEF Unlink, Doing, LifePc, LifeInv, LifeTypeOK
<1>2. /\ disk' \in [Dirs -> [filled : BOOLEAN, head : Branches \cup {NoHead}]]
      /\ \A d \in Dirs \ {d0} : disk'[d] = disk[d]
      /\ disk'[d0].filled => disk[d0].filled
  <2>1. CASE disk' = [disk EXCEPT ![d0].head = NoHead]
    BY <1>1, <2>1 DEF LifeInv, LifeTypeOK
  <2>2. CASE disk' = [disk EXCEPT ![d0] = Empty]
    BY <1>1, <2>2 DEF LifeInv, LifeTypeOK, Empty
  <2> QED BY <2>1, <2>2 DEF Unlink
<1>3. CallsInv'
  <2>1. CASE UNCHANGED life
    BY <1>1, <2>1, InvParts DEF CallsInv, CallInv
  <2>2. CASE Then(c, "rmdir")
    BY <1>1, <2>2, CallTo
  <2> QED BY <2>1, <2>2 DEF Unlink
<1>4. DiskInv'
  BY <1>1, <1>2 DEF LifeInv, LifeTypeOK, DiskInv, KeptUntilDeleted
<1>5. Emptied
  BY <1>1, <1>2 DEF Emptied
<1> QED BY <1>3, <1>4, <1>5, InvParts

LEMMA RemoveDirStep ==
    ASSUME LifeInv, NEW c \in Callers, RemoveDir(c) PROVE LifeInv' /\ Emptied
<1> DEFINE n == life[c].req.name
<1>1. n \in Names
  BY Active DEF RemoveDir, Doing
<1>2. CallsInv' /\ UNCHANGED <<disk, doomed>>
  BY CallOver DEF RemoveDir
<1>3. CASE at' = at
  BY <1>2, <1>3, InvParts, DiskStays DEF Emptied
<1>4. CASE at[n] # NoDir /\ ~disk[at[n]].filled /\ at' = [at EXCEPT ![n] = NoDir]
  <2>1. DiskInv'
    BY <1>1, <1>2, <1>4 DEF LifeInv, LifeTypeOK, DiskInv, KeptUntilDeleted
  <2> QED BY <1>2, <2>1, InvParts DEF Emptied
<1> QED BY <1>3, <1>4 DEF RemoveDir, Here
-----------------------------------------------------------------------------
LEMMA LifeInvInit == LifeInit => LifeInv
<1> SUFFICES ASSUME LifeInit PROVE LifeInv
  OBVIOUS
<1>1. CallsInv
  BY DEF LifeInit, CallsInv, CallInv, NoLife, LifePc
<1>2. DiskInv
  BY LifeAssumption DEF LifeInit, DiskInv, KeptUntilDeleted, Empty
<1> QED BY <1>1, <1>2, InvParts

LEMMA LifeInvNext == LifeInv /\ [LifeNext]_lifeVars => LifeInv' /\ Emptied
<1> SUFFICES ASSUME LifeInv, [LifeNext]_lifeVars PROVE LifeInv' /\ Emptied
  OBVIOUS
<1>1. CASE UNCHANGED lifeVars
  BY <1>1, InvParts, DiskStays DEF lifeVars, CallsInv, CallInv, Emptied
<1>2. CASE LifeNext
  BY <1>2, AskStep, LookStep, MakeDirStep, WriteStep, MoveStep, OpenDirStep, UnlinkStep,
     RemoveDirStep DEF LifeNext
<1> QED BY <1>1, <1>2

\* However the calls race, each is at a step of the RPC it is, a delete empties only what it
\* has opened, and what was filled keeps a name until then (repository.rs:25-98).
THEOREM LifeInvariant == LifeSpec => []LifeInv
BY LifeInvInit, LifeInvNext, PTL DEF LifeSpec

\* Types; and no directory is ever under two names (repository.rs:54-80).
THEOREM LifeTypes == LifeSpec => []LifeTypeOK
<1>1. LifeInv => LifeTypeOK
  BY DEF LifeInv
<1> QED BY <1>1, LifeInvariant, PTL

\* However inits, renames and deletes race, what was filled stays under some name
\* until a delete opens it (repository.rs:54-89).
THEOREM RepositoriesAreKept == LifeSpec => []KeptUntilDeleted
<1>1. LifeInv => KeptUntilDeleted
  BY DEF LifeInv
<1> QED BY <1>1, LifeInvariant, PTL

\* And it is not emptied before: not by a rename, nor by an init that goes on in a
\* directory that another repository has been moved to (repository.rs:36-89).
THEOREM DeletesAloneEmpty == LifeSpec => OnlyDoomedAreEmptied
<1>1. LifeInv /\ [LifeNext]_lifeVars => [Emptied]_lifeVars
  BY LifeInvNext
<1> QED BY <1>1, LifeInvariant, PTL DEF LifeSpec, OnlyDoomedAreEmptied, Emptied
=============================================================================
