----------------------------- MODULE RefReadsProofs -----------------------------
(***************************************************************************)
(* Proofs about RefReads, for any number of readers and writers, and any    *)
(* refs and requests.                                                       *)
(***************************************************************************)
EXTENDS RefReads, FiniteSetTheorems, TLAPS

\* What a ref held at some time since the call began, and that it did not exist at some.
Had(q, r) == \E oid \in held[q].ref[r] : oid # NoOid
Lacked(q, r) == NoOid \in held[q].ref[r]

\* HEAD names a branch or nothing, and every writer is about to keep it so.
HeadNames ==
    /\ GixHead \in Heads \cup {NoRef}
    /\ DOMAIN call = Clients /\ \A k \in Clients : DOMAIN call[k] = DOMAIN NoRequest
    /\ \A k \in Clients : call[k].pc # "idle" /\ Req(k).op = "setDefault" => Req(k).name \in Heads

\* What is true now is noted while the call runs.
Noted(q) ==
    /\ \A r \in Refs : held[q].ref[r] # {} /\ IsFiniteSet(held[q].ref[r])
    /\ held[q].head \subseteq Heads \cup {NoRef} /\ held[q].gone \in BOOLEAN
    /\ Running(q) => GixHead \in held[q].head /\ \A r \in Refs : refs[r] \in held[q].ref[r]

Under(dirs) == UNION {dirs[i] : i \in DOMAIN dirs}

\* A listing: what it has, what it has yet to open and what it has yet to list.
ListFacts(q) ==
    LET rd == read[q]
        left == rd.todo \cup Under(rd.dirs)
    IN /\ rd.dirs \in {<<>>, <<Heads>>, <<Tags>>, <<Heads, Tags>>}
       /\ left \subseteq Under(rd.req.dirs) /\ rd.todo \cap Under(rd.dirs) = {}
       /\ \A r \in rd.todo : Had(q, r)
       /\ rd.default # NoRef => rd.default \in Heads \cap held[q].head
       /\ \A row \in rd.rows :
              /\ row.ref \in (rd.req.matching \cap Under(rd.req.dirs)) \ left
              /\ row.oid \in PeeledIds(q, row.ref)
              /\ row.isDefault /\ row.ref \in Heads => row.ref \in held[q].head
       /\ \A a, b \in rd.rows : a.ref = b.ref => a = b
       /\ \A r \in rd.req.matching \cap Under(rd.req.dirs) :
              Lacked(q, r) \/ r \in left \/ \E row \in rd.rows : row.ref = r
       /\ rd.pc = "answered" /\ rd.ok => left = {}
       /\ ~rd.ok => \E r \in Refs : Had(q, r) /\ Lacked(q, r)

\* A resolution: no name before the one it is at was there all the time.
ResolveFacts(q) ==
    LET rd == read[q]
        tries == rd.req.tries
        missed(i) == \A j \in 1 .. i - 1 : Lacked(q, tries[j])
    IN /\ rd.pc \in {"head", "name"} => rd.try \in DOMAIN tries /\ missed(rd.try)
       /\ rd.pc = "name" \/ (rd.pc = "answered" /\ rd.ok) =>
              \E i \in DOMAIN tries : rd.oid \in held[q].ref[tries[i]] /\ missed(i)
       /\ rd.ref # NoRef =>
              \E i \in DOMAIN tries : rd.ref = tries[i] /\ Had(q, tries[i]) /\ missed(i)
       /\ ~rd.ok => \A i \in DOMAIN tries : Lacked(q, tries[i])

\* A count lies between what was there all the time and what was there at any.
Counted(q, dir) ==
    /\ read[q].counts[dir] \in Nat
    /\ read[q].counts[dir] >= Cardinality({r \in dir : ~Lacked(q, r)})
    /\ read[q].counts[dir] <= Cardinality({r \in dir : Had(q, r)})

\* An info: what it says of HEAD, the counts made so far, what is left to be looked at.
InfoFacts(q) ==
    LET rd == read[q] IN
    /\ rd.pc # "head" => HeadIsTrue(q)
    /\ rd.pc \notin {"head", "name"} => DefaultIsTrue(q)
    /\ rd.pc = "answered" /\ rd.ok => CommitsAreTrue(q)
    /\ rd.pc = "count" => rd.dirs \in {<<Heads, Tags>>, <<Tags>>, <<>>}
    /\ \A dir \in {Heads, Tags} :
           \/ rd.pc \in {"head", "name"}
           \/ rd.pc = "count" /\ \E i \in DOMAIN rd.dirs : rd.dirs[i] = dir
           \/ Counted(q, dir)
    /\ rd.pc \in {"head", "name", "count", "size"} => rd.todo \subseteq Present \/ held[q].gone
    /\ ~rd.ok => held[q].gone

ReadTypes(q) ==
    /\ DOMAIN read[q] = DOMAIN NoRead /\ read[q].ok \in BOOLEAN
    /\ DOMAIN read[q].counts = {Heads, Tags}
    /\ read[q].pc # "idle" => read[q].req \in ReadAsk[q]
    /\ read[q].pc = "head" => read[q] = [NoRead EXCEPT !.pc = "head", !.req = read[q].req,
                                                      !.try = read[q].try]

\* The call is one of these.
Is(q, op) == read[q].pc # "idle" /\ read[q].req.op = op

CallFacts(q) ==
    /\ Noted(q) /\ ReadTypes(q)
    /\ Is(q, "list") /\ read[q].pc # "head" => ListFacts(q)
    /\ Is(q, "resolve") => ResolveFacts(q)
    /\ Is(q, "info") => InfoFacts(q)

ReadInv ==
    /\ HeadNames
    /\ DOMAIN read = Readers /\ DOMAIN held = Readers
    /\ \A q \in Readers : CallFacts(q)
-----------------------------------------------------------------------------
\* Requests, and the records of calls.

LEMMA Fields ==
    DOMAIN NoRead = {"pc", "req", "ok", "default", "dirs", "todo", "walk", "rows", "try", "oid",
                     "ref", "counts", "commits"}
BY DEF NoRead

LEMMA Requested ==
    ASSUME NEW req \in ReadRequests
    PROVE  /\ req.op \in {"list", "resolve", "info"}
           /\ req.op = "list" => /\ req.dirs \in {<<Heads>>, <<Tags>>, <<Heads, Tags>>}
                                 /\ req.matching \subseteq Refs
           /\ req.op = "resolve" => /\ DOMAIN req.tries \in {{1}, {1, 2}}
                                    /\ DOMAIN req.tries = 1 .. Len(req.tries)
                                    /\ Len(req.tries) \in {1, 2}
                                    /\ \A i \in DOMAIN req.tries : req.tries[i] \in Refs
<1>1. CASE req \in [op : {"list"}, dirs : {<<Heads>>, <<Tags>>, <<Heads, Tags>>}, matching : SUBSET Refs]
  BY <1>1
<1>2. CASE req \in [op : {"resolve"}, tries : {<<r>> : r \in Refs} \cup (Tags \X Heads)]
  <2>1. req.tries \in {<<r>> : r \in Refs} \cup (Tags \X Heads) /\ req.op = "resolve"
    BY <1>2
  <2>2. CASE req.tries \in {<<r>> : r \in Refs}
    <3>1. PICK r \in Refs : req.tries = <<r>>
      BY <2>2
    <3> QED BY <2>1, <3>1
  <2>3. CASE req.tries \in Tags \X Heads
    <3>1. PICK a \in Tags, b \in Heads : req.tries = <<a, b>>
      BY <2>3
    <3> QED BY <2>1, <3>1 DEF Refs
  <2> QED BY <2>1, <2>2, <2>3
<1>3. CASE req = [op |-> "info"]
  BY <1>3
<1> QED BY <1>1, <1>2, <1>3 DEF ReadRequests

LEMMA Sought ==
    ASSUME NEW q \in Readers, ReadTypes(q)
    PROVE  /\ Is(q, "list") => /\ read[q].req.dirs \in {<<Heads>>, <<Tags>>, <<Heads, Tags>>}
                               /\ read[q].req.matching \subseteq Refs
           /\ Is(q, "resolve") => /\ DOMAIN read[q].req.tries \in {{1}, {1, 2}}
                                  /\ DOMAIN read[q].req.tries = 1 .. Len(read[q].req.tries)
                                  /\ Len(read[q].req.tries) \in {1, 2}
                                  /\ \A i \in DOMAIN read[q].req.tries : read[q].req.tries[i] \in Refs
BY Requested, ReadAssumption DEF Is, ReadTypes

\* What lies under the directories of a listing.
LEMMA UnderDirs ==
    /\ Under(<<>>) = {} /\ Under(<<Heads>>) = Heads /\ Under(<<Tags>>) = Tags
    /\ Under(<<Heads, Tags>>) = Heads \cup Tags
<1>1. Under(<<>>) = {}
  BY DEF Under
<1>2. ASSUME NEW A PROVE Under(<<A>>) = A
  <2>1. DOMAIN <<A>> = {1} /\ <<A>>[1] = A
    OBVIOUS
  <2> QED BY <2>1 DEF Under
<1>3. ASSUME NEW A, NEW B PROVE Under(<<A, B>>) = A \cup B
  <2>1. DOMAIN <<A, B>> = {1, 2} /\ <<A, B>>[1] = A /\ <<A, B>>[2] = B
    OBVIOUS
  <2> QED BY <2>1 DEF Under
<1> QED BY <1>1, <1>2, <1>3

LEMMA Advanced ==
    ASSUME NEW q \in Readers, DOMAIN read = Readers, ReadTypes(q), NEW fields, Advance(q, fields)
    PROVE  /\ read'[q] = With(read[q], fields) /\ DOMAIN read' = Readers
           /\ DOMAIN read'[q] = DOMAIN NoRead
           /\ \A p \in Readers \ {q} : read'[p] = read[p]
BY DEF Advance, With, ReadTypes

LEMMA AnsweredBy ==
    ASSUME NEW q \in Readers, DOMAIN read = Readers, ReadTypes(q), NEW fields, Answer(q, fields)
    PROVE  /\ read'[q] = With(With(read[q], fields), [pc |-> "answered"]) /\ DOMAIN read' = Readers
           /\ DOMAIN read'[q] = DOMAIN NoRead
           /\ \A p \in Readers \ {q} : read'[p] = read[p]
BY DEF Answer, With, ReadTypes
-----------------------------------------------------------------------------
\* What is known of the refs' values only grows.

Grows(q) ==
    /\ \A r \in Refs : held[q].ref[r] \subseteq held'[q].ref[r]
    /\ held[q].head \subseteq held'[q].head
    /\ held[q].gone => held'[q].gone

\* A file that goes is noted.
Seen(q) == Running(q) => Present \subseteq Present' \/ held'[q].gone

\* A ref that was there all the time had one value.
LEMMA ConstantHad ==
    ASSUME NEW q \in Readers, Noted(q), NEW r \in Refs
    PROVE  /\ Constant(q, r) => Had(q, r) /\ ~Lacked(q, r)
           /\ Existed(q, r) <=> Had(q, r)
<1>1. held[q].ref[r] # {} /\ IsFiniteSet(held[q].ref[r])
  BY DEF Noted
<1>2. Existed(q, r) <=> Had(q, r)
  BY <1>1 DEF Existed, Had
<1>3. ASSUME Constant(q, r) PROVE ~Lacked(q, r)
  <2>1. PICK x : held[q].ref[r] = {x}
    BY <1>1, <1>3, FS_Singleton DEF Constant
  <2> QED BY <1>3, <2>1 DEF Constant, Existed, Lacked
<1> QED BY <1>2, <1>3 DEF Constant

LEMMA PeeledStays ==
    ASSUME NEW q \in Readers, Grows(q), NEW r \in Refs
    PROVE  /\ Had(q, r) => Had(q, r)'
           /\ Lacked(q, r) => Lacked(q, r)'
           /\ PeeledIds(q, r) \subseteq PeeledIds(q, r)'
BY DEF Grows, Had, Lacked, PeeledIds

LEMMA ListFactsStay ==
    ASSUME NEW q \in Readers, Grows(q), ReadTypes(q), Is(q, "list"), ListFacts(q), read'[q] = read[q]
    PROVE  ListFacts(q)'
<1>1. Under(read[q].req.dirs) \subseteq Refs
  BY Sought, UnderDirs DEF Refs
<1>2. \A r \in Under(read[q].req.dirs) : /\ Had(q, r) => Had(q, r)'
                                         /\ Lacked(q, r) => Lacked(q, r)'
                                         /\ PeeledIds(q, r) \subseteq PeeledIds(q, r)'
  BY <1>1, PeeledStays
<1>3. ~read[q].ok => \E r \in Refs : Had(q, r)' /\ Lacked(q, r)'
  BY PeeledStays DEF ListFacts
<1> QED BY <1>2, <1>3 DEF ListFacts, Grows

LEMMA ResolveFactsStay ==
    ASSUME NEW q \in Readers, Grows(q), ReadTypes(q), Is(q, "resolve"), ResolveFacts(q), read'[q] = read[q]
    PROVE  ResolveFacts(q)'
<1> DEFINE tries == read[q].req.tries
<1>1. /\ \A i \in DOMAIN tries : tries[i] \in Refs
      /\ DOMAIN tries \in {{1}, {1, 2}}
  BY Sought
<1>2. \A i \in DOMAIN tries : /\ Had(q, tries[i]) => (Had(q, tries[i]))'
                              /\ Lacked(q, tries[i]) => (Lacked(q, tries[i]))'
                              /\ held[q].ref[tries[i]] \subseteq held'[q].ref[tries[i]]
  BY <1>1 DEF Grows, Had, Lacked
<1>3. \A i \in DOMAIN tries : 1 .. i - 1 \subseteq DOMAIN tries
  BY <1>1
<1> QED BY <1>2, <1>3 DEF ResolveFacts

\* The bounds of a count move apart.
LEMMA BoundsMove ==
    ASSUME IsFiniteSet(Refs), NEW q \in Readers, Grows(q), NEW dir \in {Heads, Tags}
    PROVE  /\ Cardinality({r \in dir : ~Lacked(q, r)}) \in Nat
           /\ Cardinality({r \in dir : Had(q, r)}) \in Nat
           /\ (Cardinality({r \in dir : ~Lacked(q, r)}))' <= Cardinality({r \in dir : ~Lacked(q, r)})
           /\ Cardinality({r \in dir : Had(q, r)}) <= (Cardinality({r \in dir : Had(q, r)}))'
           /\ (Cardinality({r \in dir : ~Lacked(q, r)}))' \in Nat
           /\ (Cardinality({r \in dir : Had(q, r)}))' \in Nat
<1>1. dir \subseteq Refs /\ IsFiniteSet(dir)
  BY FS_Subset DEF Refs
<1>2. \A S \in SUBSET dir : IsFiniteSet(S) /\ Cardinality(S) \in Nat
  BY <1>1, FS_Subset, FS_CardinalityType
<1>3. \A S \in SUBSET dir, T \in SUBSET dir : S \subseteq T => Cardinality(S) <= Cardinality(T)
  BY <1>2, FS_Subset
<1>4. /\ {r \in dir : ~Lacked(q, r)'} \subseteq {r \in dir : ~Lacked(q, r)}
      /\ {r \in dir : Had(q, r)} \subseteq {r \in dir : Had(q, r)'}
  BY <1>1, PeeledStays
<1> HIDE <1>1
<1> QED BY <1>2, <1>3, <1>4

LEMMA TruthStays ==
    ASSUME NEW q \in Readers, Grows(q), Noted(q), Noted(q)'
    PROVE  /\ HeadIsTrue(q) /\ read'[q].oid = read[q].oid => HeadIsTrue(q)'
           /\ CommitsAreTrue(q) /\ read'[q].commits = read[q].commits => CommitsAreTrue(q)'
           /\ DefaultIsTrue(q) /\ read'[q].default = read[q].default => DefaultIsTrue(q)'
<1>1. \A b \in held[q].head \ {NoRef} : b \in Refs /\ b \in held'[q].head \ {NoRef}
  BY DEF Noted, Refs, Grows
<1>2. \A b \in held[q].head \ {NoRef} : PeeledIds(q, b) \subseteq PeeledIds(q, b)'
  BY <1>1, PeeledStays
<1>3. HeadIds(q) \subseteq HeadIds(q)'
  BY <1>1, <1>2 DEF HeadIds
<1>4. Headless(q) => Headless(q)'
  BY <1>1 DEF Headless, Grows
<1>5. \A b \in held[q].head \ {NoRef} : Existed(q, b) => Existed(q, b)'
  BY <1>1 DEF Existed, Grows, Noted
<1>6. HeadIsTrue(q) /\ read'[q].oid = read[q].oid => HeadIsTrue(q)'
  BY <1>3, <1>4 DEF HeadIsTrue
<1>7. CommitsAreTrue(q) /\ read'[q].commits = read[q].commits => CommitsAreTrue(q)'
  BY <1>3, <1>4 DEF CommitsAreTrue, Walked
<1>8. DefaultIsTrue(q) /\ read'[q].default = read[q].default => DefaultIsTrue(q)'
  BY <1>1, <1>4, <1>5 DEF DefaultIsTrue
<1> QED BY <1>6, <1>7, <1>8

LEMMA InfoFactsStay ==
    ASSUME IsFiniteSet(Refs), NEW q \in Readers, Grows(q), Seen(q), Noted(q), Noted(q)', ReadTypes(q),
           Is(q, "info"), InfoFacts(q), read'[q] = read[q]
    PROVE  InfoFacts(q)'
<1>1. ASSUME NEW dir \in {Heads, Tags}, read[q].counts[dir] \in Nat,
             read[q].counts[dir] >= Cardinality({r \in dir : ~Lacked(q, r)}),
             read[q].counts[dir] <= Cardinality({r \in dir : Had(q, r)})
      PROVE  /\ read[q].counts[dir] >= (Cardinality({r \in dir : ~Lacked(q, r)}))'
             /\ read[q].counts[dir] <= (Cardinality({r \in dir : Had(q, r)}))'
  <2> DEFINE low == Cardinality({r \in dir : ~Lacked(q, r)})
             high == Cardinality({r \in dir : Had(q, r)})
             n == read[q].counts[dir]
  <2>1. low \in Nat /\ low' \in Nat /\ low' <= low /\ high \in Nat /\ high' \in Nat /\ high <= high'
    BY BoundsMove
  <2>2. n \in Nat /\ n >= low /\ n <= high
    BY <1>1
  <2> HIDE DEF low, high, n
  <2>3. n >= low' /\ n <= high'
    BY <2>1, <2>2
  <2> QED BY <2>3 DEF low, high, n
<1>2. \A dir \in {Heads, Tags} : Counted(q, dir) => Counted(q, dir)'
  BY <1>1 DEF Counted
<1>3. /\ read[q].pc # "head" => HeadIsTrue(q)'
      /\ read[q].pc \notin {"head", "name"} => DefaultIsTrue(q)'
      /\ read[q].pc = "answered" /\ read[q].ok => CommitsAreTrue(q)'
  BY TruthStays DEF InfoFacts
<1>4. read[q].pc \in {"head", "name", "count", "size"} => read[q].todo \subseteq Present' \/ held'[q].gone
  BY DEF InfoFacts, Seen, Running, Grows
<1> QED BY <1>2, <1>3, <1>4 DEF InfoFacts, Grows
-----------------------------------------------------------------------------
\* Writers.

LEMMA HeadNamesStep ==
    ASSUME HeadNames, NEW k \in Clients, RefStep(k) PROVE HeadNames'
<1> USE DEF Does, Req
<1>1. \/ \E req \in RefAsk[k] :
             call' = [call EXCEPT ![k] = [NoRequest EXCEPT !.pc = "find", !.req = req]]
      \/ Return(k)
      \/ call[k].pc # "idle" /\ \E pc, oid : GoOn(k, pc, oid)
  BY DEF RefStep, AskRef, ResolveStart, CreateRef, FindRef, CheckHead, DeleteRef, FindDefault,
         TruncateHead, WriteHead
<1>2. /\ DOMAIN call' = Clients /\ DOMAIN call'[k] = DOMAIN NoRequest
      /\ \A j \in Clients \ {k} : call'[j] = call[j]
      /\ \/ call'[k].pc = "idle"
         \/ call'[k].req \in RefAsk[k]
         \/ call[k].pc # "idle" /\ call'[k].req = call[k].req
  <2>1. CASE \E req \in RefAsk[k] :
               call' = [call EXCEPT ![k] = [NoRequest EXCEPT !.pc = "find", !.req = req]]
    BY <2>1 DEF HeadNames, NoRequest
  <2>2. CASE Return(k)
    BY <2>2 DEF HeadNames, NoRequest, Return
  <2>3. CASE call[k].pc # "idle" /\ \E pc, oid : GoOn(k, pc, oid)
    BY <2>3 DEF HeadNames, NoRequest, GoOn
  <2> QED BY <1>1, <2>1, <2>2, <2>3
<1>3. call'[k].pc # "idle" /\ call'[k].req.op = "setDefault" => call'[k].req.name \in Heads
  <2>1. call'[k].req \in RefAsk[k] => call'[k].req \in RefRequests
    BY RefAskAssumption
  <2> QED BY <1>2, <2>1 DEF HeadNames, RefRequests
<1>4. GixHead' \in Heads \cup {NoRef}
  <2>1. CASE TruncateHead(k)
    BY <2>1 DEF TruncateHead, GixHead
  <2>2. CASE WriteHead(k)
    BY <2>2 DEF WriteHead, GixHead, HeadNames
  <2>3. CASE ~TruncateHead(k) /\ ~WriteHead(k)
    BY <2>3 DEF RefStep, AskRef, ResolveStart, CreateRef, FindRef, CheckHead, DeleteRef, FindDefault,
                HeadNames, GixHead, storeVars
  <2> QED BY <2>1, <2>2, <2>3
<1> QED BY <1>2, <1>3, <1>4 DEF HeadNames

\* What goes on next to the calls.
Others == (WriteStep \/ TempStep) /\ Noting

LEMMA HeadNamesOn == ASSUME HeadNames, Others PROVE HeadNames'
<1>1. CASE WriteStep
  BY <1>1, HeadNamesStep DEF WriteStep, RefNext
<1>2. CASE TempStep
  BY <1>2 DEF TempStep, HeadNames, GixHead, Req, storeVars
<1> QED BY <1>1, <1>2 DEF Others

LEMMA HeldGrows ==
    ASSUME ReadInv, Others, NEW q \in Readers
    PROVE  Grows(q) /\ Seen(q) /\ Noted(q)'
<1>1. HeadNames' /\ Noted(q)
  BY HeadNamesOn DEF ReadInv, CallFacts
<1>2. read' = read
  BY DEF Others, WriteStep, TempStep
<1>3. CASE Running(q)
  <2>1. /\ held'[q].head = held[q].head \cup {GixHead'}
        /\ held'[q].gone = (held[q].gone \/ ~(Present \subseteq Present'))
        /\ \A r \in Refs : held'[q].ref[r] = held[q].ref[r] \cup {refs'[r]}
    BY <1>3 DEF Others, Noting, GixHead
  <2>2. \A r \in Refs : IsFiniteSet(held'[q].ref[r]) /\ held'[q].ref[r] # {}
    BY <1>1, <2>1, FS_AddElement DEF Noted
  <2>3. held'[q].gone \in BOOLEAN /\ (held[q].gone => held'[q].gone) /\ Seen(q)
    BY <2>1, Zenon DEF Seen
  <2>4. Grows(q)
    BY <2>1, <2>3 DEF Grows
  <2>5. Noted(q)'
    BY <1>1, <2>1, <2>2, <2>3 DEF Noted, HeadNames
  <2> QED BY <2>3, <2>4, <2>5
<1>4. CASE ~Running(q)
  <2>1. held'[q] = held[q] /\ ~Running(q)'
    BY <1>2, <1>4 DEF Others, Noting, Running
  <2> QED BY <1>1, <1>4, <2>1 DEF Grows, Seen, Noted
<1> QED BY <1>3, <1>4

\* A call that does not move keeps what it knows.
LEMMA CallStays ==
    ASSUME IsFiniteSet(Refs), NEW q \in Readers, CallFacts(q), Grows(q), Seen(q), Noted(q)',
           read'[q] = read[q]
    PROVE  CallFacts(q)'
<1>1. ReadTypes(q)'
  BY DEF CallFacts, ReadTypes
<1>2. Is(q, "list")' /\ read'[q].pc # "head" => ListFacts(q)'
  BY ListFactsStay DEF CallFacts, Is
<1>3. Is(q, "resolve")' => ResolveFacts(q)'
  BY ResolveFactsStay DEF CallFacts, Is
<1>4. Is(q, "info")' => InfoFacts(q)'
  BY InfoFactsStay DEF CallFacts, Is
<1> QED BY <1>1, <1>2, <1>3, <1>4 DEF CallFacts

LEMMA OthersInv == ASSUME IsFiniteSet(Refs), ReadInv, Others PROVE ReadInv'
<1>1. UNCHANGED read /\ DOMAIN held' = Readers
  BY DEF Others, WriteStep, TempStep, Noting
<1>2. \A q \in Readers : CallFacts(q)'
  BY <1>1, HeldGrows, CallStays DEF ReadInv
<1>3. HeadNames'
  BY HeadNamesOn DEF ReadInv
<1> QED BY <1>1, <1>2, <1>3 DEF ReadInv

\* A step of one reader leaves the others alone.
LEMMA ReaderInv ==
    ASSUME IsFiniteSet(Refs), ReadInv, NEW q \in Readers, UNCHANGED <<storeVars, call, temps>>,
           DOMAIN read' = Readers, DOMAIN held' = Readers,
           \A p \in Readers \ {q} : read'[p] = read[p] /\ held'[p] = held[p],
           CallFacts(q)'
    PROVE  ReadInv'
<1>1. ASSUME NEW p \in Readers \ {q} PROVE CallFacts(p)'
  <2>1. Grows(p) /\ Seen(p) /\ Noted(p)'
    BY DEF Grows, Seen, Present, In, ReadInv, CallFacts, Noted, Running, storeVars, GixHead
  <2> QED BY <2>1, CallStays DEF ReadInv
<1> QED BY <1>1 DEF ReadInv, HeadNames, GixHead, Req, storeVars
-----------------------------------------------------------------------------
\* A call begins.

LEMMA AskReadStep ==
    ASSUME IsFiniteSet(Refs), ReadInv, NEW q \in Readers, AskRead(q) PROVE ReadInv'
<1>1. PICK req \in ReadAsk[q] : read' = [read EXCEPT ![q] = [NoRead EXCEPT !.pc = "head", !.req = req]]
  BY DEF AskRead
<1>2. /\ DOMAIN read' = Readers /\ DOMAIN held' = Readers
      /\ \A p \in Readers \ {q} : read'[p] = read[p] /\ held'[p] = held[p]
      /\ held'[q] = Since /\ read'[q] = [NoRead EXCEPT !.pc = "head", !.req = req]
  BY <1>1 DEF AskRead, ReadInv
<1>3. req \in ReadRequests
  BY ReadAssumption
<1>4. Noted(q)'
  BY <1>2, FS_Singleton DEF AskRead, Noted, Since, storeVars, GixHead, ReadInv, HeadNames
<1>5. /\ read'[q].pc = "head" /\ read'[q].req = req /\ read'[q].ok = TRUE /\ read'[q].try = 1
      /\ read'[q].oid = NoOid /\ read'[q].ref = NoRef /\ read'[q].todo = {}
      /\ DOMAIN read'[q].counts = {Heads, Tags} /\ DOMAIN read'[q] = DOMAIN NoRead
  BY <1>2 DEF NoRead
<1>6. ReadTypes(q)'
  <2>1. read'[q] = [NoRead EXCEPT !.pc = "head", !.req = read'[q].req, !.try = read'[q].try]
    BY <1>2, <1>5 DEF NoRead
  <2> QED BY <1>5, <2>1 DEF ReadTypes
<1>7. Is(q, "resolve")' => ResolveFacts(q)'
  <2>1. req.op = "resolve" => 1 \in DOMAIN req.tries
    BY <1>3, Requested
  <2> QED BY <1>5, <2>1 DEF Is, ResolveFacts
<1>8. InfoFacts(q)'
  BY <1>5 DEF InfoFacts
<1> QED BY <1>2, <1>4, <1>5, <1>6, <1>7, <1>8, ReaderInv DEF AskRead, CallFacts
-----------------------------------------------------------------------------
\* Listings.

\* The default branch that a call finds was HEAD's.
LEMMA HeadRefNoted ==
    ASSUME HeadNames, NEW q \in Readers, Noted(q), Running(q), HeadRef # NoRef
    PROVE  HeadRef = GixHead /\ HeadRef \in Heads \cap held[q].head /\ refs[HeadRef] # NoOid
BY DEF HeadRef, HeadNames, Noted

\* A step of a listing.
LEMMA ListGoesOn ==
    ASSUME IsFiniteSet(Refs), ReadInv, NEW q \in Readers, Running(q), Is(q, "list"),
           UNCHANGED <<storeVars, call, temps, held>>,
           DOMAIN read' = Readers, \A p \in Readers \ {q} : read'[p] = read[p],
           DOMAIN read'[q] = DOMAIN NoRead, read'[q].req = read[q].req, read'[q].ok \in BOOLEAN,
           read'[q].counts = read[q].counts, read'[q].pc \in {"dir", "answered"}, ListFacts(q)'
    PROVE  ReadInv'
<1>1. Noted(q)' /\ ReadTypes(q)'
  BY DEF ReadInv, CallFacts, Noted, Running, ReadTypes, Is, storeVars, GixHead
<1>2. ~Is(q, "resolve")' /\ ~Is(q, "info")'
  BY DEF Is
<1> QED BY <1>1, <1>2, ReaderInv DEF CallFacts, ReadInv

LEMMA ListHeadStep ==
    ASSUME IsFiniteSet(Refs), ReadInv, NEW q \in Readers, ListHead(q), UNCHANGED <<storeVars, call, temps, held>>
    PROVE  ReadInv'
<1> DEFINE rd == read'[q]
<1>1. read[q].pc = "head" /\ Is(q, "list") /\ CallFacts(q)
  BY DEF ListHead, Reads, Is, ReadInv
<1>2. /\ DOMAIN read' = Readers /\ DOMAIN rd = DOMAIN NoRead /\ \A p \in Readers \ {q} : read'[p] = read[p]
      /\ rd = With(read[q], [pc |-> "dir", dirs |-> read[q].req.dirs, default |-> HeadRef])
  BY <1>1, Advanced DEF ListHead, ReadInv, CallFacts
<1>3. read[q] = [NoRead EXCEPT !.pc = "head", !.req = read[q].req, !.try = read[q].try]
  BY <1>1 DEF CallFacts, ReadTypes
<1>4. /\ rd.pc = "dir" /\ rd.dirs = read[q].req.dirs /\ rd.default = HeadRef /\ rd.req = read[q].req
      /\ rd.todo = {} /\ rd.rows = {} /\ rd.ok = TRUE /\ rd.counts = read[q].counts
  BY <1>2, <1>3 DEF With, NoRead
<1>5. read[q].req.dirs \in {<<Heads>>, <<Tags>>, <<Heads, Tags>>}
  BY <1>1, Sought DEF CallFacts
<1>6. HeadRef # NoRef => HeadRef \in Heads \cap held[q].head
  BY <1>1, HeadRefNoted DEF ReadInv, CallFacts, Running
<1>7. ListFacts(q)'
  BY <1>4, <1>5, <1>6 DEF ListFacts
<1> QED BY <1>1, <1>2, <1>4, <1>7, ListGoesOn DEF Running

\* The next directory of a listing, and those after it.
LEMMA NextDir ==
    ASSUME NEW dirs \in {<<Heads>>, <<Tags>>, <<Heads, Tags>>}
    PROVE  /\ Tail(dirs) \in {<<>>, <<Tags>>} /\ Head(dirs) \subseteq Refs
           /\ Under(dirs) = Head(dirs) \cup Under(Tail(dirs))
           /\ Head(dirs) \cap Under(Tail(dirs)) = {}
<1>1. CASE dirs = <<Heads, Tags>>
  <2>1. Head(dirs) = Heads /\ Tail(dirs) = <<Tags>>
    BY <1>1
  <2> QED BY <1>1, <2>1, UnderDirs, RefNamesAssumption DEF Refs
<1>2. ASSUME NEW A \in {Heads, Tags}, dirs = <<A>> PROVE Head(dirs) = A /\ Tail(dirs) = <<>>
  BY <1>2
<1> QED BY <1>1, <1>2, UnderDirs DEF Refs

LEMMA ListDirStep ==
    ASSUME IsFiniteSet(Refs), ReadInv, NEW q \in Readers, ListDir(q), UNCHANGED <<storeVars, call, temps, held>>
    PROVE  ReadInv'
<1> DEFINE rd == read'[q]
<1>1. /\ read[q].pc = "dir" /\ Is(q, "list") /\ CallFacts(q) /\ ListFacts(q) /\ read[q].todo = {}
      /\ DOMAIN read[q] = DOMAIN NoRead /\ read[q].ok \in BOOLEAN
  BY DEF ListDir, Reads, Is, ReadInv, CallFacts, ReadTypes
<1>2. CASE read[q].dirs = <<>>
  <2>1. /\ DOMAIN read' = Readers /\ DOMAIN rd = DOMAIN NoRead /\ \A p \in Readers \ {q} : read'[p] = read[p]
        /\ rd = With(With(read[q], <<>>), [pc |-> "answered"])
    BY <1>1, <1>2, AnsweredBy DEF ListDir, ReadInv, CallFacts
  <2>2. /\ rd.pc = "answered" /\ rd.dirs = <<>> /\ rd.default = read[q].default /\ rd.req = read[q].req
        /\ rd.todo = {} /\ rd.rows = read[q].rows /\ rd.ok = read[q].ok /\ rd.counts = read[q].counts
    BY <1>1, <1>2, <2>1, Fields DEF With
  <2>3. ListFacts(q)'
    BY <1>1, <1>2, <2>2, UnderDirs DEF ListFacts, Had, Lacked, PeeledIds
  <2> QED BY <1>1, <2>1, <2>2, <2>3, ListGoesOn DEF Running
<1>3. CASE read[q].dirs # <<>>
  <2> DEFINE dir == Head(read[q].dirs)
             rest == Tail(read[q].dirs)
  <2>1. /\ DOMAIN read' = Readers /\ DOMAIN rd = DOMAIN NoRead /\ \A p \in Readers \ {q} : read'[p] = read[p]
        /\ rd = With(read[q], [todo |-> In(dir), dirs |-> rest])
    BY <1>1, <1>3, Advanced DEF ListDir, ReadInv, CallFacts
  <2>2. /\ rd.pc = "dir" /\ rd.dirs = rest /\ rd.default = read[q].default /\ rd.req = read[q].req
        /\ rd.todo = In(dir) /\ rd.rows = read[q].rows /\ rd.ok = read[q].ok /\ rd.counts = read[q].counts
    BY <1>1, <2>1, Fields DEF With
  <2>3. /\ rest \in {<<>>, <<Tags>>} /\ dir \subseteq Refs
        /\ Under(read[q].dirs) = dir \cup Under(rest) /\ dir \cap Under(rest) = {}
    BY <1>1, <1>3, NextDir DEF ListFacts
  <2>4. /\ In(dir) \subseteq dir /\ \A r \in In(dir) : Had(q, r)
        /\ \A r \in dir \ In(dir) : Lacked(q, r)
    BY <1>1, <2>3 DEF CallFacts, Noted, Running, In, Had, Lacked
  <2> HIDE DEF dir, rest
  <2>5. ListFacts(q)'
    BY <1>1, <2>2, <2>3, <2>4 DEF ListFacts, Had, Lacked, PeeledIds
  <2> QED BY <1>1, <2>1, <2>2, <2>5, ListGoesOn DEF Running
<1> QED BY <1>2, <1>3

\* The row of a ref that is there: a branch marked as the default is the one HEAD named.
LEMMA RowIsTrue ==
    ASSUME NEW q \in Readers, Noted(q), Running(q), ListFacts(q), NEW r \in Refs, refs[r] # NoOid,
           NEW row, row = Row(q, r, Peeled[refs[r]])
    PROVE  /\ row.ref = r /\ row.oid \in PeeledIds(q, r)
           /\ row.isDefault /\ row.ref \in Heads => row.ref \in held[q].head
<1>1. row.ref = r /\ row.oid = Peeled[refs[r]]
  BY DEF Row
<1>2. row.oid \in PeeledIds(q, r)
  BY <1>1 DEF Noted, PeeledIds
<1>3. row.isDefault => read[q].default # NoRef /\ ShortName[read[q].default] = ShortName[r]
  BY Zenon DEF Row
<1>4. row.isDefault /\ r \in Heads => r \in held[q].head
  BY <1>3, ReadAssumption DEF ListFacts
<1> QED BY <1>1, <1>2, <1>4

LEMMA ListFileStep ==
    ASSUME IsFiniteSet(Refs), ReadInv, NEW q \in Readers, ListFile(q), UNCHANGED <<storeVars, call, temps, held>>
    PROVE  ReadInv'
<1> DEFINE rd == read'[q]
<1>1. /\ read[q].pc = "dir" /\ Is(q, "list") /\ CallFacts(q) /\ ListFacts(q)
      /\ DOMAIN read[q] = DOMAIN NoRead /\ read[q].ok \in BOOLEAN
      /\ Noted(q) /\ Noted(q)'
  BY DEF ListFile, Reads, Is, ReadInv, CallFacts, ReadTypes, Noted, Running, storeVars, GixHead
<1>2. Under(read[q].req.dirs) \subseteq Refs
  BY <1>1, Sought, UnderDirs DEF CallFacts, Refs
<1>3. PICK r \in read[q].todo :
         IF refs[r] = NoOid THEN Answer(q, [ok |-> FALSE])
         ELSE Advance(q, [todo |-> read[q].todo \ {r},
                          rows |-> IF r \in read[q].req.matching
                                   THEN read[q].rows \cup {Row(q, r, Peeled[refs[r]])}
                                   ELSE read[q].rows])
  BY DEF ListFile
<1>4. r \in Under(read[q].req.dirs) /\ r \in Refs /\ Had(q, r) /\ r \notin Under(read[q].dirs)
  BY <1>1, <1>2 DEF ListFacts
<1>5. CASE refs[r] = NoOid
  <2>1. /\ DOMAIN read' = Readers /\ DOMAIN rd = DOMAIN NoRead /\ \A p \in Readers \ {q} : read'[p] = read[p]
        /\ rd = With(With(read[q], [ok |-> FALSE]), [pc |-> "answered"])
    BY <1>1, <1>3, <1>5, AnsweredBy DEF ReadInv, CallFacts
  <2>2. /\ rd.pc = "answered" /\ rd.dirs = read[q].dirs /\ rd.default = read[q].default
        /\ rd.req = read[q].req /\ rd.todo = read[q].todo /\ rd.rows = read[q].rows /\ rd.ok = FALSE
        /\ rd.counts = read[q].counts
    BY <1>1, <2>1, Fields DEF With
  <2>3. Lacked(q, r)
    BY <1>1, <1>4, <1>5 DEF Noted, Running, Lacked
  <2>4. ListFacts(q)'
    BY <1>1, <1>4, <2>2, <2>3 DEF ListFacts, Had, Lacked, PeeledIds
  <2> QED BY <1>1, <2>1, <2>2, <2>4, ListGoesOn DEF Running
<1>6. CASE refs[r] # NoOid
  <2> DEFINE row == Row(q, r, Peeled[refs[r]])
             rows == IF r \in read[q].req.matching THEN read[q].rows \cup {row} ELSE read[q].rows
  <2>1. /\ DOMAIN read' = Readers /\ DOMAIN rd = DOMAIN NoRead /\ \A p \in Readers \ {q} : read'[p] = read[p]
        /\ rd = With(read[q], [todo |-> read[q].todo \ {r}, rows |-> rows])
    BY <1>1, <1>3, <1>6, Advanced DEF ReadInv, CallFacts
  <2>2. /\ rd.pc = "dir" /\ rd.dirs = read[q].dirs /\ rd.default = read[q].default
        /\ rd.req = read[q].req /\ rd.todo = read[q].todo \ {r} /\ rd.rows = rows /\ rd.ok = read[q].ok
        /\ rd.counts = read[q].counts
    BY <1>1, <2>1, Fields DEF With
  <2>3. /\ row.ref = r /\ row.oid \in PeeledIds(q, r)
        /\ row.isDefault /\ row.ref \in Heads => row.ref \in held[q].head
    BY <1>1, <1>4, <1>6, RowIsTrue DEF Running
  <2>4. \A old \in read[q].rows :
            /\ old.ref \in (read[q].req.matching \cap Under(read[q].req.dirs))
                             \ (read[q].todo \cup Under(read[q].dirs))
            /\ old.oid \in PeeledIds(q, old.ref)
            /\ old.isDefault /\ old.ref \in Heads => old.ref \in held[q].head
    BY <1>1 DEF ListFacts
  <2> HIDE DEF row
  <2>5. \A new \in rows :
            /\ new.ref \in (read[q].req.matching \cap Under(read[q].req.dirs))
                             \ ((read[q].todo \ {r}) \cup Under(read[q].dirs))
            /\ new.oid \in PeeledIds(q, new.ref)
            /\ new.isDefault /\ new.ref \in Heads => new.ref \in held[q].head
    BY <1>4, <2>3, <2>4
  <2>6. \A a, b \in rows : a.ref = b.ref => a = b
    BY <1>1, <1>3, <2>3, <2>4 DEF ListFacts
  <2>7. \A s \in read[q].req.matching \cap Under(read[q].req.dirs) :
            \/ Lacked(q, s) \/ s \in (read[q].todo \ {r}) \cup Under(read[q].dirs)
            \/ \E new \in rows : new.ref = s
    BY <1>1, <2>3 DEF ListFacts
  <2> HIDE DEF rows
  <2>8. ListFacts(q)'
    BY <1>1, <1>4, <2>2, <2>5, <2>6, <2>7 DEF ListFacts, Had, Lacked, PeeledIds
  <2> QED BY <1>1, <2>1, <2>2, <2>8, ListGoesOn DEF Running
<1> QED BY <1>5, <1>6
-----------------------------------------------------------------------------
\* Resolutions.

\* A step of a resolution.
LEMMA ResolveGoesOn ==
    ASSUME IsFiniteSet(Refs), ReadInv, NEW q \in Readers, Running(q), Is(q, "resolve"),
           UNCHANGED <<storeVars, call, temps, held>>,
           DOMAIN read' = Readers, \A p \in Readers \ {q} : read'[p] = read[p],
           DOMAIN read'[q] = DOMAIN NoRead, read'[q].req = read[q].req, read'[q].ok \in BOOLEAN,
           read'[q].counts = read[q].counts,
           read'[q].pc \in {"head", "name", "answered"},
           read'[q].pc = "head" => read'[q] = [NoRead EXCEPT !.pc = "head", !.req = read[q].req,
                                                             !.try = read'[q].try],
           ResolveFacts(q)'
    PROVE  ReadInv'
<1>1. Noted(q)' /\ ReadTypes(q)'
  BY DEF ReadInv, CallFacts, Noted, Running, ReadTypes, Is, storeVars, GixHead
<1>2. ~Is(q, "list")' /\ ~Is(q, "info")'
  BY DEF Is
<1> QED BY <1>1, <1>2, ReaderInv DEF CallFacts, ReadInv

\* The tries before the next one.
LEMMA NextTry ==
    ASSUME NEW n \in {1, 2}, NEW i \in 1 .. n
    PROVE  /\ \A j \in 1 .. (i + 1) - 1 : j \in 1 .. i - 1 \/ j = i
           /\ i = n => \A j \in 1 .. n : j \in 1 .. i - 1 \/ j = i
           /\ i # n => i + 1 \in 1 .. n
OBVIOUS

LEMMA TriedAgain ==
    ASSUME NEW c, NEW j, NEW d,
           c = [NoRead EXCEPT !.pc = "head", !.req = c.req, !.try = c.try],
           d = [NoRead EXCEPT !.pc = "head", !.req = c.req, !.try = j]
    PROVE  With(c, [try |-> j]) = d
<1> DEFINE w == With(c, [try |-> j])
<1>1. DOMAIN w = DOMAIN NoRead /\ w = [f \in DOMAIN NoRead |-> w[f]]
  <2>1. DOMAIN c = DOMAIN NoRead
    BY DEF NoRead
  <2> QED BY <2>1 DEF With
<1>2. DOMAIN d = DOMAIN NoRead /\ d = [f \in DOMAIN NoRead |-> d[f]]
  BY DEF NoRead
<1>3. d["try"] = j /\ d["req"] = c.req /\ d["pc"] = "head" /\ c["pc"] = "head"
  BY Fields
<1>4. \A f \in DOMAIN NoRead \ {"pc", "req", "try"} : d[f] = NoRead[f] /\ c[f] = NoRead[f]
  OBVIOUS
<1>5. w["try"] = j /\ \A f \in DOMAIN NoRead \ {"try"} : w[f] = c[f]
  <2>1. DOMAIN c = DOMAIN NoRead
    BY DEF NoRead
  <2> QED BY <2>1, Fields DEF With
<1> HIDE DEF w
<1>6. \A f \in DOMAIN NoRead : w[f] = d[f]
  BY <1>3, <1>4, <1>5
<1> QED BY <1>1, <1>2, <1>6 DEF w

\* A resolution that keeps its id and its ref knows as much of them as before.
LEMMA ResolveKept ==
    ASSUME NEW q \in Readers, ResolveFacts(q), read[q].pc = "name", UNCHANGED held,
           read'[q].req = read[q].req, read'[q].oid = read[q].oid, read'[q].ref = read[q].ref,
           read'[q].ok = read[q].ok, read'[q].pc \in {"name", "answered"},
           read'[q].pc = "name" => /\ read'[q].try \in DOMAIN read[q].req.tries
                                   /\ \A j \in 1 .. read'[q].try - 1 : Lacked(q, read[q].req.tries[j])
    PROVE  ResolveFacts(q)'
<1> DEFINE tries == read[q].req.tries
           Missed(i) == \A j \in 1 .. i - 1 : NoOid \in held[q].ref[tries[j]]
<1>1. /\ read[q].ref # NoRef => \E k \in DOMAIN tries : read[q].ref = tries[k] /\ Had(q, tries[k]) /\ Missed(k)
      /\ \E k \in DOMAIN tries : read[q].oid \in held[q].ref[tries[k]] /\ Missed(k)
      /\ ~read[q].ok => \A k \in DOMAIN tries : NoOid \in held[q].ref[tries[k]]
  BY DEF ResolveFacts, Lacked
<1>2. read'[q].pc = "name" => read'[q].try \in DOMAIN tries /\ Missed(read'[q].try)
  BY DEF Lacked
<1>3. read'[q].req.tries = tries
  OBVIOUS
<1> HIDE DEF tries
<1>4. ~read'[q].ok => \A k \in DOMAIN read'[q].req.tries : NoOid \in held'[q].ref[read'[q].req.tries[k]]
  BY <1>1, <1>3
<1>5. \E k \in DOMAIN tries : read'[q].oid \in held'[q].ref[tries[k]] /\ Missed(k)
  BY <1>1, <1>3
<1>6. read'[q].ref # NoRef => \E k \in DOMAIN tries : /\ read'[q].ref = tries[k] /\ Missed(k)
                                                       /\ \E oid \in held'[q].ref[tries[k]] : oid # NoOid
  BY <1>1, <1>3 DEF Had
<1> QED BY <1>2, <1>3, <1>4, <1>5, <1>6 DEF ResolveFacts, Had, Lacked

LEMMA ResolveRevStep ==
    ASSUME IsFiniteSet(Refs), ReadInv, NEW q \in Readers, ResolveRev(q), UNCHANGED <<storeVars, call, temps, held>>
    PROVE  ReadInv'
<1> DEFINE rd == read'[q]
           tries == read[q].req.tries
           i == read[q].try
           found == refs[tries[i]]
<1>1. /\ read[q].pc = "head" /\ Is(q, "resolve") /\ CallFacts(q) /\ ResolveFacts(q)
      /\ DOMAIN read[q] = DOMAIN NoRead /\ read[q].ok \in BOOLEAN
  BY DEF ResolveRev, Reads, Is, ReadInv, CallFacts, ReadTypes
<1>2. read[q] = [NoRead EXCEPT !.pc = "head", !.req = read[q].req, !.try = i]
  BY <1>1 DEF CallFacts, ReadTypes
<1>3. read[q].ok = TRUE /\ read[q].ref = NoRef
  BY <1>2 DEF NoRead
<1>4. /\ DOMAIN tries \in {{1}, {1, 2}} /\ DOMAIN tries = 1 .. Len(tries) /\ Len(tries) \in {1, 2}
      /\ \A j \in DOMAIN tries : tries[j] \in Refs
  BY <1>1, Sought DEF CallFacts
<1>5. i \in DOMAIN tries /\ \A j \in 1 .. i - 1 : Lacked(q, tries[j])
  BY <1>1 DEF ResolveFacts
<1>6. found \in held[q].ref[tries[i]]
  BY <1>1, <1>4, <1>5 DEF CallFacts, Noted, Running
<1>7. CASE found # NoOid
  <2>1. Advance(q, [pc |-> "name", try |-> 1, oid |-> found])
    BY <1>7 DEF ResolveRev
  <2>2. /\ DOMAIN read' = Readers /\ DOMAIN rd = DOMAIN NoRead /\ \A p \in Readers \ {q} : read'[p] = read[p]
        /\ rd = With(read[q], [pc |-> "name", try |-> 1, oid |-> found])
    BY <1>1, <2>1, Advanced DEF ReadInv, CallFacts
  <2> HIDE DEF found
  <2>3. /\ rd.pc = "name" /\ rd.try = 1 /\ rd.oid = found /\ rd.ref = NoRef /\ rd.ok = TRUE
        /\ rd.req = read[q].req /\ rd.counts = read[q].counts
    BY <1>1, <1>3, <2>2, Fields DEF With
  <2>4. i \in DOMAIN rd.req.tries /\ rd.oid \in held'[q].ref[rd.req.tries[i]]
        /\ \A j \in 1 .. i - 1 : NoOid \in held'[q].ref[rd.req.tries[j]]
    BY <1>5, <1>6, <2>3 DEF Lacked
  <2>5. 1 \in DOMAIN rd.req.tries /\ 1 .. 1 - 1 = {}
    BY <1>4, <2>3
  <2>6. ResolveFacts(q)'
    BY <2>3, <2>4, <2>5 DEF ResolveFacts, Lacked
  <2> QED BY <1>1, <2>2, <2>3, <2>6, ResolveGoesOn DEF Running
<1>8. CASE found = NoOid /\ i = Len(tries)
  <2>1. Answer(q, [ok |-> FALSE])
    BY <1>8 DEF ResolveRev
  <2>2. /\ DOMAIN read' = Readers /\ DOMAIN rd = DOMAIN NoRead /\ \A p \in Readers \ {q} : read'[p] = read[p]
        /\ rd = With(With(read[q], [ok |-> FALSE]), [pc |-> "answered"])
    BY <1>1, <2>1, AnsweredBy DEF ReadInv, CallFacts
  <2>3. /\ rd.pc = "answered" /\ rd.ref = NoRef /\ rd.ok = FALSE
        /\ rd.req = read[q].req /\ rd.counts = read[q].counts
    BY <1>1, <1>3, <2>2, Fields DEF With
  <2>4. \A j \in DOMAIN tries : Lacked(q, tries[j])
    BY <1>4, <1>5, <1>6, <1>8 DEF Lacked
  <2>5. ResolveFacts(q)'
    BY <1>1, <2>3, <2>4 DEF ResolveFacts, Had, Lacked
  <2> QED BY <1>1, <2>2, <2>3, <2>5, ResolveGoesOn DEF Running
<1>9. CASE found = NoOid /\ i # Len(tries)
  <2>1. Advance(q, [try |-> i + 1])
    BY <1>9 DEF ResolveRev
  <2>2. /\ DOMAIN read' = Readers /\ DOMAIN rd = DOMAIN NoRead /\ \A p \in Readers \ {q} : read'[p] = read[p]
        /\ rd = With(read[q], [try |-> i + 1])
    BY <1>1, <2>1, Advanced DEF ReadInv, CallFacts
  <2>3. rd = [NoRead EXCEPT !.pc = "head", !.req = read[q].req, !.try = i + 1]
    <3> DEFINE d == [NoRead EXCEPT !.pc = "head", !.req = read[q].req, !.try = i + 1]
    <3>1. With(read[q], [try |-> i + 1]) = d
      <4> HIDE DEF tries
      <4> QED BY <1>2, TriedAgain
    <3> QED BY <2>2, <3>1
  <2>4. /\ rd.pc = "head" /\ rd.try = i + 1 /\ rd.ref = NoRef /\ rd.ok = TRUE
        /\ rd.req = read[q].req /\ rd.counts = read[q].counts
    BY <1>1, <1>3, <2>2, Fields DEF With
  <2>5. i + 1 \in DOMAIN tries /\ \A j \in 1 .. (i + 1) - 1 : Lacked(q, tries[j])
    BY <1>4, <1>5, <1>6, <1>9, NextTry DEF Lacked
  <2>6. ResolveFacts(q)'
    BY <1>1, <1>4, <2>4, <2>5 DEF ResolveFacts, Had, Lacked
  <2> QED BY <1>1, <2>2, <2>3, <2>4, <2>6, ResolveGoesOn DEF Running
<1> QED BY <1>7, <1>8, <1>9

LEMMA ResolveNameStep ==
    ASSUME IsFiniteSet(Refs), ReadInv, NEW q \in Readers, ResolveName(q), UNCHANGED <<storeVars, call, temps, held>>
    PROVE  ReadInv'
<1> DEFINE rd == read'[q]
           tries == read[q].req.tries
           i == read[q].try
           ref == tries[i]
<1>1. /\ read[q].pc = "name" /\ Is(q, "resolve") /\ CallFacts(q) /\ ResolveFacts(q)
      /\ DOMAIN read[q] = DOMAIN NoRead /\ read[q].ok \in BOOLEAN
  BY DEF ResolveName, Reads, Is, ReadInv, CallFacts, ReadTypes
<1>2. /\ DOMAIN tries \in {{1}, {1, 2}} /\ DOMAIN tries = 1 .. Len(tries) /\ Len(tries) \in {1, 2}
      /\ \A j \in DOMAIN tries : tries[j] \in Refs
  BY <1>1, Sought DEF CallFacts
<1>3. i \in DOMAIN tries /\ \A j \in 1 .. i - 1 : Lacked(q, tries[j])
  BY <1>1 DEF ResolveFacts
<1>4. refs[ref] \in held[q].ref[ref]
  BY <1>1, <1>2, <1>3 DEF CallFacts, Noted, Running
<1>5. CASE refs[ref] # NoOid
  <2>1. Answer(q, [ref |-> ref])
    BY <1>5 DEF ResolveName
  <2> HIDE DEF ref
  <2>2. /\ DOMAIN read' = Readers /\ DOMAIN rd = DOMAIN NoRead /\ \A p \in Readers \ {q} : read'[p] = read[p]
        /\ rd = With(With(read[q], [ref |-> ref]), [pc |-> "answered"])
    BY <1>1, <2>1, AnsweredBy DEF ReadInv, CallFacts
  <2>3. /\ rd.pc = "answered" /\ rd.ref = ref /\ rd.ok = read[q].ok /\ rd.oid = read[q].oid
        /\ rd.req = read[q].req /\ rd.counts = read[q].counts
    BY <1>1, <2>2, Fields DEF With
  <2>4. Had(q, ref)
    BY <1>4, <1>5 DEF Had
  <2>5. ResolveFacts(q)'
    BY <1>1, <1>3, <2>3, <2>4 DEF ResolveFacts, Had, Lacked, ref
  <2> QED BY <1>1, <2>2, <2>3, <2>5, ResolveGoesOn DEF Running
<1>6. CASE refs[ref] = NoOid /\ i = Len(tries)
  <2>1. Answer(q, <<>>)
    BY <1>6 DEF ResolveName
  <2>2. /\ DOMAIN read' = Readers /\ DOMAIN rd = DOMAIN NoRead /\ \A p \in Readers \ {q} : read'[p] = read[p]
        /\ rd = With(With(read[q], <<>>), [pc |-> "answered"])
    BY <1>1, <2>1, AnsweredBy DEF ReadInv, CallFacts
  <2>3. /\ rd.pc = "answered" /\ rd.ref = read[q].ref /\ rd.ok = read[q].ok /\ rd.oid = read[q].oid
        /\ rd.req = read[q].req /\ rd.counts = read[q].counts
    BY <1>1, <2>2, Fields DEF With
  <2>4. ResolveFacts(q)'
    BY <1>1, <2>3, ResolveKept
  <2> QED BY <1>1, <2>2, <2>3, <2>4, ResolveGoesOn DEF Running
<1>7. CASE refs[ref] = NoOid /\ i # Len(tries)
  <2>1. Advance(q, [try |-> i + 1])
    BY <1>7 DEF ResolveName
  <2>2. /\ DOMAIN read' = Readers /\ DOMAIN rd = DOMAIN NoRead /\ \A p \in Readers \ {q} : read'[p] = read[p]
        /\ rd = With(read[q], [try |-> i + 1])
    BY <1>1, <2>1, Advanced DEF ReadInv, CallFacts
  <2>3. /\ rd.pc = "name" /\ rd.try = i + 1 /\ rd.ref = read[q].ref /\ rd.ok = read[q].ok
        /\ rd.oid = read[q].oid /\ rd.req = read[q].req /\ rd.counts = read[q].counts
    BY <1>1, <2>2, Fields DEF With
  <2>4. i + 1 \in DOMAIN tries /\ \A j \in 1 .. (i + 1) - 1 : Lacked(q, tries[j])
    BY <1>2, <1>3, <1>4, <1>7, NextTry DEF Lacked
  <2>5. ResolveFacts(q)'
    BY <1>1, <2>3, <2>4, ResolveKept
  <2> QED BY <1>1, <2>2, <2>3, <2>5, ResolveGoesOn DEF Running
<1> QED BY <1>5, <1>6, <1>7
-----------------------------------------------------------------------------
\* Infos.

\* A step of an info.
LEMMA InfoGoesOn ==
    ASSUME IsFiniteSet(Refs), ReadInv, NEW q \in Readers, Running(q), Is(q, "info"),
           UNCHANGED <<storeVars, call, temps, held>>,
           DOMAIN read' = Readers, \A p \in Readers \ {q} : read'[p] = read[p],
           DOMAIN read'[q] = DOMAIN NoRead, read'[q].req = read[q].req, read'[q].ok \in BOOLEAN,
           DOMAIN read'[q].counts = {Heads, Tags},
           read'[q].pc \in {"name", "count", "size", "commits", "answered"}, InfoFacts(q)'
    PROVE  ReadInv'
<1>1. Noted(q)' /\ ReadTypes(q)'
  BY DEF ReadInv, CallFacts, Noted, Running, ReadTypes, Is, storeVars, GixHead
<1>2. ~Is(q, "list")' /\ ~Is(q, "resolve")'
  BY DEF Is
<1> QED BY <1>1, <1>2, ReaderInv DEF CallFacts, ReadInv

\* What an info knows before any of its steps.
LEMMA InfoAt ==
    ASSUME ReadInv, NEW q \in Readers, NEW pc \in {"head", "name", "count", "size", "commits"},
           Reads(q, "info", pc)
    PROVE  /\ read[q].pc = pc /\ Is(q, "info") /\ CallFacts(q) /\ InfoFacts(q) /\ Running(q)
           /\ DOMAIN read[q] = DOMAIN NoRead /\ read[q].ok \in BOOLEAN
           /\ DOMAIN read[q].counts = {Heads, Tags}
           /\ Noted(q) /\ ReadTypes(q) /\ DOMAIN read = Readers /\ HeadNames
BY DEF ReadInv, Reads, Is, CallFacts, ReadTypes, Running

\* What an info keeps of what it knows.
LEMMA TruthKept ==
    ASSUME NEW q \in Readers, UNCHANGED held
    PROVE  /\ HeadIsTrue(q) /\ read'[q].oid = read[q].oid => HeadIsTrue(q)'
           /\ DefaultIsTrue(q) /\ read'[q].default = read[q].default => DefaultIsTrue(q)'
<1>1. HeadIds(q)' = HeadIds(q) /\ (Headless(q)' <=> Headless(q))
  BY DEF HeadIds, PeeledIds, Headless
<1>2. \A b : Existed(q, b)' <=> Existed(q, b)
  BY DEF Existed
<1>3. HeadIsTrue(q) /\ read'[q].oid = read[q].oid => HeadIsTrue(q)'
  BY <1>1 DEF HeadIsTrue
<1>4. DefaultIsTrue(q) /\ read'[q].default = read[q].default => DefaultIsTrue(q)'
  BY <1>1, <1>2 DEF DefaultIsTrue
<1> QED BY <1>3, <1>4

LEMMA CountedKept ==
    ASSUME NEW q \in Readers, NEW dir, Counted(q, dir), UNCHANGED held,
           read'[q].counts[dir] = read[q].counts[dir]
    PROVE  /\ read'[q].counts[dir] \in Nat
           /\ read'[q].counts[dir] >= Cardinality({r \in dir : ~Lacked(q, r)'})
           /\ read'[q].counts[dir] <= Cardinality({r \in dir : Had(q, r)'})
BY DEF Counted, Lacked, Had

\* Where HEAD leads now, a branch held that HEAD named; or it leads nowhere.
LEMMA HeadNow ==
    ASSUME HeadNames, NEW q \in Readers, Noted(q), Running(q)
    PROVE  /\ HeadRef # NoRef => /\ HeadRef \in held[q].head \ {NoRef} /\ Existed(q, HeadRef)
                                 /\ HeadId \in HeadIds(q)
           /\ HeadRef = NoRef => HeadId = NoOid /\ Headless(q)
<1>1. ASSUME HeadRef # NoRef
      PROVE  HeadRef \in held[q].head \ {NoRef} /\ Existed(q, HeadRef) /\ HeadId \in HeadIds(q)
  <2>1. HeadRef \in Heads \cap held[q].head /\ refs[HeadRef] # NoOid
    BY <1>1, HeadRefNoted
  <2>2. refs[HeadRef] \in held[q].ref[HeadRef]
    BY <2>1 DEF Noted, Refs
  <2>3. HeadId = Peeled[refs[HeadRef]]
    BY <1>1 DEF HeadId
  <2>4. HeadId \in PeeledIds(q, HeadRef)
    BY <2>1, <2>2, <2>3 DEF PeeledIds
  <2> QED BY <1>1, <2>1, <2>2, <2>4 DEF HeadIds, Existed
<1>2. ASSUME HeadRef = NoRef PROVE HeadId = NoOid /\ Headless(q)
  <2>1. GixHead = NoRef \/ (GixHead \in Refs /\ refs[GixHead] = NoOid)
    BY <1>2 DEF HeadRef, HeadNames, Refs
  <2> QED BY <1>2, <2>1 DEF HeadId, Headless, Noted
<1> QED BY <1>1, <1>2

LEMMA InfoHeadIdStep ==
    ASSUME IsFiniteSet(Refs), ReadInv, NEW q \in Readers, InfoHeadId(q), UNCHANGED <<storeVars, call, temps, held>>
    PROVE  ReadInv'
<1> DEFINE rd == read'[q]
<1>1. /\ read[q].pc = "head" /\ Is(q, "info") /\ InfoFacts(q) /\ ReadTypes(q) /\ HeadNames /\ Noted(q)
      /\ DOMAIN read[q] = DOMAIN NoRead /\ read[q].ok \in BOOLEAN /\ DOMAIN read = Readers
      /\ DOMAIN read[q].counts = {Heads, Tags} /\ Running(q)
  BY InfoAt DEF InfoHeadId
<1>2. HeadId \in HeadIds(q) \/ (HeadId = NoOid /\ Headless(q))
  BY <1>1, HeadNow
<1>3. Advance(q, [pc |-> "name", oid |-> HeadId])
  BY DEF InfoHeadId
<1>4. /\ DOMAIN read' = Readers /\ DOMAIN rd = DOMAIN NoRead /\ \A p \in Readers \ {q} : read'[p] = read[p]
      /\ rd = With(read[q], [pc |-> "name", oid |-> HeadId])
  BY <1>1, <1>3, Advanced
<1>5. /\ rd.pc = "name" /\ rd.oid = HeadId /\ rd.ok = read[q].ok /\ rd.req = read[q].req
      /\ rd.counts = read[q].counts /\ rd.todo = read[q].todo
  BY <1>1, <1>4, Fields DEF With
<1>6. HeadIsTrue(q)'
  <2>1. HeadIds(q)' = HeadIds(q) /\ (Headless(q)' <=> Headless(q))
    BY DEF HeadIds, PeeledIds, Headless
  <2> QED BY <1>2, <1>5, <2>1 DEF HeadIsTrue
<1>7. InfoFacts(q)'
  BY <1>1, <1>5, <1>6 DEF InfoFacts, Present, In, storeVars
<1> QED BY <1>1, <1>4, <1>5, <1>7, InfoGoesOn DEF Running

LEMMA InfoHeadRefStep ==
    ASSUME IsFiniteSet(Refs), ReadInv, NEW q \in Readers, InfoHeadRef(q), UNCHANGED <<storeVars, call, temps, held>>
    PROVE  ReadInv'
<1> DEFINE rd == read'[q]
           default == IF HeadRef = NoRef THEN Configured ELSE ShortName[HeadRef]
<1>1. /\ read[q].pc = "name" /\ Is(q, "info") /\ InfoFacts(q) /\ ReadTypes(q) /\ HeadNames /\ Noted(q)
      /\ DOMAIN read[q] = DOMAIN NoRead /\ read[q].ok \in BOOLEAN /\ DOMAIN read = Readers
      /\ DOMAIN read[q].counts = {Heads, Tags} /\ Running(q)
  BY InfoAt DEF InfoHeadRef
<1>2. Advance(q, [pc |-> "count", dirs |-> <<Heads, Tags>>, default |-> default])
  BY DEF InfoHeadRef
<1>3. \/ \E b \in held[q].head \ {NoRef} : default = ShortName[b] /\ Existed(q, b)
      \/ default = Configured /\ Headless(q)
  BY <1>1, HeadNow
<1> HIDE DEF default
<1>4. /\ DOMAIN read' = Readers /\ DOMAIN rd = DOMAIN NoRead /\ \A p \in Readers \ {q} : read'[p] = read[p]
      /\ rd = With(read[q], [pc |-> "count", dirs |-> <<Heads, Tags>>, default |-> default])
  BY <1>1, <1>2, Advanced
<1>5. /\ rd.pc = "count" /\ rd.dirs = <<Heads, Tags>> /\ rd.oid = read[q].oid /\ rd.ok = read[q].ok
      /\ rd.req = read[q].req /\ rd.counts = read[q].counts /\ rd.default = default
      /\ rd.todo = read[q].todo
  BY <1>1, <1>4, Fields DEF With
<1>6. HeadIsTrue(q)'
  BY <1>1, <1>5, TruthKept DEF InfoFacts
<1>7. DefaultIsTrue(q)'
  <2>1. (Headless(q)' <=> Headless(q)) /\ \A b : Existed(q, b)' <=> Existed(q, b)
    BY DEF Headless, Existed
  <2> QED BY <1>3, <1>5, <2>1 DEF DefaultIsTrue
<1>8. \A dir \in {Heads, Tags} : \E i \in DOMAIN rd.dirs : rd.dirs[i] = dir
  <2>1. 1 \in DOMAIN rd.dirs /\ 2 \in DOMAIN rd.dirs /\ rd.dirs[1] = Heads /\ rd.dirs[2] = Tags
    BY <1>5
  <2> QED BY <2>1
<1>9. InfoFacts(q)'
  BY <1>1, <1>5, <1>6, <1>7, <1>8 DEF InfoFacts, Present, In, storeVars
<1> QED BY <1>1, <1>4, <1>5, <1>9, InfoGoesOn DEF Running

\* How many refs there are now in a directory.
LEMMA CountNow ==
    ASSUME IsFiniteSet(Refs), NEW q \in Readers, Noted(q), Running(q), NEW dir \in {Heads, Tags}
    PROVE  /\ Cardinality(In(dir)) \in Nat
           /\ Cardinality(In(dir)) >= Cardinality({r \in dir : ~Lacked(q, r)})
           /\ Cardinality(In(dir)) <= Cardinality({r \in dir : Had(q, r)})
<1> DEFINE always == {r \in dir : ~Lacked(q, r)}
           ever == {r \in dir : Had(q, r)}
           now == In(dir)
<1>1. always \subseteq now /\ now \subseteq ever /\ ever \subseteq Refs
  BY DEF In, Lacked, Had, Noted, Refs
<1> HIDE DEF always, ever, now
<1>2. IsFiniteSet(ever) /\ IsFiniteSet(now) /\ IsFiniteSet(always)
  BY <1>1, FS_Subset
<1>3. Cardinality(ever) \in Nat /\ Cardinality(now) \in Nat /\ Cardinality(always) \in Nat
  BY <1>2, FS_CardinalityType
<1>4. Cardinality(always) <= Cardinality(now) /\ Cardinality(now) <= Cardinality(ever)
  BY <1>1, <1>2, FS_Subset
<1>5. Cardinality(now) >= Cardinality(always)
  BY <1>3, <1>4
<1> QED BY <1>3, <1>4, <1>5 DEF always, ever, now

LEMMA InfoCountStep ==
    ASSUME IsFiniteSet(Refs), ReadInv, NEW q \in Readers, InfoCount(q), UNCHANGED <<storeVars, call, temps, held>>
    PROVE  ReadInv'
<1> DEFINE rd == read'[q]
           dir == Head(read[q].dirs)
           rest == Tail(read[q].dirs)
           counts == [read[q].counts EXCEPT ![dir] = Cardinality(In(dir))]
<1>1. /\ read[q].pc = "count" /\ Is(q, "info") /\ InfoFacts(q) /\ ReadTypes(q) /\ Noted(q)
      /\ DOMAIN read[q] = DOMAIN NoRead /\ read[q].ok \in BOOLEAN /\ DOMAIN read = Readers
      /\ DOMAIN read[q].counts = {Heads, Tags} /\ Running(q)
  BY InfoAt DEF InfoCount
<1>2. read[q].dirs \in {<<Heads, Tags>>, <<Tags>>}
  BY <1>1 DEF InfoFacts, InfoCount
<1>3. Advance(q, [dirs |-> rest, counts |-> counts])
  BY DEF InfoCount
<1>4. /\ rest \in {<<Tags>>, <<>>} /\ dir \in {Heads, Tags}
      /\ \A i \in DOMAIN read[q].dirs : read[q].dirs[i] = dir \/ \E j \in DOMAIN rest : rest[j] = read[q].dirs[i]
  <2>1. CASE read[q].dirs = <<Tags>>
    <3>1. dir = Tags /\ rest = <<>> /\ DOMAIN read[q].dirs = {1}
      BY <2>1
    <3> QED BY <2>1, <3>1
  <2>2. CASE read[q].dirs = <<Heads, Tags>>
    <3>1. dir = Heads /\ rest = <<Tags>> /\ DOMAIN read[q].dirs = {1, 2}
      BY <2>2
    <3>2. 1 \in DOMAIN rest /\ rest[1] = Tags
      <4> HIDE DEF rest
      <4> QED BY <3>1
    <3> QED BY <2>2, <3>1, <3>2
  <2> QED BY <1>2, <2>1, <2>2
<1>5. /\ counts[dir] = Cardinality(In(dir)) /\ DOMAIN counts = {Heads, Tags}
      /\ \A d \in {Heads, Tags} : d # dir => counts[d] = read[q].counts[d]
  BY <1>1, <1>4
<1> HIDE DEF dir, rest, counts
<1>6. /\ DOMAIN read' = Readers /\ DOMAIN rd = DOMAIN NoRead /\ \A p \in Readers \ {q} : read'[p] = read[p]
      /\ rd = With(read[q], [dirs |-> rest, counts |-> counts])
  BY <1>1, <1>3, Advanced
<1>7. /\ rd.pc = "count" /\ rd.dirs = rest /\ rd.oid = read[q].oid /\ rd.ok = read[q].ok
      /\ rd.req = read[q].req /\ rd.counts = counts /\ rd.default = read[q].default
      /\ rd.todo = read[q].todo
  BY <1>1, <1>6, Fields DEF With
<1>8. HeadIsTrue(q)' /\ DefaultIsTrue(q)'
  BY <1>1, <1>7, TruthKept DEF InfoFacts
<1>9. ASSUME NEW d \in {Heads, Tags} PROVE (\E i \in DOMAIN rest : rest[i] = d) \/ Counted(q, d)'
  <2>1. CASE d = dir
    <3>1. held' = held
      OBVIOUS
    <3>2. /\ counts[d] \in Nat
          /\ counts[d] >= Cardinality({r \in d : ~Lacked(q, r)})
          /\ counts[d] <= Cardinality({r \in d : Had(q, r)})
      BY <1>1, <1>4, <1>5, <2>1, CountNow
    <3> QED BY <1>7, <3>1, <3>2 DEF Counted, Lacked, Had
  <2>2. CASE d # dir /\ Counted(q, d)
    BY <1>5, <1>7, <2>2, CountedKept DEF Counted
  <2>3. CASE d # dir /\ \E i \in DOMAIN read[q].dirs : read[q].dirs[i] = d
    BY <1>4, <2>3
  <2> QED BY <1>1, <2>1, <2>2, <2>3 DEF InfoFacts
<1>10. InfoFacts(q)'
  BY <1>1, <1>4, <1>7, <1>8, <1>9 DEF InfoFacts, Present, In, storeVars
<1> QED BY <1>1, <1>5, <1>6, <1>7, <1>10, InfoGoesOn DEF Running

\* The calls that walk, list and look at files: what they have found stays as it was.
LEMMA InfoFilesStep ==
    ASSUME IsFiniteSet(Refs), ReadInv, NEW q \in Readers, Running(q), Is(q, "info"),
           UNCHANGED <<storeVars, call, temps, held>>,
           read[q].pc \in {"count", "size"}, read[q].pc = "count" => read[q].dirs = <<>>,
           DOMAIN read' = Readers, \A p \in Readers \ {q} : read'[p] = read[p],
           DOMAIN read'[q] = DOMAIN NoRead, read'[q].req = read[q].req, read'[q].ok \in BOOLEAN,
           read'[q].oid = read[q].oid, read'[q].default = read[q].default,
           read'[q].counts = read[q].counts, read'[q].pc \in {"size", "commits", "answered"},
           read'[q].pc = "size" => read'[q].todo \subseteq read[q].todo \cup Present,
           read'[q].pc = "answered" => ~read'[q].ok,
           ~read'[q].ok => ~read[q].ok \/ ~(read[q].todo \subseteq Present)
    PROVE  ReadInv'
<1>1. InfoFacts(q) /\ DOMAIN read[q].counts = {Heads, Tags}
  BY DEF ReadInv, CallFacts, ReadTypes
<1>2. HeadIsTrue(q)' /\ DefaultIsTrue(q)'
  BY <1>1, TruthKept DEF InfoFacts
<1>3. \A dir \in {Heads, Tags} : Counted(q, dir)
  <2>1. DOMAIN <<>> = {}
    OBVIOUS
  <2> QED BY <1>1, <2>1 DEF InfoFacts
<1>4. \A dir \in {Heads, Tags} : Counted(q, dir)'
  BY <1>3, CountedKept DEF Counted
<1>5. read[q].todo \subseteq Present \/ held[q].gone
  BY <1>1 DEF InfoFacts
<1>6. read'[q].pc = "size" => read'[q].todo \subseteq Present' \/ held'[q].gone
  BY <1>5 DEF Present, In, storeVars
<1>7. ~read'[q].ok => held'[q].gone
  BY <1>1, <1>5 DEF InfoFacts
<1>8. InfoFacts(q)'
  BY <1>2, <1>4, <1>6, <1>7 DEF InfoFacts
<1> QED BY <1>1, <1>8, InfoGoesOn DEF Running

LEMMA InfoWalkStep ==
    ASSUME IsFiniteSet(Refs), ReadInv, NEW q \in Readers, InfoWalk(q), UNCHANGED <<storeVars, call, temps, held>>
    PROVE  ReadInv'
<1> DEFINE rd == read'[q]
           all == {Heads, Tags, Temps}
<1>1. /\ read[q].pc = "count" /\ Is(q, "info") /\ ReadTypes(q) /\ Running(q)
      /\ DOMAIN read[q] = DOMAIN NoRead /\ read[q].ok \in BOOLEAN /\ DOMAIN read = Readers
      /\ read[q].dirs = <<>>
  BY InfoAt DEF InfoWalk
<1>2. Advance(q, [pc |-> "size", walk |-> all])
  BY DEF InfoWalk
<1> HIDE DEF all
<1>3. /\ DOMAIN read' = Readers /\ DOMAIN rd = DOMAIN NoRead /\ \A p \in Readers \ {q} : read'[p] = read[p]
      /\ rd = With(read[q], [pc |-> "size", walk |-> all])
  BY <1>1, <1>2, Advanced
<1>4. /\ rd.pc = "size" /\ rd.todo = read[q].todo /\ rd.oid = read[q].oid /\ rd.ok = read[q].ok
      /\ rd.req = read[q].req /\ rd.counts = read[q].counts /\ rd.default = read[q].default
  BY <1>1, <1>3, Fields DEF With
<1> HIDE DEF rd
<1> QED BY <1>1, <1>3, <1>4, InfoFilesStep DEF rd

LEMMA InfoListStep ==
    ASSUME IsFiniteSet(Refs), ReadInv, NEW q \in Readers, InfoList(q), UNCHANGED <<storeVars, call, temps, held>>
    PROVE  ReadInv'
<1> DEFINE rd == read'[q]
<1>1. /\ read[q].pc = "size" /\ Is(q, "info") /\ ReadTypes(q) /\ Running(q)
      /\ DOMAIN read[q] = DOMAIN NoRead /\ read[q].ok \in BOOLEAN /\ DOMAIN read = Readers
  BY InfoAt DEF InfoList
<1>2. PICK dir \in read[q].walk :
         Advance(q, [walk |-> read[q].walk \ {dir}, todo |-> read[q].todo \cup (dir \cap Present)])
  BY DEF InfoList
<1> DEFINE todo == read[q].todo \cup (dir \cap Present)
           walk == read[q].walk \ {dir}
<1>3. todo \subseteq read[q].todo \cup Present
  OBVIOUS
<1>4. Advance(q, [walk |-> walk, todo |-> todo])
  BY <1>2
<1> HIDE DEF todo, walk
<1>5. /\ DOMAIN read' = Readers /\ DOMAIN rd = DOMAIN NoRead /\ \A p \in Readers \ {q} : read'[p] = read[p]
      /\ rd = With(read[q], [walk |-> walk, todo |-> todo])
  BY <1>1, <1>4, Advanced
<1>6. /\ rd.pc = "size" /\ rd.todo = todo /\ rd.oid = read[q].oid /\ rd.ok = read[q].ok
      /\ rd.req = read[q].req /\ rd.counts = read[q].counts /\ rd.default = read[q].default
  BY <1>1, <1>5, Fields DEF With
<1> HIDE DEF rd
<1> QED BY <1>1, <1>3, <1>5, <1>6, InfoFilesStep DEF rd

LEMMA InfoSizeStep ==
    ASSUME IsFiniteSet(Refs), ReadInv, NEW q \in Readers, InfoSize(q), UNCHANGED <<storeVars, call, temps, held>>
    PROVE  ReadInv'
<1> DEFINE rd == read'[q]
<1>1. /\ read[q].pc = "size" /\ Is(q, "info") /\ ReadTypes(q) /\ Running(q)
      /\ DOMAIN read[q] = DOMAIN NoRead /\ read[q].ok \in BOOLEAN /\ DOMAIN read = Readers
  BY InfoAt DEF InfoSize
<1>2. CASE ~(read[q].todo \subseteq Present) /\ Answer(q, [ok |-> FALSE])
  <2>1. /\ DOMAIN read' = Readers /\ DOMAIN rd = DOMAIN NoRead
        /\ \A p \in Readers \ {q} : read'[p] = read[p]
        /\ rd = With(With(read[q], [ok |-> FALSE]), [pc |-> "answered"])
    BY <1>1, <1>2, AnsweredBy
  <2>2. rd.ok = FALSE /\ rd.pc = "answered"
    BY <1>1, <2>1, Fields DEF With
  <2>3. /\ rd.oid = read[q].oid /\ rd.req = read[q].req
        /\ rd.counts = read[q].counts /\ rd.default = read[q].default
    BY <1>1, <2>1, Fields DEF With
  <2> HIDE DEF rd
  <2> QED BY <1>1, <1>2, <2>1, <2>2, <2>3, InfoFilesStep DEF rd
<1>3. CASE \E todo \in SUBSET read[q].todo : Advance(q, [todo |-> todo])
  <2>1. PICK todo \in SUBSET read[q].todo : Advance(q, [todo |-> todo])
    BY <1>3
  <2>2. /\ DOMAIN read' = Readers /\ DOMAIN rd = DOMAIN NoRead
        /\ \A p \in Readers \ {q} : read'[p] = read[p]
        /\ rd = With(read[q], [todo |-> todo])
    BY <1>1, <2>1, Advanced
  <2>3. /\ rd.pc = "size" /\ rd.todo = todo /\ rd.oid = read[q].oid /\ rd.ok = read[q].ok
        /\ rd.req = read[q].req /\ rd.counts = read[q].counts /\ rd.default = read[q].default
    BY <1>1, <2>2, Fields DEF With
  <2> HIDE DEF rd
  <2> QED BY <1>1, <2>2, <2>3, InfoFilesStep DEF rd
<1>4. CASE Advance(q, [pc |-> "commits"])
  <2>1. /\ DOMAIN read' = Readers /\ DOMAIN rd = DOMAIN NoRead
        /\ \A p \in Readers \ {q} : read'[p] = read[p]
        /\ rd = With(read[q], [pc |-> "commits"])
    BY <1>1, <1>4, Advanced
  <2>2. /\ rd.pc = "commits" /\ rd.oid = read[q].oid /\ rd.ok = read[q].ok
        /\ rd.req = read[q].req /\ rd.counts = read[q].counts /\ rd.default = read[q].default
    BY <1>1, <2>1, Fields DEF With
  <2> HIDE DEF rd
  <2> QED BY <1>1, <2>1, <2>2, InfoFilesStep DEF rd
<1>5. ASSUME NEW file \in read[q].todo,
             IF file \in Present THEN Advance(q, [todo |-> read[q].todo \ {file}])
             ELSE Answer(q, [ok |-> FALSE])
      PROVE  \/ ~(read[q].todo \subseteq Present) /\ Answer(q, [ok |-> FALSE])
             \/ \E todo \in SUBSET read[q].todo : Advance(q, [todo |-> todo])
  BY <1>5
<1> QED BY <1>2, <1>3, <1>4, <1>5 DEF InfoSize

LEMMA InfoCommitsStep ==
    ASSUME IsFiniteSet(Refs), ReadInv, NEW q \in Readers, InfoCommits(q), UNCHANGED <<storeVars, call, temps, held>>
    PROVE  ReadInv'
<1> DEFINE rd == read'[q]
           n == Walked(HeadId)
<1>1. /\ read[q].pc = "commits" /\ Is(q, "info") /\ InfoFacts(q) /\ ReadTypes(q) /\ Noted(q) /\ HeadNames
      /\ DOMAIN read[q] = DOMAIN NoRead /\ read[q].ok \in BOOLEAN /\ DOMAIN read = Readers
      /\ DOMAIN read[q].counts = {Heads, Tags} /\ Running(q)
  BY InfoAt DEF InfoCommits
<1>2. (\E oid \in HeadIds(q) : n = Walked(oid)) \/ (n = 0 /\ Headless(q))
  BY <1>1, HeadNow DEF Walked
<1>3. Answer(q, [commits |-> n])
  BY DEF InfoCommits
<1> HIDE DEF n
<1>4. /\ DOMAIN read' = Readers /\ DOMAIN rd = DOMAIN NoRead /\ \A p \in Readers \ {q} : read'[p] = read[p]
      /\ rd = With(With(read[q], [commits |-> n]), [pc |-> "answered"])
  BY <1>1, <1>3, AnsweredBy
<1>5. /\ rd.pc = "answered" /\ rd.oid = read[q].oid /\ rd.ok = read[q].ok /\ rd.req = read[q].req
      /\ rd.counts = read[q].counts /\ rd.commits = n /\ rd.default = read[q].default
  BY <1>1, <1>4, Fields DEF With
<1>6. HeadIsTrue(q)' /\ DefaultIsTrue(q)'
  BY <1>1, <1>5, TruthKept DEF InfoFacts
<1>7. CommitsAreTrue(q)'
  <2>1. HeadIds(q)' = HeadIds(q) /\ (Headless(q)' <=> Headless(q))
    BY DEF HeadIds, PeeledIds, Headless
  <2>2. \A oid : Walked(oid)' = Walked(oid)
    BY DEF Walked
  <2> QED BY <1>2, <1>5, <2>1, <2>2 DEF CommitsAreTrue
<1>8. \A dir \in {Heads, Tags} : Counted(q, dir)'
  BY <1>1, <1>5, CountedKept DEF Counted, InfoFacts
<1>9. InfoFacts(q)'
  BY <1>1, <1>5, <1>6, <1>7, <1>8 DEF InfoFacts
<1> QED BY <1>1, <1>4, <1>5, <1>9, InfoGoesOn DEF Running
-----------------------------------------------------------------------------
\* Every step.

LEMMA ReadInvInit == ASSUME ReadInit PROVE ReadInv
<1>1. /\ refs = InitRefs /\ head = HeadFor(InitHead)
      /\ call = [k \in Clients |-> NoRequest]
      /\ read = [q \in Readers |-> NoRead] /\ held = [q \in Readers |-> Since]
  BY DEF ReadInit, StoreInit, RefInit
<1>2. HeadNames
  BY <1>1, InitAssumption DEF HeadNames, HeadFor, GixHead, NoRequest
<1>3. ASSUME NEW q \in Readers PROVE CallFacts(q)
  <2>1. Noted(q)
    BY <1>1, <1>2, FS_Singleton DEF Noted, Since, HeadNames
  <2>2. read[q].pc = "idle" /\ ReadTypes(q)
    BY <1>1 DEF ReadTypes, NoRead
  <2> QED BY <2>1, <2>2 DEF CallFacts, Is
<1> QED BY <1>1, <1>2, <1>3 DEF ReadInv

LEMMA ReadStepInv ==
    ASSUME IsFiniteSet(Refs), ReadInv, NEW q \in Readers, ReadStep(q) PROVE ReadInv'
<1>1. UNCHANGED <<storeVars, call, temps, held>>
  BY DEF ReadStep
<1>2. CASE ListHead(q)
  BY <1>1, <1>2, ListHeadStep
<1>3. CASE ListDir(q)
  BY <1>1, <1>3, ListDirStep
<1>4. CASE ListFile(q)
  BY <1>1, <1>4, ListFileStep
<1>5. CASE ResolveRev(q)
  BY <1>1, <1>5, ResolveRevStep
<1>6. CASE ResolveName(q)
  BY <1>1, <1>6, ResolveNameStep
<1>7. CASE InfoHeadId(q)
  BY <1>1, <1>7, InfoHeadIdStep
<1>8. CASE InfoHeadRef(q)
  BY <1>1, <1>8, InfoHeadRefStep
<1>9. CASE InfoCount(q)
  BY <1>1, <1>9, InfoCountStep
<1>10. CASE InfoList(q) \/ InfoWalk(q)
  BY <1>1, <1>10, InfoListStep, InfoWalkStep
<1>11. CASE InfoSize(q)
  BY <1>1, <1>11, InfoSizeStep
<1>12. CASE InfoCommits(q)
  BY <1>1, <1>12, InfoCommitsStep
<1> QED BY <1>2, <1>3, <1>4, <1>5, <1>6, <1>7, <1>8, <1>9, <1>10, <1>11, <1>12 DEF ReadStep

LEMMA ReadInvNext == ASSUME IsFiniteSet(Refs), ReadInv, [ReadNext]_readVars PROVE ReadInv'
<1>1. CASE Others
  BY <1>1, OthersInv
<1>2. ASSUME NEW q \in Readers, AskRead(q) PROVE ReadInv'
  BY <1>2, AskReadStep
<1>3. ASSUME NEW q \in Readers, ReadStep(q) PROVE ReadInv'
  BY <1>3, ReadStepInv
<1>4. CASE UNCHANGED readVars
  <2>1. /\ UNCHANGED <<refs, head, call, temps, read, held>>
    BY <1>4 DEF readVars, storeVars
  <2>2. \A q \in Readers : Grows(q) /\ Seen(q) /\ Noted(q)'
    BY <2>1 DEF Grows, Seen, Present, In, Noted, Running, ReadInv, CallFacts, GixHead
  <2>3. \A q \in Readers : CallFacts(q)'
    BY <2>1, <2>2, CallStays DEF ReadInv
  <2> QED BY <2>1, <2>3 DEF ReadInv, HeadNames, GixHead, Req
<1> QED BY <1>1, <1>2, <1>3, <1>4 DEF ReadNext, Others

\* Whatever the writers of RefService do between two steps of a reading call, the call
\* knows what ReadInv says: what it has found was there while it ran.
THEOREM ReadInvariant == ASSUME IsFiniteSet(Refs) PROVE ReadSpec => []ReadInv
<1>1. ReadInit => ReadInv
  BY ReadInvInit
<1>2. ReadInv /\ [ReadNext]_readVars => ReadInv'
  BY ReadInvNext
<1> QED BY <1>1, <1>2, PTL DEF ReadSpec
-----------------------------------------------------------------------------
\* What it says of the answers.

LEMMA ListingHolds == ASSUME ReadInv PROVE ListingIsTrue
<1> SUFFICES ASSUME NEW q \in Readers, Reads(q, "list", "answered")
             PROVE  /\ read[q].ok =>
                          LET req == read[q].req
                              rows == read[q].rows
                              wanted == {r \in req.matching : \E i \in DOMAIN req.dirs : r \in req.dirs[i]}
                          IN /\ \A row \in rows :
                                    /\ row.ref \in wanted /\ row.oid \in PeeledIds(q, row.ref)
                                    /\ row.isDefault /\ row.ref \in Heads => row.ref \in held[q].head
                             /\ \A a, b \in rows : a.ref = b.ref => a = b
                             /\ \A r \in wanted : Constant(q, r) => \E row \in rows : row.ref = r
                    /\ ~read[q].ok => \E r \in Refs : Existed(q, r) /\ NoOid \in held[q].ref[r]
  BY DEF ListingIsTrue, Answered, Failed, Reads
<1>1. read[q].pc = "answered" /\ ListFacts(q) /\ Noted(q) /\ Is(q, "list") /\ ReadTypes(q)
  BY DEF ReadInv, CallFacts, Reads, Is
<1> DEFINE wanted == {r \in read[q].req.matching : \E i \in DOMAIN read[q].req.dirs : r \in read[q].req.dirs[i]}
<1>2. wanted = read[q].req.matching \cap Under(read[q].req.dirs) /\ wanted \subseteq Refs
  BY <1>1, Sought DEF Under
<1>3. \A r \in wanted : Constant(q, r) => ~Lacked(q, r)
  BY <1>1, <1>2, ConstantHad
<1>4. ~read[q].ok => \E r \in Refs : Existed(q, r) /\ NoOid \in held[q].ref[r]
  BY <1>1, ConstantHad DEF ListFacts, Lacked
<1> HIDE DEF wanted
<1>5. read[q].ok =>
         /\ \A row \in read[q].rows :
                /\ row.ref \in wanted /\ row.oid \in PeeledIds(q, row.ref)
                /\ row.isDefault /\ row.ref \in Heads => row.ref \in held[q].head
         /\ \A a, b \in read[q].rows : a.ref = b.ref => a = b
         /\ \A r \in wanted : Constant(q, r) => \E row \in read[q].rows : row.ref = r
  BY <1>1, <1>2, <1>3 DEF ListFacts
<1> QED BY <1>4, <1>5 DEF wanted

LEMMA ResolutionHolds == ASSUME ReadInv PROVE ResolvedIsTrue
<1> SUFFICES ASSUME NEW q \in Readers, Reads(q, "resolve", "answered")
             PROVE  LET tries == read[q].req.tries
                        first(i) == Constant(q, tries[i])
                    IN /\ read[q].ok =>
                            /\ \E i \in DOMAIN tries :
                                 /\ read[q].oid \in held[q].ref[tries[i]]
                                 /\ \A j \in 1 .. i - 1 : ~first(j)
                            /\ read[q].ref # NoRef =>
                                 \E i \in DOMAIN tries : /\ read[q].ref = tries[i] /\ Existed(q, tries[i])
                                                         /\ \A j \in 1 .. i - 1 : ~first(j)
                       /\ ~read[q].ok => \A i \in DOMAIN tries : NoOid \in held[q].ref[tries[i]]
  BY DEF ResolvedIsTrue, Answered, Failed, Reads
<1>1. read[q].pc = "answered" /\ ResolveFacts(q) /\ Noted(q) /\ Is(q, "resolve") /\ ReadTypes(q)
  BY DEF ReadInv, CallFacts, Reads, Is
<1> DEFINE tries == read[q].req.tries
<1>2. /\ DOMAIN tries \in {{1}, {1, 2}}
      /\ \A i \in DOMAIN tries : tries[i] \in Refs
  BY <1>1, Sought
<1>3. \A i \in DOMAIN tries : /\ Constant(q, tries[i]) => ~Lacked(q, tries[i])
                              /\ Had(q, tries[i]) => Existed(q, tries[i])
  BY <1>1, <1>2, ConstantHad
<1>4. \A i \in DOMAIN tries : 1 .. i - 1 \subseteq DOMAIN tries
  BY <1>2
<1> QED BY <1>1, <1>3, <1>4 DEF ResolveFacts, Lacked

LEMMA InfoHolds == ASSUME ReadInv PROVE InfoIsTrue
<1> SUFFICES ASSUME NEW q \in Readers, Reads(q, "info", "answered")
             PROVE  /\ read[q].ok => /\ HeadIsTrue(q) /\ CommitsAreTrue(q) /\ DefaultIsTrue(q)
                                     /\ \A dir \in {Heads, Tags} : CountIsTrue(q, dir)
                    /\ ~read[q].ok => held[q].gone
  BY DEF InfoIsTrue, Answered, Failed, Reads
<1>1. read[q].pc = "answered" /\ InfoFacts(q) /\ Noted(q)
  BY DEF ReadInv, CallFacts, Reads, Is
<1>2. \A r \in Refs : Existed(q, r) <=> Had(q, r)
  BY <1>1, ConstantHad
<1>3. ASSUME NEW dir \in {Heads, Tags} PROVE CountIsTrue(q, dir)
  <2>1. /\ {r \in dir : NoOid \notin held[q].ref[r]} = {r \in dir : ~Lacked(q, r)}
        /\ {r \in dir : Existed(q, r)} = {r \in dir : Had(q, r)}
    BY <1>2 DEF Refs, Lacked
  <2>2. Counted(q, dir)
    BY <1>1 DEF InfoFacts
  <2> QED BY <2>1, <2>2 DEF Counted, CountIsTrue
<1> QED BY <1>1, <1>3 DEF InfoFacts

\* ListRefs against any ref RPCs: every row was its ref's value while the call ran and
\* no ref is there twice, none is missing that was there all the time, the default is a
\* branch HEAD named, and a call fails only over a ref deleted meanwhile.
THEOREM ListingsAreTrue == ASSUME IsFiniteSet(Refs) PROVE ReadSpec => []ListingIsTrue
BY ReadInvariant, ListingHolds, PTL

\* ResolveRef against any ref RPCs: the id was a value of a ref of that name, and so was
\* the ref named with it there, at times of the call; no ref before it was there all
\* the time; nothing is found only if each of them was missing at some time.
THEOREM ResolutionsAreTrue == ASSUME IsFiniteSet(Refs) PROVE ReadSpec => []ResolvedIsTrue
BY ReadInvariant, ResolutionHolds, PTL

\* GetRepositoryInfo against any ref RPCs and any files that come and go: the head and the
\* number of commits are those of a branch that HEAD named while the call ran, the counts
\* lie between the refs there all the time and those there at any, and the call fails
\* only if a file vanished meanwhile.
THEOREM InfosAreTrue == ASSUME IsFiniteSet(Refs) PROVE ReadSpec => []InfoIsTrue
BY ReadInvariant, InfoHolds, PTL
=============================================================================
