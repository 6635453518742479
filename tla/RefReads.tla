------------------------------- MODULE RefReads -------------------------------
(***************************************************************************)
(* The calls that read refs, ListRefs, ResolveRef and GetRepositoryInfo,    *)
(* while the ref RPCs of RefService change them.  A reader takes no lock    *)
(* and no snapshot: it opens one file or directory after the other.        *)
(***************************************************************************)
EXTENDS RefService, FiniteSets, Sequences

CONSTANTS
    Readers,     \* concurrent reading calls
    ReadAsk,     \* reader -> the requests it may send
    ShortName,   \* ref -> its name without refs/heads/ or refs/tags/
    Peeled,      \* object -> the object an annotated tag is about, else itself
    Configured,  \* config.default_branch
    Temps        \* files and directories of the repository that come and go: locks of
                 \* refs, temporary objects, the quarantines of pushes, what gc removes

\* A listing is for some kinds of refs, in the order of their directories, and for
\* those that its pattern matches; what is to be resolved is given by the refs that
\* its name may stand for, tags before branches.
ReadRequests ==
    [op : {"list"}, dirs : {<<Heads>>, <<Tags>>, <<Heads, Tags>>}, matching : SUBSET Refs]
    \cup [op : {"resolve"}, tries : {<<r>> : r \in Refs} \cup (Tags \X Heads)]
    \cup {[op |-> "info"]}

ASSUME ReadAssumption ==
    /\ \A q \in Readers : ReadAsk[q] \subseteq ReadRequests
    /\ DOMAIN ShortName = Refs
    /\ \A a, b \in Heads : ShortName[a] = ShortName[b] => a = b
    /\ Peeled \in [Objects -> Objects]
    /\ Temps \cap Refs = {}

VARIABLES
    temps, \* those of Temps that are there
    read,  \* what each reading call has found so far
    held   \* for the properties: what each ref and HEAD held while the call ran, and
           \* whether a file vanished

NoRead == [pc |-> "idle", req |-> <<>>, ok |-> TRUE, default |-> NoRef, dirs |-> <<>>, todo |-> {},
           walk |-> {}, rows |-> {}, try |-> 1, oid |-> NoOid, ref |-> NoRef,
           counts |-> [d \in {Heads, Tags} |-> 0], commits |-> 0]

Since == [ref |-> [r \in Refs |-> {refs[r]}], head |-> {GixHead}, gone |-> FALSE]

ReadInit ==
    /\ StoreInit /\ RefInit /\ temps = {}
    /\ read = [q \in Readers |-> NoRead] /\ held = [q \in Readers |-> Since]

Running(q) == read[q].pc \notin {"idle", "answered"}
Reads(q, op, pc) == read[q].pc = pc /\ read[q].req.op = op
With(c, fields) == [f \in DOMAIN c |-> IF f \in DOMAIN fields THEN fields[f] ELSE c[f]]
Advance(q, fields) == read' = [read EXCEPT ![q] = With(@, fields)]
Answer(q, fields) == read' = [read EXCEPT ![q] = With(With(@, fields), [pc |-> "answered"])]

\* What head_ref finds: the ref HEAD names, if there is such a ref.
HeadRef == IF GixHead = NoRef THEN NoRef ELSE IF refs[GixHead] = NoOid THEN NoRef ELSE GixHead

In(dir) == {r \in dir : refs[r] # NoOid}

\* The files of the repository, but for those that stay, like HEAD.
Present == In(Refs) \cup temps
-----------------------------------------------------------------------------
\* open_repo, as for the other calls.
AskRead(q) ==
    /\ ~Running(q) /\ Readable
    /\ \E req \in ReadAsk[q] : read' = [read EXCEPT ![q] = [NoRead EXCEPT !.pc = "head", !.req = req]]
    /\ held' = [held EXCEPT ![q] = Since]
    /\ UNCHANGED <<storeVars, call, temps>>

ListHead(q) ==
    /\ Reads(q, "list", "head")
    /\ Advance(q, [pc |-> "dir", dirs |-> read[q].req.dirs, default |-> HeadRef])

\* The names in the next directory; after the last one, the answer.
ListDir(q) ==
    /\ Reads(q, "list", "dir") /\ read[q].todo = {}
    /\ IF read[q].dirs = <<>> THEN Answer(q, <<>>)
       ELSE Advance(q, [todo |-> In(Head(read[q].dirs)), dirs |-> Tail(read[q].dirs)])

Row(q, r, oid) ==
    [ref |-> r, oid |-> oid,
     isDefault |-> read[q].default # NoRef /\ ShortName[read[q].default] = ShortName[r]]

\* Mutant of ListFile: the value of a tag is not peeled.
ListFileUnpeeled(q) ==
    /\ Reads(q, "list", "dir")
    /\ \E r \in read[q].todo :
         IF refs[r] = NoOid THEN Answer(q, [ok |-> FALSE])
         ELSE Advance(q, [todo |-> read[q].todo \ {r},
                          rows |-> IF r \in read[q].req.matching
                                   THEN read[q].rows \cup {Row(q, r, refs[r])} ELSE read[q].rows])

\* Each name is then opened, those that do not match, too; one that has gone fails
\* the call.
ListFile(q) ==
    /\ Reads(q, "list", "dir")
    /\ \E r \in read[q].todo :
         IF refs[r] = NoOid THEN Answer(q, [ok |-> FALSE])
         ELSE Advance(q, [todo |-> read[q].todo \ {r},
                          rows |-> IF r \in read[q].req.matching
                                   THEN read[q].rows \cup {Row(q, r, Peeled[refs[r]])}
                                   ELSE read[q].rows])
-----------------------------------------------------------------------------
\* rev_parse_single looks for one name after the other...
ResolveRev(q) ==
    /\ Reads(q, "resolve", "head")
    /\ LET tries == read[q].req.tries
           found == refs[tries[read[q].try]] IN
       IF found # NoOid THEN Advance(q, [pc |-> "name", try |-> 1, oid |-> found])
       ELSE IF read[q].try = Len(tries) THEN Answer(q, [ok |-> FALSE])
       ELSE Advance(q, [try |-> read[q].try + 1])

\* Mutant of ResolveName: a name that is not found any more is looked for from the end.
ResolveNameLast(q) ==
    /\ Reads(q, "resolve", "name")
    /\ Answer(q, [ref |-> read[q].req.tries[Len(read[q].req.tries)]])

\* ...and find_reference looks again; if there is none, the request is answered as is.
ResolveName(q) ==
    /\ Reads(q, "resolve", "name")
    /\ LET tries == read[q].req.tries
           ref == tries[read[q].try] IN
       IF refs[ref] # NoOid THEN Answer(q, [ref |-> ref])
       ELSE IF read[q].try = Len(tries) THEN Answer(q, <<>>)
       ELSE Advance(q, [try |-> read[q].try + 1])
-----------------------------------------------------------------------------
\* The object that HEAD's branch is at, annotated tags peeled.
HeadId == IF HeadRef = NoRef THEN NoOid ELSE Peeled[refs[HeadRef]]

\* get_info: head_id, then head_ref, ...
InfoHeadId(q) ==
    /\ Reads(q, "info", "head")
    /\ Advance(q, [pc |-> "name", oid |-> HeadId])

\* ...whose absence is not told from the configured default, ...
InfoHeadRef(q) ==
    /\ Reads(q, "info", "name")
    /\ Advance(q, [pc |-> "count", dirs |-> <<Heads, Tags>>,
                   default |-> IF HeadRef = NoRef THEN Configured ELSE ShortName[HeadRef]])

\* ...the names in two directories, and...
InfoCount(q) ==
    /\ Reads(q, "info", "count") /\ read[q].dirs # <<>>
    /\ LET dir == Head(read[q].dirs) IN
       Advance(q, [dirs |-> Tail(read[q].dirs),
                   counts |-> [read[q].counts EXCEPT ![dir] = Cardinality(In(dir))]])

\* ...calculate_dir_size, which goes through every directory, ...
InfoWalk(q) ==
    /\ Reads(q, "info", "count") /\ read[q].dirs = <<>>
    /\ Advance(q, [pc |-> "size", walk |-> {Heads, Tags, Temps}])

\* ...one after the other: the entries of one are listed...
InfoList(q) ==
    /\ Reads(q, "info", "size")
    /\ \E dir \in read[q].walk :
         Advance(q, [walk |-> read[q].walk \ {dir}, todo |-> read[q].todo \cup (dir \cap Present)])

\* ...and each is looked at then: one that has gone fails the call.
InfoSize(q) ==
    /\ Reads(q, "info", "size")
    /\ \/ \E file \in read[q].todo : IF file \in Present THEN Advance(q, [todo |-> read[q].todo \ {file}])
                                     ELSE Answer(q, [ok |-> FALSE])
       \/ read[q].todo = {} /\ read[q].walk = {} /\ Advance(q, [pc |-> "commits"])

\* What a walk of the history from an object counts, errors included: an object that
\* is no commit is one.
Walked(oid) == IF oid = NoOid THEN 0 ELSE IF oid \in Commits THEN Cardinality(Anc[oid]) ELSE 1

\* Mutant of InfoCommits: it counts what it can read.
InfoCommitsRead(q) ==
    /\ Reads(q, "info", "commits")
    /\ Answer(q, [commits |-> IF HeadId \in Commits THEN Walked(HeadId) ELSE 0])

\* count_commits looks HEAD up again.
InfoCommits(q) ==
    /\ Reads(q, "info", "commits")
    /\ Answer(q, [commits |-> Walked(HeadId)])

ReadStep(q) ==
    /\ \/ ListHead(q) \/ ListDir(q) \/ ListFile(q) \/ ResolveRev(q) \/ ResolveName(q)
       \/ InfoHeadId(q) \/ InfoHeadRef(q) \/ InfoCount(q) \/ InfoWalk(q) \/ InfoList(q)
       \/ InfoSize(q) \/ InfoCommits(q)
    /\ UNCHANGED <<storeVars, call, temps, held>>

\* Writers go on, and files come and go: a lock is taken or dropped, an object is
\* written under a temporary name or moved to its own.
WriteStep == RefNext /\ UNCHANGED <<temps, read>>

TempStep ==
    /\ \E file \in Temps : temps' = IF file \in temps THEN temps \ {file} ELSE temps \cup {file}
    /\ UNCHANGED <<storeVars, call, read>>

\* Every value that a ref or HEAD takes while a call runs is noted, and that a file goes.
Noting ==
    held' = [q \in Readers |->
               IF Running(q) THEN [ref |-> [r \in Refs |-> held[q].ref[r] \cup {refs'[r]}],
                                   head |-> held[q].head \cup {head'.ref},
                                   gone |-> held[q].gone \/ ~(Present \subseteq Present')]
               ELSE held[q]]

ReadNext ==
    \/ (WriteStep \/ TempStep) /\ Noting
    \/ \E q \in Readers : AskRead(q) \/ ReadStep(q)

readVars == <<storeVars, call, temps, read, held>>

ReadSpec == ReadInit /\ [][ReadNext]_readVars
-----------------------------------------------------------------------------
Answered(q, op) == Reads(q, op, "answered") /\ read[q].ok
Failed(q) == read[q].pc = "answered" /\ ~read[q].ok

Existed(q, r) == held[q].ref[r] # {NoOid}
Constant(q, r) == Existed(q, r) /\ Cardinality(held[q].ref[r]) = 1
PeeledIds(q, r) == {Peeled[o] : o \in held[q].ref[r] \ {NoOid}}

\* A listing is no snapshot, but nothing in it is made up: each value was its ref's
\* while the call ran, each ref is there once, none is missing that was there all the
\* time, and a branch marked as the default was HEAD's.  It fails only when a ref was
\* deleted meanwhile (refs.rs:32-96).
ListingIsTrue ==
    \A q \in Readers :
        /\ Answered(q, "list") =>
             LET req == read[q].req
                 rows == read[q].rows
                 wanted == {r \in req.matching : \E i \in DOMAIN req.dirs : r \in req.dirs[i]}
             IN /\ \A row \in rows : /\ row.ref \in wanted /\ row.oid \in PeeledIds(q, row.ref)
                                     /\ row.isDefault /\ row.ref \in Heads => row.ref \in held[q].head
                /\ \A a, b \in rows : a.ref = b.ref => a = b
                /\ \A r \in wanted : Constant(q, r) => \E row \in rows : row.ref = r
        /\ Reads(q, "list", "answered") /\ Failed(q) =>
             \E r \in Refs : Existed(q, r) /\ NoOid \in held[q].ref[r]

\* The id that a name resolves to was the value of a ref of that name meanwhile, and a
\* ref that was there all the time comes before those after it; ResolveRef finds
\* nothing only if each of them was missing at some time (refs.rs:102-126).
ResolvedIsTrue ==
    \A q \in Readers :
        LET tries == read[q].req.tries
            first(i) == Constant(q, tries[i])
        IN /\ Answered(q, "resolve") =>
                /\ \E i \in DOMAIN tries :
                     /\ read[q].oid \in held[q].ref[tries[i]]
                     /\ \A j \in 1 .. i - 1 : ~first(j)
                /\ read[q].ref # NoRef =>
                     \E i \in DOMAIN tries : /\ read[q].ref = tries[i] /\ Existed(q, tries[i])
                                             /\ \A j \in 1 .. i - 1 : ~first(j)
           /\ Reads(q, "resolve", "answered") /\ Failed(q) =>
                \A i \in DOMAIN tries : NoOid \in held[q].ref[tries[i]]

\* What HEAD led to; and that it could not be read, or named a branch that was missing
\* at some time.
HeadIds(q) == UNION {PeeledIds(q, b) : b \in held[q].head \ {NoRef}}
Headless(q) == \E b \in held[q].head : b = NoRef \/ NoOid \in held[q].ref[b]

HeadIsTrue(q) == read[q].oid \in HeadIds(q) \/ (read[q].oid = NoOid /\ Headless(q))

CommitsAreTrue(q) ==
    \/ \E oid \in HeadIds(q) : read[q].commits = Walked(oid)
    \/ read[q].commits = 0 /\ Headless(q)

DefaultIsTrue(q) ==
    \/ \E b \in held[q].head \ {NoRef} : read[q].default = ShortName[b] /\ Existed(q, b)
    \/ read[q].default = Configured /\ Headless(q)

CountIsTrue(q, dir) ==
    /\ read[q].counts[dir] >= Cardinality({r \in dir : NoOid \notin held[q].ref[r]})
    /\ read[q].counts[dir] <= Cardinality({r \in dir : Existed(q, r)})

\* The parts of a repository's info are read at different times, but each was true at
\* its time: the head is what a branch held that HEAD named, or none and HEAD led
\* nowhere, and so is where the commits are counted from (a branch at an object that is
\* no commit counts as one); the default branch is one HEAD named, or the configured
\* one when HEAD led nowhere; the counts of refs lie between what was there all the
\* time and what was there at any.  The call fails only when a file vanished under it,
\* of a ref or another (repository.rs:101-190).
InfoIsTrue ==
    \A q \in Readers :
        /\ Answered(q, "info") => /\ HeadIsTrue(q) /\ CommitsAreTrue(q) /\ DefaultIsTrue(q)
                                 /\ \A dir \in {Heads, Tags} : CountIsTrue(q, dir)
        /\ Reads(q, "info", "answered") /\ Failed(q) => held[q].gone
=============================================================================
