------------------------------ MODULE RefStore ------------------------------
(***************************************************************************)
(* One bare repository on disk, the state every handler shares, and what   *)
(* the git plumbing commands and gitoxide calls made by the handlers do to *)
(* it.  Each of them is atomic on its own (git takes a lock file per ref); *)
(* nothing makes two of them atomic together.                              *)
(***************************************************************************)
EXTENDS CommitGraph, Integers

CONSTANTS
    Heads,    \* the refs/heads/... names in use
    Tags,     \* the other ref names in use (refs/tags/...)
    NoRef,    \* "HEAD names no ref"
    NameLen,  \* length of a branch's full name, in bytes of the HEAD file
    InitObjs, InitRefs, InitHead  \* the repository when the service starts

ASSUME RefNamesAssumption ==
    /\ Heads \cap Tags = {}
    /\ NoRef \notin Heads \cup Tags
    /\ NameLen \in [Heads -> Nat \ {0}]

Refs == Heads \cup Tags

VARIABLES
    objs,  \* ids of the objects in the database
    refs,  \* ref name -> the id it holds, NoOid when the ref does not exist
    head   \* the HEAD file: the ref name it starts with, and its length

storeVars == <<objs, refs, head>>

StoreTypeOK ==
    /\ objs \subseteq Objects
    /\ refs \in [Refs -> Objects \cup {NoOid}]
    /\ head \in [ref : Heads \cup {NoRef}, len : Nat]

\* git and gitoxide open a directory as a repository only if its HEAD can be
\* parsed; an empty file cannot.
Readable == head.len > 0

\* `git merge-base --is-ancestor a b` over the objects in db: exit 0, 1, or 128
\* when the repository cannot be opened, when either id is not a commit, or when
\* some history it has to walk is missing.
IsAncestor(db, a, b) ==
    IF Readable /\ {a, b} \subseteq Commits /\ Anc[a] \cup Anc[b] \subseteq db
    THEN IF a \in Anc[b] THEN "yes" ELSE "no"
    ELSE "error"

\* `git update-ref r new old` and receive-pack's ref transaction: compare and
\* swap under the ref's lock; a branch takes only commits.
RefAccepts(r, new, old) ==
    /\ refs[r] = old
    /\ new \in objs
    /\ r \in Heads => new \in Commits

SetRef(r, oid) == refs' = [refs EXCEPT ![r] = oid]

\* HEAD holding exactly one `ref: <name>` line for a branch.
HeadFor(b) == [ref |-> b, len |-> NameLen[b]]

\* The branch HEAD names for gitoxide, which stops at the first line's end...
GixHead == head.ref
\* ...and for C git, which takes the whole file as the name.
GitHead == IF head.ref \in Heads /\ head = HeadFor(head.ref) THEN head.ref ELSE NoRef

\* Every commit a ref reaches has its whole history in the database.
RefsConnected ==
    \A r \in Refs : refs[r] # NoOid =>
        refs[r] \in objs /\ History({refs[r]}) \subseteq objs

\* No commit is stored without its history.  (receive-pack checks a ref's new
\* value, not every object of the pack: see ReceivePack.)
ObjsClosed == History(objs) \subseteq objs

\* The service starts on a repository whose objects and refs are complete, whose
\* branches hold commits and whose HEAD is well formed.
ASSUME InitAssumption ==
    /\ InitObjs \subseteq Objects
    /\ History(InitObjs) \subseteq InitObjs
    /\ InitRefs \in [Refs -> Objects \cup {NoOid}]
    /\ \A r \in Refs : InitRefs[r] # NoOid =>
           InitRefs[r] \in InitObjs
    /\ \A b \in Heads : InitRefs[b] \notin NonCommits
    /\ InitHead \in Heads

StoreInit ==
    /\ objs = InitObjs
    /\ refs = InitRefs
    /\ head = HeadFor(InitHead)
=============================================================================
