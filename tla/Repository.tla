------------------------------ MODULE Repository ------------------------------
(***************************************************************************)
(* The repositories of one owner: init, rename and delete of bare          *)
(* directories.  Each RPC looks at the paths first and acts on them later, *)
(* with no lock in between; only the single system calls are atomic.       *)
(***************************************************************************)
EXTENDS Naturals, FiniteSets

CONSTANTS
    Names,     \* repository names; each is a path <owner>/<name>.git
    Dirs,      \* directories on disk (inodes), enough for Names and every caller
    NoDir,     \* nothing at that path
    Branches,  \* values of default_branch
    Template,  \* the branch gitoxide's template names
    NoHead,    \* a directory without a HEAD file
    Callers,   \* concurrent RPCs
    LifeAsk,   \* caller -> the requests it may send
    InitAt     \* name -> directory, when the service starts

LifeRequests ==
    [op : {"init"}, name : Names, branch : Branches]
    \cup [op : {"rename"}, name : Names, to : Names]
    \cup [op : {"delete"}, name : Names]

ASSUME LifeAssumption ==
    /\ LifeAsk \in [Callers -> SUBSET LifeRequests]
    /\ InitAt \in [Names -> Dirs \cup {NoDir}] /\ NoDir \notin Dirs
    /\ \A m, n \in Names : InitAt[m] = InitAt[n] => m = n \/ InitAt[m] = NoDir
    /\ Template \in Branches /\ NoHead \notin Branches

VARIABLES
    at,      \* name -> the directory at that path
    disk,    \* directory -> has it any entries, and what HEAD names
    life,    \* what each RPC has done so far
    doomed   \* history: the directories a delete has started to empty

lifeVars == <<at, disk, life, doomed>>

Empty == [filled |-> FALSE, head |-> NoHead]
NoLife == [pc |-> "idle", req |-> <<>>, dir |-> NoDir]

LifeInit ==
    /\ at = InitAt
    /\ disk = [d \in Dirs |-> IF \E n \in Names : InitAt[n] = d
                              THEN [filled |-> TRUE, head |-> Template] ELSE Empty]
    /\ life = [c \in Callers |-> NoLife]
    /\ doomed = {}

Doing(c, pc, op) == life[c].pc = pc /\ life[c].req.op = op
Then(c, pc) == life' = [life EXCEPT ![c].pc = pc]
Answered(c) == life' = [life EXCEPT ![c] = NoLife]
Here(c) == at[life[c].req.name]
There(c) == at[life[c].req.to]

\* Directories that no path leads to and no delete holds open.
Unused == Dirs \ ({at[n] : n \in Names} \cup {life[c].dir : c \in Callers})
-----------------------------------------------------------------------------
AskLife(c) ==
    /\ life[c].pc = "idle"
    /\ \E req \in LifeAsk[c] : life' = [life EXCEPT ![c] = [NoLife EXCEPT !.pc = "check", !.req = req]]
    /\ UNCHANGED <<at, disk, doomed>>

\* init: RepositoryExists, or on to gix::init_bare.
InitCheck(c) ==
    /\ Doing(c, "check", "init")
    /\ IF Here(c) = NoDir THEN Then(c, "mkdir") ELSE Answered(c)
    /\ UNCHANGED <<at, disk, doomed>>

\* gix::init_bare makes the directory, or takes one that has no entries.
MakeDir(c) ==
    /\ Doing(c, "mkdir", "init")
    /\ \/ /\ Here(c) = NoDir
          /\ \E d \in Unused :
               /\ at' = [at EXCEPT ![life[c].req.name] = d]
               /\ disk' = [disk EXCEPT ![d] = Empty]
               /\ doomed' = doomed \ {d}
          /\ Then(c, "fill")
       \/ /\ Here(c) # NoDir
          /\ IF disk[Here(c)].filled THEN Answered(c) ELSE Then(c, "fill")
          /\ UNCHANGED <<at, disk, doomed>>

\* ...then writes the template's files, and init writes HEAD; both go by the path,
\* whatever directory is there by now.
WriteFiles(c, pc, branch) ==
    /\ Doing(c, pc, "init") /\ Here(c) # NoDir
    /\ disk' = [disk EXCEPT ![Here(c)] = [filled |-> TRUE, head |-> branch]]
    /\ UNCHANGED <<at, doomed>>

FillDir(c) == WriteFiles(c, "fill", Template) /\ Then(c, "setHead")
SetHead(c) == WriteFiles(c, "setHead", life[c].req.branch) /\ Answered(c)

\* A system call of init fails, as it must when the directory has gone; nothing
\* is cleaned up.
InitFails(c) ==
    /\ life[c].pc \in {"mkdir", "fill", "setHead"} /\ Answered(c)
    /\ UNCHANGED <<at, disk, doomed>>

\* rename: a no-op, refused, or on to the move.
RenameCheck(c) ==
    /\ Doing(c, "check", "rename")
    /\ IF life[c].req.name = life[c].req.to \/ Here(c) = NoDir \/ There(c) # NoDir
       THEN Answered(c) ELSE Then(c, "move")
    /\ UNCHANGED <<at, disk, doomed>>

\* Mutant of Move: what stands in the way is removed.
MoveOver(c) ==
    /\ Doing(c, "move", "rename")
    /\ at' = IF Here(c) # NoDir
             THEN [at EXCEPT ![life[c].req.to] = Here(c), ![life[c].req.name] = NoDir] ELSE at
    /\ Answered(c)
    /\ UNCHANGED <<disk, doomed>>

\* Mutant of Move: the repository stays under its old name as well.
MoveCopies(c) ==
    /\ Doing(c, "move", "rename")
    /\ at' = IF Here(c) # NoDir /\ (There(c) = NoDir \/ ~disk[There(c)].filled)
             THEN [at EXCEPT ![life[c].req.to] = Here(c)] ELSE at
    /\ Answered(c)
    /\ UNCHANGED <<disk, doomed>>

\* rename(2) fails without a source, and replaces an empty directory but no other.
Move(c) ==
    /\ Doing(c, "move", "rename")
    /\ at' = IF Here(c) # NoDir /\ (There(c) = NoDir \/ ~disk[There(c)].filled)
             THEN [at EXCEPT ![life[c].req.to] = Here(c), ![life[c].req.name] = NoDir] ELSE at
    /\ Answered(c)
    /\ UNCHANGED <<disk, doomed>>

DeleteCheck(c) ==
    /\ Doing(c, "check", "delete")
    /\ IF Here(c) = NoDir THEN Answered(c) ELSE Then(c, "open")
    /\ UNCHANGED <<at, disk, doomed>>

\* remove_dir_all opens the directory and from then on empties what it opened,
\* even when a rename moves it...
OpenDir(c) ==
    /\ Doing(c, "open", "delete")
    /\ IF Here(c) = NoDir
       THEN Answered(c) /\ UNCHANGED doomed
       ELSE /\ life' = [life EXCEPT ![c].pc = "empty", ![c].dir = Here(c)]
            /\ doomed' = doomed \cup {Here(c)}
    /\ UNCHANGED <<at, disk>>

\* ...HEAD and the other entries in some order, one by one...
Unlink(c) ==
    /\ Doing(c, "empty", "delete")
    /\ \/ /\ disk' = [disk EXCEPT ![life[c].dir].head = NoHead]
          /\ UNCHANGED life
       \/ /\ disk' = [disk EXCEPT ![life[c].dir] = Empty]
          /\ Then(c, "rmdir")
    /\ UNCHANGED <<at, doomed>>

\* ...and removes the path, if what it leads to by now is an empty directory.  (That
\* delete also drops an owner's directory once it is empty shows in no repository:
\* at most, an init at that moment fails, see InitFails.)
RemoveDir(c) ==
    /\ Doing(c, "rmdir", "delete")
    /\ at' = IF Here(c) # NoDir /\ ~disk[Here(c)].filled
             THEN [at EXCEPT ![life[c].req.name] = NoDir] ELSE at
    /\ Answered(c)
    /\ UNCHANGED <<disk, doomed>>

LifeNext == \E c \in Callers :
    \/ AskLife(c) \/ InitCheck(c) \/ MakeDir(c) \/ FillDir(c) \/ SetHead(c) \/ InitFails(c)
    \/ RenameCheck(c) \/ Move(c)
    \/ DeleteCheck(c) \/ OpenDir(c) \/ Unlink(c) \/ RemoveDir(c)

LifeSpec == LifeInit /\ [][LifeNext]_lifeVars
-----------------------------------------------------------------------------
\* Types; and two names never lead to one directory.
LifeTypeOK ==
    /\ at \in [Names -> Dirs \cup {NoDir}]
    /\ \A m, n \in Names : at[m] = at[n] => m = n \/ at[m] = NoDir
    /\ disk \in [Dirs -> [filled : BOOLEAN, head : Branches \cup {NoHead}]]
    /\ doomed \subseteq Dirs
    /\ \A c \in Callers : life[c] = NoLife \/ life[c].req \in LifeAsk[c]

\* A repository that no delete was asked for is never lost: whatever calls race
\* with each other, what was once filled stays filled and under some name
\* (repository.rs:54-89).
KeptUntilDeleted ==
    \A d \in Dirs \ doomed : disk[d].filled => \E n \in Names : at[n] = d
=============================================================================
