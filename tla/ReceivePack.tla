----------------------------- MODULE ReceivePack -----------------------------
(***************************************************************************)
(* The ReceivePack RPC: `git receive-pack` behind the gRPC handler, and the *)
(* pre-receive hook (this binary, run as `arbor-git __pre-receive`) that    *)
(* judges a push by its credential's bounds and by branch protection.  The  *)
(* hook judges the objects in quarantine against refs that other pushes     *)
(* keep moving, and the old ids the client claims; the refs are updated     *)
(* afterwards, one transaction per command.                                 *)
(***************************************************************************)
EXTENDS RefStore

CONSTANTS
    Pushers,  \* concurrent ReceivePack calls
    Paths,    \* file paths
    Changed,  \* commit -> the paths `git diff-tree -r --root` lists: none for a merge
    Send,     \* pusher -> the pushes it may send, its policy as arbor-api fills it in
    Overlap   \* may a push start its hook while another call rewrites the script?

\* One line of the push: move ref from old to new.
Commands == [ref : Refs, old : Objects \cup {NoOid}, new : Objects \cup {NoOid}]

\* The globs of the policy are given by what they match.  A dimension that is
\* not in `confined` was sent without patterns.
Requests == [cmds : Seq(Commands), pack : SUBSET Objects,
             confined : SUBSET {"refs", "paths"}, refsIn : SUBSET Refs,
             pathsIn : SUBSET Paths, protected : SUBSET Heads]

ASSUME SendAssumption ==
    /\ Changed \in [Commits -> SUBSET Paths]
    /\ Send \in [Pushers -> SUBSET Requests]
    /\ Overlap \in BOOLEAN

VARIABLES
    push,     \* what each push has done so far
    hookFile  \* the hook script in the directory all pushes share

pushVars == <<push, hookFile>>

NoPush == [pc |-> "idle", req |-> <<>>, broken |-> {}, line |-> 1,
           bad |-> FALSE, headSeen |-> NoRef]

PushInit == push = [p \in Pushers |-> NoPush] /\ hookFile = "whole"

In(p, pc) == push[p].pc = pc
Step(p, pc) == push' = [push EXCEPT ![p].pc = pc]
Over(p) == push' = [push EXCEPT ![p] = NoPush]
Cmds(p) == push[p].req.cmds
Cmd(p) == Cmds(p)[push[p].line]
\* Where the hook and the connectivity check look: quarantine, then the database.
Visible(p) == objs \cup push[p].req.pack

RefValues == {refs[r] : r \in Refs}

\* `git rev-list new --not --all`: the commits of new that no ref reaches yet.
NewCommits(new) == History({new}) \ History(RefValues)

\* Nothing to enforce: the plain receive-pack, without the hook.
Enforced(req) == req.confined # {} \/ req.protected # {}
-----------------------------------------------------------------------------
Receive(p) ==
    /\ In(p, "idle")
    /\ \E req \in Send[p] :
         push' = [push EXCEPT ![p] =
           [NoPush EXCEPT !.pc = IF Enforced(req) THEN "install" ELSE "unpack", !.req = req]]
    /\ UNCHANGED <<storeVars, hookFile>>

\* ensure_pre_receive_hook runs for every enforced push: fs::write truncates
\* the script, then writes it.
TruncateHook(p) ==
    /\ In(p, "install") /\ Step(p, "installing")
    /\ hookFile' = "empty"
    /\ UNCHANGED storeVars

WriteHook(p) ==
    /\ In(p, "installing") /\ Step(p, "unpack")
    /\ hookFile' = "whole"
    /\ UNCHANGED storeVars

\* Mutant of Unpack: no command is found broken.
UnpackUnchecked(p) ==
    /\ In(p, "unpack")
    /\ Step(p, IF Enforced(push[p].req) THEN "hook" ELSE "migrate")
    /\ UNCHANGED <<storeVars, hookFile>>

\* receive-pack opens the repository.  The pack goes to quarantine, and commands
\* whose new value is missing, or misses history that no ref has, are marked.
Unpack(p) ==
    /\ In(p, "unpack")
    /\ IF ~Readable THEN Over(p) ELSE push' = [push EXCEPT
         ![p].pc = IF Enforced(push[p].req) THEN "hook" ELSE "migrate",
         ![p].broken = {i \in DOMAIN Cmds(p) :
              LET new == Cmds(p)[i].new IN
              new # NoOid /\ ~({new} \cup NewCommits(new) \subseteq Visible(p))}]
    /\ UNCHANGED <<storeVars, hookFile>>

\* git starts the script and the shell reads it.  While it is open for writing the
\* kernel refuses to start it (ETXTBSY: the push is declined); a shell started
\* just before the truncation reads an empty script and exits with 0.
RunHook(p) ==
    /\ In(p, "hook")
    /\ \/ hookFile = "whole" /\ Step(p, "judge")
       \/ hookFile = "empty" /\ Overlap /\ (Over(p) \/ Step(p, "migrate"))
    /\ UNCHANGED <<storeVars, hookFile>>

\* A protected branch is never deleted, and only fast-forwarded; old and new are
\* what the client says.
Rewrites(p, c) ==
    /\ c.ref \in push[p].req.protected
    /\ \/ c.new = NoOid
       \/ c.old # NoOid /\ IsAncestor(Visible(p), c.old, c.new) = "no"

ConfinedPaths(p, c) == "paths" \in push[p].req.confined /\ c.new # NoOid

\* Outside the token's refs, or changing a path outside the token's paths.
OutOfBounds(p, c) ==
    \/ "refs" \in push[p].req.confined /\ c.ref \notin push[p].req.refsIn
    \/ /\ ConfinedPaths(p, c)
       /\ ~(UNION {Changed[k] : k \in NewCommits(c.new)} \subseteq push[p].req.pathsIn)

\* merge-base or rev-list exits with neither 0 nor 1: the hook gives up.
GitFails(p, c) ==
    \/ /\ c.ref \in push[p].req.protected /\ NoOid \notin {c.old, c.new}
       /\ IsAncestor(Visible(p), c.old, c.new) = "error"
    \/ ConfinedPaths(p, c) /\ ~(Readable /\ {c.new} \cup NewCommits(c.new) \subseteq Visible(p))

\* Mutant of JudgeLine: the ancestry test for protected branches is missing.
JudgeDeletionsOnly(p) ==
    /\ In(p, "judge") /\ push[p].line <= Len(Cmds(p))
    /\ push' = [push EXCEPT ![p].line = @ + 1,
         ![p].bad = @ \/ OutOfBounds(p, Cmd(p)) \/
                    (Cmd(p).ref \in push[p].req.protected /\ Cmd(p).new = NoOid)]
    /\ UNCHANGED <<storeVars, hookFile>>

\* Mutant of JudgeLine: only the new tip is diffed, not the commits below it.
JudgeTips(p) ==
    /\ In(p, "judge") /\ push[p].line <= Len(Cmds(p))
    /\ push' = [push EXCEPT ![p].line = @ + 1,
         ![p].bad = @ \/ Rewrites(p, Cmd(p)) \/
                    (/\ ConfinedPaths(p, Cmd(p))
                     /\ Cmd(p).new \in Commits
                     /\ ~(Changed[Cmd(p).new] \subseteq push[p].req.pathsIn))]
    /\ UNCHANGED <<storeVars, hookFile>>

\* evaluate: one line of the hook's input.  All reasons are collected.
JudgeLine(p) ==
    /\ In(p, "judge") /\ push[p].line <= Len(Cmds(p))
    /\ IF GitFails(p, Cmd(p))
       THEN Over(p)
       ELSE push' = [push EXCEPT ![p].line = @ + 1,
              ![p].bad = @ \/ Rewrites(p, Cmd(p)) \/ OutOfBounds(p, Cmd(p))]
    /\ UNCHANGED <<storeVars, hookFile>>

\* One reason is enough to reject the whole push.
Verdict(p) ==
    /\ In(p, "judge") /\ push[p].line > Len(Cmds(p))
    /\ IF push[p].bad THEN Over(p) ELSE Step(p, "migrate")
    /\ UNCHANGED <<storeVars, hookFile>>

\* Mutant of Migrate: the refs are updated while the objects are in quarantine.
MigrateNothing(p) ==
    /\ In(p, "migrate")
    /\ push' = [push EXCEPT ![p].pc = "apply", ![p].line = 1, ![p].headSeen = GitHead]
    /\ UNCHANGED <<storeVars, hookFile>>

\* All of the pack leaves quarantine, and receive-pack looks at HEAD, once.
Migrate(p) ==
    /\ In(p, "migrate")
    /\ objs' = objs \cup push[p].req.pack
    /\ push' = [push EXCEPT ![p].pc = "apply", ![p].line = 1, ![p].headSeen = GitHead]
    /\ UNCHANGED <<refs, head, hookFile>>

\* A deletion compares only with an old value that exists, and only a deletion
\* that names an old value is kept away from HEAD's branch.
Deletes(p, c) ==
    /\ c.new = NoOid
    /\ c.old = NoOid \/ c.ref # push[p].headSeen
    /\ c.old \in objs => refs[c.ref] = c.old

Updates(c) == c.new # NoOid /\ RefAccepts(c.ref, c.new, c.old)

\* A transaction of its own for each command that is not broken.
Apply(p) ==
    /\ In(p, "apply") /\ push[p].line <= Len(Cmds(p))
    /\ LET c == Cmd(p) IN
       IF push[p].line \notin push[p].broken /\ (Deletes(p, c) \/ Updates(c))
       THEN SetRef(c.ref, c.new) ELSE UNCHANGED refs
    /\ push' = [push EXCEPT ![p].line = @ + 1]
    /\ UNCHANGED <<objs, head, hookFile>>

Report(p) ==
    /\ In(p, "apply") /\ push[p].line > Len(Cmds(p)) /\ Over(p)
    /\ UNCHANGED <<storeVars, hookFile>>

\* receive-pack or the service dies, or an install fails: quarantine is thrown
\* away, and the commands not applied yet never are.
Abort(p) == ~In(p, "idle") /\ Over(p) /\ UNCHANGED <<storeVars, hookFile>>

PushStep(p) ==
    \/ Receive(p) \/ TruncateHook(p) \/ WriteHook(p) \/ Unpack(p) \/ RunHook(p)
    \/ JudgeLine(p) \/ Verdict(p) \/ Migrate(p) \/ Apply(p) \/ Report(p) \/ Abort(p)

PushNext == \E p \in Pushers : PushStep(p)

PushStart == StoreInit /\ PushInit

PushSpec == PushStart /\ [][PushNext]_<<storeVars, pushVars>>
-----------------------------------------------------------------------------
\* Types; and a push has its objects in the database before it touches a ref.
PushTypeOK ==
    /\ hookFile \in {"whole", "empty"}
    /\ DOMAIN push = Pushers
    /\ \A p \in Pushers :
         \/ push[p] = NoPush
         \/ /\ push[p] \in [pc : {"install", "installing", "unpack", "hook", "judge",
                                  "migrate", "apply"},
                            req : Send[p], broken : SUBSET DOMAIN Cmds(p),
                            line : 1 .. Len(Cmds(p)) + 1, bad : BOOLEAN,
                            headSeen : Heads \cup {NoRef}]
            /\ In(p, "apply") => push[p].req.pack \subseteq objs

\* Branch protection: a push under which a branch is protected creates it or moves
\* it forward, and neither deletes nor rewrites it, although the hook trusts the
\* old value the client claims and other pushes move the branch between the
\* verdict and the update (hook.rs:140-154).
ProtectedForward ==
    [][\A p \in Pushers : push'[p] # push[p] /\ In(p, "apply") =>
         \A b \in push[p].req.protected : refs'[b] # refs[b] =>
             \/ refs[b] = NoOid
             \/ {refs[b], refs'[b]} \subseteq Commits /\ refs[b] \in Anc[refs'[b]]
      ]_<<refs, push>>

\* Someone was allowed to bring commit k in: it was there, or a push with k below
\* one of its new values is not confined to paths, or to paths that k stays in.
Allowed(k) ==
    \/ k \in History({InitRefs[r] : r \in Refs})
    \/ \E p \in Pushers : \E req \in Send[p] : \E i \in DOMAIN req.cmds :
          /\ k \in History({req.cmds[i].new})
          /\ "paths" \in req.confined => Changed[k] \subseteq req.pathsIn

\* Path confinement: no commit, intermediate ones included, becomes reachable
\* from a ref unless some push was allowed to introduce it, however pushes race
\* between the hook's rev-list and the ref updates (hook.rs:63-110).
PathsConfined == \A k \in History(RefValues) : Allowed(k)

\* What there is to enforce is enforced: a push that needs the hook gets its
\* objects out of quarantine only when the hook has judged all of it
\* (service.rs:1324-1327, main.rs:37-38).
EnforcedPushIsJudged ==
    \A p \in Pushers :
        In(p, "migrate") /\ Enforced(push[p].req) => push[p].line > Len(Cmds(p))
=============================================================================
