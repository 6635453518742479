# A formal model of arbor-git

arbor-git is a gRPC service in front of bare git repositories. This directory
models the parts of it that keep or change state: how changes are landed, how
pushes are judged and applied, how refs and repositories are created,
deleted and read, how pack data and answers are streamed, and the algorithms
behind its trees, diffs, previews, logs and globs. TLC checks the models on small instances;
for every size of instance, TLAPS proves the safety properties that TLC checks.

Paths below are relative to `src/` of the repository's Rust crate
(`src/src/...` from its root).

    tlc -workers 2 -config land.cfg MCLand       # a run, see "Runs"
    tlapm MergeChangeProofs.tla                  # the proofs of a module
                                                 # (AlgorithmProofs takes ten minutes)

## 1. Inventory

All state that outlives a call is on disk: one directory per repository under
`<base>/<owner>/<name>.git`, plus one hook script all repositories share. No
handler takes a lock; what is atomic is a git command, a gitoxide call or a
system call. Handlers run on a multi-threaded tokio runtime and interleave
between any two of them.

| Component | State | Operations | Where it is hard |
|---|---|---|---|
| **MergeChange** (`grpc/service.rs:247-358`) | a call's tip, commit and new tip; the branch on disk | resolve, two ancestry checks, commit-tree, update-ref with an old value | six git commands on a repository that moves; a client that goes away leaves `update-ref` running; retries |
| **ReceivePack, hook** (`service.rs:85-124`, `1279-1349`, `git/hook.rs`, `git/scope_match.rs`, `git/mod.rs:104-125`) | quarantined objects, the verdict, the shared script; refs, objects | write script, unpack, judge line by line, migrate, one transaction per command | the verdict is about claimed old ids and about refs that move; partial pushes; the script is rewritten while others start it |
| **Ref RPCs** (`git/refs.rs`) | refs, HEAD | create/delete branch and tag, set default branch | check, then act; HEAD is truncated and rewritten in place |
| **Ref reads** (`git/refs.rs:32-127`, `git/repository.rs:101-190`) | what a call has found so far | list, resolve, repository info | no snapshot: one directory and one file after the other while refs change |
| **Repository lifecycle** (`git/repository.rs`) | directories and their paths | init, rename, delete | check, then act, on a file system in which `rename` and `remove_dir_all` meet half-made directories |
| **Pack transport** (`service.rs:130-208`, `1233-1349`) | channels, pipes, three tasks, a git process | feed, write stdin, pump stdout, surface the exit status | back-pressure in a cycle; the client or git goes away at any time |
| **Streamed answers** (`service.rs:711-738`, `755-775`, `839-876`) | a task, its channel | send, end | a client that leaves or stops reading; the mark of the last chunk |
| **Tree and blob reads** (`git/trees.rs`, `git/diff.rs:60-460`) | none | list a level, list all, blob info, diff two trees or one against nothing | two implementations of each; depth limit; paths as strings |
| **Line diff** (`git/diff.rs:468-690`) | none | LCS table, edit script, hunks | index arithmetic |
| **Tree diff, merge previews** (`git/diff.rs:180-318`, `git/operations.rs`) | none: nothing is written | merge, cherry-pick, rebase previews | directories and renames among the changes |
| **Commit log** (`git/commits.rs`) | none | walk, skip, limit, path filter, ancestors | paging, limits |
| **Globs** (`git/scope_match.rs:16-57`, `git/refs.rs:324-339`) | none | match | order of the attempts |
| Ref advertisement, `check_objects_exist` | none | one look | - |
| Server, health, configuration, generated code | environment | start-up | - |

Interaction: arbor-api calls the service; it decides who may call what and fills
in a push's policy. MergeChange and ReceivePack start `git` child processes;
`git receive-pack` starts this same binary again as its `pre-receive` hook, with
the policy in the environment. Ref and repository RPCs work through gitoxide and
`std::fs`. They meet only on disk, and a handler holds the path of its
repository, not the repository: a rename moves it under a running call.

What makes a component correct:

* MergeChange: an answered landing stays landed; the branch only moves forward;
  no change is merged twice; callers who retry get through.
* ReceivePack: refs never point at incomplete history; a protected branch is
  neither deleted nor rewritten; no commit gets in that leaves its push's paths;
  what must be judged is judged.
* Ref RPCs: no one's update is undone by a stale deletion; HEAD names a branch.
* Ref reads: nothing is made up, nothing is missing that was there all the time.
* Lifecycle: no repository is lost or reachable by two names; a rename does not
  replace anything; a landing harms no repository, whichever it runs in.
* Transport: calls end, data is complete or the error shows.
* Algorithms: they compute what they are meant to.

`PROJECT.json` lists the hazards with the line where each one bites and the
properties that would catch it.

## 2. Modules

| Module | Models |
|---|---|
| `CommitGraph` | objects, parents, ancestry. An id names its content, so these are constants; only the set of stored objects changes. |
| `RefStore` | one repository on disk (`objs`, `refs`, `head`) and what git's plumbing does to it. Shared by the next four. |
| `MergeChange` | the landing protocol, one action per git command (`land[l].pc` is the command about to run) |
| `AtomicLanding` | what a landing promises: one atomic step, and no answer that is not true |
| `LandingRefinement` | MergeChange implements AtomicLanding (`tip <- refs`, `promised <- landed`) |
| `ReceivePack` | a push from the request to the report, with the hook |
| `RefService` | the ref RPCs, one action per access to the disk |
| `GitService` | the three together on one repository, and `Restart` |
| `Repository` | init, rename, delete: names, directories (inodes), calls |
| `MovedRepository` | MergeChange while its repository and others trade names between its git commands |
| `RefReads` | ListRefs, ResolveRef and GetRepositoryInfo next to the writers of `RefService` |
| `PackStream` | one call of the transport |
| `GitCall` | what the transport promises: the client talks to git with nothing in between |
| `StreamRefinement` | PackStream implements GitCall |
| `ReplyStream` | an answer streamed by a task of its own: logs, ancestors, diffs and blobs |
| `TreeReads` | trees: listings, blob info, the diff of two trees and of one against nothing |
| `ScopeMatch`, `DiffHunks`, `TreeMerge`, `CommitLog` | pure algorithms |
| `MergeChangeProofs`, `ReceivePackProofs`, `GitServiceProofs`, `MovedProofs`, `RefReadsProofs`, `RepositoryProofs` | theorems about the modules of these names (`Moved`: `MovedRepository`) |
| `TransportProofs` | theorems about `PackStream`, its refinement, and `ReplyStream` |
| `AlgorithmProofs` | theorems about `ScopeMatch`, `DiffHunks`, `TreeMerge`, `CommitLog` and `TreeReads`, as `MCAlgorithms` and `MCReads` run them |
| `MCGraph` | small commit graphs for TLC; `MC*` the instances |

How state corresponds:

* `refs[r]` is the ref file (`NoOid`: none), `objs` the object database without
  quarantine, `head` the HEAD file as the branch its first line names and its
  length in bytes. Length 0 is the truncated file: nothing can open the
  repository (`Readable`). `GixHead` and `GitHead` are what gitoxide and C git
  make of it.
* `held` in `RefReads` is not in the code: the values of each ref, and of HEAD,
  while a reading call runs, and whether a file vanished. What the call answers is
  judged against them.
* `temps` in `RefReads` is every file and directory that comes and goes without being a
  ref: ref locks, temporary objects, quarantines, whatever a garbage collection that git
  starts by itself removes. `TempStep` lets any of them appear or vanish at any time, so
  it stands for all who do that, other than the writers of refs. Files that stay (HEAD,
  the configuration, stored objects) cannot fail the walk and are left out; the walk
  may take the directories in any order.
* A tree of `TreeReads` maps paths (sequences of names) to leaves; the entries of
  a directory, and their order in the tree object, follow from `NameRank` and
  `DirRank` (a directory sorts as if its name ended in a slash).
* `ChangeMaps` gives the maps that `merge_trees` may fill from what gitoxide reports
  (`TreeChanges`, `RenameSets`): one change per path. A path that is a file on one side and a
  directory on the other is reported twice, as gone and as come; the code keeps the one
  reported last, and since gitoxide holds both back for its search for renames and then
  reports by object id, either may be. Renames are of files and links: that a directory moves
  as a whole, which gitoxide may also report, is left out.
* Local variables of an async handler are one record per call, with the step it
  is at. An action is everything from one await to the next.
* git is outside the repository: `update-ref`, `merge-base`, `receive-pack` and
  the file system are modelled from how the code uses them and marked external
  in the map. A git command is one atomic step, except that receive-pack is
  split where it starts the hook, migrates and applies each command. A gitoxide
  call is one step where it does one thing on disk; a listing is one step for
  each directory and each file.
* A policy's globs are given by the refs and paths they match; the matcher
  itself is `ScopeMatch`. Blobs, messages, authors and time stamps are left out;
  a second time stamp (`m1`, `m2` in `MCLand`) makes a second merge commit.

Simplifications that deserve a word. `Changed` of a merge commit is empty in
`MCPush`, because `git diff-tree` lists nothing for one. `Overlap` says whether a
push may start the hook script while another call rewrites it; both values are
run. `ErrMax <= ErrPipe` says that what git prints to stderr fits into its pipe:
a premise of `CallsEnd`, as nobody reads that pipe before git has exited. In
`MovedRepository` renames and inits are single steps; their own races are in
`Repository`.

## 3. Runs

| Run | Expect | Question |
|---|---|---|
| `land` | pass | two landings (fast-forward, diverged, unknown branch, unknown commit, tree id), dropped and repeated at will, at most 3 merge commits written |
| `land_fair` | pass | three callers, each with its own change, that ask again until they have an answer: all land |
| `push` | pass | a confined writer and a maintainer, 12 different pushes, `Overlap = FALSE` |
| `push_hook` | violation | the same with `Overlap = TRUE` |
| `service` | pass | a landing, a push, a ref RPC and restarts on a protected and another branch |
| `refs_default` | violation | two ref RPCs, asked whether HEAD's branch exists |
| `lifecycle` | pass | init, rename, delete by three callers on two names |
| `moved` | pass | two landings on a name that a repository, a fork and an old copy of it take in turn |
| `ref_reads` | pass | a reader (six requests) next to a writer (five requests) on two branches and a tag with a branch's name; a lock file comes and goes |
| `stream` | pass | one call with up to 3 messages each way |
| `reply` | pass | lists and blobs of several lengths, a client that may leave or stop reading |
| `algorithms` | pass | the pure algorithms on all inputs up to a size; all small trees and pairs of trees, all filters |

What they show beyond "no error":

* `land`. `LandingsNeverLost` and `FastForwardOnly` rest on the compare-and-swap
  of `update-ref`, `NoDoubleMerge` on the containment check together with it,
  `LandingIsAtomic` on its exit status being read. An `update-ref` whose call was
  dropped may run at any time later (`OrphanAdvance`): it still compares.
* `push`. `ProtectedForward` holds although the hook trusts the old id the
  client claims: receive-pack compares the same id when it applies the command,
  and ids are content, so "forward from the claimed id" is still true then.
  `PathsConfined` holds although refs move between verdict and migration:
  commits that "some ref reaches already" were allowed to somebody.
  `RefsConnected` needs the connectivity check at unpack time, as refs may be
  deleted afterwards but objects are not (no garbage collection is modelled).
* `service`. `ProtectedHistory`: the three ways of moving a branch never lose
  history of a branch that every push protects; a delete RPC removes only the tip
  it found, also when `delete_tag` is given a branch's full name.
* `lifecycle`. `KeptUntilDeleted`: `rename(2)` refuses a directory with entries,
  so a rename that looked before an init made the directory replaces nothing but
  what that init has just begun, and no repository is lost.
* `moved`. The ids that a landing read in one repository mean the same in any other,
  and `update-ref` compares and checks on its own; so a landing that is carried to
  another repository either fails there or is one that repository could have had.
  `EachIsComplete` rests on `update-ref` looking for the new object in *its*
  database: a merge commit written before the rename is refused.
* `ref_reads`. A listing is not a snapshot, and can hold two refs that never existed
  together; `ListingIsTrue` is what can be said of it. A listing fails only if a ref
  vanished. GetRepositoryInfo goes through all files of the repository and fails if any
  vanished (`InfoIsTrue`): a lock file that another call takes and drops is enough.
* `stream`. `CallsEnd` is the absence of a cycle of waiting tasks under all
  capacities being small; `InputIsWhole` and `ErrorsSurface` say that neither
  direction is cut silently; `CallIsTransparent` that the whole transport
  is no more than a caller and git.
* `reply`. `LastMarkIsTrue` says that a client may stop at the marked chunk. A client
  that leaves frees the task (`TaskIsReleased`); one that stays and stops reading
  does not, and no timeout in the code ends that.
* `algorithms`. `PreviewsAreExact` says which entries are in conflict, in terms of the three
  trees only. It is not a three-way merge: a directory in which both sides changed
  something is a conflict, though its files may not be; both ends of a rename are
  overlooked on the side that renamed; and where a file became a directory, or the other way
  round, a conflict may be missed, or be one of a file that is no more. All three are
  in the run, and the property names each. `SeriesIsSequential` says when the preview of a series is right
  although the code compares each pick with the same branch. `DiffIsAPatch`: the
  reported changes turn one tree into the other, also where a file becomes a
  directory, except for both ends of a rename, which no entry names; under a
  filter, that part of the trees which it lets through. `InitialDiffAgrees`
  compares the second implementation of a diff with the first.

The two runs that expect a violation are disagreements of the code with what it says
of itself; `PROJECT.json` ("findings") quotes both sides. Both need two calls at the
same time.

### Other disagreements in the models

The models follow the code where it differs from what it says of itself. These are in
their definitions, and the invariants of the runs are stated so as to allow for them:

| Code | What it does, and what it says |
|---|---|
| `service.rs:285` | a containment check that *fails* counts as "not contained": while `set_default_branch` has HEAD truncated, a contained change is merged again (`CheckContained`; line 284: "nothing to advance") |
| `repository.rs:68` | `rename(2)` replaces the empty directory an init has just made, and the init then writes its HEAD into the renamed repository (`Move`; lines 55-59: "never clobbers another repository") |
| `refs.rs:232` | overlapping writes of names of different lengths leave a HEAD that git cannot read (`WriteHead`; lines 218-220: "the same on-disk form git uses") |
| `refs.rs:146` | a branch can be created at a tree or a blob (line 139: "a commit") |
| `repository.rs:189` | for HEAD's branch at such an object one commit is counted: the walk's error (line 182: "count commits") |
| `repository.rs:169` | a lock file or temporary object that vanishes fails GetRepositoryInfo, which is then answered as not found (line 133: "Calculate size") |
| `refs.rs:86` | a tag with the short name of the default branch is marked as default, too |
| `refs.rs:120` | the id and the full name of a resolved name come from two look-ups |
| `repository.rs:117` | the default branch answered for a HEAD without a commit is the configured one (line 116: "from HEAD") |
| `refs.rs:335` | a star in the middle of a pattern, and one of two at both ends, is taken literally (line 325: "supports * wildcard") |
| `service.rs:1313` | a request stream that breaks ends git's input like one that has ended |
| `operations.rs:298` | a rebase of a branch with merges lists what its walk meets before the merge base: commits behind it are missing, others may be of the target (`Rebase`) |
| `operations.rs:395` | a rename on one side hides the conflict with what the other side did to the file (`ChangeMaps`) |
| `operations.rs:399` | of a file that became a directory, or the other way round, only the change reported last is compared: two sides that did so differently can be a success |
| `operations.rs:444` | a conflict is of paths and object ids: a directory both sides changed is one, two modes for one content are none |
| `operations.rs:233` | a pick of a commit without changes is "empty" only if the branch has not moved from the commit's parent: the branch's own changes count as merged |
| `service.rs:1168` | a series of picks that build on each other may be in conflict with the branch as it is, and two that exclude each other succeed (`PickSeries`) |
| `service.rs:188` | git's stderr is read after its exit: a git that fills the pipe blocks its call for ever (lines 169-170: "avoids a pipe-buffer deadlock") |
| `diff.rs:249` | a rename is dropped from the diff ("Treat rewrite as modification") |
| `diff.rs:271` | the diff of path `a` also shows `a.b` (arbor_git.proto:312: "specific path") |
| `diff.rs:376` | the diff against the empty tree leaves links out (lines 114-115: "every file") |
| `trees.rs:328` | the recursive listing ends at depth 10 (arbor_git.proto:273: "all entries") |
| `service.rs:897` | a blob shorter than 8 KB is never binary to GetBlobInfo (`trees.rs:350`: "Check first 8KB") |
| `commits.rs:214` | the path filter of the log passes commits without the path (lines 211-214: "path exists") |

### Bounds, and why they are enough

* Two callers per kind of call: every guard and every old value involves the call
  and one other actor. `land_fair` has three, so that a caller can be overtaken by
  two others; `lifecycle` three, so that each RPC is there once. `service` has one
  of each kind, since same-kind races are in the runs of the components.
* Graphs: a root, the branch's tip, a change on top of it, one that diverged, one
  stacked on that one, one that was never pushed, and the merges that landings can
  make of them (`MCGraph!Landings`). That covers contained, fast-forward, diverged
  and missing.
* `MergeBudget`: how many merge commits may be written, in runs with retries, as
  every abandoned call may leave one. Three (`land`) is one for each lander and
  one abandoned one.
* `service` gives the landing one change, the push two requests and the ref RPC
  five.
* `MCRepository` has five directories: one for each name and each caller.
* `moved`: a fork with another tip and the same objects, an old copy with the same tip
  and fewer objects, a free name; one merge commit at a time (`MergeBudget`).
* `ref_reads`: one reader suffices, since readers do not see each other. One writer
  may run any number of its calls while the reader is between two steps; both
  kinds of ref, an annotated tag, a branch moved to a tree object, and a short name that two
  refs share. One file in `Temps` is enough, as each one that vanishes fails the call alike.
  `OneCall` leaves out what comes after an answer, files of `Temps` that come or go when
  nobody looks, and the deletion of the tag under GetRepositoryInfo (branches are deleted).
* `reply.cfg`: a channel of 2; lists shorter and longer than that, and blobs of no
  byte, of less than, exactly, and more than one and two chunks.
* `algorithms.cfg`, trees: a file or directory `a` with a file in it and one a level deeper, and `a.b`,
  which sorts between the two forms of `a`. `MaxDepth = 1` and `Sniff = 2` stand
  for 10 levels and 8192 bytes, so that trees and files go over both.
* `stream.cfg`: capacities 1 and a few messages more than fit, so that every
  channel and pipe fills up.
* `algorithms.cfg`: patterns and values up to 4 characters, files up to 5 lines of
  two kinds and contexts up to 2, so that hunks start, join, overlap and end at both
  borders; `LcsLimit = 16` so that 5 by 5 lines are too large for the table; for previews, all
  triples of trees with a file or directory `a`, a file in it and one a level deeper, of two
  contents and two modes; series of up to two picks (`SeriesLen`),
  the least that can get in each other's way, over two files (`PickedPaths`); all
  histories of 4 commits; `AncestorLimit = 2` stands for 100.

### Fairness

`LandFairSpec` has weak fairness of each caller's steps: tokio polls every ready
task, git commands end, and the caller (arbor-api) asks again after an error, which
is an assumption about it. Crashes, dropped calls and failing commit-trees are not
part of it. No strong fairness is needed: a compare-and-swap only fails because
another landing won, and there are finitely many changes.

`StreamSpec` has weak fairness of each task, of the git process, and of the
client's sending and receiving as long as it stays; it may leave and git may die,
but neither has to.

`ReplySpec` has weak fairness of the task only; nothing is assumed of the client.

Deadlock is checked except in `stream`, `reply` and `algorithms`, which end.

## 4. Proofs

| Theorem | Statement | From |
|---|---|---|
| `LandInvariant` | `LandSpec => []LandInv` | induction |
| `LandTypes` | `LandSpec => []LandTypeOK` | `LandInv` |
| `LandingsAreNeverLost` | `LandSpec => []LandingsNeverLost` | `LandInv` |
| `LandingsFastForward` | `LandSpec => FastForwardOnly` | `LandInv` |
| `LandingRefines` | `LandSpec => LandingIsAtomic` | `LandInv`, step by step |
| `ChangesMergeOnce` | `ChangesBringNoMerges`: `LandSpec => []NoDoubleMerge` | `OnceInv` (`LandInv` and two more parts) |
| `PushTypes` | `PushSpec => []PushTypeOK` | `BaseInv` |
| `PushesKeepRefsConnected` | `PushSpec => []RefsConnected` | `BaseInv` |
| `PushesKeepPathsConfined` | `~Overlap`: `PushSpec => []PathsConfined` | `BaseInv`, `JudgeInv` |
| `PushesKeepProtection` | `~Overlap`: `PushSpec => ProtectedForward` | `BaseInv`, `JudgeInv` |
| `ServiceInvariant` | `ServiceSpec => []ServiceInv` | induction, step by step of the three components and `Restart` |
| `ServiceRefTypes` | `ServiceSpec => []RefTypeOK` | `ServiceInv` |
| `ServiceProtects` | `~Overlap`: `ServiceSpec => ProtectedHistory` | `ServiceInv` |
| `MovedInvariant` | `MovedSpec => []MovedInv` | induction |
| `MovedComplete`, `MovedLandings` | `MovedSpec => []EachIsComplete`, `[]LandedSomewhere` | `MovedInv` |
| `MovedForward` | `MovedSpec => ForwardInEach` | `MovedInv` |
| `ReadInvariant` | `IsFiniteSet(Refs)`: `ReadSpec => []ReadInv` | induction |
| `ListingsAreTrue`, `ResolutionsAreTrue`, `InfosAreTrue` | the same for `[]ListingIsTrue`, `[]ResolvedIsTrue`, `[]InfoIsTrue` | `ReadInv` |
| `LifeInvariant` | `LifeSpec => []LifeInv` | induction |
| `LifeTypes`, `RepositoriesAreKept` | `LifeSpec => []LifeTypeOK`, `[]KeptUntilDeleted` | `LifeInv` |
| `DeletesAloneEmpty` | `LifeSpec => OnlyDoomedAreEmptied` | `LifeInv` |
| `StreamInvariant` | `StreamSpec => []StreamInv` | induction |
| `StreamInputIsWhole`, `StreamErrorsSurface` | `StreamSpec => []InputIsWhole`, `[]ErrorsSurface` | `StreamInv` |
| `StreamImplementsCall` | `StreamSpec => CallIsTransparent` | `StreamInv`, step by step |
| `ReplyInvariant` | `ReplySpec => []ReplyInv` | induction |
| `RepliesAreWhole`, `LastMarkHolds` | `ReplySpec => []EndMeansAll`, `[]LastMarkIsTrue` | `ReplyInv` |
| `GlobsMeanWhatTheySay`, `RefGlobsMeanWhatTheySay` | `Spec => []GlobMatchesItsMeaning`, `[]RefGlobMatchesItsMeaning` | what the matchers compute, for any pattern and value |
| `PreviewsHold`, `SeriesHold` | `Spec => []PreviewsAreExact`, `[]SeriesIsSequential` | what a map tells of any two trees; induction over the picks |
| `LogsHold`, `AncestorsHold`, `RebasesHold` | `Spec => []LogPagesComplete`, `[]AncestorsAreNearest`, `[]RebaseListsBranch` | the invariant of the walk over any history |
| `InitialDiffsHold`, `DiffsArePatches` | `Spec => []InitialDiffAgrees`, `[]DiffIsAPatch` | the changes between any two trees |
| `ListingsHold` | `Spec => []ListingsAgree` | induction over the depth of any tree |
| `HunksArePatches`, `HunksHold`, `DiffsAreMinimal` | `Spec => []HunksRebuildTheFile`, `[]HunksAreWindows`, `[]DiffIsMinimal` | the table, the walk back and the grouping loop, for any two files |

They hold for any number of calls, commits, refs, names, repositories and requests, and
any capacities and lengths. The assumptions are
the named `ASSUME`s of the modules (TLC evaluates each of them in a run): `Anc` is
the reflexive, transitive and antisymmetric closure of `Parents` as far as it is
needed; names do not collide (in a directory, and in the order of its entries); the repository
starts complete, with commits on its
branches and a well-formed HEAD; requests are of the shape handlers accept. Each inductive
invariant (`...Inv`) has also been checked by TLC on the run of its module. Some theorems have a
hypothesis of their own, discussed below: `~Overlap`, `IsFiniteSet(Refs)` and
`ChangesBringNoMerges`.

*Landing.* `LandingsNeverLost` is not inductive: nothing in it says that a call about
to be answered holds a tip the branch contains. `LandInv` adds, for each call,
what the commands so far have established *and later moves cannot undo*: the tip it
read is an ancestor of the branch; in `advance` the new tip is a descendant of
that tip and contains the change; in `advanced` the branch contains the new tip.
They stay true when others move the branch because every move goes to a descendant.
The refinement maps `UpdateRef` to `Land`, the two answering steps to
`Promise` and all else to stuttering; the containment check may answer with a tip
the branch has left behind, which is why `Promise` allows any `sha` below the tip.

`NoDoubleMerge` follows from two parts of `LandInv`: the change is not in the tip's
history (`Judged`), and the swap compares with that tip. A second merge of the change below
the tip would put the change there. What is left is the history that the change
itself brings, and there the code promises nothing: a change that contains somebody
else's merge of `c`, landed on a branch that has merged `c` already, makes two. That is
`ChangesBringNoMerges`, a hypothesis about what callers ask for; `land` meets it with
every request it has.

*Pushing.* `RefsConnected` needs that a command not found broken stays complete
although refs are deleted and moved between the check and the update: `BaseInv`
states completeness against stored and quarantined objects, which only grow,
instead of against refs.
`JudgeInv` carries the verdict: each line judged so far and found good has a new id
whose whole history somebody was allowed to bring in, and, if the branch is protected,
an old id that is zero or an
ancestor of it. `~Overlap` is needed, and `push_hook` shows why: without it a push reaches
`migrate` unjudged.

*Composition.* `LandInv` does not survive next to the others: a delete RPC takes away the
branch above a tip that a landing has read, and HEAD may be truncated under it. `ServiceInv` keeps what is about immutable commits only: `Above`, the new tip of
a landing is above the tip it compares with, and `GuardedPush`, a command that passed the
hook does not delete or rewrite a protected branch with respect to the old id it
compares with. Each way of writing a branch compares first, so that is enough for
`ProtectedHistory`; a deletion RPC holds the id that it found.

*Moved repositories.* `MovedInv` says of every repository what `StoreInv` says of one,
and weakens `LandInv` to what does not depend on where a call's commands ran: `Held`, some
repository contains the tip it read, and facts about commits.

*Reading refs.* `ReadInv` relates what a call has found to `held`: `Noted`, the values that are
there now are in it; for a listing, that each wanted ref has a row, is yet to be
opened or listed, or was missing at some time; for a resolution, that each name before
the one it is at was missing; for an info, that a count lies between the refs that were
never missing and those there at some time, and that a file still to be looked at is there
or one vanished. What `held` says only grows while the call runs, so a writer's
step, or a file that comes or goes, keeps all this for every call at once (`CallStays`). `IsFiniteSet(Refs)` is what makes
`Cardinality` mean a number; a repository has finitely many refs.

*Lifecycle.* A rename's, an init's and a delete's steps after the first look work on what
they find by then. `LifeInv` adds to `KeptUntilDeleted` only types, the step each RPC can be
at, and that whatever a delete has open is doomed.

*Streams.* `StreamInv` and `ReplyInv` say where each message is: what git has read, what its
pipe holds and what the channel holds are in a row (`Row`), as far as the tasks
between them still work; and at each end which of the parties have left.
`StreamImplementsCall` maps the steps of the tasks to stuttering and the steps of client and
git to those of `GitCall`.

*Algorithms.* An algorithm runs in one step, so an invariant of `MCAlgorithms` says what a
function computes, and a theorem says it of all of that function's inputs: the constants of
`MCAlgorithms` and `MCReads` bound the inputs, and may be anything that `InputAssumption`,
`ReadsAssumption` and `LimitAssumption` allow, so patterns, files, histories,
trees and series of any size. Two tools carry these proofs. `NatSetInduction` is induction over
the naturals, said of a set. `RecursionHasSolution` says that a recursive function exists: if
what a value is made of has a smaller rank, some function solves its equation. Without that,
`CHOOSE` promises nothing and none of the equations in the models could be used (`NatRecursion`
and `GridRecursion` are the same for one and for two indices).

* Globs: the table `places` of a pattern is, star by star and literal by literal, the set of
  ways to cut the value (`PlacesAreCuts`), so the order of the attempts does not matter.
* Previews: a path that did not change between file and directory has one change if its two
  nodes differ and none otherwise (`PlainChange`), so a map tells its node, unless it is an end
  of a rename (`MapsTell`), and two maps tell where the sides differ (`ExactAnswers`). For a
  series, two trees have the same node at a path exactly if they agree on the leaves at it and
  below (`AgreeingNodes`, `SameNodesAgree`), so a pick leaves alone what the next one touches
  (`UntouchedStays`), and a clash is there in the tree of the moment exactly if it is there in
  the branch as it is (`ClashesStay`).
* Walks over history: each step of a walk keeps `Sound` (a commit is met once, only below the
  start, and the parents of what is listed are met), `Nearer` (commits are met in the order of
  their distance), and `InLine` (where commits have one parent, each one met is the parent of
  the one before); it lists one commit more, of finitely many, so it ends with all of them.
  Pages are disjoint parts of that list.
* Tree diffs: the changes at a path depend on the two nodes there (`ChangesAre`), so they
  rebuild the head tree path by path (`ChangesRebuild`), those that went into a rename set
  aside (`ListedOrMoved`).
* Listings: a strict order on a finite set lists it in one way at least, each element once
  (`SortExists`, `SortLists`), and both orders of a directory are strict as no two names are
  the same. `Collect` is taken apart by `FlattenIs`: what is below each child is disjoint from
  what is below the next (`UnderIs`), and nothing is below a leaf.
* Line diff: the walk back through the table gives edits that go through both files to the end,
  one line at a time (`Covers`), and each line that stays counts in the table (`Counted`). The
  table grows by at most one per step (`TableIsSteady`), and no common subsequence is longer
  than its last entry (`TableIsMaximal`). `Grouped` is the invariant of the loop that makes
  hunks: those finished and the one being built show windows of the edits, one after the other,
  and every change passed so far is in one of them.

*Model-checked only:* liveness (`EveryChangeLands`, `CallsEnd`, `TaskIsReleased`), which is out
of the prover's reach, as is `ENABLED`. All other properties of the passing runs are proved.

## 5. Not modelled

* Ref advertisement (`service.rs:210-244`) and `check_objects_exist`: one git process
  whose output is taken whole, and one look-up per id; they keep nothing between steps.
* `get_commit`, `repository_exists`: one look-up. `find_merge_base` and
  `TreeService::get_blob_info`: the service does not call them.
* The counts of added and deleted lines in a diff (sums), MIME types (never set).
* The message of `create_tag`: the code ignores it, too.
* Garbage collection of objects: the code never starts it, and git's own, after a push,
  keeps unreachable objects for two weeks. That its files come and go is in `Temps`.
* Server start-up, configuration, health checks, logging, generated code.
* Symbolic refs other than HEAD, reflogs, packed refs: git hides them from the code.

## 6. Plan

Order of the work, most important behaviour first; 1 to 10 are done.

1. `CommitGraph`, `RefStore`, `MergeChange` with its refinement, runs `land` and
   `land_fair`, and its proofs.
2. `ReceivePack`, runs `push` and `push_hook`, and its proofs.
3. `RefService`, `GitService`: the composition and the crash.
4. `Repository`.
5. `PackStream`.
6. `ScopeMatch`, `DiffHunks`, `TreeMerge`, `CommitLog`.
7. `TreeReads`, `ReplyStream`, `RefReads`: the calls that only read.
8. `GitCall`: the abstract transport, and that PackStream implements it.
9. `MovedRepository`: landings and the lifecycle together.
10. Proofs of the other components: `NoDoubleMerge`, `GitServiceProofs`, `MovedProofs`,
    `RefReadsProofs`, `RepositoryProofs`, `TransportProofs`, `AlgorithmProofs`.
11. Left: an abstract specification of the ref RPCs, and that `RefService` implements it.
