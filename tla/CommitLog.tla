------------------------------ MODULE CommitLog ------------------------------
(***************************************************************************)
(* Walks over history: GetCommitLog and the commits that Rebase lists.  A   *)
(* history is the sequence of the commits' parents, a sequence for each commit.                *)
(***************************************************************************)
EXTENDS Naturals, Sequences, SequencesExt

CONSTANT AncestorLimit  \* how many ancestors are listed when the request has no limit

\* The members of a sequence that are in a set.
Keep(seq, set) ==
    LET kept[n \in 0 .. Len(seq)] ==
          IF n = 0 THEN <<>>
          ELSE IF seq[n] \in set THEN Append(kept[n - 1], seq[n]) ELSE kept[n - 1]
    IN kept[Len(seq)]

\* gitoxide's default walk, n commits on: breadth first, each commit once.
Walk(parents, start) ==
    LET walk[n \in 0 .. Len(parents)] ==
          LET now == walk[n - 1]
              fresh == DOMAIN parents \ (Range(now.listed) \cup Range(now.queue))
          IN IF n = 0 THEN [queue |-> <<start>>, listed |-> <<>>]
             ELSE IF now.queue = <<>> THEN now
             ELSE [queue |-> Tail(now.queue) \o Keep(parents[Head(now.queue)], fresh),
                   listed |-> Append(now.listed, Head(now.queue))]
    IN walk

RevWalk(parents, start) == Walk(parents, start)[Len(parents)].listed

\* walk.skip(skip).take(limit)
Page(walk, limit, skip) ==
    SubSeq(walk, skip + 1, IF skip + limit < Len(walk) THEN skip + limit ELSE Len(walk))

\* commit_touches_path: the look-up of the path in the commit's tree gave an entry
\* ("found"), no entry ("absent"), or failed ("error").
TouchesPath(lookup) == lookup # "error"

\* Mutant of GetLog: without a limit a default applies, as the code once had it.
GetLogCapped(parents, start, limit, skip, lookup) ==
    Keep(Page(RevWalk(parents, start), IF limit = 0 THEN 2 ELSE limit, skip),
         {c \in DOMAIN parents : TouchesPath(lookup[c])})

\* get_log; a limit of 0 in the request is no limit.  The filter comes last.
GetLog(parents, start, limit, skip, lookup) ==
    LET walk == RevWalk(parents, start) IN
    Keep(Page(walk, IF limit = 0 THEN Len(walk) ELSE limit, skip),
         {c \in DOMAIN parents : TouchesPath(lookup[c])})
-----------------------------------------------------------------------------
\* Mutant of GetAncestors: the limit counts the commit itself.
AncestorsCountSelf(parents, start, limit) ==
    LET walk == RevWalk(parents, start) IN
    Page(walk, (IF limit = 0 THEN AncestorLimit ELSE limit) - 1, 1)

\* get_ancestors: all but the first of the walk; without a limit, a default.
GetAncestors(parents, start, limit) ==
    Page(RevWalk(parents, start), IF limit = 0 THEN AncestorLimit ELSE limit, 1)
-----------------------------------------------------------------------------
\* The commits from which no step to a parent leads out.
Closed(parents) == {S \in SUBSET DOMAIN parents : \A c \in S : Range(parents[c]) \subseteq S}

\* The ancestors of a commit, itself included: the least such set that it is in.
Below(parents, c) == {d \in DOMAIN parents : \A S \in Closed(parents) : c \in S => d \in S}

\* The common ancestors that no other one is above: what merge_base may answer.
MergeBases(parents, a, b) ==
    LET common == Below(parents, a) \cap Below(parents, b) IN
    {c \in common : \A d \in common \ {c} : c \notin Below(parents, d)}

\* Mutant of Rebase: the newest commit comes first.
RebaseUnreversed(parents, branch, base) ==
    LET walk == RevWalk(parents, branch)
        stop == CHOOSE i \in DOMAIN walk : walk[i] = base
    IN SubSeq(walk, 1, stop - 1)

\* rebase lists what the walk meets before the merge base, the oldest first.
Rebase(parents, branch, base) ==
    LET walk == RevWalk(parents, branch)
        stop == CHOOSE i \in DOMAIN walk : walk[i] = base
    IN Reverse(SubSeq(walk, 1, stop - 1))
=============================================================================
