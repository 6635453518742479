------------------------------ MODULE RefService ------------------------------
(***************************************************************************)
(* The ref RPCs: create_branch, delete_branch, set_default_branch,         *)
(* create_tag and delete_tag.  Each is a synchronous function on gitoxide  *)
(* and the file system, so no cancellation cuts it short, but handlers run *)
(* on several threads and interleave between any two accesses to the disk. *)
(***************************************************************************)
EXTENDS RefStore

CONSTANTS
    Clients,  \* concurrent ref RPCs
    RefAsk    \* client -> the requests it may send

\* name is the full name the handler makes of the request's: branches under
\* refs/heads/, tags under refs/tags/; the deletions also take a full name as it
\* is, so delete_tag may be given a branch.  What to create it at is a ref, start,
\* or else the object id oid.
RefRequests ==
    {req \in [op : {"createBranch", "createTag", "deleteBranch", "deleteTag", "setDefault"},
              name : Refs, start : Refs \cup {NoRef}, oid : Objects \cup {NoOid},
              force : BOOLEAN] :
        /\ req.op \in {"createBranch", "setDefault"} => req.name \in Heads
        /\ req.op = "createTag" => req.name \in Tags}

ASSUME RefAskAssumption == RefAsk \in [Clients -> SUBSET RefRequests]

VARIABLE call  \* what each ref RPC has done so far

NoRequest == [pc |-> "idle", req |-> <<>>, oid |-> NoOid]

RefInit == call = [k \in Clients |-> NoRequest]

\* The request of the client, and whether it is one of ops about to do pc.
Req(k) == call[k].req
Does(k, pc, ops) == call[k].pc = pc /\ Req(k).op \in ops

\* The handler goes on to pc, holding oid; or returns.
GoOn(k, pc, oid) == call' = [call EXCEPT ![k].pc = pc, ![k].oid = oid]
Return(k) == call' = [call EXCEPT ![k] = NoRequest]
-----------------------------------------------------------------------------
\* A request comes in and open_repo opens the repository; while it cannot be
\* opened, the request fails at once and nothing happens.
AskRef(k) ==
    /\ call[k].pc = "idle" /\ Readable
    /\ \E req \in RefAsk[k] : call' = [call EXCEPT ![k] = [NoRequest EXCEPT !.pc = "find", !.req = req]]
    /\ UNCHANGED storeVars

\* rev_parse_single: a ref's value, or the id of any object in the database.
RevParse(req) ==
    IF req.start # NoRef THEN refs[req.start] ELSE IF req.oid \in objs THEN req.oid ELSE NoOid

ResolveStart(k) ==
    /\ Does(k, "find", {"createBranch", "createTag"})
    /\ LET oid == RevParse(Req(k)) IN
       IF oid = NoOid THEN Return(k) ELSE GoOn(k, "create", oid)
    /\ UNCHANGED storeVars

\* PreviousValue::MustNotExist; what kind of object it is, is not looked at.
CreateRef(k) ==
    /\ Does(k, "create", {"createBranch", "createTag"})
    /\ IF refs[Req(k).name] = NoOid THEN SetRef(Req(k).name, call[k].oid) ELSE UNCHANGED refs
    /\ Return(k)
    /\ UNCHANGED <<objs, head>>

\* Mutant of FindRef: a missing ref is not reported, the handler goes on.
FindUnchecked(k) ==
    /\ Does(k, "find", {"deleteBranch", "deleteTag"})
    /\ GoOn(k, IF Req(k).op = "deleteTag" \/ Req(k).force THEN "delete" ELSE "head", refs[Req(k).name])
    /\ UNCHANGED storeVars

\* The reference is read here, and its value remembered for the deletion.
FindRef(k) ==
    /\ Does(k, "find", {"deleteBranch", "deleteTag"})
    /\ LET oid == refs[Req(k).name] IN
       IF oid = NoOid THEN Return(k)
       ELSE GoOn(k, IF Req(k).op = "deleteTag" \/ Req(k).force THEN "delete" ELSE "head", oid)
    /\ UNCHANGED storeVars

\* The default branch is not deleted; when HEAD cannot be read, or names no
\* existing branch, nothing is checked.
CheckHead(k) ==
    /\ Does(k, "head", {"deleteBranch"})
    /\ IF GixHead = Req(k).name /\ refs[GixHead] # NoOid
       THEN Return(k) ELSE GoOn(k, "delete", call[k].oid)
    /\ UNCHANGED storeVars

\* Mutant of DeleteRef: whatever the ref holds by now is deleted.
DeleteAnyValue(k) ==
    /\ Does(k, "delete", {"deleteBranch", "deleteTag"})
    /\ SetRef(Req(k).name, NoOid)
    /\ Return(k)
    /\ UNCHANGED <<objs, head>>

\* Reference::delete: only while the ref still has the value that was found.
DeleteRef(k) ==
    /\ Does(k, "delete", {"deleteBranch", "deleteTag"})
    /\ IF refs[Req(k).name] = call[k].oid THEN SetRef(Req(k).name, NoOid) ELSE UNCHANGED refs
    /\ Return(k)
    /\ UNCHANGED <<objs, head>>

FindDefault(k) ==
    /\ Does(k, "find", {"setDefault"})
    /\ IF refs[Req(k).name] = NoOid THEN Return(k) ELSE GoOn(k, "truncate", NoOid)
    /\ UNCHANGED storeVars

\* fs::write opens HEAD, which truncates it...
TruncateHead(k) ==
    /\ Does(k, "truncate", {"setDefault"})
    /\ head' = [ref |-> NoRef, len |-> 0]
    /\ GoOn(k, "write", NoOid)
    /\ UNCHANGED <<objs, refs>>

\* ...and writes the line from offset 0, over whatever is there by now.
WriteHead(k) ==
    /\ Does(k, "write", {"setDefault"})
    /\ LET b == Req(k).name IN
       head' = [ref |-> b, len |-> IF head.len > NameLen[b] THEN head.len ELSE NameLen[b]]
    /\ Return(k)
    /\ UNCHANGED <<objs, refs>>

RefStep(k) ==
    \/ AskRef(k) \/ ResolveStart(k) \/ CreateRef(k) \/ FindRef(k) \/ CheckHead(k) \/ DeleteRef(k)
    \/ FindDefault(k) \/ TruncateHead(k) \/ WriteHead(k)

RefNext == \E k \in Clients : RefStep(k)

RefSpec == StoreInit /\ RefInit /\ [][RefNext]_<<storeVars, call>>
-----------------------------------------------------------------------------
\* Types; and a ref RPC holds an object exactly while it is about to write a ref.
RefTypeOK ==
    \A k \in Clients :
        \/ call[k] = NoRequest
        \/ /\ call[k] \in [pc : {"find", "create", "head", "delete", "truncate", "write"},
                           req : RefAsk[k], oid : Objects \cup {NoOid}]
           /\ call[k].oid # NoOid <=> call[k].pc \in {"create", "head", "delete"}

\* The default branch is only deleted by force: HEAD, when it can be read, names a
\* branch that exists, unless a request may delete it anyway (refs.rs:198-206).
DefaultBranchKept == GitHead # NoRef => refs[GitHead] # NoOid
=============================================================================
