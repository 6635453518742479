------------------------------ MODULE GitService ------------------------------
(***************************************************************************)
(* The service: MergeChange, ReceivePack and ref RPCs of one repository,   *)
(* interleaved on the repository they share, and a crash of the process.   *)
(***************************************************************************)
EXTENDS MergeChange, ReceivePack, RefService

serviceVars == <<storeVars, landVars, pushVars, call>>

ServiceInit == StoreInit /\ LandInit /\ PushInit /\ RefInit

\* The process and its children die, and the service is started again: main
\* writes the hook script once more, and the repository stays as it is on disk.
Restart ==
    /\ land' = [l \in Landers |-> NoCall]
    /\ push' = [p \in Pushers |-> NoPush]
    /\ call' = [k \in Clients |-> NoRequest]
    /\ hookFile' = "whole"
    /\ UNCHANGED <<storeVars, landed>>

ServiceNext ==
    \/ LandNext /\ UNCHANGED <<pushVars, call>>
    \/ PushNext /\ UNCHANGED <<landVars, call>>
    \/ RefNext /\ UNCHANGED <<landVars, pushVars>>
    \/ Restart

ServiceSpec == ServiceInit /\ [][ServiceNext]_serviceVars
-----------------------------------------------------------------------------
\* A delete RPC is about to delete b at the value oid that it found there.
DeletesAt(b, oid) ==
    \E k \in Clients :
        /\ Does(k, "delete", {"deleteBranch", "deleteTag"})
        /\ Req(k).name = b /\ call[k].oid = oid

AlwaysProtected == {b \in Heads : \A p \in Pushers : \A req \in Send[p] : b \in req.protected}

\* The history of a branch that is protected in every push only ever grows,
\* whoever moves it; and it goes away only through a delete RPC that found this
\* very tip, so nothing that landed unseen is deleted (service.rs:350,
\* hook.rs:140-154, refs.rs:147, refs.rs:189-211).
ProtectedHistory ==
    [][\A b \in AlwaysProtected : refs[b] \in Commits /\ refs'[b] # refs[b] =>
         \/ refs'[b] \in Commits /\ refs[b] \in Anc[refs'[b]]
         \/ refs'[b] = NoOid /\ DeletesAt(b, refs[b])]_refs
=============================================================================
