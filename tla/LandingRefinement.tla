-------------------------- MODULE LandingRefinement --------------------------
(* The six-command handler seen as one step: refs are the abstract tips, the *)
(* answers sent are the abstract promises, all else is hidden.               *)
EXTENDS MergeChange

Landing == INSTANCE AtomicLanding WITH
    Callers <- Landers, Branches <- Heads, InitTips <- InitRefs,
    tip <- refs, promised <- landed

\* MergeChange implements the one-step landing of AtomicLanding, whose promise
\* to the caller is that of service.rs:260-264.
LandingIsAtomic == Landing!Spec
=============================================================================
