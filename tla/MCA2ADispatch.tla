---------------------------- MODULE MCA2ADispatch ----------------------------
(***************************************************************************)
(* A2ADispatch with a worker that may answer anything at any time: two     *)
(* identities, every class of reply (non-terminal, each way of ending, a   *)
(* result that breaks scope, a state the coordinator does not know).       *)
(***************************************************************************)
EXTENDS A2ADispatch, TLC

CONSTANTS c1, c2, c3, id1, id2, patch

MCCallers == {c1, c2, c3}
MCRemoteIds == {id1, id2}
MCResults == {patch}

Answer(i, s, r) == [id |-> i, state |-> s, result |-> r]

MCReplies ==
  {Answer(id1, "working", NoResult), Answer(id1, "completed", patch),
   Answer(id1, "completed", Unfit), Answer(id1, "cancelled", NoResult),
   Answer(id1, "unsupported", NoResult), Answer(id2, "completed", patch)}

CallerSymmetry == Permutations(Callers)
=============================================================================
