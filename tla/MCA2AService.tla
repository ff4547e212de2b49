---------------------------- MODULE MCA2AService ----------------------------
(***************************************************************************)
(* A2AService with two coordinators, room for two remote tasks (one more   *)
(* than a correct coordinator makes) and one fit result.                   *)
(***************************************************************************)
EXTENDS A2AService

CONSTANTS c1, c2, id1, id2, patch

MCCallers == {c1, c2}
MCRemoteIds == {id1, id2}
MCResults == {patch}
=============================================================================
