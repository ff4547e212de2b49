------------------------------ MODULE MCAgentRun ------------------------------
(***************************************************************************)
(* AgentRun with controllers that overlap.  One more controller than a     *)
(* careful operator would run is enough for every race: a lost race ends   *)
(* the call that lost it.                                                  *)
(***************************************************************************)
EXTENDS AgentRun

CONSTANTS c1, c2

MCTwo == {c1, c2}
MCOne == {c1}
=============================================================================
