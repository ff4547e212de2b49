------------------------------ MODULE MCApproval ------------------------------
(***************************************************************************)
(* Approval with two calls of execute and two signers, so that a signer    *)
(* left behind by a dead call can meet the one of the retry; a second      *)
(* person with a key of another identity; one change of a bound file; and  *)
(* two deaths, so that a decision can be taken back under a signer whose   *)
(* call is dead.                                                           *)
(***************************************************************************)
EXTENDS Approval

CONSTANTS e1, e2, s1, s2, other

MCExecutors == {e1, e2}
MCSigners == {s1, s2}
MCOthers == {other}

=============================================================================
