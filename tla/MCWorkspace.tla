------------------------------ MODULE MCWorkspace ------------------------------
(***************************************************************************)
(* The workspace with two promotion requests, which race for an empty      *)
(* destination or of which one replaces the other, and two publishers; a   *)
(* session with two clients and two things its compiler may answer; three  *)
(* publishers of two names; and a ledger of two states.                    *)
(***************************************************************************)
EXTENDS Workspace

CONSTANTS r1, r2, p1, p2, c1, c2, q1, q2, q3, m1, m2

MCRequests == {r1, r2}
MCPublishers == {p1, p2}
MCClients == {c1, c2}
MCCandidates == {m1, m2}
MCStagers == {q1, q2, q3}
MCStates == {"CONTRACT", "PROOF"}

=============================================================================
