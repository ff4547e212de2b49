------------------------------- MODULE MCPipeline -------------------------------
(***************************************************************************)
(* The parts of the pipeline that decide a claim, side by side: those of   *)
(* Claims, the bounded explorer, the equivalence checker and the network   *)
(* fault checker.  They share no state, so a behaviour follows one of them *)
(* while the others stay at a start; which one is chosen at the start.     *)
(*                                                                         *)
(* The claims: payloads with and without each field, scripted candidates   *)
(* of every kind, and systems of two components on two layers.             *)
(***************************************************************************)
EXTENDS Claims, MCTraversal, MCEquivalence, MCNetwork

CONSTANTS p1, p2, k1, k2

VARIABLE checker  \* the part that runs

Maybe(set) == set \cup {Absent}

MCWords ==
  {"VERIFIED", "VERIFY_FAILED", "VACUOUS_VERIFIED", "STATIC_CHECKED",
   "NO_PROOF", "STATIC_CHECK", "BOUNDED_EVIDENCE", "DEDUCTIVE_PROOF"}

MCPayloads ==
  [exit : {0, 1}, status : Maybe({"VERIFIED", "VERIFY_FAILED"}), claim : Maybe({"NO_PROOF"}),
   total : Maybe({0, 1}), proved : Maybe({1}), dropped : Maybe(BOOLEAN),
   complete : Maybe(BOOLEAN), satisfied : Maybe(BOOLEAN), completed : Maybe(BOOLEAN),
   consistent : Maybe({FALSE}), conflict : {FALSE}, marker : BOOLEAN]

\* A good candidate and one for each way to fail.
Candidate(id, trusted, after, outcome, fault) ==
  [id |-> id, trusted |-> trusted, after |-> after, outcome |-> outcome, fault |-> fault]

MCCandidates ==
  {Candidate("good", TRUE, TRUE, "proved", {}),
   Candidate("vacuous", TRUE, TRUE, "dropped", {}),
   Candidate("wrong", TRUE, TRUE, "refuted", {"post"}),
   Candidate("wrong again", TRUE, TRUE, "refuted", {"post"}),
   Candidate("worse", TRUE, TRUE, "refuted", {"post", "pre"}),
   Candidate("broken", TRUE, TRUE, "uncompilable", {"javac"}),
   Candidate("untooled", TRUE, TRUE, "missing", {}),
   Candidate("foreign", FALSE, TRUE, "proved", {}),
   Candidate("passed away", TRUE, FALSE, "proved", {})}
MCBudgets ==
  {[max |-> 0, resample |-> 1, feedback |-> 4], [max |-> 3, resample |-> 2, feedback |-> 4],
   [max |-> 5, resample |-> 1, feedback |-> 2], [max |-> 0, resample |-> 0, feedback |-> 0]}

MCSources ==
  [contract : {"original", "strong", "stronger"}, residual : BOOLEAN, discharged : BOOLEAN]

MCComponents == {k1, k2}
MCPlaces == {p1, p2}

-----------------------------------------------------------------------------
vars == <<checker, claimVars, traversalVars, equivalenceVars, faultVars>>

\* Where a part stays that does not run.
NoClaims == part = None /\ NoPolicy /\ NoLoop /\ NoCorrection /\ NoSystem
NoTraversal == spec = Stuck /\ limits = Plenty /\ TraversalInit
NoEquivalence ==
  /\ left = [initial |-> 0, next |-> [s \in {0, 1} |-> {}]]
  /\ right = [initial |-> 0, next |-> [s \in {0, 1, 2} |-> {}]]
  /\ mapping = {}
  /\ EquivalenceInit
NoNetwork == network = Async(True, FALSE) /\ faults = {} /\ slots = <<"cmd">> /\ FaultsInit

Init ==
  \/ checker = "claims" /\ NoTraversal /\ NoEquivalence /\ NoNetwork /\ ClaimsInit
  \/ checker = "traversal" /\ NoClaims /\ NoEquivalence /\ NoNetwork /\ TraversalInit
  \/ checker = "equivalence" /\ NoClaims /\ NoTraversal /\ NoNetwork /\ EquivalenceInit
  \/ checker = "network" /\ NoClaims /\ NoTraversal /\ NoEquivalence /\ FaultsInit

Next ==
  /\ UNCHANGED checker
  /\ \/ /\ checker = "claims" /\ ClaimsNext
        /\ UNCHANGED <<traversalVars, equivalenceVars, faultVars>>
     \/ /\ checker = "traversal" /\ TraversalNext
        /\ UNCHANGED <<claimVars, equivalenceVars, faultVars>>
     \/ /\ checker = "equivalence" /\ ProveEquivalence
        /\ UNCHANGED <<claimVars, traversalVars, faultVars>>
     \/ /\ checker = "network" /\ FaultsNext
        /\ UNCHANGED <<claimVars, traversalVars, equivalenceVars>>

Spec == Init /\ [][Next]_vars

=============================================================================
