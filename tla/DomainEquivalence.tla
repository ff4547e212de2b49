--------------------------- MODULE DomainEquivalence ---------------------------
(***************************************************************************)
(* prove_equivalence of pipeline/equivalence.py: a reviewer's mapping from *)
(* baseline states to refactored states is checked to be a bisimulation of *)
(* two bounded machines.  A machine is its initial state and the set of    *)
(* successors of each state, all that _initial_state and _successors give  *)
(* the checker; the mapping is the set of pairs the reviewer lists.        *)
(***************************************************************************)
EXTENDS Machines

CONSTANTS
  Baselines,     \* the machines [initial, next] on the left
  Refactorings,  \* and on the right
  Mappings

VARIABLES
  left, right, mapping,
  proof          \* "none", "proved" or "failed"

equivalenceVars == <<left, right, mapping, proof>>

ASSUME EquivalenceAssumption ==
  /\ \A m \in Baselines \cup Refactorings : IsMachine(m)
  /\ \A m \in Mappings : \A pair \in m : pair = <<pair[1], pair[2]>>

Functional == \A p, q \in mapping : p[1] = q[1] => p[2] = q[2]
Injective == \A p, q \in mapping : p[2] = q[2] => p[1] = q[1]

MappedStates == {p[1] : p \in mapping}

\* The mapping where it is functional.
Related(s) == CHOOSE t \in {p[2] : p \in mapping} : <<s, t>> \in mapping

EveryReachableIsMapped == ReachableStates(left) \subseteq MappedStates

\* A mutant: a successor that only the refactoring has is not noticed.
SimulatedFrom(s) ==
  /\ Related(s) \in ReachableStates(right)
  /\ {Related(t) : t \in left.next[s]} \subseteq right.next[Related(s)]

\* The state checked last in the loop: its image is reachable, and the
\* mapped successors are the image's successors.
MatchedFrom(s) ==
  /\ Related(s) \in ReachableStates(right)
  /\ {Related(t) : t \in left.next[s]} = right.next[Related(s)]

EquivalenceInit ==
  /\ left \in Baselines /\ right \in Refactorings /\ mapping \in Mappings
  /\ proof = "none"

\* The checks in the order of the code; each failed one returns.
Holds ==
  /\ Functional
  /\ Injective
  /\ EveryReachableIsMapped
  /\ \A s \in ReachableStates(left) : MatchedFrom(s)

ProveEquivalence ==
  /\ proof = "none"
  /\ proof' = IF Holds THEN "proved" ELSE "failed"
  /\ UNCHANGED <<left, right, mapping>>

EquivalenceSpec == EquivalenceInit /\ [][ProveEquivalence]_equivalenceVars

-----------------------------------------------------------------------------
(* Properties                                                              *)

EquivalenceTypeOK ==
  /\ left \in Baselines /\ right \in Refactorings /\ mapping \in Mappings
  /\ proof \in {"none", "proved", "failed"}

\* With the types this is inductive: the verdict is that of the checks.
EquivalenceIInv == proof = "proved" => Holds

IsBisimulation(relation) ==
  \A p \in relation :
    /\ \A s \in left.next[p[1]] : \E t \in right.next[p[2]] : <<s, t>> \in relation
    /\ \A t \in right.next[p[2]] : \E s \in left.next[p[1]] : <<s, t>> \in relation

(***************************************************************************)
(* A proved mapping that relates the initial states makes the reachable    *)
(* machines equal up to renaming: its reachable pairs are a bisimulation   *)
(* that covers every reachable state of the refactoring exactly once.      *)
(***************************************************************************)
ProvedIsIsomorphism ==
  LET pairs == {p \in mapping : p[1] \in ReachableStates(left)}
  IN  proof = "proved" /\ <<left.initial, right.initial>> \in mapping =>
        /\ IsBisimulation(pairs)
        /\ {p[2] : p \in pairs} = ReachableStates(right)
        /\ Cardinality(pairs) = Cardinality(ReachableStates(right))

(***************************************************************************)
(* What the claim BEHAVIORAL_EQUIVALENCE_PROVED is documented to mean:     *)
(* "the machines are equivalent", so that some bisimulation relates the    *)
(* states in which they start.                                             *)
(***************************************************************************)
ProvedMachinesAreEquivalent ==
  proof = "proved" =>
    \E relation \in SUBSET (ReachableStates(left) \X ReachableStates(right)) :
       <<left.initial, right.initial>> \in relation /\ IsBisimulation(relation)
=============================================================================
