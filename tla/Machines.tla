-------------------------------- MODULE Machines --------------------------------
(***************************************************************************)
(* Bounded machines as the checkers of the pipeline explore them: an       *)
(* initial state and the set of successors of each state.                  *)
(***************************************************************************)
EXTENDS Naturals, FiniteSets

States(machine) == DOMAIN machine.next

\* A bounded machine.
IsMachine(machine) ==
  /\ IsFiniteSet(States(machine)) /\ machine.initial \in States(machine)
  /\ machine.next \in [States(machine) -> SUBSET States(machine)]

\* _reachable_states: breadth first from the initial state; there are no more
\* rounds that find a state than there are states.
ReachableStates(machine) ==
  LET seen[n \in 0 .. Cardinality(States(machine))] ==
        IF n = 0 THEN {machine.initial}
        ELSE LET known == seen[n - 1] IN known \cup UNION {machine.next[s] : s \in known}
  IN  seen[Cardinality(States(machine))]

\* Every successor of a state is a state, and every state can be reached.
AllReachable(machine) == IsMachine(machine) /\ ReachableStates(machine) = States(machine)

=============================================================================
