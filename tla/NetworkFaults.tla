----------------------------- MODULE NetworkFaults -----------------------------
(***************************************************************************)
(* verify_distributed of pipeline/distributed.py: the invariants of an     *)
(* asynchronous domain under message loss, duplication and reordering,     *)
(* which are injected as further operations on the declared message slots. *)
(* A slot is a bounded field whose initial value means empty; a Boolean    *)
(* field has no bound and listing its messages raises an error.            *)
(***************************************************************************)
EXTENDS DomainMachine, Machines

CONSTANTS
  NetworkSpecs,  \* the domains verified
  FaultSets,     \* the fault models asked for
  SlotLists,     \* the message fields declared, in order
  MaxStateSpace

IsValue(name, value) == Binary("eq", Field(name), Literal(value))

\* The lists are lists, and the comparisons of the injected operations, with
\* the literals in them, are evaluated by the code's recursion.
ASSUME FaultsAssumption ==
  /\ \A net \in NetworkSpecs :
       /\ Len(net.ops) \in Nat /\ DOMAIN net.ops = 1 .. Len(net.ops)
       /\ Len(net.vars) \in Nat /\ DOMAIN net.vars = 1 .. Len(net.vars)
       /\ ValidSpec(net) =>
            \A v \in ToSet(net.vars) : \A value \in Values(v) :
              EvaluatedAsWritten(IsValue(v.name, value), net)
  /\ \A l \in SlotLists : Len(l) \in Nat /\ DOMAIN l = 1 .. Len(l)

VARIABLES
  network, faults, slots,
  safety,        \* "exploring", "proved", "failed", or "raised": an exception
  seen,          \* the states found
  frontier       \* those of them not expanded

faultVars == <<network, faults, slots, safety, seen, frontier>>

Sentinel(name) == Variable(network, name).initial

Occupied(name) == Values(Variable(network, name)) \ {Sentinel(name)}

Put(name, value) == [target |-> name, value |-> Literal(value)]

FaultAction(name, guards, effects) ==
  [name |-> name, guards |-> guards, effects |-> effects, boolean |-> FALSE, stutter |-> FALSE]

\* DropMsg: an occupied slot becomes empty.
LossActions ==
  UNION {{FaultAction("DropMsg", <<IsValue(f, v)>>, <<Put(f, Sentinel(f))>>) : v \in Occupied(f)} :
         f \in ToSet(slots)}

OrderedPairs ==
  {<<slots[p[1]], slots[p[2]]>> : p \in {q \in (DOMAIN slots) \X (DOMAIN slots) : q[1] < q[2]}}

DuplicatesOf(source, target) ==
  {FaultAction("DuplicateMsg", <<IsValue(source, v), IsValue(target, Sentinel(target))>>,
               <<Put(target, v)>>) : v \in Occupied(source)}

\* A mutant: a message is only copied to a slot declared after its own.
ForwardDuplications == UNION {DuplicatesOf(p[1], p[2]) : p \in OrderedPairs}

\* DuplicateMsg: a message is copied into an empty slot, in both directions.
DuplicationActions ==
  UNION {DuplicatesOf(p[1], p[2]) \cup DuplicatesOf(p[2], p[1]) : p \in OrderedPairs}

\* ReorderMsg: two occupied slots exchange their messages.
ReorderingActions ==
  UNION {{FaultAction("ReorderMsg", <<IsValue(p[1], v), IsValue(p[2], w)>>,
                      <<Put(p[1], w), Put(p[2], v)>>) :
            v \in Occupied(p[1]), w \in Occupied(p[2])} : p \in OrderedPairs}

InjectFaultActions ==
  (IF "message_loss" \in faults THEN LossActions ELSE {})
    \cup (IF "duplication" \in faults THEN DuplicationActions ELSE {})
    \cup (IF "reordering" \in faults THEN ReorderingActions ELSE {})

\* The operations of the faulted machine.
FaultedOperations == ToSet(network.ops) \cup InjectFaultActions

SuccessorsOf(s) == {ApplyEffects(op, s) : op \in {o \in FaultedOperations : GuardsHold(o, s)}}

\* A fault that lists the messages of a Boolean slot: a loss of any slot, or a
\* duplication or reordering of any two.
ListsABoolean ==
  /\ \E f \in ToSet(slots) : IsBoolean(Variable(network, f))
  /\ \/ "message_loss" \in faults
     \/ OrderedPairs # {} /\ faults \cap {"duplication", "reordering"} # {}

\* The early returns refuse unknown fields and, once the faults are injected, a
\* state space that is too large.
FaultsInit ==
  /\ network \in {n \in NetworkSpecs : ValidSpec(n)}
  /\ faults \in FaultSets
  /\ slots \in {l \in SlotLists : ToSet(l) \subseteq Names(network)}
  /\ safety = IF ListsABoolean THEN "raised" ELSE "exploring"
  /\ safety = "raised" \/ StateSpaceUpperBound(network) <= MaxStateSpace
  /\ seen = {InitialState(network)} /\ frontier = seen

\* A level of the exploration: the invariants are evaluated on every successor,
\* known or not, and the first one that fails ends it.
VerifyDistributed ==
  LET found == UNION {SuccessorsOf(s) : s \in frontier}
  IN  /\ safety = "exploring" /\ frontier # {}
      /\ IF \A s \in found : InvariantsHold(network, s)
         THEN /\ seen' = seen \cup found /\ frontier' = found \ seen
              /\ UNCHANGED safety
         ELSE safety' = "failed" /\ UNCHANGED <<seen, frontier>>
      /\ UNCHANGED <<network, faults, slots>>

Proved ==
  /\ safety = "exploring" /\ frontier = {}
  /\ safety' = "proved"
  /\ UNCHANGED <<network, faults, slots, seen, frontier>>

FaultsNext == VerifyDistributed \/ Proved

FaultsSpec == FaultsInit /\ [][FaultsNext]_faultVars

-----------------------------------------------------------------------------
(* An unreliable network over the slots, without any injected operation.   *)

NetworkMoves(s) ==
  LET Holds(f) == s[f] # Sentinel(f)
      names == ToSet(slots)
      lost == {[s EXCEPT ![f] = Sentinel(f)] : f \in {g \in names : Holds(g)}}
      copied == {[s EXCEPT ![p[2]] = s[p[1]]] :
                   p \in {q \in names \X names : Holds(q[1]) /\ ~Holds(q[2])}}
      swapped == {[s EXCEPT ![p[1]] = s[p[2]], ![p[2]] = s[p[1]]] :
                    p \in {q \in names \X names : q[1] # q[2] /\ Holds(q[1]) /\ Holds(q[2])}}
  IN  (IF "message_loss" \in faults THEN lost ELSE {})
        \cup (IF "duplication" \in faults THEN copied ELSE {})
        \cup (IF "reordering" \in faults THEN swapped ELSE {})

DomainMoves(s) == {ApplyEffects(op, s) : op \in {o \in ToSet(network.ops) : GuardsHold(o, s)}}

Moves(s) == NetworkMoves(s) \cup DomainMoves(s)

\* The machine of the states seen.
Unreliable == [initial |-> InitialState(network), next |-> [s \in seen |-> Moves(s) \cap seen]]

\* What the exploration is documented to be: "bounded and exhaustive".
ExplorationIsBounded == \A s \in seen : InBounds(network, s)

\* Besides the moves, the reordering of a slot declared twice: it stays as it is.
Attempts(s) == Moves(s) \cup (IF IsInjective(slots) THEN {} ELSE {s})

(***************************************************************************)
(* What a verdict of verify_distributed says of the unreliable network, as *)
(* long as the fields stay within their bounds.  Every state seen can be   *)
(* reached over it.  Proved: nothing else can, every move keeps the        *)
(* invariants, and so do all states but, perhaps, the first one, of which  *)
(* nothing is asked unless a move leads back to it.  Failed: a move from a *)
(* state that can be reached breaks an invariant.  The network duplicates  *)
(* and reorders between two slots; with one slot declared these faults are *)
(* not refused and the verdict is that of a network without them.          *)
(***************************************************************************)
VerdictIsTheNetworks ==
  ExplorationIsBounded =>
    /\ AllReachable(Unreliable)
    /\ safety = "proved" =>
         /\ \A s \in seen : Moves(s) \subseteq seen /\ \A t \in Moves(s) : InvariantsHold(network, t)
         /\ \A s \in seen \ {InitialState(network)} : InvariantsHold(network, s)
    /\ safety = "failed" =>
         \E s \in seen : \E t \in Attempts(s) : ~InvariantsHold(network, t)

-----------------------------------------------------------------------------
(* The inductive invariant.                                                *)

FaultsTypeOK ==
  /\ network \in NetworkSpecs /\ ValidSpec(network)
  /\ faults \in FaultSets
  /\ slots \in SlotLists /\ ToSet(slots) \subseteq Names(network)
  /\ safety \in {"exploring", "proved", "failed", "raised"}
  /\ \A s \in seen : s = [name \in Names(network) |-> s[name]]
  /\ frontier \subseteq seen

FaultsIInv ==
  /\ InitialState(network) \in seen
  /\ ExplorationIsBounded => IsFiniteSet(seen)
  /\ \A s \in seen \ frontier :
       SuccessorsOf(s) \subseteq seen /\ \A t \in SuccessorsOf(s) : InvariantsHold(network, t)
  /\ \A states \in SUBSET seen :
       InitialState(network) \in states /\ (\A s \in states : SuccessorsOf(s) \cap seen \subseteq states)
         => states = seen
  /\ safety = "proved" => frontier = {}
  /\ safety = "failed" =>
       \E s \in frontier : \E t \in SuccessorsOf(s) : ~InvariantsHold(network, t)
=============================================================================
