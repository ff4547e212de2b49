---------------------------- MODULE DomainTraversal ----------------------------
(***************************************************************************)
(* validate_transitions_and_invariants of pipeline/domain_v2_model.py: the *)
(* breadth-first exploration of a domain under limits on the states, the   *)
(* transitions and the tries ("work items").  Of the two nested loops over *)
(* a popped state, outer and inner are the iterations; each iteration is a *)
(* try, which is charged, may find a successor that is out of bounds or    *)
(* breaks an invariant, and may append an edge.                            *)
(*                                                                         *)
(* A state holds the domain's fields, and per actor the phase of the lock  *)
(* protocol, the pending operation and the last call's result.             *)
(***************************************************************************)
EXTENDS DomainMachine, Machines

CONSTANTS Specs, Limits

\* What DomainSpecV2 and _BoundedFrontier require of their inputs, and that
\* expressions are evaluated by the code's recursion.
IsSequence(s) == Len(s) \in Nat /\ s = [i \in 1 .. Len(s) |-> s[i]]

ASSUME TraversalAssumption ==
  /\ \A sp \in Specs :
       /\ IsSequence(sp.vars) /\ IsSequence(sp.ops) /\ sp.actors \in Nat \ {0}
       /\ \A i \in DOMAIN sp.vars : ~IsBoolean(sp.vars[i]) => sp.vars[i].lo \in Int /\ sp.vars[i].hi \in Int
       /\ sp.lock # NoLock => IsSequence(sp.lock.owners)
       /\ \A i \in DOMAIN sp.ops : LET op == sp.ops[i] IN
            /\ IsSequence(op.guards) /\ IsSequence(op.effects)
            /\ op.boolean \in BOOLEAN /\ op.stutter \in BOOLEAN
            /\ ValidSpec(sp) =>
                 /\ \A j \in DOMAIN op.guards : EvaluatedAsWritten(op.guards[j], sp)
                 /\ \A j \in DOMAIN op.effects : EvaluatedAsWritten(op.effects[j].value, sp)
  /\ Limits \subseteq [states : Nat \ {0}, transitions : Nat \ {0}, work : Nat \ {0}]

VARIABLES
  spec,         \* the domain explored
  limits,       \* [states, transitions, work]
  verdict,      \* exploring, accepted, invalid (V2ValidationError), exceeds
  queue,        \* states discovered and not expanded
  discovered,
  transitions, work,
  state,        \* the state being expanded
  outer,        \* the iteration of the outer loop; past the last when it is over
  inner         \* the iteration of the loop inside it; 0 before that loop

traversalVars ==
  <<spec, limits, verdict, queue, discovered, transitions, work, state, outer, inner>>

Actors == 1 .. spec.actors

Locked == spec.lock # NoLock

\* _freeze keys a state by all of this.
Initially(sp) ==
  [fields |-> InitialState(sp),
   pc |-> [a \in 1 .. sp.actors |-> "IDLE"],
   pending |-> [a \in 1 .. sp.actors |-> 0],
   result |-> [a \in 1 .. sp.actors |-> "none"]]

Valid(s) == InBounds(spec, s.fields) /\ InvariantsHold(spec, s.fields)

-----------------------------------------------------------------------------
(* The loops over a state.                                                 *)

\* A lock protocol loops over the actors, else over the operations.
OuterTries(sp) == IF sp.lock # NoLock THEN sp.actors ELSE Len(sp.ops)

\* An idle actor may invoke each operation; an operation is called by one
\* caller or, if it is boolean, by each actor.
InnerTries(s, n) ==
  LET op == spec.ops[n]
      calls == IF op.boolean THEN spec.actors ELSE 1
      refusals == IF op.stutter THEN spec.actors ELSE 0
  IN  IF Locked THEN (IF s.pc[n] = "IDLE" THEN Len(spec.ops) ELSE 0)
      ELSE IF GuardsHold(op, s.fields) THEN calls ELSE refusals

\* A mutant: an actor does not wait for the lock.
MayBarge(s, a) == s.pc[a] # "IDLE"

\* An actor may take its phase's step of the lock protocol.
MayStep(s, a) ==
  \/ s.pc[a] \in {"ACQUIRED", "LINEARIZED", "RELEASED"}
  \/ s.pc[a] = "INVOKED" /\ s.fields[spec.lock.var] = spec.lock.unlocked

\* Acquisition, commit or rejection, release, response.
ProtocolPost(s, a) ==
  LET op == spec.ops[s.pending[a]]
      Lock(value) == [s.fields EXCEPT ![spec.lock.var] = value]
      Move(fields, phase) == [s EXCEPT !.fields = fields, !.pc[a] = phase]
  IN  CASE s.pc[a] = "INVOKED" -> Move(Lock(spec.lock.owners[a]), "ACQUIRED")
        [] s.pc[a] = "ACQUIRED" /\ GuardsHold(op, s.fields) ->
             Move(ApplyEffects(op, s.fields), "LINEARIZED")
        [] s.pc[a] = "ACQUIRED" /\ ~GuardsHold(op, s.fields) ->
             Move(Lock(spec.lock.unlocked), "RELEASED")
        [] s.pc[a] = "LINEARIZED" -> Move(Lock(spec.lock.unlocked), "RELEASED")
        [] s.pc[a] = "RELEASED" -> [s EXCEPT !.pc[a] = "IDLE", !.pending[a] = 0]

\* A call of an operation that is enabled, or that refuses where it is not.
CallPost(s, n, caller) ==
  LET op == spec.ops[n]
      post == [s EXCEPT !.fields = ApplyEffects(op, s.fields)]
  IN  IF ~GuardsHold(op, s.fields) THEN [s EXCEPT !.result[caller] = "false"]
      ELSE IF op.boolean /\ HasResults(spec) THEN [post EXCEPT !.result[caller] = "true"]
      ELSE post

\* The successors a try appends: none or one.
Posts(s, n, k) ==
  IF Locked
  THEN IF k # 0 THEN {[s EXCEPT !.pc[n] = "INVOKED", !.pending[n] = k]}
       ELSE IF MayStep(s, n) THEN {ProtocolPost(s, n)} ELSE {}
  ELSE IF k # 0 THEN {CallPost(s, n, k)} ELSE {}

-----------------------------------------------------------------------------
TraversalInit ==
  /\ spec \in {s \in Specs : ValidSpec(s)}
  /\ limits \in Limits
  /\ verdict = "start"
  /\ queue = <<>> /\ discovered = {}
  /\ transitions = 0 /\ work = 0
  /\ state = Initially(spec) /\ outer = OuterTries(spec) + 1 /\ inner = 0

\* The initial state is checked and counts as discovered.
Begin ==
  /\ verdict = "start"
  /\ IF Valid(Initially(spec))
     THEN /\ verdict' = "exploring"
          /\ queue' = <<Initially(spec)>>
          /\ discovered' = {Initially(spec)}
     ELSE verdict' = "invalid" /\ UNCHANGED <<queue, discovered>>
  /\ UNCHANGED <<spec, limits, transitions, work, state, outer, inner>>

\* The loops over the last state are over.
Expanded == outer > OuterTries(spec)

Pop ==
  /\ verdict = "exploring" /\ Expanded /\ queue # <<>>
  /\ state' = Head(queue)
  /\ queue' = Tail(queue)
  /\ outer' = 1 /\ inner' = 0
  /\ UNCHANGED <<spec, limits, verdict, discovered, transitions, work>>

\* The next iteration.
Advance ==
  IF inner < InnerTries(state, outer)
  THEN inner' = inner + 1 /\ UNCHANGED outer
  ELSE outer' = outer + 1 /\ inner' = 0

\* A try is next, and step() still admits it.
Charge ==
  /\ verdict = "exploring" /\ ~Expanded
  /\ work < limits.work
  /\ work' = work + 1

OutOfWork ==
  /\ verdict = "exploring" /\ ~Expanded
  /\ work >= limits.work
  /\ verdict' = "exceeds"
  /\ UNCHANGED <<spec, limits, queue, discovered, transitions, work, state, outer, inner>>

\* A try without a successor of its own.
TryNone ==
  /\ Charge
  /\ Posts(state, outer, inner) = {}
  /\ Advance
  /\ UNCHANGED <<spec, limits, verdict, queue, discovered, transitions, state>>

\* A mutant: edges to known states are not counted against their limit.
RoomForStates(post) == post \notin discovered => Cardinality(discovered) < limits.states

\* append and discover have room for this edge.
Room(post) ==
  /\ transitions < limits.transitions
  /\ post \notin discovered => Cardinality(discovered) < limits.states

TryEdge ==
  /\ Charge
  /\ \E post \in Posts(state, outer, inner) :
       IF Valid(post) /\ Room(post)
       THEN /\ transitions' = transitions + 1
            /\ queue' = IF post \in discovered THEN queue ELSE Append(queue, post)
            /\ discovered' = discovered \cup {post}
            /\ Advance
            /\ UNCHANGED verdict
       ELSE /\ verdict' = IF Valid(post) THEN "exceeds" ELSE "invalid"
            /\ UNCHANGED <<queue, discovered, transitions, outer, inner>>
  /\ UNCHANGED <<spec, limits, state>>

\* The frontier is empty: a machine without any transition is refused.
Finish ==
  /\ verdict = "exploring" /\ Expanded /\ queue = <<>>
  /\ verdict' = IF transitions = 0 THEN "invalid" ELSE "accepted"
  /\ UNCHANGED <<spec, limits, queue, discovered, transitions, work, state, outer, inner>>

TraversalNext == Begin \/ Pop \/ OutOfWork \/ TryNone \/ TryEdge \/ Finish

TraversalSpec == TraversalInit /\ [][TraversalNext]_traversalVars

-----------------------------------------------------------------------------
(* The machine the domain denotes: its labelled edges, by quantifiers.     *)

FieldSteps(f) ==
  {ApplyEffects(op, f) : op \in {o \in ToSet(spec.ops) : GuardsHold(o, f)}}

\* The callers of an operation; a void one has a single caller.
Callers(i) == IF spec.ops[i].boolean THEN Actors ELSE {1}

\* A call that is done, whose result is recorded where there are results, and
\* one that is refused.
Done(s, i, a) ==
  [s EXCEPT !.fields = ApplyEffects(spec.ops[i], s.fields),
            !.result = [b \in Actors |->
                          IF b = a /\ spec.ops[i].boolean /\ HasResults(spec)
                          THEN "true" ELSE s.result[b]]]

Refused(s, a) == [s EXCEPT !.result = [b \in Actors |-> IF b = a THEN "false" ELSE s.result[b]]]

AtomicEdges(s) ==
  LET enabled == {i \in DOMAIN spec.ops : GuardsHold(spec.ops[i], s.fields)}
      refusing == {i \in DOMAIN spec.ops \ enabled : spec.ops[i].stutter}
  IN  (UNION {{<<i, a, Done(s, i, a)>> : a \in Callers(i)} : i \in enabled})
        \cup (UNION {{<<i, a, Refused(s, a)>> : a \in Actors} : i \in refusing})

Targets(s) == {e[3] : e \in AtomicEdges(s)}

\* The edges of the discovered states.
AtomicTransitions == UNION {{s} \X AtomicEdges(s) : s \in discovered}

\* step() is charged once per operation and once more per edge.
AtomicWork == Cardinality(discovered) * Len(spec.ops) + Cardinality(AtomicTransitions)

\* The machine of the discovered states, and what its edges reach beyond them.
Explored ==
  [initial |-> Initially(spec),
   next |-> [s \in discovered |-> Targets(s) \cap discovered]]

Beyond == (UNION {Targets(s) : s \in discovered}) \ discovered

(***************************************************************************)
(* A domain without a lock protocol is accepted exactly on its reachable   *)
(* states: no edge leads out of those discovered, all of them are          *)
(* reachable and satisfy the bounds and the invariants, every edge is      *)
(* counted once, and the limits are kept; so no limit makes a partial      *)
(* exploration pass for a complete one.                                    *)
(***************************************************************************)
AcceptedIsExhaustive ==
  verdict = "accepted" /\ ~Locked =>
    /\ AllReachable(Explored) /\ Beyond = {}
    /\ \A s \in discovered : Valid(s)
    /\ transitions = Cardinality(AtomicTransitions)
    /\ work = AtomicWork
    /\ Cardinality(discovered) <= limits.states
    /\ transitions <= limits.transitions /\ work <= limits.work

(***************************************************************************)
(* A refusal has a cause in the machine.  The states discovered until then *)
(* are reachable, and an invalid verdict comes from an invalid state that  *)
(* is the first one or the target of an edge of theirs, or from a machine  *)
(* without any edge; an exceeded limit from states, edges or tries of      *)
(* these that really are more than the limit.                              *)
(***************************************************************************)
RefusalHasCause ==
  ~Locked /\ verdict \in {"invalid", "exceeds"} =>
    /\ discovered = {} \/ AllReachable(Explored)
    /\ verdict = "invalid" =>
         \/ ~Valid(Initially(spec))
         \/ AtomicEdges(Initially(spec)) = {}
         \/ \E s \in Beyond : ~Valid(s)
    /\ verdict = "exceeds" =>
         \/ Cardinality(discovered) = limits.states /\ \E s \in Beyond : Valid(s)
         \/ Cardinality(AtomicTransitions) > limits.transitions
         \/ AtomicWork > limits.work

\* An accepted domain was explored in full and every state found is safe; a
\* refused one is invalid or larger than its limits.
VerdictIsExact == AcceptedIsExhaustive /\ RefusalHasCause

-----------------------------------------------------------------------------
Inside(s, a) == s.pc[a] \in {"ACQUIRED", "LINEARIZED"}

\* The field values found where nobody is inside the lock, and their machine
\* when each operation is one step.
FreeFields == {s.fields : s \in {t \in discovered : \A a \in Actors : ~Inside(t, a)}}

FieldMachine == [initial |-> InitialState(spec), next |-> [f \in FreeFields |-> FieldSteps(f)]]

(***************************************************************************)
(* The lock protocol makes operations atomic: what its exploration         *)
(* accepts has the lock owned by exactly the actor inside, and, where the  *)
(* lock is free, exactly the field values that the operations reach when   *)
(* each is one step.                                                       *)
(***************************************************************************)
LockMakesAtomic ==
  verdict = "accepted" /\ Locked =>
    /\ \A s \in discovered, a \in Actors :
         Inside(s, a) <=> s.fields[spec.lock.var] = spec.lock.owners[a]
    /\ AllReachable(FieldMachine)

\* The static estimate, by which other checkers refuse a domain before they
\* explore it, bounds whatever exploration discovers.
EstimateIsUpperBound ==
  verdict = "accepted" => Cardinality(discovered) <= StateSpaceUpperBound(spec)

(***************************************************************************)
(* A static DEADLOCK_RISK is real: no operation is enabled in a discovered *)
(* state that has the reported value, whatever the other fields hold.      *)
(***************************************************************************)
DeadlockFindingIsReal ==
  \A finding \in StaticDeadlockFindings(spec) :
    ~\E s \in discovered :
        /\ s.fields[finding[1]] = finding[2]
        /\ FieldSteps(s.fields) # {}

\* What is said of a domain before it is explored is true of what is explored:
\* the estimate bounds the states, and a deadlock finding is a deadlock.
StaticAnalysisIsSound == EstimateIsUpperBound /\ DeadlockFindingIsReal

-----------------------------------------------------------------------------
(* The inductive invariant.                                                *)

DomainStates(sp) ==
  [fields : Assignments(sp),
   pc : [1 .. sp.actors -> {"IDLE", "INVOKED", "ACQUIRED", "LINEARIZED", "RELEASED"}],
   pending : [1 .. sp.actors -> 0 .. Len(sp.ops)],
   result : [1 .. sp.actors -> {"none", "true", "false"}]]

TraversalTypeOK ==
  /\ spec \in Specs /\ ValidSpec(spec) /\ limits \in Limits
  /\ verdict \in {"start", "exploring", "accepted", "invalid", "exceeds"}
  /\ IsFiniteSet(discovered) /\ discovered \subseteq DomainStates(spec)
  /\ queue \in Seq(discovered)
  /\ transitions \in Nat /\ work \in Nat /\ outer \in Nat /\ inner \in Nat

\* The tries of some states, the states they append, and the tries made.
Tries(states) ==
  UNION {{<<s, n, k>> : k \in 0 .. InnerTries(s, n)} : s \in states, n \in 1 .. OuterTries(spec)}

Appends(t) == Posts(t[1], t[2], t[3])

Successors(s) == UNION {Appends(t) : t \in Tries({s})}

Made ==
  {t \in Tries(discovered \ ToSet(queue)) :
     t[1] = state => t[2] < outer \/ (t[2] = outer /\ t[3] < inner)}

\* Nothing but what edges lead to has been discovered.
Generated ==
  \A states \in SUBSET discovered :
    /\ Initially(spec) \in states
    /\ \A s \in states : Successors(s) \cap discovered \subseteq states
    => states = discovered

\* The position of the loops, and the queue.
Positioned ==
  /\ IsInjective(queue)
  /\ \/ Expanded
     \/ state \in discovered \ ToSet(queue) /\ outer >= 1 /\ inner <= InnerTries(state, outer)
  /\ verdict = "start" => discovered = {} /\ Expanded
  /\ verdict \in {"exploring", "accepted"} => Initially(spec) \in discovered
  /\ discovered = {} \/ Initially(spec) \in discovered
  /\ verdict = "accepted" => Expanded /\ queue = <<>>

\* Each try made is charged once and each of its edges counted once.
Counted ==
  /\ verdict \notin {"invalid", "exceeds"} => work = Cardinality(Made)
  /\ transitions = Cardinality({t \in Made : Appends(t) # {}})
  /\ work <= limits.work /\ transitions <= limits.transitions
  /\ Cardinality(discovered) <= limits.states

Caused ==
  /\ verdict = "invalid" =>
       \/ ~Valid(Initially(spec))
       \/ Expanded /\ queue = <<>> /\ transitions = 0 /\ discovered # {}
       \/ ~Expanded /\ \E post \in Posts(state, outer, inner) : ~Valid(post)
  /\ verdict = "exceeds" =>
       /\ ~Expanded
       /\ \/ Cardinality(Made) >= limits.work
          \/ \E post \in Posts(state, outer, inner) : Valid(post) /\ ~Room(post)

TraversalIInv ==
  /\ Positioned
  /\ Counted
  /\ \A s \in discovered : Valid(s)
  /\ \A t \in Made : Appends(t) \subseteq discovered
  /\ Generated
  /\ Caused
=============================================================================
