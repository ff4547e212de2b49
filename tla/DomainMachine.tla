----------------------------- MODULE DomainMachine -----------------------------
(***************************************************************************)
(* The bounded machine of a V2 domain: declared fields, and guarded        *)
(* operations with simultaneous effects, and the static search for values  *)
(* that can be entered and never left (pipeline/domain_v2.py and           *)
(* domain_v2_model.py).  A domain is a record of                           *)
(*   vars : a sequence of [name, kind, initial], of kind "int" or "bool",  *)
(*          and of [lo, hi, terminal] where the kind is "int";             *)
(*   ops  : a sequence of [name, guards, effects, boolean, stutter];       *)
(*   invs : a sequence of expressions;                                     *)
(*   actors : the number of actors;                                        *)
(*   lock : NoLock, or [var, unlocked, owners].                            *)
(* An expression is a record whose kind is "field", "literal", "old",      *)
(* "not" or a binary operator.  What is computed from one is said here     *)
(* given what is computed from its operands; the recursion that computes   *)
(* it is in DomainExpressions, and EvaluatedAsWritten says that of it      *)
(* which the proofs need.                                                  *)
(***************************************************************************)
EXTENDS Integers, Sequences, FiniteSets, SequencesExt, FiniteSetsExt

CONSTANTS
  NoLock,
  Evaluate(_, _),           \* an expression in a state
  EvaluatePartially(_, _),  \* in some of the fields: a Boolean, or else not decided
  FieldsOf(_),              \* the fields an expression mentions
  PartsOf(_),               \* an expression and the expressions it is made of
  Unknown                   \* the partial value of an expression that is not decided

ASSUME UnknownAssumption == Unknown \notin BOOLEAN

Field(name) == [kind |-> "field", name |-> name]
Literal(value) == [kind |-> "literal", value |-> value]
Old(e) == [kind |-> "old", expression |-> e]
Not(e) == [kind |-> "not", expression |-> e]
Binary(kind, left, right) == [kind |-> kind, left |-> left, right |-> right]

\* The two total values combined by a binary operator.
Combine(kind, left, right) ==
  CASE kind = "eq"  -> left = right
    [] kind = "neq" -> left # right
    [] kind = "lt"  -> left < right
    [] kind = "lte" -> left <= right
    [] kind = "gt"  -> left > right
    [] kind = "gte" -> left >= right
    [] kind = "add" -> left + right
    [] kind = "sub" -> left - right
    [] kind = "and" -> left /\ right
    [] kind = "or"  -> left \/ right
    [] kind = "implies" -> left => right

Operands(e) ==
  CASE e.kind \in {"field", "literal"} -> <<>>
    [] e.kind \in {"old", "not"} -> <<e.expression>>
    [] OTHER -> <<e.left, e.right>>

\* The value of an expression in a state.
ValueOf(e, state, operands) ==
  CASE e.kind = "field"   -> state[e.name]
    [] e.kind = "literal" -> e.value
    [] e.kind = "old"     -> operands[1]
    [] e.kind = "not"     -> ~operands[1]
    [] OTHER -> Combine(e.kind, operands[1], operands[2])

\* What a connective decides although one operand is undecided.
Decided(kind, left, right) ==
  CASE kind = "and" /\ FALSE \in {left, right} -> FALSE
    [] kind = "or" /\ TRUE \in {left, right} -> TRUE
    [] kind = "implies" /\ (left = FALSE \/ right = TRUE) -> TRUE
    [] OTHER -> Unknown

\* Three-valued: fields outside env are undecided.
PartialValueOf(e, env, operands) ==
  CASE e.kind = "field"   -> IF e.name \in DOMAIN env THEN env[e.name] ELSE Unknown
    [] e.kind = "literal" -> e.value
    [] e.kind = "old"     -> operands[1]
    [] e.kind = "not"     -> IF operands[1] = Unknown THEN Unknown ELSE ~operands[1]
    [] OTHER ->
         IF Unknown \notin {operands[1], operands[2]}
         THEN Combine(e.kind, operands[1], operands[2])
         ELSE IF e.kind \in {"and", "or", "implies"}
              THEN Decided(e.kind, operands[1], operands[2])
              ELSE Unknown

MentionedBy(e, operands) == IF e.kind = "field" THEN {e.name} ELSE UNION ToSet(operands)

-----------------------------------------------------------------------------
Names(spec) == {v.name : v \in ToSet(spec.vars)}

Variable(spec, name) == CHOOSE v \in ToSet(spec.vars) : v.name = name

IsBoolean(v) == v.kind = "bool"

Values(v) == IF IsBoolean(v) THEN BOOLEAN ELSE v.lo .. v.hi

GuardsHold(op, state) == \A i \in DOMAIN op.guards : Evaluate(op.guards[i], state)

\* Every right-hand side reads the same pre-state.
ApplyEffects(op, pre) ==
  [name \in DOMAIN pre |->
     IF \E i \in DOMAIN op.effects : op.effects[i].target = name
     THEN Evaluate(
            op.effects[CHOOSE i \in DOMAIN op.effects : op.effects[i].target = name].value, pre)
     ELSE pre[name]]

InitialState(spec) == [name \in Names(spec) |-> Variable(spec, name).initial]

InBounds(spec, state) == \A v \in ToSet(spec.vars) : state[v.name] \in Values(v)

InvariantsHold(spec, state) == \A e \in ToSet(spec.invs) : Evaluate(e, state)

\* The state of which one field is known.
Only(name, value) == [n \in {name} |-> value]

OperationAdmits(op, name, value) ==
  \A i \in DOMAIN op.guards : EvaluatePartially(op.guards[i], Only(name, value)) # FALSE

\* The values an integer field starts with or is assigned as a literal.
EnteredValues(spec, v) ==
  {v.initial} \cup
  UNION {{op.effects[i].value.value :
            i \in {j \in DOMAIN op.effects :
                    op.effects[j].target = v.name /\ op.effects[j].value.kind = "literal"}} :
         op \in ToSet(spec.ops)}

StaticDeadlockFindings(spec) ==
  UNION {{<<v.name, value>> :
            value \in {x \in EnteredValues(spec, v) \ v.terminal :
                         \A op \in ToSet(spec.ops) : ~OperationAdmits(op, v.name, x)}} :
         v \in {w \in ToSet(spec.vars) : ~IsBoolean(w)}}

\* The assignments of values within the bounds to the fields: an integer to some
\* of them and a Boolean to the others.
Merged(spec, i, b) == [name \in Names(spec) |-> IF name \in DOMAIN i THEN i[name] ELSE b[name]]

IntegerFields(spec) == {v \in ToSet(spec.vars) : ~IsBoolean(v)}

IntegerValues(spec) ==
  [{v.name : v \in IntegerFields(spec)} -> UNION {Values(v) : v \in IntegerFields(spec)}]

BooleanValues(spec) == [{v.name : v \in ToSet(spec.vars) \ IntegerFields(spec)} -> BOOLEAN]

Assignments(spec) ==
  {f \in {Merged(spec, i, b) : i \in IntegerValues(spec), b \in BooleanValues(spec)} : InBounds(spec, f)}

-----------------------------------------------------------------------------
(* The static estimate of the size of the state space.                     *)

HasResults(spec) == \E i \in DOMAIN spec.ops : spec.ops[i].stutter

Size(v) == IF IsBoolean(v) THEN 2 ELSE v.hi - v.lo + 1

Product(factors) ==
  LET product[k \in 0 .. Len(factors)] ==
        IF k = 0 THEN 1 ELSE product[k - 1] * factors[k]
  IN  product[Len(factors)]

Power(base, n) == Product([i \in 1 .. n |-> base])

\* No result yet, true or false, per actor.
ResultVectors(spec) == IF HasResults(spec) THEN Power(3, spec.actors) ELSE 1

StateSpaceUpperBound(spec) ==
  Product([i \in DOMAIN spec.vars |-> Size(spec.vars[i])])
    * ResultVectors(spec)
    * (IF spec.lock # NoLock THEN Power(1 + 4 * Len(spec.ops), spec.actors) ELSE 1)

(***************************************************************************)
(* What DomainSpecV2's validators admit, as far as the machine depends on  *)
(* it: distinct names, initial values within bounds, one effect per        *)
(* target, and a lock that starts free, has one owner value per actor and  *)
(* is mentioned by no operation.                                           *)
(***************************************************************************)
OperationFields(op) ==
  (UNION {FieldsOf(e) : e \in ToSet(op.guards)})
    \cup (UNION {{op.effects[i].target} \cup FieldsOf(op.effects[i].value) : i \in DOMAIN op.effects})

ValidLock(spec) ==
  LET lock == Variable(spec, spec.lock.var)
      owners == spec.lock.owners
  IN  /\ spec.actors >= 2
      /\ spec.lock.var \in Names(spec) /\ ~IsBoolean(lock)
      /\ Len(owners) = spec.actors /\ IsInjective(owners)
      /\ spec.lock.unlocked \notin ToSet(owners)
      /\ lock.initial = spec.lock.unlocked
      /\ ToSet(owners) \subseteq Values(lock)
      /\ \A op \in ToSet(spec.ops) :
            ~op.boolean /\ ~op.stutter /\ spec.lock.var \notin OperationFields(op)

ValidSpec(spec) ==
  /\ \A i, j \in DOMAIN spec.vars : spec.vars[i].name = spec.vars[j].name => i = j
  /\ \A v \in ToSet(spec.vars) : v.initial \in Values(v)
  /\ \A op \in ToSet(spec.ops) :
        /\ op.stutter => op.boolean
        /\ OperationFields(op) \subseteq Names(spec)
        /\ \A i, j \in DOMAIN op.effects : op.effects[i].target = op.effects[j].target => i = j
  /\ spec.lock # NoLock => ValidLock(spec)

-----------------------------------------------------------------------------
(***************************************************************************)
(* What is computed from an expression of a domain is computed by          *)
(* recursion over its parts, in every state within the bounds.             *)
(***************************************************************************)
OfOperands(e, op(_)) == [i \in DOMAIN Operands(e) |-> op(Operands(e)[i])]

EvaluatedPartially(e, env) ==
  EvaluatePartially(e, env) =
    PartialValueOf(e, env, OfOperands(e, LAMBDA f : EvaluatePartially(f, env)))

EvaluatedAsWritten(e, spec) ==
  /\ e \in PartsOf(e) /\ IsFiniteSet(PartsOf(e))
  /\ \A f \in PartsOf(e) :
       /\ f \in PartsOf(f) /\ PartsOf(f) \subseteq PartsOf(e)
       /\ \A g \in ToSet(Operands(f)) : g \in PartsOf(g) /\ PartsOf(g) \subseteq PartsOf(f) \ {f}
       /\ FieldsOf(f) = MentionedBy(f, OfOperands(f, FieldsOf))
       /\ \A s \in Assignments(spec) :
            /\ Evaluate(f, s) = ValueOf(f, s, OfOperands(f, LAMBDA g : Evaluate(g, s)))
            /\ \A name \in Names(spec) : EvaluatedPartially(f, Only(name, s[name]))
=============================================================================
