------------------------------ MODULE DomainProofs ------------------------------
(***************************************************************************)
(* Proofs about the bounded checkers, for any domains, limits, machines,   *)
(* mappings and fault models: the exploration of DomainTraversal, the      *)
(* isomorphism of DomainEquivalence and the verdict of NetworkFaults.      *)
(***************************************************************************)
EXTENDS DomainTraversal, DomainEquivalence, NetworkFaults,
        FiniteSetTheorems, WellFoundedInduction, TLAPS

-----------------------------------------------------------------------------
(* The states a machine reaches                                            *)
Below == {pair \in Nat \X Nat : pair[1] < pair[2]}

\* A nonempty set of naturals has a least element.
LEMMA Least ==
  ASSUME NEW S, S \subseteq Nat, S # {}
  PROVE  \E n \in S : \A k \in S : n <= k
  <1>1. IsWellFoundedOn(Below, Nat)
    BY NatLessThanWellFounded DEF OpToRel, Below
  <1>2. PICK n \in S : \A k \in S : ~ (<<k, n>> \in Below)
    BY <1>1, WFMin
  <1>3. ASSUME NEW k \in S, ~ (n <= k)
        PROVE  FALSE
    <2>1. k \in Nat /\ n \in Nat /\ k < n
      BY <1>3
    <2>2. <<k, n>> \in Nat \X Nat /\ <<k, n>>[1] < <<k, n>>[2]
      BY <2>1
    <2> QED
      BY <1>2, <2>2 DEF Below
  <1> QED
    BY <1>3

\* f[n] is what the exploration has seen after n rounds, for every n up to N.
Rounds(f, m, N) ==
  f = [n \in 0 .. N |-> IF n = 0 THEN {m.initial}
                        ELSE f[n - 1] \cup UNION {m.next[s] : s \in f[n - 1]}]

Closed(m, S) == \A s \in S : m.next[s] \subseteq S

LEMMA RoundsStep ==
  ASSUME NEW f, NEW m, NEW N \in Nat, Rounds(f, m, N), NEW n \in 0 .. N
  PROVE  /\ n = 0 => f[n] = {m.initial}
         /\ n # 0 => /\ n - 1 \in 0 .. N
                     /\ f[n] = f[n - 1] \cup UNION {m.next[s] : s \in f[n - 1]}
  <1>1. f[n] = IF n = 0 THEN {m.initial}
               ELSE f[n - 1] \cup UNION {m.next[s] : s \in f[n - 1]}
    BY DEF Rounds
  <1> QED
    BY <1>1

LEMMA RoundsExist ==
  ASSUME NEW m, NEW N \in Nat
  PROVE  \E f : Rounds(f, m, N)
  <1> DEFINE S == {n \in Nat : ~ \E f : Rounds(f, m, n)}
  <1>1. SUFFICES ASSUME S # {}
                 PROVE  FALSE
    OBVIOUS
  <1>2. S \subseteq Nat
    OBVIOUS
  <1>3. PICK k \in S : \A n \in S : k <= n
    <2> HIDE DEF S
    <2> QED
      BY <1>1, <1>2, Least
  <1>4. CASE k = 0
    <2> DEFINE f == [n \in 0 .. 0 |-> {m.initial}]
    <2>1. f = [n \in 0 .. 0 |-> IF n = 0 THEN {m.initial}
                                ELSE f[n - 1] \cup UNION {m.next[s] : s \in f[n - 1]}]
      OBVIOUS
    <2>2. Rounds(f, m, 0)
      BY <2>1 DEF Rounds
    <2> QED
      BY <1>3, <1>4, <2>2
  <1>5. CASE k # 0
    <2>1. k \in Nat /\ k - 1 \in Nat /\ k - 1 \notin S
      BY <1>3, <1>5
    <2>2. PICK f : Rounds(f, m, k - 1)
      BY <2>1
    <2> DEFINE last == f[k - 1] \cup UNION {m.next[s] : s \in f[k - 1]}
               g == [n \in 0 .. k |-> IF n = k THEN last ELSE f[n]]
    <2>3. ASSUME NEW n \in 0 .. k
          PROVE  g[n] = IF n = 0 THEN {m.initial}
                        ELSE g[n - 1] \cup UNION {m.next[s] : s \in g[n - 1]}
      <3>1. n # 0 => n - 1 \in 0 .. k /\ n - 1 # k
        BY <2>1
      <3>2. n # k => n \in 0 .. k - 1
        BY <2>1
      <3>3. CASE n = k
        <4>1. g[n] = last /\ g[n - 1] = f[k - 1]
          BY <1>5, <2>1, <3>1, <3>3
        <4> QED
          BY <1>5, <3>3, <4>1
      <3>4. CASE n # k
        <4>1. f[n] = IF n = 0 THEN {m.initial}
                     ELSE f[n - 1] \cup UNION {m.next[s] : s \in f[n - 1]}
          BY <2>2, <3>2, <3>4 DEF Rounds
        <4>2. g[n] = f[n] /\ (n # 0 => g[n - 1] = f[n - 1])
          BY <3>1, <3>4
        <4> QED
          BY <4>1, <4>2
      <3> QED
        BY <3>3, <3>4
    <2>4. g = [n \in 0 .. k |-> g[n]]
      OBVIOUS
    <2>5. Rounds(g, m, k)
      <3> HIDE DEF g
      <3> QED
        BY <2>3, <2>4 DEF Rounds
    <2> QED
      BY <1>3, <2>5
  <1> QED
    BY <1>4, <1>5

LEMMA ReachableIs ==
  ASSUME NEW m, IsMachine(m)
  PROVE  \E f, N : /\ N = Cardinality(States(m)) /\ N \in Nat
                   /\ Rounds(f, m, N) /\ ReachableStates(m) = f[N]
  <1> DEFINE N == Cardinality(States(m))
             Up(f) == f = [n \in 0 .. N |->
                             IF n = 0 THEN {m.initial}
                             ELSE f[n - 1] \cup UNION {m.next[s] : s \in f[n - 1]}]
  <1>1. N \in Nat
    BY FS_CardinalityType DEF IsMachine
  <1>2. \E f : Up(f)
    <2> HIDE DEF N
    <2>1. \E f : Rounds(f, m, N)
      BY <1>1, RoundsExist
    <2> QED
      BY <2>1 DEF Rounds
  <1>3. ReachableStates(m) = (CHOOSE f : Up(f))[N]
    <2>1. Cardinality(States(m)) = N
      OBVIOUS
    <2> HIDE DEF N
    <2> QED
      BY Zenon, <2>1 DEF ReachableStates
  <1>4. Up(CHOOSE f : Up(f))
    <2> HIDE DEF Up
    <2> QED
      BY <1>2
  <1>5. \E f : Rounds(f, m, N) /\ ReachableStates(m) = f[N]
    <2> HIDE DEF N
    <2> QED
      BY <1>3, <1>4 DEF Rounds
  <1> QED
    BY <1>1, <1>5

\* Whatever holds of the initial state and follows the successors holds of what
\* the exploration has seen.
LEMMA SeenWithin ==
  ASSUME NEW f, NEW m, NEW N \in Nat, Rounds(f, m, N), NEW T, m.initial \in T,
         \A s \in T : m.next[s] \subseteq T, NEW n \in 0 .. N
  PROVE  f[n] \subseteq T
  <1> DEFINE S == {k \in 0 .. N : ~ (f[k] \subseteq T)}
  <1>1. SUFFICES ASSUME S # {}
                 PROVE  FALSE
    OBVIOUS
  <1>2. S \subseteq Nat
    OBVIOUS
  <1>3. PICK k \in S : \A j \in S : k <= j
    <2> HIDE DEF S
    <2> QED
      BY <1>1, <1>2, Least
  <1>4. k # 0 /\ k \in 0 .. N
    BY <1>3, RoundsStep
  <1>5. k - 1 \in 0 .. N /\ f[k] = f[k - 1] \cup UNION {m.next[s] : s \in f[k - 1]}
    <2> HIDE DEF S
    <2> QED
      BY <1>4, RoundsStep
  <1>6. f[k - 1] \subseteq T
    BY <1>3, <1>4, <1>5
  <1> QED
    BY <1>3, <1>5, <1>6

\* Once a round finds nothing, no later one does.
LEMMA RoundsEnd ==
  ASSUME NEW f, NEW m, NEW N \in Nat, Rounds(f, m, N), ~ Closed(m, f[N]), NEW n \in 0 .. N
  PROVE  ~ Closed(m, f[n])
  <1> DEFINE S == {k \in 0 .. N : Closed(m, f[N - k])}
  <1>1. SUFFICES ASSUME S # {}
                 PROVE  FALSE
    <2>1. N - n \in 0 .. N /\ N - (N - n) = n
      OBVIOUS
    <2>2. N - n \notin S
      BY <1>1
    <2> QED
      BY <2>1, <2>2
  <1>2. S \subseteq Nat
    OBVIOUS
  <1>3. PICK k \in S : \A j \in S : k <= j
    <2> HIDE DEF S
    <2> QED
      BY <1>1, <1>2, Least
  <1>4. k \in 0 .. N /\ Closed(m, f[N - k])
    BY <1>3
  <1>5. k # 0
    <2>1. N - 0 = N
      OBVIOUS
    <2> QED
      BY <1>4, <2>1
  <1>6. /\ k - 1 \in 0 .. N /\ N - k \in 0 .. N /\ N - (k - 1) \in 0 .. N
        /\ N - (k - 1) # 0 /\ (N - (k - 1)) - 1 = N - k
    BY <1>4, <1>5
  <1>7. f[N - (k - 1)] = f[N - k] \cup UNION {m.next[s] : s \in f[N - k]}
    BY <1>6, RoundsStep
  <1>8. f[N - (k - 1)] = f[N - k]
    BY <1>4, <1>7 DEF Closed
  <1>9. k - 1 \in S
    BY <1>4, <1>6, <1>8
  <1> QED
    BY <1>3, <1>4, <1>9

\* The exploration ends with a set of states that contains their successors.
LEMMA ReachableClosed ==
  ASSUME NEW m, IsMachine(m)
  PROVE  /\ IsFiniteSet(ReachableStates(m))
         /\ m.initial \in ReachableStates(m)
         /\ ReachableStates(m) \subseteq States(m)
         /\ Closed(m, ReachableStates(m))
  <1> DEFINE All == States(m)
  <1>1. /\ IsFiniteSet(All) /\ m.initial \in All /\ \A s \in All : m.next[s] \subseteq All
    BY DEF IsMachine
  <1>2. PICK f, N : /\ N = Cardinality(All) /\ N \in Nat /\ Rounds(f, m, N)
                    /\ ReachableStates(m) = f[N]
    BY ReachableIs
  <1> HIDE DEF All
  <1>3. ASSUME NEW n \in 0 .. N
        PROVE  f[n] \subseteq All /\ IsFiniteSet(f[n]) /\ Cardinality(f[n]) \in Nat
    <2>1. f[n] \subseteq All
      BY <1>1, <1>2, SeenWithin
    <2> QED
      BY <1>1, <2>1, FS_Subset, FS_CardinalityType
  <1>4. N \in 0 .. N /\ 0 \in 0 .. N
    BY <1>2
  <1>5. Closed(m, f[N])
    <2> SUFFICES ASSUME ~ Closed(m, f[N])
                 PROVE  FALSE
      OBVIOUS
    <2> DEFINE S == {n \in 0 .. N : ~ (Cardinality(f[n]) > n)}
    <2>1. S \subseteq Nat
      BY <1>2
    <2>2. ASSUME S # {}
          PROVE  FALSE
      <3>1. PICK k \in S : \A j \in S : k <= j
        <4> HIDE DEF S
        <4> QED
          BY <2>1, <2>2, Least
      <3>2. k \in 0 .. N /\ ~ (Cardinality(f[k]) > k)
        BY <3>1
      <3>3. k # 0
        <4>1. f[0] = {m.initial}
          BY <1>2, <1>4, RoundsStep
        <4>2. Cardinality(f[0]) = 1
          BY <4>1, FS_Singleton
        <4> QED
          BY <3>2, <4>2
      <3>4. k - 1 \in 0 .. N /\ k - 1 \notin S
        BY <1>2, <3>1, <3>2, <3>3
      <3>5. Cardinality(f[k - 1]) > k - 1
        BY <3>4
      <3>6. f[k] = f[k - 1] \cup UNION {m.next[s] : s \in f[k - 1]}
        BY <1>2, <3>2, <3>3, RoundsStep
      <3>7. f[k - 1] \subseteq f[k] /\ f[k - 1] # f[k]
        <4>1. ~ Closed(m, f[k - 1])
          BY <1>2, <3>4, RoundsEnd
        <4> QED
          BY <3>6, <4>1 DEF Closed
      <3>8. /\ IsFiniteSet(f[k]) /\ Cardinality(f[k]) \in Nat
            /\ Cardinality(f[k - 1]) \in Nat
        BY <1>3, <3>2, <3>4
      <3>9. Cardinality(f[k - 1]) <= Cardinality(f[k])
            /\ Cardinality(f[k - 1]) # Cardinality(f[k])
        BY <3>7, <3>8, FS_Subset
      <3> QED
        BY <1>2, <3>2, <3>5, <3>8, <3>9
    <2>3. Cardinality(f[N]) > N
      BY <1>4, <2>2
    <2>4. Cardinality(f[N]) <= N
      BY <1>1, <1>2, <1>3, <1>4, FS_Subset
    <2> QED
      BY <1>2, <1>3, <1>4, <2>3, <2>4
  <1>6. m.initial \in f[N]
    <2> DEFINE S == {n \in 0 .. N : m.initial \notin f[n]}
    <2>1. SUFFICES ASSUME S # {}
                   PROVE  FALSE
      BY <1>4
    <2>2. S \subseteq Nat
      BY <1>2
    <2>3. PICK k \in S : \A j \in S : k <= j
      <3> HIDE DEF S
      <3> QED
        BY <2>1, <2>2, Least
    <2>4. k # 0
      BY <1>2, <2>3, RoundsStep
    <2>5. k - 1 \in 0 .. N /\ k - 1 \notin S
      BY <1>2, <2>3, <2>4
    <2>6. f[k - 1] \subseteq f[k]
      BY <1>2, <2>3, <2>4, RoundsStep
    <2> QED
      BY <2>3, <2>5, <2>6
  <1> QED
    BY <1>2, <1>3, <1>4, <1>5, <1>6 DEF All

\* Nothing is reached outside of a set that has the first state and is closed.
LEMMA ReachableLeast ==
  ASSUME NEW m, IsMachine(m), NEW T, m.initial \in T,
         \A s \in T : m.next[s] \subseteq T
  PROVE  ReachableStates(m) \subseteq T
  <1>1. PICK f, N : /\ N \in Nat /\ Rounds(f, m, N)
                    /\ ReachableStates(m) = f[N]
    BY ReachableIs
  <1>2. N \in 0 .. N
    BY <1>1
  <1> QED
    BY <1>1, <1>2, SeenWithin

-----------------------------------------------------------------------------
(* Finite sets, and the assignments of a domain                            *)

\* The image of a finite set is finite.
LEMMA FiniteImage ==
  ASSUME NEW S, IsFiniteSet(S), NEW f
  PROVE  IsFiniteSet({f[x] : x \in S})
  <1> DEFINE T == {f[x] : x \in S}
             g == [x \in S |-> f[x]]
  <1>1. g \in Surjection(S, T)
    BY DEF Surjection
  <1> QED
    BY <1>1, FS_Surjection

\* A sequence has finitely many elements.
LEMMA FiniteSequence ==
  ASSUME NEW q, Len(q) \in Nat, DOMAIN q = 1 .. Len(q)
  PROVE  IsFiniteSet(ToSet(q))
  <1>1. IsFiniteSet(1 .. Len(q))
    BY FS_Interval
  <1>2. ToSet(q) = {q[i] : i \in 1 .. Len(q)}
    BY DEF ToSet
  <1> QED
    BY <1>1, <1>2, FiniteImage

\* An assignment has the fields as its domain and is within the bounds.
LEMMA AssignmentFacts ==
  ASSUME NEW sp, NEW f \in Assignments(sp)
  PROVE  DOMAIN f = Names(sp) /\ f = [name \in Names(sp) |-> f[name]] /\ InBounds(sp, f)
  <1>1. PICK i \in IntegerValues(sp), b \in BooleanValues(sp) : f = Merged(sp, i, b)
    BY DEF Assignments
  <1>2. InBounds(sp, f)
    BY DEF Assignments
  <1> QED
    BY <1>1, <1>2 DEF Merged

\* The variable of a name is one of that name.
LEMMA VariableFacts ==
  ASSUME NEW sp, NEW name \in Names(sp)
  PROVE  Variable(sp, name) \in ToSet(sp.vars) /\ Variable(sp, name).name = name
  BY DEF Variable, Names

\* Names are distinct, so that a variable is the one of its name.
LEMMA VariableOfName ==
  ASSUME NEW sp, ValidSpec(sp), NEW v \in ToSet(sp.vars)
  PROVE  v.name \in Names(sp) /\ Variable(sp, v.name) = v
  <1>1. v.name \in Names(sp)
    BY DEF Names
  <1>2. PICK i \in DOMAIN sp.vars : v = sp.vars[i]
    BY DEF ToSet
  <1>3. PICK j \in DOMAIN sp.vars : Variable(sp, v.name) = sp.vars[j]
    BY <1>1, VariableFacts DEF ToSet
  <1>4. sp.vars[i].name = sp.vars[j].name
    BY <1>1, <1>2, <1>3, VariableFacts
  <1> QED
    BY <1>1, <1>2, <1>3, <1>4 DEF ValidSpec

\* Whatever has a value within the bounds for each field is an assignment.
LEMMA AssignmentIs ==
  ASSUME NEW sp, ValidSpec(sp), NEW f, f = [name \in Names(sp) |-> f[name]], InBounds(sp, f)
  PROVE  f \in Assignments(sp)
  <1> DEFINE vars == ToSet(sp.vars)
             ints == IntegerFields(sp)
             i == [name \in {v.name : v \in ints} |-> f[name]]
             b == [name \in {v.name : v \in vars \ ints} |-> f[name]]
  <1>1. \A v \in vars : f[v.name] \in Values(v)
    BY DEF InBounds
  <1>2. i \in IntegerValues(sp)
    BY <1>1 DEF IntegerValues, IntegerFields
  <1>3. b \in BooleanValues(sp)
    BY <1>1 DEF BooleanValues, IntegerFields, Values
  <1>4. f = Merged(sp, i, b)
    <2>1. ASSUME NEW name \in Names(sp)
          PROVE  f[name] = IF name \in DOMAIN i THEN i[name] ELSE b[name]
      <3>1. PICK v \in vars : v.name = name
        BY DEF Names
      <3>2. CASE v \in ints
        BY <3>1, <3>2
      <3>3. CASE v \notin ints
        BY <3>1, <3>3
      <3> QED
        BY <3>2, <3>3
    <2> QED
      BY <2>1 DEF Merged
  <1> HIDE DEF i, b
  <1>5. f \in {Merged(sp, j, c) : j \in IntegerValues(sp), c \in BooleanValues(sp)}
    BY <1>2, <1>3, <1>4
  <1> QED
    BY <1>5 DEF Assignments

-----------------------------------------------------------------------------
(* What is computed from expressions                                       *)

\* The value of an expression depends only on the fields it mentions.
Local(e, sp) ==
  \A s, t \in Assignments(sp) :
    (\A name \in FieldsOf(e) : s[name] = t[name]) => Evaluate(e, s) = Evaluate(e, t)

\* The operands of a part are parts, and have fewer parts.
LEMMA OperandFacts ==
  ASSUME NEW e, NEW sp, EvaluatedAsWritten(e, sp), NEW f \in PartsOf(e),
         NEW i \in DOMAIN Operands(f)
  PROVE  /\ Operands(f)[i] \in PartsOf(e)
         /\ Cardinality(PartsOf(f)) \in Nat /\ Cardinality(PartsOf(Operands(f)[i])) \in Nat
         /\ Cardinality(PartsOf(Operands(f)[i])) < Cardinality(PartsOf(f))
  <1> DEFINE g == Operands(f)[i]
  <1>1. IsFiniteSet(PartsOf(e)) /\ PartsOf(f) \subseteq PartsOf(e)
    BY DEF EvaluatedAsWritten
  <1>2. g \in ToSet(Operands(f))
    BY DEF ToSet
  <1>3. g \in PartsOf(g) /\ PartsOf(g) \subseteq PartsOf(f) \ {f}
    BY <1>2 DEF EvaluatedAsWritten
  <1>4. f \in PartsOf(f)
    BY DEF EvaluatedAsWritten
  <1>5. IsFiniteSet(PartsOf(f)) /\ IsFiniteSet(PartsOf(g))
    BY <1>1, <1>3, FS_Subset
  <1>6. Cardinality(PartsOf(g)) <= Cardinality(PartsOf(f)) /\ PartsOf(g) # PartsOf(f)
    BY <1>3, <1>4, <1>5, FS_Subset
  <1>7. Cardinality(PartsOf(g)) # Cardinality(PartsOf(f))
    BY <1>3, <1>5, <1>6, FS_Subset
  <1> QED
    BY <1>1, <1>3, <1>5, <1>6, <1>7, FS_CardinalityType

\* What holds of a part when it holds of its operands holds of the expression.
LEMMA PartsInduction ==
  ASSUME NEW e, NEW sp, EvaluatedAsWritten(e, sp), NEW G,
         \A f \in PartsOf(e) : (\A i \in DOMAIN Operands(f) : Operands(f)[i] \in G) => f \in G
  PROVE  e \in G
  <1> DEFINE Sizes == {Cardinality(PartsOf(f)) : f \in PartsOf(e) \ G}
  <1>1. SUFFICES ASSUME e \notin G
                 PROVE  FALSE
    OBVIOUS
  <1>2. e \in PartsOf(e) /\ IsFiniteSet(PartsOf(e))
        /\ \A f \in PartsOf(e) : PartsOf(f) \subseteq PartsOf(e)
    BY DEF EvaluatedAsWritten
  <1>3. \A f \in PartsOf(e) : Cardinality(PartsOf(f)) \in Nat
    BY <1>2, FS_Subset, FS_CardinalityType
  <1>4. Sizes \subseteq Nat /\ Sizes # {}
    BY <1>1, <1>2, <1>3
  <1>5. PICK n \in Sizes : \A k \in Sizes : n <= k
    <2> HIDE DEF Sizes
    <2> QED
      BY <1>4, Least
  <1>6. PICK f \in PartsOf(e) \ G : n = Cardinality(PartsOf(f))
    BY <1>5
  <1>7. PICK i \in DOMAIN Operands(f) : Operands(f)[i] \notin G
    BY <1>6
  <1>8. /\ Operands(f)[i] \in PartsOf(e) /\ Cardinality(PartsOf(Operands(f)[i])) \in Nat
        /\ Cardinality(PartsOf(Operands(f)[i])) < n /\ n \in Nat
    BY <1>6, OperandFacts
  <1>9. Cardinality(PartsOf(Operands(f)[i])) \in Sizes
    BY <1>7, <1>8
  <1> HIDE DEF Sizes
  <1> QED
    BY <1>5, <1>8, <1>9

\* The kinds of expressions and their operands.
LEMMA Kinds ==
  ASSUME NEW f
  PROVE  \/ f.kind \in {"field", "literal"} /\ Operands(f) = <<>>
         \/ f.kind \in {"old", "not"} /\ Operands(f) = <<f.expression>>
         \/ f.kind \notin {"field", "literal", "old", "not"} /\ Operands(f) = <<f.left, f.right>>
  BY DEF Operands

\* The three computations, part by part.
LEMMA PartValue ==
  ASSUME NEW e, NEW sp, EvaluatedAsWritten(e, sp), NEW f \in PartsOf(e), NEW s \in Assignments(sp)
  PROVE  /\ f.kind = "field" => Evaluate(f, s) = s[f.name]
         /\ f.kind = "literal" => Evaluate(f, s) = f.value
         /\ f.kind = "old" => Evaluate(f, s) = Evaluate(f.expression, s)
         /\ f.kind = "not" => Evaluate(f, s) = ~Evaluate(f.expression, s)
         /\ f.kind \notin {"field", "literal", "old", "not"} =>
              Evaluate(f, s) = Combine(f.kind, Evaluate(f.left, s), Evaluate(f.right, s))
  <1> DEFINE values == [i \in DOMAIN Operands(f) |-> Evaluate(Operands(f)[i], s)]
  <1>1. Evaluate(f, s) = ValueOf(f, s, values)
    BY DEF EvaluatedAsWritten, OfOperands
  <1>2. CASE f.kind \in {"field", "literal"}
    BY <1>1, <1>2 DEF ValueOf
  <1>3. CASE f.kind \in {"old", "not"}
    <2>1. Operands(f) = <<f.expression>>
      BY <1>3, Kinds
    <2>2. values[1] = Evaluate(f.expression, s)
      BY <2>1
    <2> HIDE DEF values
    <2> QED
      BY <1>1, <1>3, <2>2 DEF ValueOf
  <1>4. CASE f.kind \notin {"field", "literal", "old", "not"}
    <2>1. Operands(f) = <<f.left, f.right>>
      BY <1>4, Kinds
    <2>2. values[1] = Evaluate(f.left, s) /\ values[2] = Evaluate(f.right, s)
      BY <2>1
    <2> HIDE DEF values
    <2> QED
      BY <1>1, <1>4, <2>2 DEF ValueOf
  <1> QED
    BY <1>2, <1>3, <1>4

LEMMA PartPartialValue ==
  ASSUME NEW e, NEW sp, EvaluatedAsWritten(e, sp), NEW f \in PartsOf(e), NEW s \in Assignments(sp),
         NEW name \in Names(sp), NEW env, env = Only(name, s[name])
  PROVE  /\ f.kind = "field" =>
              EvaluatePartially(f, env) = IF f.name = name THEN s[name] ELSE Unknown
         /\ f.kind = "literal" => EvaluatePartially(f, env) = f.value
         /\ f.kind = "old" => EvaluatePartially(f, env) = EvaluatePartially(f.expression, env)
         /\ f.kind = "not" =>
              EvaluatePartially(f, env) =
                IF EvaluatePartially(f.expression, env) = Unknown THEN Unknown
                ELSE ~EvaluatePartially(f.expression, env)
         /\ f.kind \notin {"field", "literal", "old", "not"} =>
              EvaluatePartially(f, env) =
                IF Unknown \notin {EvaluatePartially(f.left, env), EvaluatePartially(f.right, env)}
                THEN Combine(f.kind, EvaluatePartially(f.left, env), EvaluatePartially(f.right, env))
                ELSE IF f.kind \in {"and", "or", "implies"}
                     THEN Decided(f.kind, EvaluatePartially(f.left, env),
                                          EvaluatePartially(f.right, env))
                     ELSE Unknown
  <1> DEFINE values == [i \in DOMAIN Operands(f) |-> EvaluatePartially(Operands(f)[i], env)]
  <1>1. EvaluatePartially(f, env) = PartialValueOf(f, env, values)
    <2>1. EvaluatedPartially(f, env)
      BY DEF EvaluatedAsWritten
    <2> QED
      BY <2>1 DEF EvaluatedPartially, OfOperands
  <1>2. CASE f.kind \in {"field", "literal"}
    BY <1>1, <1>2 DEF PartialValueOf, Only
  <1>3. CASE f.kind \in {"old", "not"}
    <2>1. Operands(f) = <<f.expression>>
      BY <1>3, Kinds
    <2>2. values[1] = EvaluatePartially(f.expression, env)
      BY <2>1
    <2> HIDE DEF values
    <2> QED
      BY <1>1, <1>3, <2>2 DEF PartialValueOf
  <1>4. CASE f.kind \notin {"field", "literal", "old", "not"}
    <2>1. Operands(f) = <<f.left, f.right>>
      BY <1>4, Kinds
    <2>2. /\ values[1] = EvaluatePartially(f.left, env)
          /\ values[2] = EvaluatePartially(f.right, env)
      BY <2>1
    <2> HIDE DEF values
    <2> QED
      BY <1>1, <1>4, <2>2 DEF PartialValueOf
  <1> QED
    BY <1>2, <1>3, <1>4

LEMMA PartFields ==
  ASSUME NEW e, NEW sp, EvaluatedAsWritten(e, sp), NEW f \in PartsOf(e)
  PROVE  /\ f.kind = "field" => FieldsOf(f) = {f.name}
         /\ f.kind # "field" => \A i \in DOMAIN Operands(f) : FieldsOf(Operands(f)[i]) \subseteq FieldsOf(f)
  <1> DEFINE fields == [i \in DOMAIN Operands(f) |-> FieldsOf(Operands(f)[i])]
  <1>1. FieldsOf(f) = MentionedBy(f, fields)
    BY DEF EvaluatedAsWritten, OfOperands
  <1>2. ASSUME f.kind # "field", NEW i \in DOMAIN Operands(f)
        PROVE  FieldsOf(Operands(f)[i]) \subseteq FieldsOf(f)
    <2>1. fields[i] \in ToSet(fields) /\ fields[i] = FieldsOf(Operands(f)[i])
      BY DEF ToSet
    <2>2. FieldsOf(f) = UNION ToSet(fields)
      BY <1>1, <1>2 DEF MentionedBy
    <2> HIDE DEF fields
    <2> QED
      BY <2>1, <2>2
  <1>3. f.kind = "field" => FieldsOf(f) = {f.name}
    BY <1>1 DEF MentionedBy
  <1> QED
    BY <1>2, <1>3

\* An expression reads no field it does not mention.
LEMMA ReadsItsFields ==
  ASSUME NEW e, NEW sp, EvaluatedAsWritten(e, sp)
  PROVE  Local(e, sp)
  <1> SUFFICES ASSUME NEW s \in Assignments(sp), NEW t \in Assignments(sp),
                      \A name \in FieldsOf(e) : s[name] = t[name]
               PROVE  Evaluate(e, s) = Evaluate(e, t)
    BY DEF Local
  <1> DEFINE Agree(f) == \A name \in FieldsOf(f) : s[name] = t[name]
             G == {f \in PartsOf(e) : Agree(f) => Evaluate(f, s) = Evaluate(f, t)}
  <1>1. ASSUME NEW f \in PartsOf(e), \A i \in DOMAIN Operands(f) : Operands(f)[i] \in G
        PROVE  f \in G
    <2>1. SUFFICES ASSUME Agree(f)
                   PROVE  Evaluate(f, s) = Evaluate(f, t)
      OBVIOUS
    <2>2. ASSUME f.kind # "field", NEW i \in DOMAIN Operands(f)
          PROVE  Evaluate(Operands(f)[i], s) = Evaluate(Operands(f)[i], t)
      <3>1. FieldsOf(Operands(f)[i]) \subseteq FieldsOf(f)
        BY <2>2, PartFields
      <3> QED
        BY <1>1, <2>1, <3>1
    <2>3. CASE f.kind = "field"
      BY <2>1, <2>3, PartFields, PartValue
    <2>4. CASE f.kind = "literal"
      BY <2>4, PartValue
    <2>5. CASE f.kind \in {"old", "not"}
      <3>1. Operands(f) = <<f.expression>>
        BY <2>5, Kinds
      <3>2. Evaluate(f.expression, s) = Evaluate(f.expression, t)
        BY <2>2, <2>5, <3>1
      <3> QED
        BY <2>5, <3>2, PartValue
    <2>6. CASE f.kind \notin {"field", "literal", "old", "not"}
      <3>1. Operands(f) = <<f.left, f.right>>
        BY <2>6, Kinds
      <3>2. /\ Evaluate(f.left, s) = Evaluate(f.left, t)
            /\ Evaluate(f.right, s) = Evaluate(f.right, t)
        BY <2>2, <2>6, <3>1
      <3> QED
        BY <2>6, <3>2, PartValue
    <2> QED
      BY <2>3, <2>4, <2>5, <2>6
  <1> HIDE DEF G
  <1>2. e \in G
    BY <1>1, PartsInduction
  <1> QED
    BY <1>2 DEF G

\* Three-valued evaluation is sound: what it decides is the value in every state
\* that agrees on the field.
LEMMA PartialIsSound ==
  ASSUME NEW e, NEW sp, EvaluatedAsWritten(e, sp), NEW s \in Assignments(sp),
         NEW name \in Names(sp), NEW env, env = Only(name, s[name])
  PROVE  EvaluatePartially(e, env) \in {Unknown, Evaluate(e, s)}
  <1> DEFINE G == {f \in PartsOf(e) : EvaluatePartially(f, env) \in {Unknown, Evaluate(f, s)}}
  <1>1. ASSUME NEW f \in PartsOf(e), \A i \in DOMAIN Operands(f) : Operands(f)[i] \in G
        PROVE  f \in G
    <2>1. CASE f.kind \in {"field", "literal"}
      BY <2>1, PartValue, PartPartialValue
    <2>2. CASE f.kind \in {"old", "not"}
      <3>1. Operands(f) = <<f.expression>>
        BY <2>2, Kinds
      <3>2. EvaluatePartially(f.expression, env) \in {Unknown, Evaluate(f.expression, s)}
        BY <1>1, <3>1
      <3> QED
        BY <2>2, <3>2, PartValue, PartPartialValue
    <2>3. CASE f.kind \notin {"field", "literal", "old", "not"}
      <3> DEFINE l == EvaluatePartially(f.left, env)
                 r == EvaluatePartially(f.right, env)
                 x == Evaluate(f.left, s)
                 y == Evaluate(f.right, s)
      <3>1. Operands(f) = <<f.left, f.right>>
        BY <2>3, Kinds
      <3>2. l \in {Unknown, x} /\ r \in {Unknown, y}
        BY <1>1, <3>1
      <3>3. Evaluate(f, s) = Combine(f.kind, x, y)
        BY <2>3, PartValue
      <3>4. EvaluatePartially(f, env) =
              IF Unknown \notin {l, r} THEN Combine(f.kind, l, r)
              ELSE IF f.kind \in {"and", "or", "implies"} THEN Decided(f.kind, l, r)
              ELSE Unknown
        BY <2>3, PartPartialValue
      <3> HIDE DEF l, r, x, y
      <3>5. Decided(f.kind, l, r) \in {Unknown, Combine(f.kind, x, y)}
        <4>1. CASE f.kind = "and" /\ FALSE \in {l, r}
          BY <3>2, <4>1, UnknownAssumption DEF Decided, Combine
        <4>2. CASE f.kind = "or" /\ TRUE \in {l, r}
          <5>1. x = TRUE \/ y = TRUE
            BY <3>2, <4>2, UnknownAssumption
          <5>2. Combine(f.kind, x, y) = TRUE
            BY <4>2, <5>1 DEF Combine
          <5>3. Decided(f.kind, l, r) = TRUE
            BY <4>2 DEF Decided
          <5> QED
            BY <5>2, <5>3
        <4>3. CASE f.kind = "implies" /\ (l = FALSE \/ r = TRUE)
          <5>1. x = FALSE \/ y = TRUE
            BY <3>2, <4>3, UnknownAssumption
          <5>2. Combine(f.kind, x, y) = TRUE
            BY <4>3, <5>1 DEF Combine
          <5>3. Decided(f.kind, l, r) = TRUE
            BY <4>3 DEF Decided
          <5> QED
            BY <5>2, <5>3
        <4> QED
          BY <4>1, <4>2, <4>3 DEF Decided
      <3> QED
        BY <3>2, <3>3, <3>4, <3>5
    <2> QED
      BY <2>1, <2>2, <2>3
  <1> HIDE DEF G
  <1>2. e \in G
    BY <1>1, PartsInduction
  <1> QED
    BY <1>2 DEF G

-----------------------------------------------------------------------------
(* The equivalence checker                                                 *)

EquivalenceInv == EquivalenceTypeOK /\ EquivalenceIInv

LEMMA EquivalenceStarts ==
  ASSUME EquivalenceInit
  PROVE  EquivalenceInv
  BY DEF EquivalenceInv, EquivalenceInit, EquivalenceTypeOK, EquivalenceIInv

\* The verdict is that of the checks, on the machines as they were given.
LEMMA EquivalenceStep ==
  ASSUME EquivalenceInv, ProveEquivalence
  PROVE  EquivalenceInv'
  <1>1. /\ left' = left /\ right' = right /\ mapping' = mapping
        /\ proof' \in {"proved", "failed"} /\ (proof' = "proved" => Holds)
    BY DEF ProveEquivalence
  <1>2. Holds' = Holds
    BY <1>1
    DEF Holds, Functional, Injective,
        EveryReachableIsMapped, MappedStates,
        MatchedFrom, Related
  <1> QED
    BY <1>1, <1>2 DEF EquivalenceInv, EquivalenceTypeOK, EquivalenceIInv

\* A functional mapping gives each mapped state its image.
LEMMA RelatedIs ==
  ASSUME EquivalenceTypeOK, Functional
  PROVE  /\ \A s \in MappedStates : <<s, Related(s)>> \in mapping
         /\ \A p \in mapping : p = <<p[1], p[2]>> /\ p[2] = Related(p[1])
  <1>1. \A p \in mapping : p = <<p[1], p[2]>>
    BY EquivalenceAssumption DEF EquivalenceTypeOK
  <1>2. ASSUME NEW s \in MappedStates
        PROVE  <<s, Related(s)>> \in mapping
    <2>1. PICK p \in mapping : p[1] = s
      BY DEF MappedStates
    <2>2. p[2] \in {q[2] : q \in mapping} /\ <<s, p[2]>> \in mapping
      BY <1>1, <2>1
    <2> QED
      BY <2>2, Zenon DEF Related
  <1>3. ASSUME NEW p \in mapping
        PROVE  p[2] = Related(p[1])
    <2>1. p[1] \in MappedStates
      BY DEF MappedStates
    <2>2. <<p[1], Related(p[1])>> \in mapping
      BY <1>2, <2>1
    <2> DEFINE q == <<p[1], Related(p[1])>>
    <2>3. q \in mapping /\ q[1] = p[1] /\ q[2] = Related(p[1])
      BY <2>2
    <2> HIDE DEF q
    <2> QED
      BY <2>3 DEF Functional
  <1> QED
    BY <1>1, <1>2, <1>3

LEMMA EquivalenceProperty ==
  ASSUME EquivalenceInv
  PROVE  ProvedIsIsomorphism
  <1> DEFINE from == ReachableStates(left)
             to == ReachableStates(right)
             pairs == {p \in mapping : p[1] \in from}
             image == {p[2] : p \in pairs}
  <1> SUFFICES ASSUME proof = "proved", <<left.initial, right.initial>> \in mapping
               PROVE  /\ IsBisimulation(pairs)
                      /\ image = to
                      /\ Cardinality(pairs) = Cardinality(to)
    BY DEF ProvedIsIsomorphism
  <1>1. /\ EquivalenceTypeOK /\ Functional /\ Injective
        /\ from \subseteq MappedStates
        /\ \A s \in from : MatchedFrom(s)
    BY DEF EquivalenceInv, EquivalenceIInv, Holds,
           EveryReachableIsMapped
  <1>2. IsMachine(left) /\ IsMachine(right)
    BY <1>1, EquivalenceAssumption DEF EquivalenceTypeOK
  <1>3. /\ left.initial \in from /\ \A s \in from : left.next[s] \subseteq from
        /\ IsFiniteSet(to)
    BY <1>2, ReachableClosed DEF Closed
  <1> HIDE DEF from, to
  <1>4. /\ \A s \in from : <<s, Related(s)>> \in pairs
        /\ \A p \in pairs : p[1] \in from /\ p[2] = Related(p[1])
    BY <1>1, RelatedIs
  <1>5. \A s \in from :
          /\ Related(s) \in to
          /\ {Related(t) : t \in left.next[s]} = right.next[Related(s)]
    BY <1>1 DEF MatchedFrom, to
  <1>6. IsBisimulation(pairs)
    <2> HIDE DEF pairs
    <2> SUFFICES ASSUME NEW p \in pairs
                 PROVE  /\ \A s \in left.next[p[1]] :
                             \E t \in right.next[p[2]] : <<s, t>> \in pairs
                        /\ \A t \in right.next[p[2]] :
                             \E s \in left.next[p[1]] : <<s, t>> \in pairs
      BY DEF IsBisimulation
    <2>1. p[1] \in from /\ p[2] = Related(p[1])
      BY <1>4
    <2>2. {Related(t) : t \in left.next[p[1]]} = right.next[p[2]]
      BY <1>5, <2>1
    <2>3. \A s \in left.next[p[1]] : <<s, Related(s)>> \in pairs
      BY <1>3, <1>4, <2>1
    <2> QED
      BY <2>2, <2>3
  <1>7. image = to
    <2>1. image \subseteq to
      BY <1>4, <1>5
    <2>2. right.initial \in image
      <3>1. <<left.initial, right.initial>> \in pairs
        BY <1>3
      <3> QED
        BY <3>1
    <2>3. ASSUME NEW t \in image
          PROVE  right.next[t] \subseteq image
      <3>1. PICK p \in pairs : t = p[2]
        OBVIOUS
      <3>2. ASSUME NEW u \in right.next[t]
            PROVE  u \in image
        <4>1. PICK s \in left.next[p[1]] : <<s, u>> \in pairs
          BY <1>6, <3>1, <3>2 DEF IsBisimulation
        <4> QED
          BY <4>1
      <3> QED
        BY <3>2
    <2>4. to \subseteq image
      <3> HIDE DEF image
      <3> QED
        BY <1>2, <2>2, <2>3, ReachableLeast DEF to
    <2> QED
      BY <2>1, <2>4
  <1>8. Cardinality(pairs) = Cardinality(to)
    <2> DEFINE second == [p \in pairs |-> p[2]]
    <2>1. second \in [pairs -> to]
      BY <1>7
    <2>2. ASSUME NEW p \in pairs, NEW q \in pairs, second[p] = second[q]
          PROVE  p = q
      <3>1. p \in mapping /\ q \in mapping /\ p[2] = q[2]
        BY <2>2
      <3>2. p[1] = q[1] /\ p = <<p[1], p[2]>> /\ q = <<q[1], q[2]>>
        BY <1>1, <3>1, RelatedIs DEF Injective
      <3> QED
        BY <3>1, <3>2
    <2>3. ASSUME NEW t \in to
          PROVE  \E p \in pairs : second[p] = t
      BY <1>7
    <2> HIDE DEF second
    <2>4. second \in Injection(pairs, to) /\ second \in Surjection(pairs, to)
      BY <2>1, <2>2, <2>3 DEF Injection, Surjection, IsInjective
    <2> HIDE DEF pairs
    <2> QED
      BY <1>3, <2>4, FS_Injection
  <1> QED
    BY <1>6, <1>7, <1>8

(***************************************************************************)
(* The verdict of the equivalence checker is that of its checks, on the    *)
(* machines as they were given.                                            *)
(***************************************************************************)
THEOREM EquivalenceInvariance == EquivalenceSpec => []EquivalenceInv
  <1>1. ASSUME EquivalenceInv, UNCHANGED equivalenceVars
        PROVE  EquivalenceInv'
    <2>1. /\ left' = left /\ right' = right /\ mapping' = mapping /\ proof' = proof
      BY <1>1 DEF equivalenceVars
    <2>2. Holds' = Holds
      BY <2>1
      DEF Holds, Functional, Injective, EveryReachableIsMapped, MappedStates, MatchedFrom, Related
    <2> QED
      BY <1>1, <2>1, <2>2 DEF EquivalenceInv, EquivalenceTypeOK, EquivalenceIInv
  <1> QED
    BY <1>1, EquivalenceStarts, EquivalenceStep, PTL DEF EquivalenceSpec

(***************************************************************************)
(* A mapping that prove_equivalence accepts, and that relates the initial  *)
(* states, is an isomorphism of the reachable machines: its pairs are a    *)
(* bisimulation that covers every reachable refactored state exactly once, *)
(* although the code never compares the numbers of states and gives the    *)
(* successors no guard of their own (ReachableClosed is why it needs none).*)
(***************************************************************************)
THEOREM Isomorphism == EquivalenceSpec => []ProvedIsIsomorphism
  BY EquivalenceProperty, EquivalenceInvariance, PTL

-----------------------------------------------------------------------------
(* The network fault checker                                               *)

\* Effects of one or two literals.
LEMMA OneEffect ==
  ASSUME NEW s, s = [name \in DOMAIN s |-> s[name]], NEW f \in DOMAIN s, NEW v, NEW o,
         o.effects = <<Put(f, v)>>, Evaluate(Literal(v), s) = v
  PROVE  ApplyEffects(o, s) = [s EXCEPT ![f] = v]
  <1> DEFINE Hit(name) == {i \in DOMAIN o.effects : o.effects[i].target = name}
  <1>1. DOMAIN o.effects = {1} /\ o.effects[1] = Put(f, v)
    OBVIOUS
  <1>2. ASSUME NEW name \in DOMAIN s
        PROVE  ApplyEffects(o, s)[name] = [s EXCEPT ![f] = v][name]
    <2>1. CASE name = f
      <3>1. (CHOOSE i \in DOMAIN o.effects : o.effects[i].target = name) = 1
        BY <1>1, <2>1 DEF Put
      <3>2. \E i \in DOMAIN o.effects : o.effects[i].target = name
        BY <1>1, <2>1 DEF Put
      <3>3. ApplyEffects(o, s)[name] = Evaluate(o.effects[1].value, s)
        BY <3>1, <3>2 DEF ApplyEffects
      <3> QED
        BY <1>1, <2>1, <3>3 DEF Put
    <2>2. CASE name # f
      <3>1. ~ \E i \in DOMAIN o.effects : o.effects[i].target = name
        BY <1>1, <2>2 DEF Put
      <3> QED
        BY <2>2, <3>1 DEF ApplyEffects
    <2> QED
      BY <2>1, <2>2
  <1>3. /\ ApplyEffects(o, s) = [name \in DOMAIN s |-> ApplyEffects(o, s)[name]]
        /\ [s EXCEPT ![f] = v] = [name \in DOMAIN s |-> [s EXCEPT ![f] = v][name]]
    BY DEF ApplyEffects
  <1> QED
    BY <1>2, <1>3

\* Two effects on distinct fields.
LEMMA TwoEffects ==
  ASSUME NEW s, s = [name \in DOMAIN s |-> s[name]], NEW f \in DOMAIN s, NEW g \in DOMAIN s,
         NEW v, NEW w, NEW o, o.effects = <<Put(f, v), Put(g, w)>>,
         Evaluate(Literal(v), s) = v, Evaluate(Literal(w), s) = w, f = g => v = w
  PROVE  ApplyEffects(o, s) = [s EXCEPT ![f] = v, ![g] = w]
  <1>1. /\ DOMAIN o.effects = {1, 2} /\ o.effects[1] = Put(f, v) /\ o.effects[2] = Put(g, w)
    OBVIOUS
  <1> DEFINE Wanted == [s EXCEPT ![f] = v, ![g] = w]
             Chosen(name) == CHOOSE i \in DOMAIN o.effects : o.effects[i].target = name
  <1>2. ASSUME NEW name \in DOMAIN s
        PROVE  ApplyEffects(o, s)[name] = Wanted[name]
    <2>1. CASE name \in {f, g}
      <3>1. \E i \in DOMAIN o.effects : o.effects[i].target = name
        BY <1>1, <2>1 DEF Put
      <3>2. Chosen(name) \in DOMAIN o.effects /\ o.effects[Chosen(name)].target = name
        BY <3>1
      <3>3. ApplyEffects(o, s)[name] = Evaluate(o.effects[Chosen(name)].value, s)
        BY <3>1 DEF ApplyEffects
      <3> HIDE DEF Chosen
      <3>4. CASE Chosen(name) = 1
        BY <1>1, <2>1, <3>2, <3>3, <3>4 DEF Put
      <3>5. CASE Chosen(name) = 2
        BY <1>1, <2>1, <3>2, <3>3, <3>5 DEF Put
      <3> QED
        BY <1>1, <3>2, <3>4, <3>5
    <2>2. CASE name \notin {f, g}
      <3>1. ~ \E i \in DOMAIN o.effects : o.effects[i].target = name
        BY <1>1, <2>2 DEF Put
      <3> QED
        BY <2>2, <3>1 DEF ApplyEffects
    <2> QED
      BY <2>1, <2>2
  <1>3. /\ ApplyEffects(o, s) = [name \in DOMAIN s |-> ApplyEffects(o, s)[name]]
        /\ Wanted = [name \in DOMAIN s |-> Wanted[name]]
    BY DEF ApplyEffects
  <1> QED
    BY <1>2, <1>3

\* A comparison of a field with a literal, and the literal.
LEMMA Comparison ==
  ASSUME NEW name, NEW v, NEW sp, EvaluatedAsWritten(IsValue(name, v), sp),
         NEW s \in Assignments(sp)
  PROVE  Evaluate(Literal(v), s) = v /\ Evaluate(IsValue(name, v), s) = (s[name] = v)
  <1> DEFINE e == IsValue(name, v)
  <1>1. /\ e.kind = "eq" /\ e.left = Field(name) /\ e.right = Literal(v)
        /\ Field(name).kind = "field" /\ Field(name).name = name
        /\ Literal(v).kind = "literal" /\ Literal(v).value = v
    BY DEF IsValue, Binary, Field, Literal
  <1> HIDE DEF e
  <1>2. Operands(e) = <<Field(name), Literal(v)>>
    BY <1>1, Kinds
  <1>3. e \in PartsOf(e) /\ EvaluatedAsWritten(e, sp)
    BY DEF EvaluatedAsWritten, e
  <1>4. Field(name) \in PartsOf(e) /\ Literal(v) \in PartsOf(e)
    <2>1. 1 \in DOMAIN Operands(e) /\ 2 \in DOMAIN Operands(e)
          /\ Operands(e)[1] = Field(name) /\ Operands(e)[2] = Literal(v)
      BY <1>2
    <2>2. Operands(e)[1] \in PartsOf(e) /\ Operands(e)[2] \in PartsOf(e)
      BY <1>3, <2>1, OperandFacts
    <2> QED
      BY <2>1, <2>2
  <1>5. Evaluate(Field(name), s) = s[name] /\ Evaluate(Literal(v), s) = v
    BY <1>1, <1>3, <1>4, PartValue
  <1>6. Evaluate(e, s) = Combine("eq", Evaluate(e.left, s), Evaluate(e.right, s))
    BY <1>1, <1>3, PartValue
  <1>7. Evaluate(e, s) = (s[name] = v)
    BY <1>1, <1>5, <1>6 DEF Combine
  <1> QED
    BY <1>5, <1>7 DEF e

\* What FaultsAssumption says of the states that are assignments.
LEMMA SlotFacts ==
  ASSUME FaultsTypeOK, NEW s \in Assignments(network), NEW f \in Names(network)
  PROVE  /\ DOMAIN s = Names(network) /\ s = [name \in DOMAIN s |-> s[name]]
         /\ s[f] \in Values(Variable(network, f))
         /\ Sentinel(f) \in Values(Variable(network, f))
         /\ \A v \in Values(Variable(network, f)) :
              Evaluate(Literal(v), s) = v /\ Evaluate(IsValue(f, v), s) = (s[f] = v)
  <1>1. /\ network \in NetworkSpecs /\ ValidSpec(network)
        /\ Variable(network, f) \in ToSet(network.vars) /\ Variable(network, f).name = f
    BY VariableFacts DEF FaultsTypeOK
  <1>2. DOMAIN s = Names(network) /\ s = [name \in Names(network) |-> s[name]] /\ InBounds(network, s)
    BY AssignmentFacts
  <1>3. \A v \in Values(Variable(network, f)) :
          Evaluate(Literal(v), s) = v /\ Evaluate(IsValue(f, v), s) = (s[f] = v)
    <2>1. \A v \in Values(Variable(network, f)) : EvaluatedAsWritten(IsValue(f, v), network)
      BY <1>1, FaultsAssumption
    <2> QED
      BY <2>1, Comparison
  <1>4. s[f] \in Values(Variable(network, f))
    BY <1>1, <1>2 DEF InBounds
  <1>5. Sentinel(f) \in Values(Variable(network, f))
    BY <1>1 DEF ValidSpec, Sentinel
  <1> QED
    BY <1>2, <1>3, <1>4, <1>5

\* The states that the operations of a set lead to from s.
Effected(ops, s) == {ApplyEffects(o, s) : o \in {q \in ops : GuardsHold(q, s)}}

\* The injected losses empty the occupied slots.
LEMMA Losses ==
  ASSUME FaultsTypeOK, NEW s \in Assignments(network)
  PROVE  Effected(LossActions, s) =
           {[s EXCEPT ![f] = Sentinel(f)] : f \in {g \in ToSet(slots) : s[g] # Sentinel(g)}}
  <1> DEFINE Drop(f, v) == FaultAction("DropMsg", <<IsValue(f, v)>>, <<Put(f, Sentinel(f))>>)
  <1>1. ASSUME NEW f \in ToSet(slots), NEW v \in Values(Variable(network, f))
        PROVE  /\ GuardsHold(Drop(f, v), s) <=> s[f] = v
               /\ ApplyEffects(Drop(f, v), s) = [s EXCEPT ![f] = Sentinel(f)]
    <2>1. f \in Names(network)
      BY DEF FaultsTypeOK
    <2>2. DOMAIN Drop(f, v).guards = {1} /\ Drop(f, v).guards[1] = IsValue(f, v)
      BY DEF FaultAction
    <2>3. GuardsHold(Drop(f, v), s) <=> s[f] = v
      <3>1. Evaluate(IsValue(f, v), s) = (s[f] = v)
        BY <2>1, SlotFacts
      <3> HIDE DEF Drop
      <3>2. GuardsHold(Drop(f, v), s) <=> Evaluate(IsValue(f, v), s)
        BY <2>2 DEF GuardsHold
      <3> QED
        BY <3>1, <3>2
    <2>4. Drop(f, v).effects = <<Put(f, Sentinel(f))>>
      BY DEF FaultAction
    <2>5. ApplyEffects(Drop(f, v), s) = [s EXCEPT ![f] = Sentinel(f)]
      <3> HIDE DEF Drop
      <3> QED
        BY <2>1, <2>4, SlotFacts, OneEffect
    <2> QED
      BY <2>3, <2>5
  <1>2. LossActions = UNION {{Drop(f, v) : v \in Occupied(f)} : f \in ToSet(slots)}
    BY DEF LossActions
  <1>3. \A f \in ToSet(slots) : s[f] \in Values(Variable(network, f))
    BY SlotFacts DEF FaultsTypeOK
  <1> HIDE DEF Drop
  <1> QED
    BY <1>1, <1>2, <1>3 DEF Effected, Occupied


\* Any two different slots are a pair, in one order or the other.
LEMMA PairFacts ==
  ASSUME FaultsTypeOK
  PROVE  /\ \A p \in OrderedPairs : p[1] \in ToSet(slots) /\ p[2] \in ToSet(slots)
         /\ \A f, g \in ToSet(slots) :
              f # g => <<f, g>> \in OrderedPairs \/ <<g, f>> \in OrderedPairs
  <1>1. Len(slots) \in Nat /\ DOMAIN slots = 1 .. Len(slots)
    BY FaultsAssumption DEF FaultsTypeOK
  <1>2. ASSUME NEW p \in OrderedPairs
        PROVE  p[1] \in ToSet(slots) /\ p[2] \in ToSet(slots)
    <2>1. PICK q \in (DOMAIN slots) \X (DOMAIN slots) : p = <<slots[q[1]], slots[q[2]]>>
      BY DEF OrderedPairs
    <2>2. q[1] \in DOMAIN slots /\ q[2] \in DOMAIN slots
      OBVIOUS
    <2> QED
      BY <2>1, <2>2 DEF ToSet
  <1>3. ASSUME NEW f \in ToSet(slots), NEW g \in ToSet(slots), f # g
        PROVE  <<f, g>> \in OrderedPairs \/ <<g, f>> \in OrderedPairs
    <2>1. PICK i \in DOMAIN slots : f = slots[i]
      BY DEF ToSet
    <2>2. PICK j \in DOMAIN slots : g = slots[j]
      BY DEF ToSet
    <2>3. i \in Int /\ j \in Int /\ (i < j \/ j < i)
      BY <1>1, <1>3, <2>1, <2>2
    <2> DEFINE Later == {q \in (DOMAIN slots) \X (DOMAIN slots) : q[1] < q[2]}
    <2>4. <<i, j>> \in Later \/ <<j, i>> \in Later
      BY <2>3
    <2>5. OrderedPairs = {<<slots[q[1]], slots[q[2]]>> : q \in Later}
      BY DEF OrderedPairs
    <2>6. /\ <<i, j>>[1] = i /\ <<i, j>>[2] = j
          /\ <<j, i>>[1] = j /\ <<j, i>>[2] = i
      OBVIOUS
    <2> HIDE DEF Later
    <2> QED
      BY <2>1, <2>2, <2>4, <2>5, <2>6
  <1> QED
    BY <1>2, <1>3

\* The duplications from one slot to another copy its message where there is room.
LEMMA Copy ==
  ASSUME FaultsTypeOK, NEW s \in Assignments(network), NEW f \in Names(network),
         NEW g \in Names(network)
  PROVE  Effected(DuplicatesOf(f, g), s) =
           IF s[f] # Sentinel(f) /\ s[g] = Sentinel(g) THEN {[s EXCEPT ![g] = s[f]]} ELSE {}
  <1> DEFINE Action(v) ==
               FaultAction("DuplicateMsg", <<IsValue(f, v), IsValue(g, Sentinel(g))>>, <<Put(g, v)>>)
  <1>1. ASSUME NEW v \in Values(Variable(network, f))
        PROVE  /\ GuardsHold(Action(v), s) <=> s[f] = v /\ s[g] = Sentinel(g)
               /\ ApplyEffects(Action(v), s) = [s EXCEPT ![g] = v]
    <2>1. /\ DOMAIN Action(v).guards = {1, 2} /\ Action(v).guards[1] = IsValue(f, v)
          /\ Action(v).guards[2] = IsValue(g, Sentinel(g)) /\ Action(v).effects = <<Put(g, v)>>
      BY DEF FaultAction
    <2> HIDE DEF Action
    <2>2. /\ Evaluate(IsValue(f, v), s) = (s[f] = v)
          /\ Evaluate(IsValue(g, Sentinel(g)), s) = (s[g] = Sentinel(g))
      BY SlotFacts
    <2>3. GuardsHold(Action(v), s) <=>
            Evaluate(IsValue(f, v), s) /\ Evaluate(IsValue(g, Sentinel(g)), s)
      BY <2>1 DEF GuardsHold
    <2>4. ApplyEffects(Action(v), s) = [s EXCEPT ![g] = v]
      BY <2>1, SlotFacts, OneEffect
    <2> QED
      BY <2>2, <2>3, <2>4
  <1>2. DuplicatesOf(f, g) = {Action(v) : v \in Occupied(f)}
    BY DEF DuplicatesOf
  <1>3. s[f] \in Values(Variable(network, f))
    BY SlotFacts
  <1> HIDE DEF Action
  <1> QED
    BY <1>1, <1>2, <1>3 DEF Effected, Occupied

\* A reordering exchanges the two messages it is for.
LEMMA Exchange ==
  ASSUME FaultsTypeOK, NEW s \in Assignments(network), NEW f \in Names(network),
         NEW g \in Names(network),
         NEW v \in Values(Variable(network, f)), NEW w \in Values(Variable(network, g)), NEW o,
         o = FaultAction("ReorderMsg", <<IsValue(f, v), IsValue(g, w)>>, <<Put(f, w), Put(g, v)>>)
  PROVE  /\ GuardsHold(o, s) <=> s[f] = v /\ s[g] = w
         /\ s[f] = v /\ s[g] = w => ApplyEffects(o, s) = [s EXCEPT ![f] = w, ![g] = v]
  <1>1. /\ DOMAIN o.guards = {1, 2} /\ o.guards[1] = IsValue(f, v)
        /\ o.guards[2] = IsValue(g, w) /\ o.effects = <<Put(f, w), Put(g, v)>>
    BY DEF FaultAction
  <1>2. /\ Evaluate(IsValue(f, v), s) = (s[f] = v)
        /\ Evaluate(IsValue(g, w), s) = (s[g] = w)
        /\ Evaluate(Literal(v), s) = v /\ Evaluate(Literal(w), s) = w
    BY SlotFacts
  <1>3. GuardsHold(o, s) <=> Evaluate(IsValue(f, v), s) /\ Evaluate(IsValue(g, w), s)
    BY <1>1 DEF GuardsHold
  <1>4. ASSUME s[f] = v, s[g] = w
        PROVE  ApplyEffects(o, s) = [s EXCEPT ![f] = w, ![g] = v]
    <2>1. DOMAIN s = Names(network) /\ s = [name \in DOMAIN s |-> s[name]]
      BY SlotFacts
    <2>2. f = g => w = v
      BY <1>4
    <2>3. f \in DOMAIN s /\ g \in DOMAIN s
      BY <2>1
    <2>4. o.effects = <<Put(f, w), Put(g, v)>>
      BY <1>1
    <2> QED
      BY ONLY <1>2, <2>1, <2>2, <2>3, <2>4, TwoEffects
  <1> QED
    BY <1>2, <1>3, <1>4

\* What the network does to the slots.
Lost(s) == {[s EXCEPT ![f] = Sentinel(f)] : f \in {g \in ToSet(slots) : s[g] # Sentinel(g)}}

Copied(s) ==
  {[s EXCEPT ![p[2]] = s[p[1]]] :
     p \in {q \in ToSet(slots) \X ToSet(slots) : s[q[1]] # Sentinel(q[1]) /\ s[q[2]] = Sentinel(q[2])}}

Swapped(s) ==
  {[s EXCEPT ![p[1]] = s[p[2]], ![p[2]] = s[p[1]]] :
     p \in {q \in ToSet(slots) \X ToSet(slots) :
              q[1] # q[2] /\ s[q[1]] # Sentinel(q[1]) /\ s[q[2]] # Sentinel(q[2])}}

LEMMA NetworkMovesAre ==
  ASSUME NEW s
  PROVE  NetworkMoves(s) = (IF "message_loss" \in faults THEN Lost(s) ELSE {})
                             \cup (IF "duplication" \in faults THEN Copied(s) ELSE {})
                             \cup (IF "reordering" \in faults THEN Swapped(s) ELSE {})
  BY DEF NetworkMoves, Lost, Copied, Swapped

\* The injected duplications are the copies, whichever slot is declared first.
LEMMA Duplications ==
  ASSUME FaultsTypeOK, NEW s \in Assignments(network)
  PROVE  Effected(DuplicationActions, s) = Copied(s)
  <1>1. \A f, g \in ToSet(slots) :
          Effected(DuplicatesOf(f, g), s) =
            IF s[f] # Sentinel(f) /\ s[g] = Sentinel(g) THEN {[s EXCEPT ![g] = s[f]]} ELSE {}
    BY Copy DEF FaultsTypeOK
  <1>2. ASSUME NEW t \in Effected(DuplicationActions, s)
        PROVE  t \in Copied(s)
    <2>1. PICK f \in ToSet(slots), g \in ToSet(slots) : t \in Effected(DuplicatesOf(f, g), s)
      <3>1. PICK o \in DuplicationActions : GuardsHold(o, s) /\ t = ApplyEffects(o, s)
        BY <1>2 DEF Effected
      <3>2. PICK p \in OrderedPairs : o \in DuplicatesOf(p[1], p[2]) \cup DuplicatesOf(p[2], p[1])
        BY <3>1 DEF DuplicationActions
      <3>3. p[1] \in ToSet(slots) /\ p[2] \in ToSet(slots)
        BY <3>2, PairFacts
      <3>4. /\ o \in DuplicatesOf(p[1], p[2]) => t \in Effected(DuplicatesOf(p[1], p[2]), s)
            /\ o \in DuplicatesOf(p[2], p[1]) => t \in Effected(DuplicatesOf(p[2], p[1]), s)
        BY <3>1 DEF Effected
      <3> QED
        BY <3>2, <3>3, <3>4
    <2>2. s[f] # Sentinel(f) /\ s[g] = Sentinel(g) /\ t = [s EXCEPT ![g] = s[f]]
      BY <1>1, <2>1
    <2>3. <<f, g>> \in ToSet(slots) \X ToSet(slots) /\ <<f, g>>[1] = f /\ <<f, g>>[2] = g
      OBVIOUS
    <2> QED
      BY <2>2, <2>3 DEF Copied
  <1>3. ASSUME NEW t \in Copied(s)
        PROVE  t \in Effected(DuplicationActions, s)
    <2>1. PICK p \in ToSet(slots) \X ToSet(slots) :
            /\ s[p[1]] # Sentinel(p[1]) /\ s[p[2]] = Sentinel(p[2])
            /\ t = [s EXCEPT ![p[2]] = s[p[1]]]
      BY <1>3 DEF Copied
    <2> DEFINE f == p[1]
               g == p[2]
    <2>2. /\ f \in ToSet(slots) /\ g \in ToSet(slots)
          /\ s[f] # Sentinel(f) /\ s[g] = Sentinel(g) /\ t = [s EXCEPT ![g] = s[f]]
      BY <2>1
    <2> HIDE DEF f, g
    <2>3. t \in Effected(DuplicatesOf(f, g), s)
      BY <1>1, <2>2
    <2>4. f # g
      BY <2>2
    <2>5. PICK o \in DuplicatesOf(f, g) : GuardsHold(o, s) /\ t = ApplyEffects(o, s)
      BY <2>3 DEF Effected
    <2>6. <<f, g>> \in OrderedPairs \/ <<g, f>> \in OrderedPairs
      BY <2>2, <2>4, PairFacts
    <2>7. <<f, g>>[1] = f /\ <<f, g>>[2] = g /\ <<g, f>>[1] = g /\ <<g, f>>[2] = f
      OBVIOUS
    <2>8. o \in DuplicationActions
      BY <2>5, <2>6, <2>7 DEF DuplicationActions
    <2> QED
      BY <2>5, <2>8 DEF Effected
  <1> QED
    BY <1>2, <1>3

\* The injected reorderings are the exchanges; a slot declared twice exchanges
\* its message with itself.
LEMMA Reorderings ==
  ASSUME FaultsTypeOK, NEW s \in Assignments(network)
  PROVE  /\ Effected(ReorderingActions, s) \subseteq Swapped(s) \cup {s}
         /\ IsInjective(slots) => Effected(ReorderingActions, s) \subseteq Swapped(s)
         /\ Swapped(s) \subseteq Effected(ReorderingActions, s)
  <1> DEFINE Action(f, g, v, w) ==
               FaultAction("ReorderMsg", <<IsValue(f, v), IsValue(g, w)>>, <<Put(f, w), Put(g, v)>>)
  <1>1. \A f, g \in ToSet(slots) : \A v \in Occupied(f), w \in Occupied(g) :
          /\ GuardsHold(Action(f, g, v, w), s) <=> s[f] = v /\ s[g] = w
          /\ s[f] = v /\ s[g] = w =>
               ApplyEffects(Action(f, g, v, w), s) = [s EXCEPT ![f] = w, ![g] = v]
    BY Exchange DEF FaultsTypeOK, Occupied
  <1> DEFINE Exchanges(p) == {Action(p[1], p[2], v, w) : v \in Occupied(p[1]), w \in Occupied(p[2])}
  <1>2. ReorderingActions = UNION {Exchanges(p) : p \in OrderedPairs}
    BY DEF ReorderingActions
  <1> HIDE DEF Action
  <1>3. \A f, g : <<f, g>> \in OrderedPairs =>
          \A v \in Occupied(f), w \in Occupied(g) : Action(f, g, v, w) \in ReorderingActions
    <2>1. ASSUME NEW p \in OrderedPairs, NEW v \in Occupied(p[1]), NEW w \in Occupied(p[2])
          PROVE  Action(p[1], p[2], v, w) \in Exchanges(p)
      OBVIOUS
    <2> HIDE DEF Exchanges
    <2>2. \A p \in OrderedPairs : \A v \in Occupied(p[1]), w \in Occupied(p[2]) :
            Action(p[1], p[2], v, w) \in ReorderingActions
      BY Zenon, <1>2, <2>1
    <2>3. \A f, g : <<f, g>>[1] = f /\ <<f, g>>[2] = g
      OBVIOUS
    <2> QED
      BY Zenon, <2>2, <2>3
  <1>4. \A f \in ToSet(slots) : s[f] \in Values(Variable(network, f))
    BY SlotFacts DEF FaultsTypeOK
  <1>5. s = [name \in DOMAIN s |-> s[name]]
    BY AssignmentFacts
  <1>6. ASSUME NEW t \in Effected(ReorderingActions, s), t # s \/ IsInjective(slots)
        PROVE  t \in Swapped(s)
    <2>1. PICK o \in ReorderingActions : GuardsHold(o, s) /\ t = ApplyEffects(o, s)
      BY <1>6 DEF Effected
    <2>2. PICK p \in OrderedPairs : \E v \in Occupied(p[1]), w \in Occupied(p[2]) :
            o = Action(p[1], p[2], v, w)
      <3>1. PICK p \in OrderedPairs : o \in Exchanges(p)
        <4> HIDE DEF Exchanges
        <4> QED
          BY Zenon, <1>2, <2>1
      <3> QED
        BY <3>1
    <2> DEFINE f == p[1]
               g == p[2]
    <2>3. PICK v \in Occupied(f), w \in Occupied(g) : o = Action(f, g, v, w)
      BY <2>2
    <2>4. f \in ToSet(slots) /\ g \in ToSet(slots)
      BY <2>2, PairFacts
    <2> HIDE DEF f, g
    <2>5. s[f] = v /\ s[g] = w /\ t = [s EXCEPT ![f] = s[g], ![g] = s[f]]
      BY <1>1, <2>1, <2>3, <2>4
    <2>6. f # g
      <3>1. CASE t # s /\ f = g
        BY <1>5, <2>5, <3>1
      <3>2. CASE IsInjective(slots)
        <4>1. PICK q \in (DOMAIN slots) \X (DOMAIN slots) :
                q[1] < q[2] /\ p = <<slots[q[1]], slots[q[2]]>>
          BY <2>2 DEF OrderedPairs
        <4>2. f = slots[q[1]] /\ g = slots[q[2]]
          BY <4>1 DEF f, g
        <4>3. DOMAIN slots = 1 .. Len(slots) /\ Len(slots) \in Nat
          BY FaultsAssumption DEF FaultsTypeOK
        <4>4. q[1] # q[2] /\ q[1] \in DOMAIN slots /\ q[2] \in DOMAIN slots
          BY <4>1, <4>3
        <4> QED
          BY <3>2, <4>2, <4>4 DEF IsInjective
      <3> QED
        BY <1>6, <3>1, <3>2
    <2>7. s[f] # Sentinel(f) /\ s[g] # Sentinel(g)
      BY <2>3, <2>5 DEF Occupied
    <2>8. <<f, g>> \in ToSet(slots) \X ToSet(slots) /\ <<f, g>>[1] = f /\ <<f, g>>[2] = g
      BY <2>4
    <2> QED
      BY <2>5, <2>6, <2>7, <2>8 DEF Swapped
  <1>7. ASSUME NEW t \in Swapped(s)
        PROVE  t \in Effected(ReorderingActions, s)
    <2>1. PICK p \in ToSet(slots) \X ToSet(slots) :
            /\ p[1] # p[2] /\ s[p[1]] # Sentinel(p[1]) /\ s[p[2]] # Sentinel(p[2])
            /\ t = [s EXCEPT ![p[1]] = s[p[2]], ![p[2]] = s[p[1]]]
      BY <1>7 DEF Swapped
    <2> DEFINE f == p[1]
               g == p[2]
    <2>2. /\ f \in ToSet(slots) /\ g \in ToSet(slots) /\ f # g
          /\ s[f] # Sentinel(f) /\ s[g] # Sentinel(g)
          /\ t = [s EXCEPT ![f] = s[g], ![g] = s[f]]
      BY <2>1
    <2> HIDE DEF f, g
    <2>3. s[f] \in Occupied(f) /\ s[g] \in Occupied(g)
      BY <1>4, <2>2 DEF Occupied
    <2>4. [s EXCEPT ![f] = s[g], ![g] = s[f]] = [s EXCEPT ![g] = s[f], ![f] = s[g]]
      BY <1>5, <2>2
    <2>5. CASE <<f, g>> \in OrderedPairs
      <3>1. Action(f, g, s[f], s[g]) \in ReorderingActions
        BY <1>3, <2>3, <2>5
      <3>2. \A v \in Occupied(f), w \in Occupied(g) :
              /\ GuardsHold(Action(f, g, v, w), s) <=> s[f] = v /\ s[g] = w
              /\ s[f] = v /\ s[g] = w =>
                   ApplyEffects(Action(f, g, v, w), s) = [s EXCEPT ![f] = w, ![g] = v]
        BY <1>1, <2>2
      <3>3. /\ GuardsHold(Action(f, g, s[f], s[g]), s)
            /\ ApplyEffects(Action(f, g, s[f], s[g]), s) =
                 [s EXCEPT ![f] = s[g], ![g] = s[f]]
        BY <2>3, <3>2
      <3>4. ApplyEffects(Action(f, g, s[f], s[g]), s) = t
        BY <2>2, <3>3
      <3> QED
        BY <3>1, <3>3, <3>4 DEF Effected
    <2>6. CASE <<g, f>> \in OrderedPairs
      <3>1. Action(g, f, s[g], s[f]) \in ReorderingActions
        BY <1>3, <2>3, <2>6
      <3>2. \A v \in Occupied(g), w \in Occupied(f) :
              /\ GuardsHold(Action(g, f, v, w), s) <=> s[g] = v /\ s[f] = w
              /\ s[g] = v /\ s[f] = w =>
                   ApplyEffects(Action(g, f, v, w), s) = [s EXCEPT ![g] = w, ![f] = v]
        BY <1>1, <2>2
      <3>3. /\ GuardsHold(Action(g, f, s[g], s[f]), s)
            /\ ApplyEffects(Action(g, f, s[g], s[f]), s) =
                 [s EXCEPT ![g] = s[f], ![f] = s[g]]
        BY <2>3, <3>2
      <3>4. ApplyEffects(Action(g, f, s[g], s[f]), s) = t
        BY <2>2, <3>3, <2>4
      <3> QED
        BY <3>1, <3>3, <3>4 DEF Effected
    <2> QED
      BY <2>2, <2>5, <2>6, PairFacts
  <1> QED
    BY <1>6, <1>7

\* The injected operations are the moves of the network.
LEMMA SuccessorsAreMoves ==
  ASSUME FaultsTypeOK, NEW s \in Assignments(network)
  PROVE  /\ SuccessorsOf(s) \subseteq Attempts(s) /\ Attempts(s) \subseteq Moves(s) \cup {s}
         /\ Moves(s) \subseteq SuccessorsOf(s)
  <1> DEFINE losses == IF "message_loss" \in faults THEN LossActions ELSE {}
             copies == IF "duplication" \in faults THEN DuplicationActions ELSE {}
             swaps == IF "reordering" \in faults THEN ReorderingActions ELSE {}
             domain == ToSet(network.ops)
  <1>1. SuccessorsOf(s) = Effected(domain, s) \cup Effected(losses, s)
                            \cup Effected(copies, s) \cup Effected(swaps, s)
    <2>1. FaultedOperations = domain \cup losses \cup copies \cup swaps
      BY DEF FaultedOperations, InjectFaultActions
    <2> HIDE DEF domain, losses, copies, swaps
    <2> QED
      BY <2>1 DEF SuccessorsOf, Effected
  <1>2. Effected({}, s) = {}
    BY DEF Effected
  <1>3. Moves(s) = Effected(domain, s) \cup NetworkMoves(s)
    BY DEF Moves, DomainMoves, Effected
  <1>4. /\ Effected(LossActions, s) = Lost(s)
        /\ Effected(DuplicationActions, s) = Copied(s)
        /\ Effected(ReorderingActions, s) \subseteq
             Swapped(s) \cup (IF IsInjective(slots) THEN {} ELSE {s})
        /\ Swapped(s) \subseteq Effected(ReorderingActions, s)
    BY Losses, Duplications, Reorderings DEF Lost
  <1> HIDE DEF domain
  <1> QED
    BY <1>1, <1>2, <1>3, <1>4, NetworkMovesAre DEF Attempts

\* A state has finitely many successors, however many messages there are.
LEMMA MovesFinite ==
  ASSUME FaultsTypeOK, NEW s \in Assignments(network)
  PROVE  IsFiniteSet(SuccessorsOf(s))
  <1>1. IsFiniteSet(ToSet(slots)) /\ IsFiniteSet(ToSet(network.ops))
    BY FaultsAssumption, FiniteSequence DEF FaultsTypeOK
  <1>2. IsFiniteSet(ToSet(slots) \X ToSet(slots))
    BY <1>1, FS_Product
  <1>3. IsFiniteSet(Lost(s))
    <2> DEFINE S == {g \in ToSet(slots) : s[g] # Sentinel(g)}
               F == [f \in S |-> [s EXCEPT ![f] = Sentinel(f)]]
    <2>1. IsFiniteSet(S)
      BY <1>1, FS_Subset
    <2>2. Lost(s) = {F[f] : f \in S}
      BY DEF Lost
    <2> HIDE DEF S, F
    <2> QED
      BY <2>1, <2>2, FiniteImage
  <1>4. IsFiniteSet(Copied(s))
    <2> DEFINE S == {q \in ToSet(slots) \X ToSet(slots) :
                       s[q[1]] # Sentinel(q[1]) /\ s[q[2]] = Sentinel(q[2])}
               F == [p \in S |-> [s EXCEPT ![p[2]] = s[p[1]]]]
    <2>1. IsFiniteSet(S)
      BY <1>2, FS_Subset
    <2>2. Copied(s) = {F[p] : p \in S}
      BY DEF Copied
    <2> HIDE DEF S, F
    <2> QED
      BY <2>1, <2>2, FiniteImage
  <1>5. IsFiniteSet(Swapped(s))
    <2> DEFINE S == {q \in ToSet(slots) \X ToSet(slots) :
                       q[1] # q[2] /\ s[q[1]] # Sentinel(q[1]) /\ s[q[2]] # Sentinel(q[2])}
               F == [p \in S |-> [s EXCEPT ![p[1]] = s[p[2]], ![p[2]] = s[p[1]]]]
    <2>1. IsFiniteSet(S)
      BY <1>2, FS_Subset
    <2>2. Swapped(s) = {F[p] : p \in S}
      BY DEF Swapped
    <2> HIDE DEF S, F
    <2> QED
      BY <2>1, <2>2, FiniteImage
  <1>6. IsFiniteSet(DomainMoves(s))
    <2> DEFINE S == {o \in ToSet(network.ops) : GuardsHold(o, s)}
               F == [o \in S |-> ApplyEffects(o, s)]
    <2>1. IsFiniteSet(S)
      BY <1>1, FS_Subset
    <2>2. DomainMoves(s) = {F[o] : o \in S}
      BY DEF DomainMoves
    <2> HIDE DEF S, F
    <2> QED
      BY <2>1, <2>2, FiniteImage
  <1>7. IsFiniteSet({}) /\ IsFiniteSet({s})
    BY FS_EmptySet, FS_Singleton
  <1>8. IsFiniteSet(NetworkMoves(s))
    <2> DEFINE a == IF "message_loss" \in faults THEN Lost(s) ELSE {}
               b == IF "duplication" \in faults THEN Copied(s) ELSE {}
               c == IF "reordering" \in faults THEN Swapped(s) ELSE {}
    <2>1. IsFiniteSet(a) /\ IsFiniteSet(b) /\ IsFiniteSet(c)
      BY <1>3, <1>4, <1>5, <1>7
    <2>2. NetworkMoves(s) = (a \cup b) \cup c
      BY NetworkMovesAre
    <2> HIDE DEF a, b, c
    <2>3. IsFiniteSet(a \cup b)
      BY <2>1, FS_Union
    <2> QED
      BY <2>1, <2>2, <2>3, FS_Union
  <1>9. IsFiniteSet(Moves(s))
    BY <1>6, <1>8, FS_Union DEF Moves
  <1>10. IsFiniteSet(Moves(s) \cup {s})
    BY <1>7, <1>9, FS_Union
  <1> QED
    BY <1>10, SuccessorsAreMoves, FS_Subset

\* As long as the exploration keeps the bounds its states are assignments.
LEMMA BoundedAreAssignments ==
  ASSUME FaultsTypeOK, ExplorationIsBounded
  PROVE  seen \subseteq Assignments(network)
  BY AssignmentIs DEF FaultsTypeOK, ExplorationIsBounded

FaultsInv == FaultsTypeOK /\ FaultsIInv

LEMMA FaultsStarts ==
  ASSUME FaultsInit
  PROVE  FaultsInv
  <1>1. seen = {InitialState(network)} /\ frontier = seen /\ safety \in {"exploring", "raised"}
    BY DEF FaultsInit
  <1>2. FaultsTypeOK
    BY DEF FaultsInit, FaultsTypeOK, InitialState
  <1>3. IsFiniteSet(seen)
    BY <1>1, FS_Singleton
  <1> QED
    BY <1>1, <1>2, <1>3 DEF FaultsInv, FaultsIInv

\* The successors of a state do not change.
LEMMA SuccessorsKeep ==
  ASSUME network' = network, faults' = faults, slots' = slots
  PROVE  \A s : SuccessorsOf(s)' = SuccessorsOf(s)
  BY DEF SuccessorsOf, FaultedOperations, InjectFaultActions, LossActions, DuplicationActions,
         ReorderingActions, DuplicatesOf, OrderedPairs, Occupied, Sentinel

LEMMA FaultsStep ==
  ASSUME FaultsInv, FaultsNext
  PROVE  FaultsInv'
  <1>1. network' = network /\ faults' = faults /\ slots' = slots
    BY DEF FaultsNext, VerifyDistributed, Proved
  <1>2. \A s : SuccessorsOf(s)' = SuccessorsOf(s)
    BY <1>1, SuccessorsKeep
  <1>3. FaultsTypeOK /\ FaultsIInv
    BY DEF FaultsInv
  <1> DEFINE found == UNION {SuccessorsOf(s) : s \in frontier}
  <1>4. CASE VerifyDistributed /\ \A s \in found : InvariantsHold(network, s)
    <2>1. /\ safety = "exploring" /\ safety' = safety
          /\ seen' = seen \cup found /\ frontier' = found \ seen
      BY <1>4 DEF VerifyDistributed
    <2>2. \A s \in found : s = [name \in Names(network) |-> s[name]]
      <3>1. ASSUME NEW r \in seen, NEW o
            PROVE  ApplyEffects(o, r) = [name \in Names(network) |-> ApplyEffects(o, r)[name]]
        <4>1. DOMAIN r = Names(network)
          BY <1>3, <3>1 DEF FaultsTypeOK
        <4> QED
          BY <4>1 DEF ApplyEffects
      <3> QED
        BY <1>3, <3>1 DEF SuccessorsOf, FaultsTypeOK
    <2>3. FaultsTypeOK'
      BY <1>1, <1>3, <2>1, <2>2 DEF FaultsTypeOK
    <2>4. ExplorationIsBounded' => IsFiniteSet(seen')
      <3> SUFFICES ASSUME ExplorationIsBounded'
                   PROVE  IsFiniteSet(seen')
        OBVIOUS
      <3>1. ExplorationIsBounded /\ IsFiniteSet(seen)
        BY <1>1, <1>3, <2>1 DEF ExplorationIsBounded, FaultsIInv
      <3>2. frontier \subseteq Assignments(network) /\ IsFiniteSet(frontier)
        BY <1>3, <3>1, BoundedAreAssignments, FS_Subset DEF FaultsTypeOK
      <3>3. IsFiniteSet(found)
        <4> DEFINE F == [s \in frontier |-> SuccessorsOf(s)]
                   R == {F[s] : s \in frontier}
        <4>1. IsFiniteSet(R)
          <5> HIDE DEF F
          <5> QED
            BY <3>2, FiniteImage
        <4>2. \A T \in R : IsFiniteSet(T)
          BY <1>3, <3>2, MovesFinite
        <4>3. found = UNION R
          OBVIOUS
        <4> HIDE DEF R
        <4> QED
          BY <4>1, <4>2, <4>3, FS_UNION
      <3> QED
        BY <2>1, <3>1, <3>3, FS_Union
    <2>5. \A s \in seen' \ frontier' :
            SuccessorsOf(s) \subseteq seen' /\ \A t \in SuccessorsOf(s) : InvariantsHold(network, t)
      BY <1>3, <1>4, <2>1 DEF FaultsIInv
    <2>6. ASSUME NEW states \in SUBSET seen', InitialState(network) \in states,
                 \A s \in states : SuccessorsOf(s) \cap seen' \subseteq states
          PROVE  states = seen'
      <3> DEFINE U == states \cap seen
      <3>1. U \in SUBSET seen /\ InitialState(network) \in U
        BY <1>3, <2>6 DEF FaultsIInv
      <3>2. \A s \in U : SuccessorsOf(s) \cap seen \subseteq U
        BY <2>1, <2>6
      <3>3. U = seen
        <4> HIDE DEF U
        <4> QED
          BY <1>3, <3>1, <3>2 DEF FaultsIInv
      <3>4. found \subseteq states
        BY <1>3, <2>1, <2>6, <3>3 DEF FaultsTypeOK
      <3> QED
        BY <2>1, <2>6, <3>3, <3>4
    <2>7. FaultsIInv'
      <3>1. InitialState(network) \in seen'
        BY <1>3, <2>1 DEF FaultsIInv
      <3> HIDE DEF found
      <3> QED
        BY <1>1, <1>2, <2>1, <2>4, <2>5, <2>6, <3>1 DEF FaultsIInv
    <2> QED
      BY <2>3, <2>7 DEF FaultsInv
  <1>5. CASE VerifyDistributed /\ ~ \A s \in found : InvariantsHold(network, s)
    <2>1. safety' = "failed" /\ seen' = seen /\ frontier' = frontier
      BY <1>5 DEF VerifyDistributed
    <2>2. \E s \in frontier : \E t \in SuccessorsOf(s) : ~InvariantsHold(network, t)
      BY <1>5
    <2>3. FaultsTypeOK' /\ (ExplorationIsBounded' <=> ExplorationIsBounded)
      BY <1>1, <1>3, <2>1 DEF FaultsTypeOK, ExplorationIsBounded
    <2>4. FaultsIInv'
      BY <1>1, <1>2, <1>3, <2>1, <2>2, <2>3 DEF FaultsIInv
    <2> QED
      BY <2>3, <2>4 DEF FaultsInv
  <1>6. CASE Proved
    <2>1. safety' = "proved" /\ seen' = seen /\ frontier' = frontier /\ frontier = {}
      BY <1>6 DEF Proved
    <2>2. FaultsTypeOK' /\ (ExplorationIsBounded' <=> ExplorationIsBounded)
      BY <1>1, <1>3, <2>1 DEF FaultsTypeOK, ExplorationIsBounded
    <2>3. FaultsIInv'
      BY <1>1, <1>2, <1>3, <2>1, <2>2 DEF FaultsIInv
    <2> QED
      BY <2>2, <2>3 DEF FaultsInv
  <1> QED
    BY <1>4, <1>5, <1>6 DEF FaultsNext

(***************************************************************************)
(* Everything expanded has its successors among the states seen and they   *)
(* keep the invariants; nothing has been seen that successors do not lead  *)
(* to.                                                                     *)
(***************************************************************************)
THEOREM FaultsInvariance == FaultsSpec => []FaultsInv
  <1>1. ASSUME FaultsInv, UNCHANGED faultVars
        PROVE  FaultsInv'
    <2>1. /\ network' = network /\ faults' = faults /\ slots' = slots
          /\ safety' = safety /\ seen' = seen /\ frontier' = frontier
      BY <1>1 DEF faultVars
    <2>2. \A s : SuccessorsOf(s)' = SuccessorsOf(s)
      BY <2>1, SuccessorsKeep
    <2>3. FaultsTypeOK' /\ (ExplorationIsBounded' <=> ExplorationIsBounded)
      BY <1>1, <2>1 DEF FaultsInv, FaultsTypeOK, ExplorationIsBounded
    <2>4. FaultsIInv'
      BY <1>1, <2>1, <2>2, <2>3 DEF FaultsInv, FaultsIInv
    <2> QED
      BY <2>3, <2>4 DEF FaultsInv
  <1> QED
    BY <1>1, FaultsStarts, FaultsStep, PTL DEF FaultsSpec

LEMMA FaultsProperty ==
  ASSUME FaultsInv
  PROVE  VerdictIsTheNetworks
  <1> SUFFICES ASSUME ExplorationIsBounded
               PROVE  /\ AllReachable(Unreliable)
                      /\ safety = "proved" =>
                           /\ \A s \in seen : /\ Moves(s) \subseteq seen
                                             /\ \A t \in Moves(s) : InvariantsHold(network, t)
                           /\ \A s \in seen \ {InitialState(network)} : InvariantsHold(network, s)
                      /\ safety = "failed" =>
                           \E s \in seen : \E t \in Attempts(s) : ~InvariantsHold(network, t)
    BY DEF VerdictIsTheNetworks
  <1>1. FaultsTypeOK /\ FaultsIInv /\ IsFiniteSet(seen)
    BY DEF FaultsInv, FaultsIInv
  <1>2. \A s \in seen : /\ SuccessorsOf(s) \subseteq Attempts(s)
                       /\ Attempts(s) \subseteq Moves(s) \cup {s}
                       /\ Moves(s) \subseteq SuccessorsOf(s)
    BY <1>1, BoundedAreAssignments, SuccessorsAreMoves
  <1>3. AllReachable(Unreliable)
    <2> DEFINE R == ReachableStates(Unreliable)
    <2>1. /\ States(Unreliable) = seen /\ Unreliable.initial = InitialState(network)
          /\ \A s \in seen : Unreliable.next[s] = Moves(s) \cap seen
      BY DEF States, Unreliable
    <2>2. IsMachine(Unreliable)
      <3>1. Unreliable.next \in [seen -> SUBSET seen]
        BY DEF Unreliable
      <3> QED
        BY <1>1, <2>1, <3>1 DEF IsMachine, FaultsIInv
    <2>3. /\ InitialState(network) \in R /\ R \subseteq seen
          /\ \A s \in R : Moves(s) \cap seen \subseteq R
      BY <2>1, <2>2, ReachableClosed DEF Closed
    <2> HIDE DEF R
    <2>4. \A s \in R : SuccessorsOf(s) \cap seen \subseteq R
      BY <1>2, <2>3
    <2>5. R = seen
      BY <1>1, <2>3, <2>4 DEF FaultsIInv
    <2> QED
      BY <2>1, <2>2, <2>5 DEF AllReachable, R
  <1>4. safety = "proved" =>
          \A s \in seen : Moves(s) \subseteq seen /\ \A t \in Moves(s) : InvariantsHold(network, t)
    BY <1>1, <1>2 DEF FaultsIInv
  \* The first state and those that keep the invariants are all there is: a
  \* step from anywhere leads to one that does.
  <1>5. ASSUME safety = "proved"
        PROVE  \A s \in seen \ {InitialState(network)} : InvariantsHold(network, s)
    <2> DEFINE S == {s \in seen : s = InitialState(network) \/ InvariantsHold(network, s)}
    <2>1. S \in SUBSET seen /\ InitialState(network) \in S
      BY <1>1 DEF FaultsIInv
    <2>2. \A s \in S : SuccessorsOf(s) \cap seen \subseteq S
      BY <1>1, <1>5 DEF FaultsIInv
    <2>3. S = seen
      <3> HIDE DEF S
      <3> QED
        BY <1>1, <2>1, <2>2 DEF FaultsIInv
    <2> QED
      BY <2>3
  <1>6. safety = "failed" =>
          \E s \in seen : \E t \in Attempts(s) : ~InvariantsHold(network, t)
    BY <1>1, <1>2 DEF FaultsIInv, FaultsTypeOK
  <1> QED
    BY <1>3, <1>4, <1>5, <1>6

(***************************************************************************)
(* A verdict of verify_distributed is about the unreliable network, for    *)
(* every domain, set of faults and list of slots: the injected operations  *)
(* of one message value and pair of slots each are exactly the losses,     *)
(* copies and exchanges of the network, and proved means that all it can   *)
(* reach was seen and that only the first state may break an invariant.    *)
(* That the fields stay within their bounds is assumed, as the code does.  *)
(***************************************************************************)
THEOREM FaultVerdict == FaultsSpec => []VerdictIsTheNetworks
  BY FaultsProperty, FaultsInvariance, PTL

-----------------------------------------------------------------------------
(* The bounded explorer                                                    *)

TraversalInv == TraversalTypeOK /\ TraversalIInv

\* The tries made that appended an edge.
Productive == {t \in Made : Appends(t) # {}}

\* The loops over a state have a number of iterations.
LEMMA OuterType ==
  ASSUME NEW sp \in Specs
  PROVE  OuterTries(sp) \in Nat
  <1>1. sp.actors \in Nat /\ Len(sp.ops) \in Nat
    BY TraversalAssumption DEF IsSequence
  <1> QED
    BY <1>1 DEF OuterTries

\* The shape of the domains explored.
LEMMA SpecFacts ==
  ASSUME TraversalTypeOK
  PROVE  /\ spec.actors \in Nat \ {0}
         /\ Len(spec.ops) \in Nat /\ DOMAIN spec.ops = 1 .. Len(spec.ops)
         /\ OuterTries(spec) \in Nat
         /\ Locked => OuterTries(spec) = spec.actors
         /\ ~Locked => OuterTries(spec) = Len(spec.ops)
         /\ \A i \in DOMAIN spec.ops : spec.ops[i].boolean \in BOOLEAN /\ spec.ops[i].stutter \in BOOLEAN
         /\ limits.states \in Nat \ {0} /\ limits.transitions \in Nat \ {0}
         /\ limits.work \in Nat \ {0}
  <1>1. spec \in Specs /\ limits \in Limits
    BY DEF TraversalTypeOK
  <1>2. /\ spec.actors \in Nat \ {0} /\ IsSequence(spec.ops)
        /\ limits \in [states : Nat \ {0}, transitions : Nat \ {0}, work : Nat \ {0}]
        /\ \A i \in DOMAIN spec.ops : spec.ops[i].boolean \in BOOLEAN /\ spec.ops[i].stutter \in BOOLEAN
    BY <1>1, TraversalAssumption
  <1>3. Len(spec.ops) \in Nat /\ DOMAIN spec.ops = 1 .. Len(spec.ops)
    BY <1>2 DEF IsSequence
  <1> QED
    BY <1>2, <1>3 DEF OuterTries, Locked

\* So have the loops inside them.
LEMMA InnerFacts ==
  ASSUME TraversalTypeOK, NEW s, NEW n \in 1 .. OuterTries(spec)
  PROVE  /\ InnerTries(s, n) \in Nat
         /\ Locked => n \in Actors /\ InnerTries(s, n) <= Len(spec.ops)
         /\ ~Locked => n \in DOMAIN spec.ops /\ InnerTries(s, n) <= spec.actors
  BY SpecFacts DEF InnerTries, Actors

\* A try is of a state, an outer and an inner iteration.
LEMMA TriesAre ==
  ASSUME NEW S
  PROVE  /\ \A t : t \in Tries(S) <=>
                     \E s \in S, n \in 1 .. OuterTries(spec) : \E k \in 0 .. InnerTries(s, n) :
                       t = <<s, n, k>>
         /\ \A s \in S, n \in 1 .. OuterTries(spec) : \A k \in 0 .. InnerTries(s, n) :
              <<s, n, k>> \in Tries(S)
         /\ \A t \in Tries(S) : /\ t = <<t[1], t[2], t[3]>> /\ t[1] \in S
                                /\ t[2] \in 1 .. OuterTries(spec)
                                /\ t[3] \in 0 .. InnerTries(t[1], t[2])
  <1>1. \A t : t \in Tries(S) <=>
                \E s \in S, n \in 1 .. OuterTries(spec) : \E k \in 0 .. InnerTries(s, n) :
                  t = <<s, n, k>>
    <2> DEFINE Here(s, n) == {<<s, n, k>> : k \in 0 .. InnerTries(s, n)}
    <2>1. Tries(S) = UNION {Here(s, n) : s \in S, n \in 1 .. OuterTries(spec)}
      BY DEF Tries
    <2>2. \A t, s, n : t \in Here(s, n) <=> \E k \in 0 .. InnerTries(s, n) : t = <<s, n, k>>
      OBVIOUS
    <2> HIDE DEF Here
    <2>3. \A t : t \in Tries(S) <=> \E s \in S, n \in 1 .. OuterTries(spec) : t \in Here(s, n)
      BY <2>1
    <2> QED
      BY <2>2, <2>3
  <1>2. ASSUME NEW t \in Tries(S)
        PROVE  /\ t = <<t[1], t[2], t[3]>> /\ t[1] \in S
               /\ t[2] \in 1 .. OuterTries(spec)
               /\ t[3] \in 0 .. InnerTries(t[1], t[2])
    <2>0. PICK s \in S, n \in 1 .. OuterTries(spec) : \E k \in 0 .. InnerTries(s, n) : t = <<s, n, k>>
      BY <1>1
    <2>1. PICK k \in 0 .. InnerTries(s, n) : t = <<s, n, k>>
      BY <2>0
    <2>2. t[1] = s /\ t[2] = n /\ t[3] = k
      BY <2>1
    <2> QED
      BY <2>1, <2>2
  <1>3. ASSUME NEW s \in S, NEW n \in 1 .. OuterTries(spec), NEW k \in 0 .. InnerTries(s, n)
        PROVE  <<s, n, k>> \in Tries(S)
    BY <1>1
  <1> QED
    BY <1>1, <1>2, <1>3

\* Finitely many states have finitely many tries.
LEMMA TriesFinite ==
  ASSUME TraversalTypeOK, NEW S, IsFiniteSet(S)
  PROVE  IsFiniteSet(Tries(S))
  <1> DEFINE Here(s, n) == {<<s, n, k>> : k \in 0 .. InnerTries(s, n)}
             N == OuterTries(spec)
             P == S \X (1 .. N)
             F == [p \in P |-> Here(p[1], p[2])]
             R == {F[p] : p \in P}
  <1>1. N \in Nat
    BY SpecFacts
  <1>2. ASSUME NEW s, NEW n \in 1 .. N
        PROVE  IsFiniteSet(Here(s, n))
    <2> DEFINE K == 0 .. InnerTries(s, n)
               G == [k \in K |-> <<s, n, k>>]
    <2>1. IsFiniteSet(K)
      BY <1>2, InnerFacts, FS_Interval
    <2>2. Here(s, n) = {G[k] : k \in K}
      OBVIOUS
    <2> HIDE DEF G, K, Here
    <2> QED
      BY <2>1, <2>2, FiniteImage
  <1> HIDE DEF Here
  <1>3. IsFiniteSet(P)
    <2>1. IsFiniteSet(1 .. N)
      BY <1>1, FS_Interval
    <2> QED
      BY <2>1, FS_Product
  <1>4. IsFiniteSet(R)
    <2> HIDE DEF F, P
    <2> QED
      BY <1>3, FiniteImage
  <1>5. \A T \in R : IsFiniteSet(T)
    BY <1>2
  <1>6. ASSUME NEW t \in Tries(S)
        PROVE  t \in UNION R
    <2>1. PICK s \in S, n \in 1 .. N : \E k \in 0 .. InnerTries(s, n) : t = <<s, n, k>>
      BY <1>6, TriesAre
    <2>2. t \in Here(s, n) /\ <<s, n>> \in P
      BY <2>1 DEF Here
    <2>3. F[<<s, n>>] = Here(s, n)
      BY <2>2
    <2>4. F[<<s, n>>] \in R
      BY <2>2
    <2> QED
      BY <2>2, <2>3, <2>4
  <1>7. Tries(S) \subseteq UNION R
    BY <1>6
  <1> HIDE DEF R
  <1> QED
    BY <1>4, <1>5, <1>7, FS_UNION, FS_Subset

\* The tries made, by quantifiers.
LEMMA MadeIs ==
  \A t : t \in Made <=>
    \E s \in discovered \ ToSet(queue), n \in 1 .. OuterTries(spec) :
      \E k \in 0 .. InnerTries(s, n) :
        t = <<s, n, k>> /\ (s = state => n < outer \/ (n = outer /\ k < inner))
  <1>1. ASSUME NEW t \in Made
        PROVE  \E s \in discovered \ ToSet(queue), n \in 1 .. OuterTries(spec) :
                 \E k \in 0 .. InnerTries(s, n) :
                   t = <<s, n, k>> /\ (s = state => n < outer \/ (n = outer /\ k < inner))
    <2>1. /\ t \in Tries(discovered \ ToSet(queue))
          /\ t[1] = state => t[2] < outer \/ (t[2] = outer /\ t[3] < inner)
      BY DEF Made
    <2> QED
      BY <2>1, TriesAre
  <1>2. ASSUME NEW s \in discovered \ ToSet(queue), NEW n \in 1 .. OuterTries(spec),
               NEW k \in 0 .. InnerTries(s, n),
               s = state => n < outer \/ (n = outer /\ k < inner)
        PROVE  <<s, n, k>> \in Made
    BY <1>2, TriesAre DEF Made
  <1> QED
    BY <1>1, <1>2

\* The states appended, by quantifiers.
LEMMA SuccessorsAre ==
  \A s, post : post \in Successors(s) <=>
    \E n \in 1 .. OuterTries(spec) : \E k \in 0 .. InnerTries(s, n) : post \in Posts(s, n, k)
  <1>1. ASSUME NEW s, NEW post \in Successors(s)
        PROVE  \E n \in 1 .. OuterTries(spec) : \E k \in 0 .. InnerTries(s, n) : post \in Posts(s, n, k)
    <2>1. PICK t \in Tries({s}) : post \in Appends(t)
      BY DEF Successors
    <2> QED
      BY <2>1, TriesAre DEF Appends
  <1>2. ASSUME NEW s, NEW n \in 1 .. OuterTries(spec), NEW k \in 0 .. InnerTries(s, n),
               NEW post \in Posts(s, n, k)
        PROVE  post \in Successors(s)
    <2>1. <<s, n, k>> \in Tries({s}) /\ post \in Appends(<<s, n, k>>)
      BY TriesAre DEF Appends
    <2> QED
      BY <2>1 DEF Successors
  <1> QED
    BY <1>1, <1>2

\* Both after a step as well.
LEMMA SuccessorsNext ==
  (\A s, post : post \in Successors(s) <=>
     \E n \in 1 .. OuterTries(spec) : \E k \in 0 .. InnerTries(s, n) : post \in Posts(s, n, k))'
  BY SuccessorsAre, PTL

LEMMA MadeNext ==
  (\A t : t \in Made <=>
     \E s \in discovered \ ToSet(queue), n \in 1 .. OuterTries(spec) :
       \E k \in 0 .. InnerTries(s, n) :
         t = <<s, n, k>> /\ (s = state => n < outer \/ (n = outer /\ k < inner)))'
  BY MadeIs, PTL

\* The domain does not change, nor what depends on it.
LEMMA DomainKeeps ==
  ASSUME spec' = spec
  PROVE  /\ OuterTries(spec)' = OuterTries(spec)
         /\ Locked' <=> Locked
         /\ \A s, n : InnerTries(s, n)' = InnerTries(s, n)
         /\ \A s, n, k : Posts(s, n, k)' = Posts(s, n, k)
         /\ \A s : Valid(s)' <=> Valid(s)
         /\ \A s : Successors(s)' = Successors(s)
         /\ Initially(spec)' = Initially(spec)
         /\ DomainStates(spec)' = DomainStates(spec)
  <1>1. /\ OuterTries(spec)' = OuterTries(spec)
        /\ Locked' <=> Locked
        /\ \A s, n : InnerTries(s, n)' = InnerTries(s, n)
        /\ \A s : Valid(s)' <=> Valid(s)
        /\ Initially(spec)' = Initially(spec)
        /\ DomainStates(spec)' = DomainStates(spec)
    BY DEF OuterTries, Locked, InnerTries, Valid
  <1>2. \A s, n, k : Posts(s, n, k)' = Posts(s, n, k)
    BY DEF Posts, ProtocolPost, CallPost, MayStep, Locked
  <1>3. ASSUME NEW s
        PROVE  Successors(s)' = Successors(s)
    <2>1. \A post : post \in Successors(s) <=>
            \E n \in 1 .. OuterTries(spec) : \E k \in 0 .. InnerTries(s, n) : post \in Posts(s, n, k)
      BY SuccessorsAre
    <2>2. \A post : post \in Successors(s)' <=>
            \E n \in 1 .. OuterTries(spec)' : \E k \in 0 .. InnerTries(s, n)' : post \in Posts(s, n, k)'
      BY SuccessorsNext
    <2> QED
      BY <1>1, <1>2, <2>1, <2>2
  <1> QED
    BY <1>1, <1>2, <1>3

-----------------------------------------------------------------------------
\* Effects keep the fields.
LEMMA EffectsAre ==
  ASSUME NEW o, NEW f
  PROVE  ApplyEffects(o, f) = [name \in DOMAIN f |-> ApplyEffects(o, f)[name]]
  BY DEF ApplyEffects

\* A state within the bounds that a try appends is a state of the domain.
LEMMA PostTyped ==
  ASSUME TraversalTypeOK, NEW s \in DomainStates(spec), NEW n \in 1 .. OuterTries(spec),
         NEW k \in 0 .. InnerTries(s, n), NEW post \in Posts(s, n, k), InBounds(spec, post.fields)
  PROVE  post \in DomainStates(spec)
  <1> DEFINE Phases == {"IDLE", "INVOKED", "ACQUIRED", "LINEARIZED", "RELEASED"}
             Outcomes == {"none", "true", "false"}
  <1>1. /\ s = [fields |-> s.fields, pc |-> s.pc, pending |-> s.pending, result |-> s.result]
        /\ s.fields \in Assignments(spec) /\ s.pc \in [Actors -> Phases]
        /\ s.pending \in [Actors -> 0 .. Len(spec.ops)] /\ s.result \in [Actors -> Outcomes]
    BY DEF DomainStates, Actors
  <1>2. /\ DOMAIN s.fields = Names(spec)
        /\ s.fields = [name \in Names(spec) |-> s.fields[name]]
    BY <1>1, AssignmentFacts
  <1>3. SUFFICES /\ post = [fields |-> post.fields, pc |-> post.pc, pending |-> post.pending,
                            result |-> post.result]
                 /\ post.fields = [name \in Names(spec) |-> post.fields[name]]
                 /\ post.pc \in [Actors -> Phases]
                 /\ post.pending \in [Actors -> 0 .. Len(spec.ops)]
                 /\ post.result \in [Actors -> Outcomes]
    <2>1. post.fields = [name \in Names(spec) |-> post.fields[name]] => post.fields \in Assignments(spec)
      BY AssignmentIs DEF TraversalTypeOK
    <2> QED
      BY <2>1 DEF DomainStates, Actors
  <1>4. \A o : LET f == ApplyEffects(o, s.fields)
              IN  f = [name \in Names(spec) |-> f[name]]
    BY <1>2, EffectsAre
  <1>5. \A name, v : LET f == [s.fields EXCEPT ![name] = v]
                    IN  f = [other \in Names(spec) |-> f[other]]
    BY <1>2
  <1>6. CASE Locked /\ k # 0
    <2>1. post = [s EXCEPT !.pc[n] = "INVOKED", !.pending[n] = k]
      BY <1>6 DEF Posts
    <2>2. n \in Actors /\ k \in 0 .. Len(spec.ops)
      BY <1>6, SpecFacts, InnerFacts
    <2> QED
      BY <1>1, <1>2, <2>1, <2>2
  <1>7. CASE Locked /\ k = 0
    <2>1. MayStep(s, n) /\ post = ProtocolPost(s, n)
      BY <1>7 DEF Posts
    <2>2. n \in Actors /\ 0 \in 0 .. Len(spec.ops)
      BY <1>7, SpecFacts, InnerFacts
    <2> DEFINE op == spec.ops[s.pending[n]]
               Lock(value) == [s.fields EXCEPT ![spec.lock.var] = value]
               Move(f, ph) == [s EXCEPT !.fields = f, !.pc[n] = ph]
    <2>3. \/ post = Move(Lock(spec.lock.owners[n]), "ACQUIRED")
          \/ post = Move(ApplyEffects(op, s.fields), "LINEARIZED")
          \/ post = Move(Lock(spec.lock.unlocked), "RELEASED")
          \/ post = [s EXCEPT !.pc[n] = "IDLE", !.pending[n] = 0]
      BY <2>1 DEF MayStep, ProtocolPost
    <2>4. ASSUME NEW f, NEW ph \in Phases, f = [name \in Names(spec) |-> f[name]], post = Move(f, ph)
          PROVE  /\ post = [fields |-> post.fields, pc |-> post.pc, pending |-> post.pending,
                            result |-> post.result]
                 /\ post.fields = f
                 /\ post.pc \in [Actors -> Phases]
                 /\ post.pending = s.pending /\ post.result = s.result
      BY <1>1, <2>2, <2>4
    <2>5. CASE post = [s EXCEPT !.pc[n] = "IDLE", !.pending[n] = 0]
      BY <1>1, <1>2, <2>2, <2>5
    <2>6. ASSUME NEW f, NEW ph \in Phases, f = [name \in Names(spec) |-> f[name]], post = Move(f, ph)
          PROVE  /\ post = [fields |-> post.fields, pc |-> post.pc, pending |-> post.pending,
                            result |-> post.result]
                 /\ post.fields = [name \in Names(spec) |-> post.fields[name]]
                 /\ post.pc \in [Actors -> Phases]
                 /\ post.pending \in [Actors -> 0 .. Len(spec.ops)]
                 /\ post.result \in [Actors -> Outcomes]
      BY <1>1, <2>4, <2>6
    <2> HIDE DEF Move
    <2>7. CASE post = Move(Lock(spec.lock.owners[n]), "ACQUIRED")
      BY <1>5, <2>6, <2>7
    <2>8. CASE post = Move(ApplyEffects(op, s.fields), "LINEARIZED")
      BY <1>4, <2>6, <2>8
    <2>9. CASE post = Move(Lock(spec.lock.unlocked), "RELEASED")
      BY <1>5, <2>6, <2>9
    <2> QED
      BY <2>3, <2>5, <2>7, <2>8, <2>9
  <1>8. CASE ~Locked
    <2>1. k # 0 /\ post = CallPost(s, n, k)
      BY <1>8 DEF Posts
    <2>2. k \in Actors
      BY <1>8, <2>1, SpecFacts, InnerFacts DEF Actors
    <2> DEFINE op == spec.ops[n]
    <2>3. \/ post = [s EXCEPT !.result[k] = "false"]
          \/ post = [s EXCEPT !.fields = ApplyEffects(op, s.fields), !.result[k] = "true"]
          \/ post = [s EXCEPT !.fields = ApplyEffects(op, s.fields)]
      BY <2>1 DEF CallPost
    <2>4. CASE post = [s EXCEPT !.result[k] = "false"]
      BY <1>1, <1>2, <2>2, <2>4
    <2>5. CASE post = [s EXCEPT !.fields = ApplyEffects(op, s.fields), !.result[k] = "true"]
      BY <1>1, <1>4, <2>2, <2>5
    <2>6. CASE post = [s EXCEPT !.fields = ApplyEffects(op, s.fields)]
      BY <1>1, <1>4, <2>2, <2>6
    <2> QED
      BY <2>3, <2>4, <2>5, <2>6
  <1> QED
    BY <1>6, <1>7, <1>8

-----------------------------------------------------------------------------
\* What is taken from the queue is in it once.
LEMMA QueueFacts ==
  ASSUME NEW S, NEW q \in Seq(S), IsInjective(q), q # <<>>
  PROVE  /\ ToSet(q) = ToSet(Tail(q)) \cup {Head(q)}
         /\ Head(q) \in S /\ Head(q) \notin ToSet(Tail(q))
         /\ IsInjective(Tail(q)) /\ Tail(q) \in Seq(S)
  <1>1. /\ Len(q) \in Nat \ {0} /\ DOMAIN q = 1 .. Len(q)
        /\ Tail(q) \in Seq(S) /\ Len(Tail(q)) = Len(q) - 1
        /\ DOMAIN Tail(q) = 1 .. Len(q) - 1 /\ Head(q) = q[1]
        /\ \A i \in 1 .. Len(q) - 1 : Tail(q)[i] = q[i + 1]
        /\ \A i \in 1 .. Len(q) : q[i] \in S
    OBVIOUS
  <1>2. ToSet(q) \subseteq ToSet(Tail(q)) \cup {Head(q)}
    <2>1. ASSUME NEW i \in 1 .. Len(q)
          PROVE  q[i] \in ToSet(Tail(q)) \cup {Head(q)}
      <3>1. CASE i = 1
        BY <1>1, <3>1
      <3>2. CASE i # 1
        <4>1. i - 1 \in DOMAIN Tail(q) /\ Tail(q)[i - 1] = q[i]
          BY <1>1, <2>1, <3>2
        <4> QED
          BY <4>1 DEF ToSet
      <3> QED
        BY <3>1, <3>2
    <2> QED
      BY <1>1, <2>1 DEF ToSet
  <1>3. \A i \in DOMAIN Tail(q) : Tail(q)[i] = q[i + 1] /\ i + 1 \in DOMAIN q /\ i + 1 # 1
    BY <1>1
  <1>4. ToSet(Tail(q)) \cup {Head(q)} \subseteq ToSet(q)
    BY <1>1, <1>3 DEF ToSet
  <1>5. Head(q) \notin ToSet(Tail(q))
    BY <1>1, <1>3 DEF ToSet, IsInjective
  <1>6. IsInjective(Tail(q))
    <2> SUFFICES ASSUME NEW i \in DOMAIN Tail(q), NEW j \in DOMAIN Tail(q), Tail(q)[i] = Tail(q)[j]
                 PROVE  i = j
      BY DEF IsInjective
    <2>1. i + 1 = j + 1
      BY <1>3 DEF IsInjective
    <2> QED
      BY <1>1, <2>1
  <1> QED
    BY <1>1, <1>2, <1>4, <1>5, <1>6

\* What was not in the queue is appended to it.
LEMMA AppendFacts ==
  ASSUME NEW S, NEW q \in Seq(S), IsInjective(q), NEW x, x \notin S
  PROVE  /\ ToSet(Append(q, x)) = ToSet(q) \cup {x}
         /\ IsInjective(Append(q, x))
         /\ Append(q, x) \in Seq(S \cup {x})
  <1>1. /\ Len(q) \in Nat /\ DOMAIN q = 1 .. Len(q)
        /\ DOMAIN Append(q, x) = 1 .. Len(q) + 1
        /\ \A i \in 1 .. Len(q) : Append(q, x)[i] = q[i] /\ q[i] \in S
        /\ Append(q, x)[Len(q) + 1] = x
    OBVIOUS
  <1>2. ToSet(Append(q, x)) \subseteq ToSet(q) \cup {x}
    BY <1>1 DEF ToSet
  <1>3. ToSet(q) \cup {x} \subseteq ToSet(Append(q, x))
    BY <1>1 DEF ToSet
  <1>4. IsInjective(Append(q, x))
    BY <1>1 DEF IsInjective
  <1>5. q \in Seq(S \cup {x})
    OBVIOUS
  <1> QED
    BY <1>2, <1>3, <1>4, <1>5

\* The try that is next has not been made.
LEMMA TryNew ==
  ASSUME TraversalInv, ~Expanded
  PROVE  /\ state \in discovered \ ToSet(queue)
         /\ outer \in 1 .. OuterTries(spec) /\ inner \in 0 .. InnerTries(state, outer)
         /\ <<state, outer, inner>> \in Tries(discovered)
         /\ <<state, outer, inner>> \notin Made
         /\ Appends(<<state, outer, inner>>) = Posts(state, outer, inner)
         /\ Posts(state, outer, inner) \subseteq Successors(state)
  <1>1. /\ state \in discovered \ ToSet(queue) /\ outer >= 1 /\ inner <= InnerTries(state, outer)
        /\ outer \in Nat /\ inner \in Nat /\ OuterTries(spec) \in Nat
    BY SpecFacts DEF TraversalInv, TraversalIInv, Positioned, TraversalTypeOK
  <1>2. outer \in 1 .. OuterTries(spec)
    BY <1>1 DEF Expanded
  <1>3. InnerTries(state, outer) \in Nat
    BY <1>2, InnerFacts DEF TraversalInv
  <1>4. inner \in 0 .. InnerTries(state, outer)
    BY <1>1, <1>3
  <1>5. <<state, outer, inner>> \in Tries(discovered)
    BY <1>1, <1>2, <1>4, TriesAre
  <1>6. <<state, outer, inner>> \notin Made
    <2>1. /\ <<state, outer, inner>>[1] = state /\ <<state, outer, inner>>[2] = outer
          /\ <<state, outer, inner>>[3] = inner
      OBVIOUS
    <2> QED
      BY <1>1, <2>1 DEF Made
  <1>7. Appends(<<state, outer, inner>>) = Posts(state, outer, inner)
    BY DEF Appends
  <1>8. Posts(state, outer, inner) \subseteq Successors(state)
    BY <1>2, <1>4, SuccessorsAre
  <1> QED
    BY <1>1, <1>2, <1>4, <1>5, <1>6, <1>7, <1>8

\* Once the loops are over every try of the states taken from the queue is made.
LEMMA MadeIsFinite ==
  ASSUME TraversalInv
  PROVE  /\ Made \subseteq Tries(discovered) /\ IsFiniteSet(Made)
         /\ Cardinality(Made) \in Nat
         /\ Expanded => Made = Tries(discovered \ ToSet(queue))
  <1>1. Made \subseteq Tries(discovered)
    BY TriesAre DEF Made
  <1>2. IsFiniteSet(Made)
    BY <1>1, TriesFinite, FS_Subset DEF TraversalInv, TraversalTypeOK
  <1>3. ASSUME Expanded, NEW t \in Tries(discovered \ ToSet(queue))
        PROVE  t \in Made
    <2>1. t[2] \in 1 .. OuterTries(spec) /\ OuterTries(spec) \in Nat /\ outer \in Nat
      BY <1>3, TriesAre, SpecFacts DEF TraversalInv, TraversalTypeOK
    <2>2. t[2] < outer
      BY <1>3, <2>1 DEF Expanded
    <2> QED
      BY <1>3, <2>2 DEF Made
  <1> QED
    BY <1>1, <1>2, <1>3, FS_CardinalityType DEF Made

\* After a try it is made, and the loops are at the next one.
LEMMA TryMade ==
  ASSUME TraversalInv, ~Expanded, Advance, spec' = spec, state' = state,
         discovered' \ ToSet(queue') = discovered \ ToSet(queue)
  PROVE  /\ Made' = Made \cup {<<state, outer, inner>>}
         /\ Cardinality(Made') = Cardinality(Made) + 1
         /\ outer' \in Nat /\ inner' \in Nat
         /\ Expanded' \/ (outer' >= 1 /\ inner' <= InnerTries(state, outer'))
  <1> DEFINE N == OuterTries(spec)
             T == InnerTries(state, outer)
             here == <<state, outer, inner>>
  <1>1. /\ state \in discovered \ ToSet(queue) /\ outer \in 1 .. N /\ inner \in 0 .. T
        /\ here \notin Made /\ N \in Nat /\ T \in Nat
    BY TryNew, SpecFacts, InnerFacts DEF TraversalInv
  <1>2. /\ OuterTries(spec)' = OuterTries(spec)
        /\ \A s, n : InnerTries(s, n)' = InnerTries(s, n)
    BY DomainKeeps
  <1>3. \/ inner < T /\ inner' = inner + 1 /\ outer' = outer
        \/ inner = T /\ outer' = outer + 1 /\ inner' = 0
    BY <1>1 DEF Advance
  <1>4. \A t : t \in Made <=>
          \E s \in discovered \ ToSet(queue), n \in 1 .. N :
            \E k \in 0 .. InnerTries(s, n) :
              t = <<s, n, k>> /\ (s = state => n < outer \/ (n = outer /\ k < inner))
    BY MadeIs
  <1>5. \A t : t \in Made' <=>
          \E s \in discovered \ ToSet(queue), n \in 1 .. N :
            \E k \in 0 .. InnerTries(s, n) :
              t = <<s, n, k>> /\ (s = state => n < outer' \/ (n = outer' /\ k < inner'))
    BY <1>2, MadeNext
  <1>6. ASSUME NEW n \in 1 .. N, NEW k \in 0 .. InnerTries(state, n)
        PROVE  (n < outer' \/ (n = outer' /\ k < inner')) <=>
               (n < outer \/ (n = outer /\ k < inner) \/ (n = outer /\ k = inner))
    <2>1. InnerTries(state, n) \in Nat
      BY InnerFacts DEF TraversalInv
    <2> QED
      BY <1>1, <1>3, <2>1
  <1> HIDE DEF N
  <1>7. Made' \subseteq Made \cup {here}
    <2> SUFFICES ASSUME NEW t \in Made'
                 PROVE  t \in Made \cup {here}
      OBVIOUS
    <2>1. PICK s \in discovered \ ToSet(queue), n \in 1 .. N : \E k \in 0 .. InnerTries(s, n) :
            t = <<s, n, k>> /\ (s = state => n < outer' \/ (n = outer' /\ k < inner'))
      BY <1>5
    <2>2. PICK k \in 0 .. InnerTries(s, n) :
            t = <<s, n, k>> /\ (s = state => n < outer' \/ (n = outer' /\ k < inner'))
      BY <2>1
    <2> QED
      BY <1>4, <1>6, <2>1, <2>2
  <1>8. Made \cup {here} \subseteq Made'
    <2>1. ASSUME NEW t \in Made
          PROVE  t \in Made'
      <3>1. PICK s \in discovered \ ToSet(queue), n \in 1 .. N : \E k \in 0 .. InnerTries(s, n) :
              t = <<s, n, k>> /\ (s = state => n < outer \/ (n = outer /\ k < inner))
        BY <1>4, <2>1
      <3>2. PICK k \in 0 .. InnerTries(s, n) :
              t = <<s, n, k>> /\ (s = state => n < outer \/ (n = outer /\ k < inner))
        BY <3>1
      <3>3. s = state => n < outer' \/ (n = outer' /\ k < inner')
        BY <1>6, <3>1, <3>2
      <3> QED
        BY <1>5, <3>1, <3>2, <3>3
    <2>2. here \in Made'
      <3>1. outer < outer' \/ (outer = outer' /\ inner < inner')
        BY <1>1, <1>6
      <3> QED
        BY <1>1, <1>5, <3>1
    <2> QED
      BY <2>1, <2>2
  <1>9. Cardinality(Made \cup {here}) = Cardinality(Made) + 1
    BY <1>1, MadeIsFinite, FS_AddElement
  <1>10. Expanded' \/ (outer' >= 1 /\ inner' <= InnerTries(state, outer'))
    <2>1. CASE outer' = outer
      <3>1. inner' <= InnerTries(state, outer) /\ outer' >= 1
        BY <1>1, <1>3, <2>1
      <3> QED
        BY <2>1, <3>1
    <2>2. CASE outer' = outer + 1 /\ inner' = 0
      <3>1. CASE outer' \in 1 .. N
        <4>1. InnerTries(state, outer') \in Nat
          BY <3>1, InnerFacts DEF TraversalInv, N
        <4> QED
          BY <2>2, <3>1, <4>1
      <3>2. CASE outer' \notin 1 .. N
        BY <1>1, <1>2, <2>2, <3>2 DEF Expanded, N
      <3> QED
        BY <3>1, <3>2
    <2> QED
      BY <1>3, <2>1, <2>2
  <1>11. outer' \in Nat /\ inner' \in Nat
    BY <1>1, <1>3
  <1>12. Made' = Made \cup {here}
    BY <1>7, <1>8
  <1> QED
    BY <1>9, <1>10, <1>11, <1>12

\* The inductive invariant holds at the start, and each action keeps it.
LEMMA TraversalStarts ==
  ASSUME TraversalInit
  PROVE  TraversalInv
  <1>1. /\ spec \in Specs /\ ValidSpec(spec) /\ limits \in Limits /\ verdict = "start"
        /\ queue = <<>> /\ discovered = {} /\ transitions = 0 /\ work = 0
        /\ outer = OuterTries(spec) + 1 /\ inner = 0
    BY DEF TraversalInit
  <1>2. OuterTries(spec) \in Nat
    BY <1>1, OuterType
  <1>3. TraversalTypeOK
    BY <1>1, <1>2, FS_EmptySet DEF TraversalTypeOK
  <1>4. Made = {} /\ Productive = {}
    <2>1. Tries(discovered \ ToSet(queue)) = {}
      BY <1>1, TriesAre
    <2> QED
      BY <2>1 DEF Made, Productive
  <1>5. Expanded
    BY <1>1, <1>2 DEF Expanded
  <1>6. Positioned
    BY <1>1, <1>5 DEF Positioned, IsInjective
  <1>7. Counted
    BY <1>1, <1>3, <1>4, FS_EmptySet, SpecFacts DEF Counted, Productive
  <1>8. Generated /\ Caused
    BY <1>1 DEF Generated, Caused
  <1> QED
    BY <1>1, <1>3, <1>4, <1>6, <1>7, <1>8 DEF TraversalInv, TraversalIInv

\* Where only the verdict and the work change.
LEMMA TraversalKeeps ==
  ASSUME TraversalInv,
         UNCHANGED <<spec, limits, queue, discovered, transitions, state, outer, inner>>
  PROVE  /\ Made' = Made /\ Productive' = Productive
         /\ Expanded' <=> Expanded
         /\ \A s : Valid(s)' <=> Valid(s)
         /\ \A post : Room(post)' <=> Room(post)
         /\ Posts(state, outer, inner)' = Posts(state, outer, inner)
         /\ verdict' \in {"start", "exploring", "accepted", "invalid", "exceeds"} /\ work' \in Nat
              => TraversalTypeOK'
         /\ (\A s \in discovered : Valid(s))' /\ (\A t \in Made : Appends(t) \subseteq discovered)'
         /\ Generated'
         /\ \/ Expanded'
            \/ (state \in discovered \ ToSet(queue) /\ outer >= 1 /\ inner <= InnerTries(state, outer))'
  <1>1. /\ spec' = spec /\ limits' = limits /\ queue' = queue /\ discovered' = discovered
        /\ transitions' = transitions /\ state' = state /\ outer' = outer /\ inner' = inner
    OBVIOUS
  <1>2. /\ OuterTries(spec)' = OuterTries(spec)
        /\ \A s, n : InnerTries(s, n)' = InnerTries(s, n)
        /\ \A s, n, k : Posts(s, n, k)' = Posts(s, n, k)
        /\ \A s : Valid(s)' <=> Valid(s)
        /\ \A s : Successors(s)' = Successors(s)
        /\ Initially(spec)' = Initially(spec)
    BY <1>1, DomainKeeps
  <1>3. \A t : Appends(t)' = Appends(t)
    BY <1>2 DEF Appends
  <1>4. Made' = Made
    BY <1>1, <1>2, MadeIs, MadeNext
  <1>5. Expanded' <=> Expanded
    BY <1>1, <1>2 DEF Expanded
  <1>6. \A post : Room(post)' <=> Room(post)
    BY <1>1 DEF Room
  <1>7. Posts(state, outer, inner)' = Posts(state, outer, inner)
    BY <1>1 DEF Posts, ProtocolPost, CallPost, MayStep, Locked
  <1>8. TraversalTypeOK /\ TraversalIInv
    BY DEF TraversalInv
  <1>9. verdict' \in {"start", "exploring", "accepted", "invalid", "exceeds"} /\ work' \in Nat
          => TraversalTypeOK'
    BY <1>1, <1>8 DEF TraversalTypeOK
  <1>10. Generated'
    BY <1>1, <1>2, <1>8 DEF TraversalIInv, Generated
  <1>11. \/ Expanded
         \/ (state \in discovered \ ToSet(queue) /\ outer >= 1 /\ inner <= InnerTries(state, outer))'
    BY <1>1, <1>8 DEF TraversalIInv, Positioned, InnerTries, Locked
  <1>12. Productive' = Productive
    BY <1>3, <1>4 DEF Productive
  <1>13. (\A s \in discovered : Valid(s))' /\ (\A t \in Made : Appends(t) \subseteq discovered)'
    BY <1>1, <1>2, <1>3, <1>4, <1>8 DEF TraversalIInv
  <1> QED
    BY <1>2, <1>4, <1>5, <1>6, <1>7, <1>9, <1>10, <1>11, <1>12, <1>13

LEMMA BeginKeeps ==
  ASSUME TraversalInv, Begin
  PROVE  TraversalInv'
  <1>1. /\ spec' = spec /\ limits' = limits /\ transitions' = transitions /\ work' = work
        /\ state' = state /\ outer' = outer /\ inner' = inner /\ verdict = "start"
    BY DEF Begin
  <1>2. /\ OuterTries(spec)' = OuterTries(spec)
        /\ \A s : Valid(s)' <=> Valid(s)
        /\ Initially(spec)' = Initially(spec) /\ DomainStates(spec)' = DomainStates(spec)
    BY <1>1, DomainKeeps
  <1>3. /\ TraversalTypeOK /\ Positioned /\ Counted /\ discovered = {} /\ Expanded
    BY <1>1 DEF TraversalInv, TraversalIInv, Positioned
  <1>4. Made = {} /\ Productive = {} /\ work = 0 /\ transitions = 0 /\ queue = <<>>
    <2>1. Tries(discovered \ ToSet(queue)) = {}
      BY <1>3, TriesAre
    <2>2. Made = {} /\ Productive = {}
      BY <2>1 DEF Made, Productive
    <2>3. work = Cardinality(Made) /\ transitions = Cardinality(Productive)
      BY <1>1, <1>3 DEF Counted, Productive
    <2>4. queue = <<>>
      BY <1>3 DEF TraversalTypeOK
    <2> QED
      BY <2>2, <2>3, <2>4, FS_EmptySet
  <1>5. Expanded'
    BY <1>1, <1>2, <1>3 DEF Expanded
  <1>6. CASE Valid(Initially(spec))
    <2> DEFINE first == Initially(spec)
    <2>1. verdict' = "exploring" /\ queue' = <<first>> /\ discovered' = {first}
      BY <1>6 DEF Begin
    <2>2. first \in DomainStates(spec)
      <3>1. InitialState(spec) \in Assignments(spec)
        BY <1>3, <1>6, AssignmentIs DEF Valid, Initially, InitialState, TraversalTypeOK
      <3>2. spec.actors \in Nat /\ Len(spec.ops) \in Nat
        BY <1>3, SpecFacts
      <3> QED
        BY <3>1, <3>2 DEF Initially, DomainStates
    <2> HIDE DEF first
    <2>3. ToSet(queue') = {first} /\ IsInjective(queue')
      BY <2>1 DEF ToSet, IsInjective
    <2>4. Made' = {} /\ Productive' = {}
      BY <2>1, <2>3, MadeNext DEF Productive
    <2>5. Cardinality({}) = 0 /\ Cardinality({first}) = 1 /\ IsFiniteSet({first})
      BY FS_EmptySet, FS_Singleton
    <2>6. TraversalTypeOK'
      BY <1>1, <1>2, <1>3, <1>4, <2>1, <2>2, <2>5 DEF TraversalTypeOK
    <2>7. Counted'
      <3>1. limits.states \in Nat \ {0} /\ limits.transitions \in Nat /\ limits.work \in Nat
        BY <1>3, SpecFacts
      <3> QED
        BY <1>1, <1>4, <2>1, <2>4, <2>5, <3>1 DEF Counted, Productive
    <2>8. Positioned'
      BY <1>2, <1>5, <2>1, <2>3 DEF Positioned, first
    <2>9. Generated'
      BY <1>2, <2>1 DEF Generated, first
    <2>10. Caused' /\ (\A s \in discovered : Valid(s))'
      BY <1>2, <1>6, <2>1 DEF Caused, first
    <2> QED
      BY <2>4, <2>6, <2>7, <2>8, <2>9, <2>10 DEF TraversalInv, TraversalIInv
  <1>7. CASE ~Valid(Initially(spec))
    <2>1. verdict' = "invalid" /\ queue' = queue /\ discovered' = discovered
      BY <1>7 DEF Begin
    <2>2. /\ Made' = Made /\ Productive' = Productive /\ TraversalTypeOK'
          /\ (\A s \in discovered : Valid(s))' /\ (\A t \in Made : Appends(t) \subseteq discovered)'
          /\ Generated'
      BY <1>1, <1>3, <2>1, TraversalKeeps DEF TraversalTypeOK
    <2>3. Positioned'
      BY <1>3, <1>5, <2>1 DEF Positioned
    <2>4. Counted'
      BY <1>1, <1>3, <2>1, <2>2 DEF Counted, Productive
    <2>5. Caused'
      BY <1>2, <1>7, <2>1 DEF Caused
    <2> QED
      BY <2>2, <2>3, <2>4, <2>5 DEF TraversalInv, TraversalIInv
  <1> QED
    BY <1>6, <1>7

LEMMA PopKeeps ==
  ASSUME TraversalInv, Pop
  PROVE  TraversalInv'
  <1>1. /\ spec' = spec /\ limits' = limits /\ transitions' = transitions /\ work' = work
        /\ verdict' = verdict /\ discovered' = discovered
        /\ state' = Head(queue) /\ queue' = Tail(queue) /\ outer' = 1 /\ inner' = 0
        /\ verdict = "exploring" /\ Expanded /\ queue # <<>>
    BY DEF Pop
  <1>2. /\ OuterTries(spec)' = OuterTries(spec)
        /\ \A s, n : InnerTries(s, n)' = InnerTries(s, n)
        /\ \A s, n, k : Posts(s, n, k)' = Posts(s, n, k)
        /\ \A s : Valid(s)' <=> Valid(s)
        /\ \A s : Successors(s)' = Successors(s)
        /\ Initially(spec)' = Initially(spec) /\ DomainStates(spec)' = DomainStates(spec)
    BY <1>1, DomainKeeps
  <1>3. TraversalTypeOK /\ TraversalIInv /\ Positioned /\ Counted
    BY DEF TraversalInv, TraversalIInv
  <1>4. /\ ToSet(queue) = ToSet(Tail(queue)) \cup {Head(queue)}
        /\ Head(queue) \in discovered /\ Head(queue) \notin ToSet(Tail(queue))
        /\ IsInjective(Tail(queue)) /\ Tail(queue) \in Seq(discovered)
    BY <1>1, <1>3, QueueFacts DEF TraversalTypeOK, Positioned
  <1>5. Made' = Made
    <2>1. ASSUME NEW t \in Made
          PROVE  t \in Made'
      <3>1. PICK s \in discovered \ ToSet(queue), n \in 1 .. OuterTries(spec) :
              \E k \in 0 .. InnerTries(s, n) : t = <<s, n, k>>
        BY <2>1, MadeIs
      <3>2. s \in discovered' \ ToSet(queue') /\ s # state'
        BY <1>1, <1>4, <3>1
      <3> QED
        BY <1>2, <3>1, <3>2, MadeNext
    <2>2. ASSUME NEW t \in Made'
          PROVE  t \in Made
      <3>1. PICK s \in discovered' \ ToSet(queue'), n \in 1 .. OuterTries(spec) :
              \E k \in 0 .. InnerTries(s, n) :
                t = <<s, n, k>> /\ (s = state' => n < outer' \/ (n = outer' /\ k < inner'))
        BY <1>2, <2>2, MadeNext
      <3>2. PICK k \in 0 .. InnerTries(s, n) :
              t = <<s, n, k>> /\ (s = state' => n < outer' \/ (n = outer' /\ k < inner'))
        BY <3>1
      <3>3. InnerTries(s, n) \in Nat /\ OuterTries(spec) \in Nat
        BY <1>3, InnerFacts, SpecFacts
      <3>4. s # state'
        BY <1>1, <3>1, <3>2, <3>3
      <3>5. s \in discovered \ ToSet(queue)
        BY <1>1, <1>4, <3>1, <3>4
      <3>6. t \in Tries(discovered \ ToSet(queue))
        BY <3>1, <3>2, <3>5, TriesAre
      <3> QED
        BY <1>1, <3>6, MadeIsFinite
    <2> QED
      BY <2>1, <2>2
  <1>6. Productive' = Productive /\ \A t : Appends(t)' = Appends(t)
    BY <1>2, <1>5 DEF Productive, Appends
  <1>7. TraversalTypeOK'
    BY <1>1, <1>2, <1>3, <1>4 DEF TraversalTypeOK
  <1>8. Positioned'
    <2>1. CASE OuterTries(spec) = 0
      <3>1. Expanded'
        BY <1>1, <1>2, <2>1 DEF Expanded
      <3> QED
        BY <1>1, <1>2, <1>3, <1>4, <3>1 DEF Positioned
    <2>2. CASE OuterTries(spec) # 0
      <3>1. 1 \in 1 .. OuterTries(spec)
        BY <1>3, <2>2, SpecFacts
      <3>2. InnerTries(Head(queue), 1) \in Nat
        BY <1>3, <3>1, InnerFacts
      <3>3. InnerTries(state, outer)' = InnerTries(Head(queue), 1)
        BY <1>1 DEF InnerTries, Locked
      <3>4. (state \in discovered \ ToSet(queue) /\ outer >= 1 /\ inner <= InnerTries(state, outer))'
        BY <1>1, <1>4, <3>2, <3>3
      <3> QED
        BY <1>1, <1>2, <1>3, <1>4, <3>4 DEF Positioned
    <2> QED
      BY <2>1, <2>2
  <1>9. Counted'
    BY <1>1, <1>3, <1>5, <1>6 DEF Counted, Productive
  <1>10. Generated'
    BY <1>1, <1>2, <1>3 DEF Generated, TraversalIInv
  <1>11. (\A s \in discovered : Valid(s))' /\ (\A t \in Made : Appends(t) \subseteq discovered)'
    BY <1>1, <1>2, <1>3, <1>5, <1>6 DEF TraversalIInv
  <1>12. Caused'
    BY <1>1 DEF Caused
  <1> QED
    BY <1>7, <1>8, <1>9, <1>10, <1>11, <1>12 DEF TraversalInv, TraversalIInv

LEMMA OutOfWorkKeeps ==
  ASSUME TraversalInv, OutOfWork
  PROVE  TraversalInv'
  <1>1. /\ UNCHANGED <<spec, limits, queue, discovered, transitions, state, outer, inner>>
        /\ work' = work /\ verdict' = "exceeds" /\ verdict = "exploring" /\ ~Expanded
        /\ work >= limits.work
    BY DEF OutOfWork
  <1>2. /\ Made' = Made /\ Productive' = Productive /\ TraversalTypeOK' /\ ~Expanded'
        /\ (\A s \in discovered : Valid(s))' /\ (\A t \in Made : Appends(t) \subseteq discovered)'
        /\ Generated'
        /\ (state \in discovered \ ToSet(queue) /\ outer >= 1 /\ inner <= InnerTries(state, outer))'
    BY <1>1, TraversalKeeps DEF TraversalInv, TraversalTypeOK
  <1>3. Positioned /\ Counted
    BY DEF TraversalInv, TraversalIInv
  <1>4. Positioned'
    <2>1. Initially(spec)' = Initially(spec)
      BY <1>1
    <2> QED
      BY <1>1, <1>2, <1>3, <2>1 DEF Positioned
  <1>5. Counted'
    BY <1>1, <1>2, <1>3 DEF Counted, Productive
  <1>6. Caused'
    BY <1>1, <1>2, <1>3 DEF Caused, Counted
  <1> QED
    BY <1>2, <1>4, <1>5, <1>6 DEF TraversalInv, TraversalIInv

LEMMA FinishKeeps ==
  ASSUME TraversalInv, Finish
  PROVE  TraversalInv'
  <1>1. /\ UNCHANGED <<spec, limits, queue, discovered, transitions, state, outer, inner>>
        /\ work' = work /\ verdict = "exploring" /\ Expanded /\ queue = <<>>
        /\ verdict' = IF transitions = 0 THEN "invalid" ELSE "accepted"
    BY DEF Finish
  <1>2. /\ Made' = Made /\ Productive' = Productive /\ TraversalTypeOK' /\ Expanded'
        /\ (\A s \in discovered : Valid(s))' /\ (\A t \in Made : Appends(t) \subseteq discovered)'
        /\ Generated'
    BY <1>1, TraversalKeeps DEF TraversalInv, TraversalTypeOK
  <1>3. Positioned /\ Counted
    BY DEF TraversalInv, TraversalIInv
  <1>4. Positioned'
    <2>1. Initially(spec)' = Initially(spec)
      BY <1>1
    <2> QED
      BY <1>1, <1>2, <1>3, <2>1 DEF Positioned
  <1>5. Counted'
    BY <1>1, <1>2, <1>3 DEF Counted, Productive
  <1>6. Caused'
    BY <1>1, <1>2, <1>3 DEF Caused, Positioned
  <1> QED
    BY <1>2, <1>4, <1>5, <1>6 DEF TraversalInv, TraversalIInv

LEMMA TryNoneKeeps ==
  ASSUME TraversalInv, TryNone
  PROVE  TraversalInv'
  <1>1. /\ spec' = spec /\ limits' = limits /\ queue' = queue /\ discovered' = discovered
        /\ transitions' = transitions /\ state' = state /\ verdict' = verdict
        /\ verdict = "exploring" /\ ~Expanded /\ work < limits.work /\ work' = work + 1
        /\ Posts(state, outer, inner) = {} /\ Advance
    BY DEF TryNone, Charge
  <1>2. /\ OuterTries(spec)' = OuterTries(spec)
        /\ \A s, n : InnerTries(s, n)' = InnerTries(s, n)
        /\ \A s, n, k : Posts(s, n, k)' = Posts(s, n, k)
        /\ \A s : Valid(s)' <=> Valid(s)
        /\ \A s : Successors(s)' = Successors(s)
        /\ Initially(spec)' = Initially(spec) /\ DomainStates(spec)' = DomainStates(spec)
    BY <1>1, DomainKeeps
  <1>3. TraversalTypeOK /\ TraversalIInv /\ Positioned /\ Counted
    BY DEF TraversalInv, TraversalIInv
  <1> DEFINE here == <<state, outer, inner>>
  <1>4. /\ Made' = Made \cup {here} /\ Cardinality(Made') = Cardinality(Made) + 1
        /\ outer' \in Nat /\ inner' \in Nat
        /\ Expanded' \/ (outer' >= 1 /\ inner' <= InnerTries(state, outer'))
    BY <1>1, TryMade
  <1>5. Appends(here) = {} /\ state \in discovered \ ToSet(queue)
    BY <1>1, TryNew
  <1>6. \A t : Appends(t)' = Appends(t)
    BY <1>2 DEF Appends
  <1> HIDE DEF here
  <1>7. Productive' = Productive
    BY <1>4, <1>5, <1>6 DEF Productive
  <1>8. TraversalTypeOK'
    BY <1>1, <1>2, <1>3, <1>4 DEF TraversalTypeOK
  <1>9. Positioned'
    <2>1. InnerTries(state, outer)' = InnerTries(state, outer')
      BY <1>1 DEF InnerTries, Locked
    <2>2. \/ Expanded'
          \/ (state \in discovered \ ToSet(queue) /\ outer >= 1 /\ inner <= InnerTries(state, outer))'
      BY <1>1, <1>4, <1>5, <2>1
    <2> QED
      BY <1>1, <1>2, <1>3, <2>2 DEF Positioned
  <1>10. Counted'
    <2>1. limits.work \in Nat /\ work \in Nat
      BY <1>3, SpecFacts DEF TraversalTypeOK
    <2>2. /\ work = Cardinality(Made) /\ transitions = Cardinality(Productive)
          /\ transitions <= limits.transitions /\ Cardinality(discovered) <= limits.states
      BY <1>1, <1>3 DEF Counted, Productive
    <2>3. work' = Cardinality(Made') /\ work' <= limits.work
      BY <1>1, <1>4, <2>1, <2>2
    <2>4. transitions' = Cardinality(Productive')
      BY <1>1, <1>7, <2>2
    <2> QED
      BY <1>1, <2>2, <2>3, <2>4 DEF Counted, Productive
  <1>11. Generated'
    BY <1>1, <1>2, <1>3 DEF Generated, TraversalIInv
  <1>12. (\A s \in discovered : Valid(s))' /\ (\A t \in Made : Appends(t) \subseteq discovered)'
    BY <1>1, <1>2, <1>3, <1>4, <1>5, <1>6 DEF TraversalIInv
  <1>13. Caused'
    BY <1>1 DEF Caused
  <1> QED
    BY <1>8, <1>9, <1>10, <1>11, <1>12, <1>13 DEF TraversalInv, TraversalIInv

\* A try appends at most one edge.
LEMMA OnePost ==
  ASSUME NEW s, NEW n, NEW k, NEW post \in Posts(s, n, k)
  PROVE  Posts(s, n, k) = {post}
  BY DEF Posts

LEMMA TryEdgeKeeps ==
  ASSUME TraversalInv, TryEdge
  PROVE  TraversalInv'
  <1> DEFINE here == <<state, outer, inner>>
  <1>1. /\ spec' = spec /\ limits' = limits /\ state' = state
        /\ verdict = "exploring" /\ ~Expanded /\ work < limits.work /\ work' = work + 1
    BY DEF TryEdge, Charge
  <1>2. PICK post \in Posts(state, outer, inner) :
          IF Valid(post) /\ Room(post)
          THEN /\ transitions' = transitions + 1
               /\ queue' = IF post \in discovered THEN queue ELSE Append(queue, post)
               /\ discovered' = discovered \cup {post}
               /\ Advance
               /\ UNCHANGED verdict
          ELSE /\ verdict' = IF Valid(post) THEN "exceeds" ELSE "invalid"
               /\ UNCHANGED <<queue, discovered, transitions, outer, inner>>
    BY DEF TryEdge
  <1>3. /\ OuterTries(spec)' = OuterTries(spec)
        /\ \A s, n : InnerTries(s, n)' = InnerTries(s, n)
        /\ \A s, n, k : Posts(s, n, k)' = Posts(s, n, k)
        /\ \A s : Valid(s)' <=> Valid(s)
        /\ \A s : Successors(s)' = Successors(s)
        /\ Initially(spec)' = Initially(spec) /\ DomainStates(spec)' = DomainStates(spec)
    BY <1>1, DomainKeeps
  <1>4. TraversalTypeOK /\ TraversalIInv /\ Positioned /\ Counted
    BY DEF TraversalInv, TraversalIInv
  <1>5. /\ state \in discovered \ ToSet(queue) /\ here \notin Made
        /\ outer \in 1 .. OuterTries(spec) /\ inner \in 0 .. InnerTries(state, outer)
        /\ Appends(here) = {post} /\ post \in Successors(state)
    BY <1>1, <1>2, TryNew, OnePost
  <1>6. /\ limits.work \in Nat /\ limits.transitions \in Nat /\ limits.states \in Nat
        /\ work \in Nat /\ transitions \in Nat
    BY <1>4, SpecFacts DEF TraversalTypeOK
  <1> HIDE DEF here
  <1>7. CASE Valid(post) /\ Room(post)
    <2>1. /\ transitions' = transitions + 1
          /\ queue' = IF post \in discovered THEN queue ELSE Append(queue, post)
          /\ discovered' = discovered \cup {post}
          /\ Advance /\ verdict' = verdict
      BY <1>2, <1>7
    <2>2. /\ discovered' \ ToSet(queue') = discovered \ ToSet(queue)
          /\ IsInjective(queue') /\ queue' \in Seq(discovered')
      <3>1. CASE post \in discovered
        <4>1. discovered' = discovered /\ queue' = queue
          BY <2>1, <3>1
        <4> QED
          BY <1>4, <4>1 DEF Positioned, TraversalTypeOK
      <3>2. CASE post \notin discovered
        <4>1. /\ ToSet(queue') = ToSet(queue) \cup {post} /\ IsInjective(queue')
              /\ queue' \in Seq(discovered')
          BY <1>4, <2>1, <3>2, AppendFacts DEF Positioned, TraversalTypeOK
        <4> QED
          BY <2>1, <3>2, <4>1
      <3> QED
        BY <3>1, <3>2
    <2>3. /\ Made' = Made \cup {here} /\ Cardinality(Made') = Cardinality(Made) + 1
          /\ outer' \in Nat /\ inner' \in Nat
          /\ Expanded' \/ (outer' >= 1 /\ inner' <= InnerTries(state, outer'))
      BY <1>1, <2>1, <2>2, TryMade DEF here
    <2>4. \A t : Appends(t)' = Appends(t)
      BY <1>3 DEF Appends
    <2>5. Productive' = Productive \cup {here} /\ here \notin Productive
      BY <1>5, <2>3, <2>4 DEF Productive
    <2>6. Cardinality(Productive') = Cardinality(Productive) + 1
      <3>1. IsFiniteSet(Productive)
        BY MadeIsFinite, FS_Subset DEF Productive
      <3> QED
        BY <2>5, <3>1, FS_AddElement
    <2>7. /\ IsFiniteSet(discovered') /\ Cardinality(discovered') <= limits.states
          /\ discovered' \subseteq DomainStates(spec)
      <3>1. IsFiniteSet(discovered) /\ Cardinality(discovered) <= limits.states
            /\ discovered \subseteq DomainStates(spec)
        BY <1>4 DEF TraversalTypeOK, Counted
      <3>2. Cardinality(discovered) \in Nat
        BY <3>1, FS_CardinalityType
      <3>3. /\ IsFiniteSet(discovered')
            /\ Cardinality(discovered') =
                 IF post \in discovered THEN Cardinality(discovered) ELSE Cardinality(discovered) + 1
        BY <2>1, <3>1, FS_AddElement
      <3>4. Cardinality(discovered') <= limits.states
        BY <1>6, <1>7, <3>1, <3>2, <3>3 DEF Room
      <3>5. post \in DomainStates(spec)
        BY <1>2, <1>4, <1>5, <1>7, <3>1, PostTyped DEF Valid
      <3> QED
        BY <2>1, <3>1, <3>3, <3>4, <3>5
    <2>8. TraversalTypeOK'
      BY <1>1, <1>3, <1>4, <1>6, <2>1, <2>2, <2>3, <2>7 DEF TraversalTypeOK
    <2>9. Positioned'
      <3>1. InnerTries(state, outer)' = InnerTries(state, outer')
        BY <1>1 DEF InnerTries, Locked
      <3>2. \/ Expanded'
            \/ (state \in discovered \ ToSet(queue) /\ outer >= 1 /\ inner <= InnerTries(state, outer))'
        BY <1>1, <1>5, <2>2, <2>3, <3>1
      <3> QED
        BY <1>1, <1>3, <1>4, <2>1, <2>2, <3>2 DEF Positioned
    <2>10. Counted'
      <3>1. work = Cardinality(Made) /\ transitions = Cardinality(Productive)
        BY <1>1, <1>4 DEF Counted, Productive
      <3>2. work' = Cardinality(Made') /\ work' <= limits.work
        BY <1>1, <1>6, <2>3, <3>1
      <3>3. transitions' = Cardinality(Productive') /\ transitions' <= limits.transitions
        BY <1>6, <1>7, <2>1, <2>6, <3>1 DEF Room
      <3> QED
        BY <1>1, <2>7, <3>2, <3>3 DEF Counted, Productive
    <2>11. ASSUME NEW states \in SUBSET discovered', Initially(spec) \in states,
                  \A s \in states : Successors(s) \cap discovered' \subseteq states
           PROVE  states = discovered'
      <3> DEFINE U == states \cap discovered
      <3>1. U \in SUBSET discovered /\ Initially(spec) \in U
        BY <1>1, <1>4, <2>11 DEF Positioned
      <3>2. \A s \in U : Successors(s) \cap discovered \subseteq U
        BY <2>1, <2>11
      <3>3. U = discovered
        <4> HIDE DEF U
        <4> QED
          BY <1>4, <3>1, <3>2 DEF TraversalIInv, Generated
      <3>4. post \in states
        BY <1>5, <2>1, <2>11, <3>3
      <3> QED
        BY <2>1, <2>11, <3>3, <3>4
    <2>12. Generated'
      BY <1>3, <2>11 DEF Generated
    <2>13. (\A s \in discovered : Valid(s))' /\ (\A t \in Made : Appends(t) \subseteq discovered)'
      BY <1>3, <1>4, <1>5, <1>7, <2>1, <2>3, <2>4 DEF TraversalIInv
    <2>14. Caused'
      BY <1>1, <2>1 DEF Caused
    <2> QED
      BY <2>8, <2>9, <2>10, <2>12, <2>13, <2>14 DEF TraversalInv, TraversalIInv
  <1>8. CASE ~(Valid(post) /\ Room(post))
    <2>1. /\ verdict' = IF Valid(post) THEN "exceeds" ELSE "invalid"
          /\ UNCHANGED <<spec, limits, queue, discovered, transitions, state, outer, inner>>
      BY <1>1, <1>2, <1>8
    <2>2. /\ Made' = Made /\ Productive' = Productive /\ TraversalTypeOK' /\ ~Expanded'
          /\ (\A s \in discovered : Valid(s))' /\ (\A t \in Made : Appends(t) \subseteq discovered)'
          /\ Generated'
          /\ (state \in discovered \ ToSet(queue) /\ outer >= 1 /\ inner <= InnerTries(state, outer))'
          /\ \A s : Valid(s)' <=> Valid(s)
          /\ \A s : Room(s)' <=> Room(s)
          /\ Posts(state, outer, inner)' = Posts(state, outer, inner)
      BY <1>1, <1>6, <2>1, TraversalKeeps
    <2>3. Positioned'
      BY <1>1, <1>3, <1>4, <2>1, <2>2 DEF Positioned
    <2>4. Counted'
      <3>1. verdict' \in {"invalid", "exceeds"}
        BY <2>1
      <3>2. transitions' = Cardinality(Productive') /\ transitions' <= limits.transitions
        BY <1>4, <2>1, <2>2 DEF Counted, Productive
      <3>3. work' <= limits.work
        BY <1>1, <1>6
      <3> QED
        BY <1>1, <1>4, <2>1, <3>1, <3>2, <3>3 DEF Counted, Productive
    <2>5. Caused'
      BY <1>2, <1>8, <2>1, <2>2 DEF Caused
    <2> QED
      BY <2>2, <2>3, <2>4, <2>5 DEF TraversalInv, TraversalIInv
  <1> QED
    BY <1>7, <1>8

LEMMA StutterKeeps ==
  ASSUME TraversalInv, UNCHANGED traversalVars
  PROVE  TraversalInv'
  <1>1. /\ UNCHANGED <<spec, limits, queue, discovered, transitions, state, outer, inner>>
        /\ work' = work /\ verdict' = verdict
    BY DEF traversalVars
  <1>2. TraversalTypeOK /\ TraversalIInv /\ Positioned /\ Counted /\ Caused
    BY DEF TraversalInv, TraversalIInv
  <1>3. /\ Made' = Made /\ Productive' = Productive /\ TraversalTypeOK' /\ (Expanded' <=> Expanded)
        /\ (\A s \in discovered : Valid(s))' /\ (\A t \in Made : Appends(t) \subseteq discovered)'
        /\ Generated'
        /\ \/ Expanded'
           \/ (state \in discovered \ ToSet(queue) /\ outer >= 1 /\ inner <= InnerTries(state, outer))'
        /\ \A s : Valid(s)' <=> Valid(s)
        /\ \A s : Room(s)' <=> Room(s)
        /\ Posts(state, outer, inner)' = Posts(state, outer, inner)
    BY <1>1, <1>2, TraversalKeeps DEF TraversalTypeOK
  <1>4. Initially(spec)' = Initially(spec)
    BY <1>1
  <1>5. Positioned'
    BY <1>1, <1>2, <1>3, <1>4 DEF Positioned
  <1>6. Counted'
    BY <1>1, <1>2, <1>3 DEF Counted, Productive
  <1>7. Caused'
    BY <1>1, <1>2, <1>3, <1>4 DEF Caused
  <1> QED
    BY <1>3, <1>5, <1>6, <1>7 DEF TraversalInv, TraversalIInv

(***************************************************************************)
(* Whatever the domain and the limits: each try made is charged once and   *)
(* each edge it appends counted once, what was appended has been           *)
(* discovered, and nothing has been discovered that no edge leads to.      *)
(***************************************************************************)
THEOREM TraversalInvariance == TraversalSpec => []TraversalInv
  <1>1. ASSUME TraversalInv, [TraversalNext]_traversalVars
        PROVE  TraversalInv'
    BY <1>1, BeginKeeps, PopKeeps, OutOfWorkKeeps, TryNoneKeeps, TryEdgeKeeps, FinishKeeps, StutterKeeps
    DEF TraversalNext
  <1> QED
    BY <1>1, TraversalStarts, PTL DEF TraversalSpec

-----------------------------------------------------------------------------
(* The verdict is that of the machine                                      *)

\* The edges, by quantifiers.
LEMMA AtomicEdgesAre ==
  ASSUME NEW s
  PROVE  \A e : e \in AtomicEdges(s) <=>
           \E i \in DOMAIN spec.ops :
             \/ GuardsHold(spec.ops[i], s.fields) /\ \E a \in Callers(i) : e = <<i, a, Done(s, i, a)>>
             \/ /\ ~GuardsHold(spec.ops[i], s.fields) /\ spec.ops[i].stutter
                /\ \E a \in Actors : e = <<i, a, Refused(s, a)>>
  <1> DEFINE Enabled == {i \in DOMAIN spec.ops : GuardsHold(spec.ops[i], s.fields)}
             ByEnabled == (UNION {{<<i, a, Done(s, i, a)>> : a \in Callers(i)} : i \in Enabled})
             ByRefusing == UNION {{<<i, a, Refused(s, a)>> : a \in Actors} :
                                  i \in {j \in DOMAIN spec.ops \ Enabled : spec.ops[j].stutter}}
  <1>1. AtomicEdges(s) = ByEnabled \cup ByRefusing
    BY DEF AtomicEdges
  <1>2. \A e : e \in ByEnabled <=> \E i \in Enabled : \E a \in Callers(i) : e = <<i, a, Done(s, i, a)>>
    OBVIOUS
  <1>3. \A e : e \in ByRefusing <=>
          \E i \in {j \in DOMAIN spec.ops \ Enabled : spec.ops[j].stutter} :
            \E a \in Actors : e = <<i, a, Refused(s, a)>>
    OBVIOUS
  <1> HIDE DEF ByEnabled, ByRefusing
  <1> QED
    BY <1>1, <1>2, <1>3

\* A call, written as the edges of the machine are.
LEMMA CallIs ==
  ASSUME TraversalTypeOK, NEW s \in DomainStates(spec), NEW n \in DOMAIN spec.ops, NEW k \in Actors
  PROVE  CallPost(s, n, k) =
           IF GuardsHold(spec.ops[n], s.fields) THEN Done(s, n, k) ELSE Refused(s, k)
  <1> DEFINE op == spec.ops[n]
             Result(value) == [b \in Actors |-> IF b = k THEN value ELSE s.result[b]]
  <1>1. /\ s = [fields |-> s.fields, pc |-> s.pc, pending |-> s.pending, result |-> s.result]
        /\ s.result = [b \in Actors |-> s.result[b]]
    BY DEF DomainStates, Actors
  <1>2. \A value : [s.result EXCEPT ![k] = value] = Result(value)
    BY <1>1
  <1>3. CASE ~GuardsHold(op, s.fields)
    BY <1>1, <1>3 DEF CallPost, Refused
  <1>4. CASE GuardsHold(op, s.fields) /\ op.boolean /\ HasResults(spec)
    <2>1. CallPost(s, n, k) = [s EXCEPT !.fields = ApplyEffects(op, s.fields), !.result[k] = "true"]
      BY <1>4 DEF CallPost
    <2> QED
      BY <1>1, <1>4, <2>1 DEF Done
  <1>5. CASE GuardsHold(op, s.fields) /\ ~(op.boolean /\ HasResults(spec))
    <2>1. CallPost(s, n, k) = [s EXCEPT !.fields = ApplyEffects(op, s.fields)]
      BY <1>5 DEF CallPost
    <2>2. [b \in Actors |-> IF b = k /\ op.boolean /\ HasResults(spec)
                            THEN "true" ELSE s.result[b]] = s.result
      BY <1>1, <1>5
    <2> QED
      BY <1>1, <1>5, <2>1, <2>2 DEF Done
  <1> QED
    BY <1>3, <1>4, <1>5

\* Without a lock protocol the tries after the first of an operation are the
\* edges that the machine has.
LEMMA EdgesAre ==
  ASSUME TraversalTypeOK, ~Locked, NEW s \in DomainStates(spec)
  PROVE  \A e : e \in AtomicEdges(s) <=>
           \E n \in DOMAIN spec.ops : \E k \in 1 .. InnerTries(s, n) : e = <<n, k, CallPost(s, n, k)>>
  <1>1. spec.actors \in Nat \ {0} /\ 1 \in Actors
    BY SpecFacts DEF Actors
  <1>2. \A n \in DOMAIN spec.ops : spec.ops[n].stutter => spec.ops[n].boolean
    BY DEF TraversalTypeOK, ValidSpec, ToSet
  <1>3. ASSUME NEW n \in DOMAIN spec.ops
        PROVE  /\ GuardsHold(spec.ops[n], s.fields) =>
                    1 .. InnerTries(s, n) = Callers(n) /\ Callers(n) \subseteq Actors
               /\ ~GuardsHold(spec.ops[n], s.fields) =>
                    1 .. InnerTries(s, n) = IF spec.ops[n].stutter THEN Actors ELSE {}
               /\ \A k \in Actors :
                    CallPost(s, n, k) =
                      IF GuardsHold(spec.ops[n], s.fields) THEN Done(s, n, k) ELSE Refused(s, k)
    <2>1. InnerTries(s, n) = IF GuardsHold(spec.ops[n], s.fields)
                             THEN IF spec.ops[n].boolean THEN spec.actors ELSE 1
                             ELSE IF spec.ops[n].stutter THEN spec.actors ELSE 0
      BY DEF InnerTries
    <2>2. 1 .. 1 = {1} /\ 1 .. 0 = {}
      OBVIOUS
    <2>3. /\ GuardsHold(spec.ops[n], s.fields) =>
               1 .. InnerTries(s, n) = Callers(n) /\ Callers(n) \subseteq Actors
          /\ ~GuardsHold(spec.ops[n], s.fields) =>
               1 .. InnerTries(s, n) = IF spec.ops[n].stutter THEN Actors ELSE {}
      BY <1>1, <2>1, <2>2, Zenon DEF Actors, Callers
    <2> QED
      BY <2>3, CallIs
  <1>4. ASSUME NEW n \in DOMAIN spec.ops, NEW e
        PROVE  (\E k \in 1 .. InnerTries(s, n) : e = <<n, k, CallPost(s, n, k)>>) <=>
                 \/ /\ GuardsHold(spec.ops[n], s.fields)
                    /\ \E a \in Callers(n) : e = <<n, a, Done(s, n, a)>>
                 \/ /\ ~GuardsHold(spec.ops[n], s.fields) /\ spec.ops[n].stutter
                    /\ \E a \in Actors : e = <<n, a, Refused(s, a)>>
    <2>1. CASE GuardsHold(spec.ops[n], s.fields)
      BY <1>3, <2>1
    <2>2. CASE ~GuardsHold(spec.ops[n], s.fields)
      BY <1>3, <2>2
    <2> QED
      BY <2>1, <2>2
  <1> QED
    BY <1>4, AtomicEdgesAre

\* What the edges lead to is what the tries append.
LEMMA TargetsAre ==
  ASSUME TraversalTypeOK, ~Locked, NEW s \in DomainStates(spec)
  PROVE  Targets(s) = Successors(s)
  <1>1. /\ OuterTries(spec) = Len(spec.ops) /\ DOMAIN spec.ops = 1 .. OuterTries(spec)
        /\ \A n \in 1 .. OuterTries(spec) : InnerTries(s, n) \in Nat
    BY SpecFacts, InnerFacts
  <1>2. \A n, k : Posts(s, n, k) = IF k # 0 THEN {CallPost(s, n, k)} ELSE {}
    BY DEF Posts
  <1>3. ASSUME NEW post \in Targets(s)
        PROVE  post \in Successors(s)
    <2>1. PICK e \in AtomicEdges(s) : post = e[3]
      BY DEF Targets
    <2>2. PICK n \in DOMAIN spec.ops : \E k \in 1 .. InnerTries(s, n) : e = <<n, k, CallPost(s, n, k)>>
      BY EdgesAre
    <2>3. PICK k \in 1 .. InnerTries(s, n) : e = <<n, k, CallPost(s, n, k)>>
      BY <2>2
    <2>4. n \in 1 .. OuterTries(spec) /\ k \in 0 .. InnerTries(s, n) /\ k # 0
      BY <1>1
    <2> QED
      BY <1>2, <2>1, <2>3, <2>4, SuccessorsAre
  <1>4. ASSUME NEW post \in Successors(s)
        PROVE  post \in Targets(s)
    <2>1. PICK n \in 1 .. OuterTries(spec) : \E k \in 0 .. InnerTries(s, n) : post \in Posts(s, n, k)
      BY SuccessorsAre
    <2>2. PICK k \in 0 .. InnerTries(s, n) : post \in Posts(s, n, k)
      BY <2>1
    <2>3. k \in 1 .. InnerTries(s, n) /\ post = CallPost(s, n, k)
      BY <1>1, <1>2, <2>2
    <2>4. <<n, k, post>> \in AtomicEdges(s)
      BY <1>1, <2>3, EdgesAre
    <2> QED
      BY <2>4 DEF Targets
  <1> QED
    BY <1>3, <1>4

\* As many tries append as there are edges, and one more per operation and
\* state does not.
LEMMA TriesCounted ==
  ASSUME TraversalTypeOK, ~Locked
  PROVE  /\ IsFiniteSet(AtomicTransitions) /\ Cardinality(AtomicTransitions) \in Nat
         /\ Cardinality({t \in Tries(discovered) : Appends(t) # {}}) = Cardinality(AtomicTransitions)
         /\ Cardinality(Tries(discovered)) = AtomicWork
  <1> DEFINE All == Tries(discovered)
             Edging == {t \in All : t[3] # 0}
             Other == {t \in All : t[3] = 0}
             Pairs == discovered \X DOMAIN spec.ops
             G == [t \in Edging |-> <<t[1], <<t[2], t[3], CallPost(t[1], t[2], t[3])>>>>]
             H == [p \in Pairs |-> <<p[1], p[2], 0>>]
  <1>1. /\ OuterTries(spec) = Len(spec.ops) /\ Len(spec.ops) \in Nat
        /\ DOMAIN spec.ops = 1 .. OuterTries(spec)
        /\ \A s, n : n \in 1 .. OuterTries(spec) => InnerTries(s, n) \in Nat
        /\ IsFiniteSet(discovered) /\ discovered \subseteq DomainStates(spec)
    BY SpecFacts, InnerFacts DEF TraversalTypeOK
  <1>2. IsFiniteSet(All)
    BY <1>1, TriesFinite
  <1>3. \A t : Appends(t) # {} <=> t[3] # 0
    BY DEF Appends, Posts
  <1>4. {t \in All : Appends(t) # {}} = Edging
    BY <1>3
  <1>5. ASSUME NEW t \in Edging
        PROVE  /\ t = <<t[1], t[2], t[3]>> /\ t[1] \in discovered
               /\ t[2] \in DOMAIN spec.ops /\ t[3] \in 1 .. InnerTries(t[1], t[2])
               /\ G[t] \in AtomicTransitions
    <2>1. /\ t = <<t[1], t[2], t[3]>> /\ t[1] \in discovered
          /\ t[2] \in DOMAIN spec.ops /\ t[3] \in 1 .. InnerTries(t[1], t[2])
      BY <1>1, TriesAre
    <2>2. <<t[2], t[3], CallPost(t[1], t[2], t[3])>> \in AtomicEdges(t[1])
      BY <1>1, <2>1, EdgesAre
    <2>3. <<t[1], <<t[2], t[3], CallPost(t[1], t[2], t[3])>>>> \in {t[1]} \X AtomicEdges(t[1])
      BY <2>2
    <2>4. G[t] = <<t[1], <<t[2], t[3], CallPost(t[1], t[2], t[3])>>>>
      OBVIOUS
    <2> HIDE DEF G, Edging
    <2>5. G[t] \in {t[1]} \X AtomicEdges(t[1])
      BY <2>3, <2>4
    <2> QED
      BY <2>1, <2>5 DEF AtomicTransitions
  <1>6. ASSUME NEW x \in AtomicTransitions
        PROVE  \E t \in Edging : G[t] = x
    <2>1. PICK s \in discovered : x \in {s} \X AtomicEdges(s)
      BY DEF AtomicTransitions
    <2>2. PICK e \in AtomicEdges(s) : x = <<s, e>>
      BY <2>1
    <2>3. PICK n \in DOMAIN spec.ops : \E k \in 1 .. InnerTries(s, n) : e = <<n, k, CallPost(s, n, k)>>
      BY <1>1, EdgesAre
    <2>4. PICK k \in 1 .. InnerTries(s, n) : e = <<n, k, CallPost(s, n, k)>>
      BY <2>3
    <2>5. k \in 0 .. InnerTries(s, n) /\ k # 0
      BY <1>1
    <2>6. <<s, n, k>> \in Edging
      BY <1>1, <2>5, TriesAre
    <2>7. G[<<s, n, k>>] = x
      BY <2>2, <2>4, <2>6
    <2> QED
      BY <2>6, <2>7
  <1>7. ASSUME NEW t \in Edging, NEW u \in Edging, G[t] = G[u]
        PROVE  t = u
    <2>1. /\ G[t] = <<t[1], <<t[2], t[3], CallPost(t[1], t[2], t[3])>>>>
          /\ G[u] = <<u[1], <<u[2], u[3], CallPost(u[1], u[2], u[3])>>>>
      OBVIOUS
    <2> HIDE DEF G
    <2>2. \A x, y, z, p, q, r, v, w : <<x, <<y, z, v>>>> = <<p, <<q, r, w>>>> => x = p /\ y = q /\ z = r
      OBVIOUS
    <2> HIDE DEF Edging
    <2>3. t[1] = u[1] /\ t[2] = u[2] /\ t[3] = u[3]
      <3> DEFINE v == CallPost(t[1], t[2], t[3])
                 w == CallPost(u[1], u[2], u[3])
      <3>1. <<t[1], <<t[2], t[3], v>>>> = <<u[1], <<u[2], u[3], w>>>>
        BY <1>7, <2>1
      <3> HIDE DEF v, w
      <3> QED
        BY <2>2, <3>1
    <2> QED
      BY <1>5, <2>3
  <1>8. G \in Bijection(Edging, AtomicTransitions)
    <2>1. G \in [Edging -> AtomicTransitions]
      BY <1>5
    <2> HIDE DEF Edging, G
    <2>2. DOMAIN G = Edging
      BY <2>1
    <2> QED
      BY <1>6, <1>7, <2>1, <2>2 DEF Bijection, Injection, Surjection, IsInjective
  <1>9. IsFiniteSet(Edging) /\ IsFiniteSet(Other)
    BY <1>2, FS_Subset
  <1> HIDE DEF G
  <1>10. IsFiniteSet(AtomicTransitions) /\ Cardinality(Edging) = Cardinality(AtomicTransitions)
    <2> HIDE DEF Edging
    <2> QED
      BY <1>8, <1>9, FS_Bijection DEF ExistsBijection
  <1>11. ASSUME NEW p \in Pairs
         PROVE  /\ p = <<p[1], p[2]>> /\ H[p] = <<p[1], p[2], 0>> /\ H[p] \in Other
    <2>1. p = <<p[1], p[2]>> /\ p[1] \in discovered /\ p[2] \in 1 .. OuterTries(spec)
      BY <1>1
    <2>2. 0 \in 0 .. InnerTries(p[1], p[2])
      BY <1>1, <2>1
    <2>3. <<p[1], p[2], 0>> \in All
      BY <2>1, <2>2, TriesAre
    <2> QED
      BY <2>1, <2>3
  <1>12. ASSUME NEW t \in Other
         PROVE  \E p \in Pairs : H[p] = t
    <2>1. t = <<t[1], t[2], 0>> /\ t[1] \in discovered /\ t[2] \in DOMAIN spec.ops
      BY <1>1, TriesAre
    <2>2. <<t[1], t[2]>> \in Pairs
      BY <2>1
    <2>3. H[<<t[1], t[2]>>] = <<t[1], t[2], 0>>
      BY <2>2
    <2> QED
      BY <2>1, <2>2, <2>3
  <1>13. ASSUME NEW p \in Pairs, NEW q \in Pairs, H[p] = H[q]
         PROVE  p = q
    <2> HIDE DEF H, Pairs
    <2>1. p[1] = q[1] /\ p[2] = q[2]
      BY <1>11, <1>13
    <2> QED
      BY <1>11, <2>1
  <1>14. H \in Bijection(Pairs, Other)
    <2>1. H \in [Pairs -> Other]
      BY <1>11
    <2> HIDE DEF Pairs, Other, H
    <2>2. DOMAIN H = Pairs
      BY <2>1
    <2> QED
      BY <1>12, <1>13, <2>1, <2>2 DEF Bijection, Injection, Surjection, IsInjective
  <1> HIDE DEF H
  <1>15. /\ IsFiniteSet(Pairs)
         /\ Cardinality(Pairs) = Cardinality(discovered) * Len(spec.ops)
    <2>1. IsFiniteSet(DOMAIN spec.ops) /\ Cardinality(DOMAIN spec.ops) = Len(spec.ops)
      BY <1>1, FS_Interval
    <2> QED
      BY <1>1, <2>1, FS_Product
  <1>16. Cardinality(Other) = Cardinality(discovered) * Len(spec.ops)
    <2> HIDE DEF Pairs, Other
    <2> QED
      BY <1>14, <1>15, FS_Bijection DEF ExistsBijection
  <1>17. Cardinality(Edging) \in Nat /\ Cardinality(discovered) \in Nat
    BY <1>1, <1>9, FS_CardinalityType
  <1>18. Cardinality(All) = Cardinality(discovered) * Len(spec.ops) + Cardinality(AtomicTransitions)
    <2>1. All = Other \cup Edging /\ Other \cap Edging = {}
      OBVIOUS
    <2>2. Cardinality(Other \cap Edging) = 0
      BY <2>1, FS_EmptySet
    <2>3. Cardinality(All) = Cardinality(Other) + Cardinality(Edging) - 0
      <3> HIDE DEF Other, Edging, All
      <3> QED
        BY <1>9, <2>1, <2>2, FS_Union
    <2>4. Cardinality(discovered) * Len(spec.ops) \in Nat
      BY <1>1, <1>17
    <2> QED
      BY <1>10, <1>16, <1>17, <2>3, <2>4
  <1> QED
    BY <1>4, <1>10, <1>17, <1>18 DEF AtomicWork

\* What has been discovered is the machine of what has been discovered.
LEMMA ExploredFacts ==
  ASSUME TraversalInv, ~Locked, discovered # {}
  PROVE  AllReachable(Explored)
  <1> DEFINE R == ReachableStates(Explored)
  <1>1. /\ Initially(spec) \in discovered /\ IsFiniteSet(discovered)
        /\ \A s \in discovered : Targets(s) = Successors(s)
    BY TargetsAre DEF TraversalInv, TraversalIInv, Positioned, TraversalTypeOK
  <1>2. /\ Explored.initial = Initially(spec) /\ States(Explored) = discovered
        /\ \A s \in discovered : Explored.next[s] = Successors(s) \cap discovered
        /\ Explored.next \in [discovered -> SUBSET discovered]
    BY <1>1 DEF Explored, States
  <1>3. IsMachine(Explored)
    BY <1>1, <1>2 DEF IsMachine
  <1>4. R \subseteq discovered /\ Initially(spec) \in R /\ Closed(Explored, R)
    BY <1>2, <1>3, ReachableClosed
  <1> HIDE DEF R
  <1>5. \A s \in R : Successors(s) \cap discovered \subseteq R
    BY <1>2, <1>4 DEF Closed
  <1>6. R = discovered
    BY <1>4, <1>5 DEF TraversalInv, TraversalIInv, Generated
  <1> QED
    BY <1>2, <1>3, <1>6 DEF AllReachable, R

\* Where the queue is empty and the loops are over every try has been made.
LEMMA AllMade ==
  ASSUME TraversalInv, Expanded, queue = <<>>
  PROVE  Made = Tries(discovered)
  <1>1. ToSet(queue) = {}
    BY DEF ToSet
  <1> QED
    BY <1>1, MadeIsFinite

\* An accepted machine was explored in full.
LEMMA Accepted ==
  ASSUME TraversalInv
  PROVE  AcceptedIsExhaustive
  <1> SUFFICES ASSUME verdict = "accepted", ~Locked
               PROVE  /\ AllReachable(Explored) /\ Beyond = {}
                      /\ \A s \in discovered : Valid(s)
                      /\ transitions = Cardinality(AtomicTransitions)
                      /\ work = AtomicWork
                      /\ Cardinality(discovered) <= limits.states
                      /\ transitions <= limits.transitions /\ work <= limits.work
    BY DEF AcceptedIsExhaustive
  <1>1. /\ Expanded /\ queue = <<>> /\ discovered # {}
        /\ TraversalTypeOK /\ Counted /\ discovered \subseteq DomainStates(spec)
        /\ \A s \in discovered : Valid(s)
        /\ \A t \in Made : Appends(t) \subseteq discovered
    BY DEF TraversalInv, TraversalIInv, Positioned, TraversalTypeOK
  <1>2. Made = Tries(discovered)
    BY <1>1, AllMade
  <1>3. ASSUME NEW s \in discovered, NEW post \in Targets(s)
        PROVE  post \in discovered
    <2>1. post \in Successors(s)
      BY <1>1, <1>3, TargetsAre
    <2>2. PICK n \in 1 .. OuterTries(spec) : \E k \in 0 .. InnerTries(s, n) : post \in Posts(s, n, k)
      BY <2>1, SuccessorsAre
    <2>3. PICK k \in 0 .. InnerTries(s, n) : post \in Posts(s, n, k)
      BY <2>2
    <2>4. <<s, n, k>> \in Made /\ Appends(<<s, n, k>>) = Posts(s, n, k)
      BY <1>2, TriesAre DEF Appends
    <2> QED
      BY <1>1, <2>3, <2>4
  <1>4. Beyond = {}
    BY <1>3 DEF Beyond
  <1>5. work = AtomicWork /\ transitions = Cardinality(AtomicTransitions)
    BY <1>1, <1>2, TriesCounted DEF Counted
  <1> QED
    BY <1>1, <1>4, <1>5, ExploredFacts DEF Counted

\* A refused one is invalid or larger than the limits.
LEMMA Refusal ==
  ASSUME TraversalInv
  PROVE  RefusalHasCause
  <1> SUFFICES ASSUME ~Locked, verdict \in {"invalid", "exceeds"}
               PROVE  /\ discovered = {} \/ AllReachable(Explored)
                      /\ verdict = "invalid" =>
                           \/ ~Valid(Initially(spec))
                           \/ AtomicEdges(Initially(spec)) = {}
                           \/ \E s \in Beyond : ~Valid(s)
                      /\ verdict = "exceeds" =>
                           \/ Cardinality(discovered) = limits.states /\ \E s \in Beyond : Valid(s)
                           \/ Cardinality(AtomicTransitions) > limits.transitions
                           \/ AtomicWork > limits.work
    BY DEF RefusalHasCause
  <1> DEFINE here == <<state, outer, inner>>
             Edging == {t \in Tries(discovered) : Appends(t) # {}}
  <1>1. /\ TraversalTypeOK /\ Positioned /\ Counted /\ Caused
        /\ IsFiniteSet(discovered) /\ discovered \subseteq DomainStates(spec)
        /\ \A s \in discovered : Valid(s)
    BY DEF TraversalInv, TraversalIInv, TraversalTypeOK
  <1>2. /\ limits.states \in Nat /\ limits.transitions \in Nat /\ limits.work \in Nat
        /\ Cardinality(discovered) \in Nat /\ Cardinality(discovered) <= limits.states
        /\ Cardinality(Made) \in Nat /\ transitions = Cardinality(Productive)
    BY <1>1, SpecFacts, FS_CardinalityType, MadeIsFinite DEF Counted, Productive
  <1>3. /\ Cardinality(AtomicTransitions) = Cardinality(Edging)
        /\ Cardinality(AtomicTransitions) \in Nat
        /\ AtomicWork = Cardinality(Tries(discovered)) /\ IsFiniteSet(AtomicTransitions)
        /\ IsFiniteSet(Tries(discovered)) /\ IsFiniteSet(Edging)
    <2>1. IsFiniteSet(Tries(discovered))
      BY <1>1, TriesFinite
    <2> QED
      BY <1>1, <2>1, TriesCounted, FS_Subset
  <1>4. ASSUME ~Expanded, NEW post \in Posts(state, outer, inner), post \notin discovered
        PROVE  post \in Beyond
    <2>1. state \in discovered /\ post \in Successors(state)
      BY <1>4, TryNew
    <2>2. post \in Targets(state)
      BY <1>1, <2>1, TargetsAre
    <2> QED
      BY <1>4, <2>1, <2>2 DEF Beyond
  <1>5. ASSUME verdict = "invalid"
        PROVE  \/ ~Valid(Initially(spec))
               \/ AtomicEdges(Initially(spec)) = {}
               \/ \E s \in Beyond : ~Valid(s)
    <2>1. CASE ~Valid(Initially(spec))
      BY <2>1
    <2>2. CASE Expanded /\ queue = <<>> /\ transitions = 0 /\ discovered # {}
      <3>1. Made = Tries(discovered)
        BY <2>2, AllMade
      <3>2. Cardinality(AtomicTransitions) = 0
        BY <1>2, <1>3, <2>2, <3>1 DEF Productive
      <3>3. AtomicTransitions = {}
        BY <1>3, <3>2, FS_EmptySet
      <3>4. Initially(spec) \in discovered
        BY <1>1, <2>2 DEF Positioned
      <3>5. {Initially(spec)} \X AtomicEdges(Initially(spec)) \subseteq AtomicTransitions
        BY <3>4 DEF AtomicTransitions
      <3>6. ASSUME NEW e \in AtomicEdges(Initially(spec))
            PROVE  FALSE
        <4>1. <<Initially(spec), e>> \in {Initially(spec)} \X AtomicEdges(Initially(spec))
          OBVIOUS
        <4> QED
          BY <3>3, <3>5, <4>1
      <3> QED
        BY <3>6
    <2>3. CASE ~Expanded /\ \E post \in Posts(state, outer, inner) : ~Valid(post)
      <3>1. PICK post \in Posts(state, outer, inner) : ~Valid(post)
        BY <2>3
      <3>2. post \notin discovered
        BY <1>1, <3>1
      <3> QED
        BY <1>4, <2>3, <3>1, <3>2
    <2> QED
      BY <1>1, <1>5, <2>1, <2>2, <2>3 DEF Caused
  <1>6. ASSUME verdict = "exceeds"
        PROVE  \/ Cardinality(discovered) = limits.states /\ \E s \in Beyond : Valid(s)
               \/ Cardinality(AtomicTransitions) > limits.transitions
               \/ AtomicWork > limits.work
    <2>1. ~Expanded
      BY <1>1, <1>6 DEF Caused
    <2>2. here \in Tries(discovered) /\ here \notin Made /\ Made \subseteq Tries(discovered)
      BY <2>1, TryNew, MadeIsFinite
    <2>3. CASE Cardinality(Made) >= limits.work
      <3>1. Cardinality(Made \cup {here}) = Cardinality(Made) + 1
        BY <2>2, FS_AddElement, MadeIsFinite
      <3>2. Made \cup {here} \subseteq Tries(discovered)
        BY <2>2
      <3>3. Cardinality(Made \cup {here}) <= Cardinality(Tries(discovered))
        BY <1>3, <3>2, FS_Subset
      <3>4. AtomicWork \in Nat
        BY <1>3, FS_CardinalityType
      <3> HIDE DEF here
      <3>5. AtomicWork > limits.work
        BY <1>2, <1>3, <2>3, <3>1, <3>3, <3>4
      <3> QED
        BY <3>5
    <2>4. CASE \E post \in Posts(state, outer, inner) : Valid(post) /\ ~Room(post)
      <3>1. PICK post \in Posts(state, outer, inner) : Valid(post) /\ ~Room(post)
        BY <2>4
      <3>2. transitions \in Nat
        BY <1>1 DEF TraversalTypeOK
      <3>3. CASE ~(transitions < limits.transitions)
        <4>1. Appends(here) # {}
          BY <2>1, <3>1, TryNew
        <4>2. here \notin Productive /\ Productive \cup {here} \subseteq Edging
          BY <2>2, <4>1 DEF Productive
        <4>3. IsFiniteSet(Productive)
          BY MadeIsFinite, FS_Subset DEF Productive
        <4> HIDE DEF here, Edging
        <4>4. Cardinality(Productive \cup {here}) = Cardinality(Productive) + 1
          BY <4>2, <4>3, FS_AddElement
        <4>5. Cardinality(Productive \cup {here}) <= Cardinality(Edging)
          BY <1>3, <4>2, FS_Subset
        <4>6. Cardinality(AtomicTransitions) > limits.transitions
          BY <1>2, <1>3, <3>2, <3>3, <4>4, <4>5
        <4> QED
          BY <4>6
      <3>4. CASE transitions < limits.transitions
        <4>1. post \notin discovered /\ ~(Cardinality(discovered) < limits.states)
          BY <3>1, <3>4 DEF Room
        <4>2. Cardinality(discovered) = limits.states
          BY <1>2, <4>1
        <4>3. post \in Beyond
          BY <1>4, <2>1, <4>1
        <4> QED
          BY <3>1, <4>2, <4>3
      <3> QED
        BY <3>3, <3>4
    <2> QED
      BY <1>1, <1>6, <2>3, <2>4 DEF Caused
  <1> QED
    BY <1>5, <1>6, ExploredFacts

(***************************************************************************)
(* A domain without a lock protocol is accepted only when its whole        *)
(* machine has been explored, is safe and is within the limits, and        *)
(* refused only when it is not: no limit makes a partial exploration pass  *)
(* for a complete one, and no limit refuses a machine that keeps it.       *)
(***************************************************************************)
THEOREM ExactVerdict == TraversalSpec => []VerdictIsExact
  <1>1. TraversalInv => VerdictIsExact
    BY Accepted, Refusal DEF VerdictIsExact
  <1> QED
    BY <1>1, TraversalInvariance, PTL

-----------------------------------------------------------------------------
(* The lock protocol                                                       *)

\* The fields with a value of the lock, and an actor's move to a phase.
LockSet(f, value) == [f EXCEPT ![spec.lock.var] = value]

Moved(s, n, f, phase) == [s EXCEPT !.fields = f, !.pc[n] = phase]

Invoked(s, n, k) == [s EXCEPT !.pc[n] = "INVOKED", !.pending[n] = k]

Responded(s, n) == [s EXCEPT !.pc[n] = "IDLE", !.pending[n] = 0]

\* The steps of an actor.
LockStep(s, n, post) ==
  \/ s.pc[n] = "IDLE" /\ \E k \in DOMAIN spec.ops : post = Invoked(s, n, k)
  \/ /\ s.pc[n] = "INVOKED" /\ s.fields[spec.lock.var] = spec.lock.unlocked
     /\ post = Moved(s, n, LockSet(s.fields, spec.lock.owners[n]), "ACQUIRED")
  \/ /\ s.pc[n] = "ACQUIRED" /\ GuardsHold(spec.ops[s.pending[n]], s.fields)
     /\ post = Moved(s, n, ApplyEffects(spec.ops[s.pending[n]], s.fields), "LINEARIZED")
  \/ /\ \/ s.pc[n] = "LINEARIZED"
        \/ s.pc[n] = "ACQUIRED" /\ ~GuardsHold(spec.ops[s.pending[n]], s.fields)
     /\ post = Moved(s, n, LockSet(s.fields, spec.lock.unlocked), "RELEASED")
  \/ s.pc[n] = "RELEASED" /\ post = Responded(s, n)

\* What the protocol keeps in every state.
Protected(s) ==
  /\ \A a \in Actors : Inside(s, a) <=> s.fields[spec.lock.var] = spec.lock.owners[a]
  /\ (\A a \in Actors : ~Inside(s, a)) => s.fields[spec.lock.var] = spec.lock.unlocked
  /\ \A a \in Actors : s.pc[a] # "IDLE" => s.pending[a] \in DOMAIN spec.ops
  /\ s.result = Initially(spec).result

\* The lock starts free and each actor has a value of its own for it.
LEMMA LockFacts ==
  ASSUME TraversalTypeOK, Locked
  PROVE  /\ spec.lock.var \in Names(spec)
         /\ InitialState(spec)[spec.lock.var] = spec.lock.unlocked
         /\ \A a \in Actors : spec.lock.owners[a] # spec.lock.unlocked
         /\ \A a, b \in Actors : spec.lock.owners[a] = spec.lock.owners[b] => a = b
         /\ \A i \in DOMAIN spec.ops : spec.lock.var \notin OperationFields(spec.ops[i])
         /\ \A a \in Actors : spec.lock.owners[a] \in Values(Variable(spec, spec.lock.var))
         /\ 1 \in Actors
  <1>1. ValidLock(spec) /\ IsSequence(spec.lock.owners)
    BY TraversalAssumption DEF TraversalTypeOK, ValidSpec, Locked
  <1>2. /\ Len(spec.lock.owners) = spec.actors /\ IsInjective(spec.lock.owners)
        /\ spec.lock.unlocked \notin ToSet(spec.lock.owners)
        /\ spec.lock.var \in Names(spec)
        /\ Variable(spec, spec.lock.var).initial = spec.lock.unlocked
        /\ ToSet(spec.lock.owners) \subseteq Values(Variable(spec, spec.lock.var))
        /\ \A op \in ToSet(spec.ops) : spec.lock.var \notin OperationFields(op)
    BY <1>1 DEF ValidLock
  <1>3. DOMAIN spec.lock.owners = Actors
    BY <1>1, <1>2 DEF IsSequence, Actors
  <1>4. 1 \in Actors
    BY SpecFacts DEF Actors
  <1>5. InitialState(spec)[spec.lock.var] = spec.lock.unlocked
    BY <1>2 DEF InitialState
  <1>6. \A i \in DOMAIN spec.ops : spec.ops[i] \in ToSet(spec.ops)
    BY DEF ToSet
  <1> QED
    BY <1>2, <1>3, <1>4, <1>5, <1>6 DEF IsInjective, ToSet

\* The parts of a state.
LEMMA StateFacts ==
  ASSUME NEW s \in DomainStates(spec)
  PROVE  /\ s = [fields |-> s.fields, pc |-> s.pc, pending |-> s.pending, result |-> s.result]
         /\ s.fields \in Assignments(spec) /\ DOMAIN s.fields = Names(spec)
         /\ s.fields = [name \in Names(spec) |-> s.fields[name]]
         /\ s.pc \in [Actors -> {"IDLE", "INVOKED", "ACQUIRED", "LINEARIZED", "RELEASED"}]
         /\ s.pending \in [Actors -> 0 .. Len(spec.ops)]
         /\ s.result = [a \in Actors |-> s.result[a]]
  <1>1. s.fields \in Assignments(spec)
    BY DEF DomainStates
  <1> QED
    BY <1>1, AssignmentFacts DEF DomainStates, Actors

\* The successors of a state are the steps of the actors.
LEMMA LockSteps ==
  ASSUME TraversalTypeOK, Locked, NEW s \in DomainStates(spec)
  PROVE  \A post : post \in Successors(s) <=> \E n \in Actors : LockStep(s, n, post)
  <1>1. OuterTries(spec) = spec.actors /\ 1 .. OuterTries(spec) = Actors
        /\ DOMAIN spec.ops = 1 .. Len(spec.ops) /\ Len(spec.ops) \in Nat
    BY SpecFacts DEF Actors
  <1>2. \A n \in Actors : s.pc[n] \in {"IDLE", "INVOKED", "ACQUIRED", "LINEARIZED", "RELEASED"}
    BY StateFacts
  <1>3. ASSUME NEW n \in Actors, NEW post
        PROVE  (\E k \in 0 .. InnerTries(s, n) : post \in Posts(s, n, k)) <=> LockStep(s, n, post)
    <2>1. InnerTries(s, n) = IF s.pc[n] = "IDLE" THEN Len(spec.ops) ELSE 0
      BY DEF InnerTries
    <2>2. \A k : post \in Posts(s, n, k) <=>
            IF k # 0 THEN post = Invoked(s, n, k) ELSE MayStep(s, n) /\ post = ProtocolPost(s, n)
      BY DEF Posts, Invoked
    <2>3. (\E k \in 0 .. InnerTries(s, n) : k # 0 /\ post = Invoked(s, n, k)) <=>
            s.pc[n] = "IDLE" /\ \E k \in DOMAIN spec.ops : post = Invoked(s, n, k)
      BY <1>1, <2>1
    <2>4. 0 \in 0 .. InnerTries(s, n)
      BY <1>1, <2>1
    <2>5. CASE s.pc[n] = "IDLE"
      BY <2>2, <2>3, <2>4, <2>5 DEF MayStep, LockStep
    <2>6. CASE s.pc[n] = "INVOKED"
      <3>1. MayStep(s, n) <=> s.fields[spec.lock.var] = spec.lock.unlocked
        BY <2>6 DEF MayStep
      <3>2. ProtocolPost(s, n) = Moved(s, n, LockSet(s.fields, spec.lock.owners[n]), "ACQUIRED")
        BY <2>6 DEF ProtocolPost, Moved, LockSet
      <3> QED
        BY <2>2, <2>3, <2>4, <2>6, <3>1, <3>2 DEF LockStep
    <2>7. CASE s.pc[n] = "ACQUIRED"
      <3>1. MayStep(s, n)
        BY <2>7 DEF MayStep
      <3>2. ProtocolPost(s, n) =
              IF GuardsHold(spec.ops[s.pending[n]], s.fields)
              THEN Moved(s, n, ApplyEffects(spec.ops[s.pending[n]], s.fields), "LINEARIZED")
              ELSE Moved(s, n, LockSet(s.fields, spec.lock.unlocked), "RELEASED")
        BY <2>7 DEF ProtocolPost, Moved, LockSet
      <3> QED
        BY <2>2, <2>3, <2>4, <2>7, <3>1, <3>2 DEF LockStep
    <2>8. CASE s.pc[n] = "LINEARIZED"
      <3>1. MayStep(s, n)
        BY <2>8 DEF MayStep
      <3>2. ProtocolPost(s, n) = Moved(s, n, LockSet(s.fields, spec.lock.unlocked), "RELEASED")
        BY <2>8 DEF ProtocolPost, Moved, LockSet
      <3> QED
        BY <2>2, <2>3, <2>4, <2>8, <3>1, <3>2 DEF LockStep
    <2>9. CASE s.pc[n] = "RELEASED"
      <3>1. MayStep(s, n)
        BY <2>9 DEF MayStep
      <3>2. ProtocolPost(s, n) = Responded(s, n)
        BY <2>9 DEF ProtocolPost, Responded
      <3> QED
        BY <2>2, <2>3, <2>4, <2>9, <3>1, <3>2 DEF LockStep
    <2> QED
      BY <1>2, <2>5, <2>6, <2>7, <2>8, <2>9
  <1> QED
    BY <1>1, <1>3, SuccessorsAre

\* No operation mentions the lock: what it does is the same whoever has it.
LEMMA LockUnseen ==
  ASSUME TraversalTypeOK, Locked, NEW f \in Assignments(spec), NEW i \in DOMAIN spec.ops
  PROVE  /\ ApplyEffects(spec.ops[i], f)[spec.lock.var] = f[spec.lock.var]
         /\ DOMAIN ApplyEffects(spec.ops[i], f) = Names(spec)
         /\ \A g \in Assignments(spec) :
              (\A name \in Names(spec) \ {spec.lock.var} : f[name] = g[name]) =>
                /\ GuardsHold(spec.ops[i], f) <=> GuardsHold(spec.ops[i], g)
                /\ \A name \in Names(spec) \ {spec.lock.var} :
                     ApplyEffects(spec.ops[i], f)[name] = ApplyEffects(spec.ops[i], g)[name]
  <1> DEFINE op == spec.ops[i]
  <1>1. /\ spec.lock.var \notin OperationFields(op) /\ OperationFields(op) \subseteq Names(spec)
        /\ spec.lock.var \in Names(spec)
    BY LockFacts DEF TraversalTypeOK, ValidSpec, ToSet
  <1>2. /\ \A j \in DOMAIN op.guards : Local(op.guards[j], spec)
        /\ \A j \in DOMAIN op.effects : Local(op.effects[j].value, spec)
    <2>1. /\ \A j \in DOMAIN op.guards : EvaluatedAsWritten(op.guards[j], spec)
          /\ \A j \in DOMAIN op.effects : EvaluatedAsWritten(op.effects[j].value, spec)
      BY TraversalAssumption DEF TraversalTypeOK
    <2> QED
      BY <2>1, ReadsItsFields
  <1>3. \A j \in DOMAIN op.guards : FieldsOf(op.guards[j]) \subseteq OperationFields(op)
    BY DEF OperationFields, ToSet
  <1>4. \A j \in DOMAIN op.effects : /\ op.effects[j].target \in OperationFields(op)
                                     /\ FieldsOf(op.effects[j].value) \subseteq OperationFields(op)
    BY DEF OperationFields
  <1>5. DOMAIN f = Names(spec)
    BY AssignmentFacts
  <1>6. /\ ApplyEffects(op, f)[spec.lock.var] = f[spec.lock.var]
        /\ DOMAIN ApplyEffects(op, f) = Names(spec)
    BY <1>1, <1>4, <1>5 DEF ApplyEffects
  <1>7. ASSUME NEW g \in Assignments(spec),
               \A name \in Names(spec) \ {spec.lock.var} : f[name] = g[name]
        PROVE  /\ GuardsHold(op, f) <=> GuardsHold(op, g)
               /\ \A name \in Names(spec) \ {spec.lock.var} :
                    ApplyEffects(op, f)[name] = ApplyEffects(op, g)[name]
    <2>1. DOMAIN g = Names(spec)
      BY AssignmentFacts
    <2>2. \A name \in OperationFields(op) : f[name] = g[name]
      BY <1>1, <1>7
    <2>3. \A j \in DOMAIN op.guards : Evaluate(op.guards[j], f) = Evaluate(op.guards[j], g)
      BY <1>2, <1>3, <2>2 DEF Local
    <2>4. \A j \in DOMAIN op.effects :
            Evaluate(op.effects[j].value, f) = Evaluate(op.effects[j].value, g)
      BY <1>2, <1>4, <2>2 DEF Local
    <2>5. GuardsHold(op, f) <=> GuardsHold(op, g)
      BY <2>3 DEF GuardsHold
    <2>6. ASSUME NEW name \in Names(spec) \ {spec.lock.var}
          PROVE  ApplyEffects(op, f)[name] = ApplyEffects(op, g)[name]
      <3>1. CASE \E j \in DOMAIN op.effects : op.effects[j].target = name
        <4> DEFINE c == CHOOSE j \in DOMAIN op.effects : op.effects[j].target = name
        <4>1. c \in DOMAIN op.effects
          BY <3>1
        <4>2. /\ ApplyEffects(op, f)[name] = Evaluate(op.effects[c].value, f)
              /\ ApplyEffects(op, g)[name] = Evaluate(op.effects[c].value, g)
          BY <1>5, <2>1, <2>6, <3>1 DEF ApplyEffects
        <4> HIDE DEF c
        <4> QED
          BY <2>4, <4>1, <4>2
      <3>2. CASE ~\E j \in DOMAIN op.effects : op.effects[j].target = name
        <4>1. ApplyEffects(op, f)[name] = f[name] /\ ApplyEffects(op, g)[name] = g[name]
          BY <1>5, <2>1, <2>6, <3>2 DEF ApplyEffects
        <4> QED
          BY <1>7, <2>6, <4>1
      <3> QED
        BY <3>1, <3>2
    <2> QED
      BY <2>5, <2>6
  <1> QED
    BY <1>6, <1>7

\* The steps keep it.
LEMMA ProtectedKeeps ==
  ASSUME TraversalTypeOK, Locked, NEW s \in DomainStates(spec), Protected(s),
         NEW n \in Actors, NEW post, LockStep(s, n, post)
  PROVE  Protected(post)
  <1> DEFINE var == spec.lock.var
             free == spec.lock.unlocked
             owners == spec.lock.owners
             op == spec.ops[s.pending[n]]
  <1>1. /\ var \in Names(spec) /\ \A a \in Actors : owners[a] # free
        /\ \A a, b \in Actors : owners[a] = owners[b] => a = b
    BY LockFacts
  <1>2. /\ s = [fields |-> s.fields, pc |-> s.pc, pending |-> s.pending, result |-> s.result]
        /\ DOMAIN s.fields = Names(spec) /\ DOMAIN s.pc = Actors /\ DOMAIN s.pending = Actors
        /\ s.fields \in Assignments(spec)
    BY StateFacts
  <1>3. \A v : LockSet(s.fields, v)[var] = v
    BY <1>1, <1>2 DEF LockSet
  <1>4. \A f, phase : /\ Moved(s, n, f, phase).fields = f
                      /\ Moved(s, n, f, phase).pc[n] = phase
                      /\ \A a \in Actors \ {n} : Moved(s, n, f, phase).pc[a] = s.pc[a]
                      /\ Moved(s, n, f, phase).pending = s.pending
                      /\ Moved(s, n, f, phase).result = s.result
    BY <1>2 DEF Moved
  <1>5. /\ \A a \in Actors : Inside(s, a) <=> s.fields[var] = owners[a]
        /\ (\A a \in Actors : ~Inside(s, a)) => s.fields[var] = free
        /\ \A a \in Actors : s.pc[a] # "IDLE" => s.pending[a] \in DOMAIN spec.ops
        /\ s.result = Initially(spec).result
    BY DEF Protected
  <1>6. CASE s.pc[n] = "IDLE" /\ \E k \in DOMAIN spec.ops : post = Invoked(s, n, k)
    <2>1. PICK k \in DOMAIN spec.ops : post = Invoked(s, n, k)
      BY <1>6
    <2>2. /\ post.fields = s.fields /\ post.result = s.result
          /\ post.pc[n] = "INVOKED" /\ \A a \in Actors \ {n} : post.pc[a] = s.pc[a]
          /\ post.pending[n] = k /\ \A a \in Actors \ {n} : post.pending[a] = s.pending[a]
      BY <1>2, <2>1 DEF Invoked
    <2>3. \A a \in Actors : Inside(post, a) <=> Inside(s, a)
      BY <1>6, <2>2 DEF Inside
    <2> QED
      BY <1>5, <2>2, <2>3 DEF Protected
  <1>7. CASE /\ s.pc[n] = "INVOKED" /\ s.fields[var] = free
             /\ post = Moved(s, n, LockSet(s.fields, owners[n]), "ACQUIRED")
    <2>1. \A a \in Actors : ~Inside(s, a)
      BY <1>1, <1>5, <1>7
    <2>2. post.fields[var] = owners[n]
      BY <1>3, <1>4, <1>7
    <2>3. \A a \in Actors : Inside(post, a) <=> a = n
      BY <1>4, <1>7, <2>1 DEF Inside
    <2>4. \A a \in Actors : post.pc[a] # "IDLE" => post.pending[a] \in DOMAIN spec.ops
      BY <1>4, <1>5, <1>7
    <2>5. post.result = Initially(spec).result
      BY <1>4, <1>5, <1>7
    <2> QED
      BY <1>1, <2>2, <2>3, <2>4, <2>5 DEF Protected
  <1>8. CASE /\ s.pc[n] = "ACQUIRED" /\ GuardsHold(op, s.fields)
             /\ post = Moved(s, n, ApplyEffects(op, s.fields), "LINEARIZED")
    <2>1. s.pending[n] \in DOMAIN spec.ops
      BY <1>5, <1>8
    <2>2. post.fields[var] = s.fields[var]
      <3>1. s.fields \in Assignments(spec)
        BY <1>2
      <3>2. ApplyEffects(op, s.fields)[var] = s.fields[var]
        BY <2>1, <3>1, LockUnseen
      <3> QED
        BY <1>4, <1>8, <3>2
    <2>3. \A a \in Actors : Inside(post, a) <=> Inside(s, a)
      BY <1>4, <1>8 DEF Inside
    <2>4. \A a \in Actors : post.pc[a] # "IDLE" => post.pending[a] \in DOMAIN spec.ops
      BY <1>4, <1>5, <1>8
    <2>5. post.result = Initially(spec).result
      BY <1>4, <1>5, <1>8
    <2> QED
      BY <1>5, <2>2, <2>3, <2>4, <2>5 DEF Protected
  <1>9. CASE /\ s.pc[n] \in {"LINEARIZED", "ACQUIRED"}
             /\ post = Moved(s, n, LockSet(s.fields, free), "RELEASED")
    <2>1. \A a \in Actors \ {n} : ~Inside(s, a)
      <3>1. Inside(s, n)
        BY <1>9 DEF Inside
      <3> QED
        BY <1>1, <1>5, <3>1
    <2>2. post.fields[var] = free
      BY <1>3, <1>4, <1>9
    <2>3. \A a \in Actors : ~Inside(post, a)
      BY <1>4, <1>9, <2>1 DEF Inside
    <2>4. \A a \in Actors : post.pc[a] # "IDLE" => post.pending[a] \in DOMAIN spec.ops
      BY <1>4, <1>5, <1>9
    <2>5. post.result = Initially(spec).result
      BY <1>4, <1>5, <1>9
    <2> QED
      BY <1>1, <2>2, <2>3, <2>4, <2>5 DEF Protected
  <1>10. CASE s.pc[n] = "RELEASED" /\ post = Responded(s, n)
    <2>1. /\ post.fields = s.fields /\ post.result = s.result
          /\ post.pc[n] = "IDLE" /\ \A a \in Actors \ {n} : post.pc[a] = s.pc[a]
          /\ \A a \in Actors \ {n} : post.pending[a] = s.pending[a]
      BY <1>2, <1>10 DEF Responded
    <2>2. \A a \in Actors : Inside(post, a) <=> Inside(s, a)
      BY <1>10, <2>1 DEF Inside
    <2> QED
      BY <1>5, <2>1, <2>2 DEF Protected
  <1> QED
    BY <1>6, <1>7, <1>8, <1>9, <1>10 DEF LockStep

\* What holds initially and is kept by the steps holds in all that was found.
LEMMA FoundByInduction ==
  ASSUME TraversalInv, verdict = "accepted", Locked,
         NEW U, U \subseteq discovered, Initially(spec) \in discovered => Initially(spec) \in U,
         \A s \in U, n \in Actors, post \in discovered : LockStep(s, n, post) => post \in U
  PROVE  U = discovered
  <1>1. /\ Initially(spec) \in discovered /\ TraversalTypeOK
        /\ discovered \subseteq DomainStates(spec)
    BY DEF TraversalInv, TraversalIInv, Positioned, TraversalTypeOK
  <1>2. \A s \in U : Successors(s) \cap discovered \subseteq U
    BY <1>1, LockSteps
  <1> QED
    BY <1>1, <1>2 DEF TraversalInv, TraversalIInv, Generated

\* Once accepted, the steps of what was found have been found.
LEMMA AcceptedClosed ==
  ASSUME TraversalInv, verdict = "accepted", Locked
  PROVE  /\ TraversalTypeOK /\ Initially(spec) \in discovered
         /\ discovered \subseteq DomainStates(spec) /\ IsFiniteSet(discovered)
         /\ \A s \in discovered, n \in Actors : \A post : LockStep(s, n, post) => post \in discovered
  <1>1. /\ Expanded /\ queue = <<>> /\ Initially(spec) \in discovered
        /\ TraversalTypeOK /\ discovered \subseteq DomainStates(spec) /\ IsFiniteSet(discovered)
        /\ \A t \in Made : Appends(t) \subseteq discovered
    BY DEF TraversalInv, TraversalIInv, Positioned, TraversalTypeOK
  <1>2. Made = Tries(discovered)
    BY <1>1, AllMade
  <1>3. ASSUME NEW s \in discovered, NEW post \in Successors(s)
        PROVE  post \in discovered
    <2>2. PICK n \in 1 .. OuterTries(spec) : \E k \in 0 .. InnerTries(s, n) : post \in Posts(s, n, k)
      BY <1>3, SuccessorsAre
    <2>3. PICK k \in 0 .. InnerTries(s, n) : post \in Posts(s, n, k)
      BY <2>2
    <2>4. <<s, n, k>> \in Made /\ Appends(<<s, n, k>>) = Posts(s, n, k)
      BY <1>2, TriesAre DEF Appends
    <2> QED
      BY <1>1, <2>3, <2>4
  <1> QED
    BY <1>1, <1>3, LockSteps

\* So it holds in all that was found.
LEMMA AllProtected ==
  ASSUME TraversalInv, verdict = "accepted", Locked
  PROVE  \A s \in discovered : Protected(s)
  <1> DEFINE U == {s \in discovered : Protected(s)}
  <1>1. Protected(Initially(spec))
    <2>1. /\ Initially(spec).fields = InitialState(spec)
          /\ \A a \in Actors : Initially(spec).pc[a] = "IDLE"
      BY DEF Initially, Actors
    <2>2. TraversalTypeOK
      BY DEF TraversalInv
    <2> QED
      BY <2>1, <2>2, LockFacts DEF Protected, Inside
  <1>2. \A s \in U, n \in Actors, post \in discovered : LockStep(s, n, post) => post \in U
    BY AcceptedClosed, ProtectedKeeps
  <1>3. U \subseteq discovered /\ (Initially(spec) \in discovered => Initially(spec) \in U)
    BY <1>1
  <1> HIDE DEF U
  <1>4. U = discovered
    BY <1>2, <1>3, FoundByInduction
  <1> QED
    BY <1>4 DEF U

-----------------------------------------------------------------------------
\* The moves, as records.
LEMMA MovesAre ==
  ASSUME NEW s,
         s = [fields |-> s.fields, pc |-> s.pc, pending |-> s.pending, result |-> s.result],
         NEW n
  PROVE  /\ \A k : Invoked(s, n, k) =
                  [fields |-> s.fields, pc |-> [s.pc EXCEPT ![n] = "INVOKED"],
                   pending |-> [s.pending EXCEPT ![n] = k], result |-> s.result]
         /\ \A f, phase : Moved(s, n, f, phase) =
                         [fields |-> f, pc |-> [s.pc EXCEPT ![n] = phase],
                          pending |-> s.pending, result |-> s.result]
         /\ Responded(s, n) =
              [fields |-> s.fields, pc |-> [s.pc EXCEPT ![n] = "IDLE"],
               pending |-> [s.pending EXCEPT ![n] = 0], result |-> s.result]
  <1> DEFINE Phased(x) == [s EXCEPT !.pc[n] = x]
  <1>1. \A x : Phased(x) = [fields |-> s.fields, pc |-> [s.pc EXCEPT ![n] = x],
                            pending |-> s.pending, result |-> s.result]
    OBVIOUS
  <1>2. \A x, k : [s EXCEPT !.pc[n] = x, !.pending[n] = k] = [Phased(x) EXCEPT !.pending[n] = k]
    OBVIOUS
  <1>3. \A x, f : [s EXCEPT !.fields = f, !.pc[n] = x] = [Phased(x) EXCEPT !.fields = f]
    OBVIOUS
  <1> HIDE DEF Phased
  <1>4. \A x : /\ Phased(x).fields = s.fields /\ Phased(x).pc = [s.pc EXCEPT ![n] = x]
               /\ Phased(x).pending = s.pending /\ Phased(x).result = s.result
    BY <1>1
  <1>5. ASSUME NEW x, NEW k
        PROVE  [Phased(x) EXCEPT !.pending[n] = k] =
                 [fields |-> s.fields, pc |-> [s.pc EXCEPT ![n] = x],
                  pending |-> [s.pending EXCEPT ![n] = k], result |-> s.result]
    <2> DEFINE t == Phased(x)
    <2>1. t = [fields |-> t.fields, pc |-> t.pc, pending |-> t.pending, result |-> t.result]
      BY <1>1, <1>4
    <2> HIDE DEF t
    <2>2. [t EXCEPT !.pending[n] = k] =
            [fields |-> t.fields, pc |-> t.pc, pending |-> [t.pending EXCEPT ![n] = k],
             result |-> t.result]
      BY <2>1
    <2> QED
      BY <1>4, <2>2 DEF t
  <1>6. ASSUME NEW x, NEW f
        PROVE  [Phased(x) EXCEPT !.fields = f] =
                 [fields |-> f, pc |-> [s.pc EXCEPT ![n] = x],
                  pending |-> s.pending, result |-> s.result]
    BY <1>1
  <1> QED
    <2>1. \A k : Invoked(s, n, k) = [Phased("INVOKED") EXCEPT !.pending[n] = k]
      BY <1>2 DEF Invoked
    <2>2. \A f, phase : Moved(s, n, f, phase) = [Phased(phase) EXCEPT !.fields = f]
      BY <1>3 DEF Moved
    <2>3. Responded(s, n) = [Phased("IDLE") EXCEPT !.pending[n] = 0]
      BY <1>2 DEF Responded
    <2>4. /\ \A k : Invoked(s, n, k) =
                     [fields |-> s.fields, pc |-> [s.pc EXCEPT ![n] = "INVOKED"],
                      pending |-> [s.pending EXCEPT ![n] = k], result |-> s.result]
          /\ Responded(s, n) =
               [fields |-> s.fields, pc |-> [s.pc EXCEPT ![n] = "IDLE"],
                pending |-> [s.pending EXCEPT ![n] = 0], result |-> s.result]
      BY <1>5, <2>1, <2>3, Zenon
    <2>5. \A f, phase : Moved(s, n, f, phase) =
                        [fields |-> f, pc |-> [s.pc EXCEPT ![n] = phase],
                         pending |-> s.pending, result |-> s.result]
      <3> SUFFICES ASSUME NEW f, NEW phase
                   PROVE  Moved(s, n, f, phase) = [fields |-> f, pc |-> [s.pc EXCEPT ![n] = phase],
                                                   pending |-> s.pending, result |-> s.result]
        OBVIOUS
      <3>1. Moved(s, n, f, phase) = [Phased(phase) EXCEPT !.fields = f]
        BY <2>2, Zenon
      <3>2. [Phased(phase) EXCEPT !.fields = f] =
              [fields |-> f, pc |-> [s.pc EXCEPT ![n] = phase],
               pending |-> s.pending, result |-> s.result]
        BY <1>6, Zenon
      <3> QED
        BY <3>1, <3>2, Zenon
    <2> QED
      BY <2>4, <2>5

\* Where nobody has begun a call and the lock is free, an actor may make a whole
\* call of an operation that is enabled once it has the lock.
LEMMA WholeCall ==
  ASSUME TraversalInv, verdict = "accepted", Locked,
         NEW s \in discovered, NEW n \in Actors, NEW k \in DOMAIN spec.ops,
         \A a \in Actors : s.pc[a] = "IDLE" /\ s.pending[a] = 0,
         s.fields[spec.lock.var] = spec.lock.unlocked,
         GuardsHold(spec.ops[k], LockSet(s.fields, spec.lock.owners[n]))
  PROVE  [s EXCEPT !.fields =
            LockSet(ApplyEffects(spec.ops[k], LockSet(s.fields, spec.lock.owners[n])),
                    spec.lock.unlocked)] \in discovered
  <1> DEFINE held == LockSet(s.fields, spec.lock.owners[n])
             done == ApplyEffects(spec.ops[k], held)
             free == LockSet(done, spec.lock.unlocked)
             s1 == Invoked(s, n, k)
             s2 == Moved(s1, n, held, "ACQUIRED")
             s3 == Moved(s2, n, done, "LINEARIZED")
             s4 == Moved(s3, n, free, "RELEASED")
             s5 == Responded(s4, n)
  <1>1. /\ s = [fields |-> s.fields, pc |-> s.pc, pending |-> s.pending, result |-> s.result]
        /\ DOMAIN s.pc = Actors /\ DOMAIN s.pending = Actors
        /\ s.pc = [a \in Actors |-> s.pc[a]] /\ s.pending = [a \in Actors |-> s.pending[a]]
    BY AcceptedClosed, StateFacts
  <1>2. s1 \in discovered
    <2>1. LockStep(s, n, s1)
      BY DEF LockStep
    <2> HIDE DEF s1
    <2> QED
      BY <2>1, AcceptedClosed
  <1>3. /\ s1 = [fields |-> s.fields, pc |-> s1.pc, pending |-> s1.pending, result |-> s.result]
        /\ s1.pc = [s.pc EXCEPT ![n] = "INVOKED"] /\ s1.pending = [s.pending EXCEPT ![n] = k]
        /\ s1.pc[n] = "INVOKED" /\ s1.pending[n] = k
    <2>1. s1 = [fields |-> s.fields, pc |-> [s.pc EXCEPT ![n] = "INVOKED"],
                pending |-> [s.pending EXCEPT ![n] = k], result |-> s.result]
      BY <1>1, MovesAre
    <2> HIDE DEF s1
    <2> QED
      BY <1>1, <2>1
  <1> HIDE DEF s1
  <1>4. s2 \in discovered
    <2>1. LockStep(s1, n, s2)
      BY <1>3 DEF LockStep
    <2> HIDE DEF s2
    <2> QED
      BY <1>2, <2>1, AcceptedClosed
  <1>5. /\ s2 = [fields |-> held, pc |-> s2.pc, pending |-> s1.pending, result |-> s.result]
        /\ s2.pc = [s1.pc EXCEPT ![n] = "ACQUIRED"] /\ s2.pc[n] = "ACQUIRED"
    BY <1>1, <1>3 DEF Moved
  <1> HIDE DEF s2, held
  <1>6. s3 \in discovered
    <2>1. GuardsHold(spec.ops[s2.pending[n]], s2.fields)
      BY <1>3, <1>5 DEF held
    <2>2. s3 = Moved(s2, n, ApplyEffects(spec.ops[s2.pending[n]], s2.fields), "LINEARIZED")
      BY <1>3, <1>5
    <2>3. LockStep(s2, n, s3)
      BY <1>5, <2>1, <2>2 DEF LockStep
    <2> HIDE DEF s3
    <2> QED
      BY <1>4, <2>3, AcceptedClosed
  <1>7. /\ s3 = [fields |-> done, pc |-> s3.pc, pending |-> s1.pending, result |-> s.result]
        /\ s3.pc = [s2.pc EXCEPT ![n] = "LINEARIZED"] /\ s3.pc[n] = "LINEARIZED"
    BY <1>1, <1>3, <1>5 DEF Moved
  <1> HIDE DEF s3, done
  <1>8. s4 \in discovered
    <2>1. s4 = Moved(s3, n, LockSet(s3.fields, spec.lock.unlocked), "RELEASED")
      BY <1>7
    <2>2. LockStep(s3, n, s4)
      BY <1>7, <2>1 DEF LockStep
    <2> HIDE DEF s4
    <2> QED
      BY <1>6, <2>2, AcceptedClosed
  <1>9. /\ s4 = [fields |-> free, pc |-> s4.pc, pending |-> s1.pending, result |-> s.result]
        /\ s4.pc = [s3.pc EXCEPT ![n] = "RELEASED"] /\ s4.pc[n] = "RELEASED"
    BY <1>1, <1>3, <1>5, <1>7 DEF Moved
  <1> HIDE DEF s4, free
  <1>10. s5 \in discovered
    <2>1. LockStep(s4, n, s5)
      BY <1>9 DEF LockStep
    <2> HIDE DEF s5
    <2> QED
      BY <1>8, <2>1, AcceptedClosed
  <1>11. s5 = [fields |-> free, pc |-> [s4.pc EXCEPT ![n] = "IDLE"],
               pending |-> [s1.pending EXCEPT ![n] = 0], result |-> s.result]
    <2>1. s4 = [fields |-> s4.fields, pc |-> s4.pc, pending |-> s4.pending, result |-> s4.result]
      BY <1>9
    <2>2. s5 = [fields |-> s4.fields, pc |-> [s4.pc EXCEPT ![n] = "IDLE"],
                pending |-> [s4.pending EXCEPT ![n] = 0], result |-> s4.result]
      BY <2>1, MovesAre
    <2>3. s4.fields = free /\ s4.pending = s1.pending /\ s4.result = s.result
      BY <1>9
    <2> QED
      BY <2>2, <2>3
  <1>12. [s4.pc EXCEPT ![n] = "IDLE"] = s.pc
    BY <1>1, <1>3, <1>5, <1>7, <1>9
  <1>13. [s1.pending EXCEPT ![n] = 0] = s.pending
    BY <1>1, <1>3
  <1>14. s5 = [s EXCEPT !.fields = free]
    BY <1>1, <1>11, <1>12, <1>13
  <1> QED
    BY <1>10, <1>14 DEF free, done, held

\* The state with the same fields where nobody has begun a call.
Freed(s) ==
  [fields |-> LockSet(s.fields, spec.lock.unlocked), pc |-> [a \in Actors |-> "IDLE"],
   pending |-> [a \in Actors |-> 0], result |-> Initially(spec).result]

\* Fields are functions on the names.
LEMMA LockSetFacts ==
  ASSUME NEW f, f = [name \in Names(spec) |-> f[name]], spec.lock.var \in Names(spec)
  PROVE  /\ \A v : LockSet(f, v)[spec.lock.var] = v
         /\ \A v : DOMAIN LockSet(f, v) = Names(spec)
         /\ \A v : LockSet(f, v) = [name \in Names(spec) |-> LockSet(f, v)[name]]
         /\ \A v, name : name \in Names(spec) \ {spec.lock.var} => LockSet(f, v)[name] = f[name]
         /\ \A v, w : LockSet(LockSet(f, v), w) = LockSet(f, w)
         /\ LockSet(f, f[spec.lock.var]) = f
  BY DEF LockSet

\* A step changes the lock alone, or is a commit by the actor inside.
LEMMA StepFields ==
  ASSUME TraversalTypeOK, Locked, NEW s \in DomainStates(spec), Protected(s),
         NEW n \in Actors, NEW post, LockStep(s, n, post)
  PROVE  \/ LockSet(post.fields, spec.lock.unlocked) = LockSet(s.fields, spec.lock.unlocked)
         \/ /\ s.pending[n] \in DOMAIN spec.ops /\ s.fields[spec.lock.var] = spec.lock.owners[n]
            /\ GuardsHold(spec.ops[s.pending[n]], s.fields)
            /\ post.fields = ApplyEffects(spec.ops[s.pending[n]], s.fields)
  <1>1. /\ s = [fields |-> s.fields, pc |-> s.pc, pending |-> s.pending, result |-> s.result]
        /\ s.fields = [name \in Names(spec) |-> s.fields[name]]
        /\ spec.lock.var \in Names(spec)
    BY StateFacts, LockFacts
  <1>2. /\ \A k : Invoked(s, n, k).fields = s.fields
        /\ \A f, phase : Moved(s, n, f, phase).fields = f
        /\ Responded(s, n).fields = s.fields
    BY <1>1, MovesAre
  <1>3. \A v, w : LockSet(LockSet(s.fields, v), w) = LockSet(s.fields, w)
    BY <1>1, LockSetFacts
  <1>4. CASE /\ s.pc[n] = "ACQUIRED" /\ GuardsHold(spec.ops[s.pending[n]], s.fields)
             /\ post = Moved(s, n, ApplyEffects(spec.ops[s.pending[n]], s.fields), "LINEARIZED")
    BY <1>2, <1>4 DEF Protected, Inside
  <1>5. CASE \/ \E k \in DOMAIN spec.ops : post = Invoked(s, n, k)
             \/ post = Moved(s, n, LockSet(s.fields, spec.lock.owners[n]), "ACQUIRED")
             \/ post = Moved(s, n, LockSet(s.fields, spec.lock.unlocked), "RELEASED")
             \/ post = Responded(s, n)
    BY <1>2, <1>3, <1>5
  <1> QED
    BY <1>4, <1>5 DEF LockStep

\* From whatever was found, the protocol can be run to where the lock is free
\* and the same operations have been committed.
LEMMA FreedFound ==
  ASSUME TraversalInv, verdict = "accepted", Locked
  PROVE  \A s \in discovered : Freed(s) \in discovered
  <1> DEFINE U == {s \in discovered : Freed(s) \in discovered}
             free == spec.lock.unlocked
  <1>1. /\ TraversalTypeOK /\ Initially(spec) \in discovered
        /\ discovered \subseteq DomainStates(spec) /\ \A s \in discovered : Protected(s)
    BY AcceptedClosed, AllProtected
  <1>2. spec.lock.var \in Names(spec) /\ InitialState(spec)[spec.lock.var] = free
    BY <1>1, LockFacts
  <1>3. Freed(Initially(spec)) = Initially(spec)
    <2>1. LockSet(InitialState(spec), free) = InitialState(spec)
      BY <1>2 DEF LockSet, InitialState
    <2>2. Initially(spec).fields = InitialState(spec)
      BY DEF Initially
    <2> QED
      BY <2>1, <2>2 DEF Freed, Initially, Actors
  <1>4. ASSUME NEW s \in U, NEW n \in Actors, NEW post \in discovered, LockStep(s, n, post)
        PROVE  post \in U
    <2>1. /\ s \in discovered /\ s \in DomainStates(spec) /\ Protected(s)
          /\ Freed(s) \in discovered
      BY <1>1, <1>4
    <2>2. s.fields = [name \in Names(spec) |-> s.fields[name]]
      BY <2>1, StateFacts
    <2>3. CASE LockSet(post.fields, free) = LockSet(s.fields, free)
      <3>1. Freed(post) = Freed(s)
        BY <2>3 DEF Freed
      <3> QED
        BY <2>1, <3>1
    <2>4. CASE /\ s.pending[n] \in DOMAIN spec.ops /\ s.fields[spec.lock.var] = spec.lock.owners[n]
               /\ GuardsHold(spec.ops[s.pending[n]], s.fields)
               /\ post.fields = ApplyEffects(spec.ops[s.pending[n]], s.fields)
      <3> DEFINE k == s.pending[n]
                 t == Freed(s)
      <3>1. /\ t.fields = LockSet(s.fields, free) /\ t.pc = [a \in Actors |-> "IDLE"]
            /\ t.pending = [a \in Actors |-> 0] /\ t.result = Initially(spec).result
            /\ t = [fields |-> t.fields, pc |-> t.pc, pending |-> t.pending, result |-> t.result]
        BY DEF Freed
      <3>2. t.fields[spec.lock.var] = free
        BY <1>2, <2>2, <3>1, LockSetFacts
      <3>3. LockSet(t.fields, spec.lock.owners[n]) = s.fields
        BY <1>2, <2>2, <2>4, <3>1, LockSetFacts
      <3>4. /\ k \in DOMAIN spec.ops /\ GuardsHold(spec.ops[k], s.fields)
            /\ post.fields = ApplyEffects(spec.ops[k], s.fields) /\ t \in discovered
        BY <2>1, <2>4
      <3>5. Freed(post) = [fields |-> LockSet(post.fields, free), pc |-> t.pc,
                           pending |-> t.pending, result |-> t.result]
        BY <3>1 DEF Freed
      <3> HIDE DEF t, k
      <3>6. [t EXCEPT !.fields = LockSet(ApplyEffects(spec.ops[k], LockSet(t.fields, spec.lock.owners[n])),
                                         spec.lock.unlocked)] \in discovered
        <4>1. \A a \in Actors : t.pc[a] = "IDLE" /\ t.pending[a] = 0
          BY <3>1
        <4> QED
          BY <3>2, <3>3, <3>4, <4>1, WholeCall
      <3>7. [t EXCEPT !.fields = LockSet(post.fields, free)] \in discovered
        BY <3>3, <3>4, <3>6
      <3>8. [t EXCEPT !.fields = LockSet(post.fields, free)] = Freed(post)
        BY <3>1, <3>5
      <3> QED
        BY <3>7, <3>8
    <2> QED
      BY <1>1, <1>4, <2>1, <2>3, <2>4, StepFields
  <1>5. U \subseteq discovered /\ (Initially(spec) \in discovered => Initially(spec) \in U)
    BY <1>1, <1>3
  <1>6. \A s \in U, n \in Actors, post \in discovered : LockStep(s, n, post) => post \in U
    BY <1>4
  <1> HIDE DEF U
  <1>7. U = discovered
    BY <1>5, <1>6, FoundByInduction
  <1> QED
    BY <1>7 DEF U

\* The fields where the lock is free are those of all that was found, but for
\* the lock.
LEMMA FreeFieldsAre ==
  ASSUME TraversalInv, verdict = "accepted", Locked
  PROVE  /\ \A s \in discovered : LockSet(s.fields, spec.lock.unlocked) \in FreeFields
         /\ \A f \in FreeFields :
              \E s \in discovered : /\ f = LockSet(s.fields, spec.lock.unlocked)
                                    /\ f[spec.lock.var] = spec.lock.unlocked
                                    /\ f \in Assignments(spec)
  <1>1. /\ TraversalTypeOK /\ discovered \subseteq DomainStates(spec)
        /\ \A s \in discovered : Protected(s)
    BY AcceptedClosed, AllProtected
  <1>2. ASSUME NEW s \in discovered
        PROVE  LockSet(s.fields, spec.lock.unlocked) \in FreeFields
    <2>1. Freed(s) \in discovered
      BY FreedFound
    <2>2. Freed(s).fields = LockSet(s.fields, spec.lock.unlocked)
      BY DEF Freed
    <2>3. \A a \in Actors : Freed(s).pc[a] = "IDLE"
      BY DEF Freed
    <2>4. \A a \in Actors : ~Inside(Freed(s), a)
      BY <2>3 DEF Inside
    <2> QED
      BY <2>1, <2>2, <2>4 DEF FreeFields
  <1>3. ASSUME NEW f \in FreeFields
        PROVE  \E s \in discovered : /\ f = LockSet(s.fields, spec.lock.unlocked)
                                     /\ f[spec.lock.var] = spec.lock.unlocked
                                     /\ f \in Assignments(spec)
    <2>1. PICK s \in discovered : (\A a \in Actors : ~Inside(s, a)) /\ f = s.fields
      BY DEF FreeFields
    <2>2. /\ s.fields = [name \in Names(spec) |-> s.fields[name]]
          /\ s.fields \in Assignments(spec) /\ spec.lock.var \in Names(spec)
          /\ s.fields[spec.lock.var] = spec.lock.unlocked
      <3>1. s \in DomainStates(spec) /\ Protected(s)
        BY <1>1
      <3>2. spec.lock.var \in Names(spec)
        BY <1>1, LockFacts
      <3>3. s.fields[spec.lock.var] = spec.lock.unlocked
        BY <2>1, <3>1 DEF Protected
      <3> QED
        BY <3>1, <3>2, <3>3, StateFacts
    <2>3. LockSet(s.fields, s.fields[spec.lock.var]) = s.fields
      BY <2>2, LockSetFacts
    <2> QED
      BY <2>1, <2>2, <2>3
  <1> QED
    BY <1>2, <1>3

\* The operations, each as one step, lead from where the lock is free to where
\* the lock is free.
LEMMA FieldsClosed ==
  ASSUME TraversalInv, verdict = "accepted", Locked, NEW f \in FreeFields, NEW g \in FieldSteps(f)
  PROVE  g \in FreeFields
  <1> DEFINE free == spec.lock.unlocked
             owner == spec.lock.owners[1]
             held == LockSet(f, owner)
  <1>1. /\ TraversalTypeOK /\ ValidSpec(spec) /\ discovered \subseteq DomainStates(spec)
        /\ \A s \in discovered : Protected(s)
    BY AcceptedClosed, AllProtected DEF TraversalTypeOK
  <1>2. PICK s \in discovered : f = LockSet(s.fields, free) /\ f[spec.lock.var] = free
                                /\ f \in Assignments(spec)
    BY FreeFieldsAre
  <1>3. PICK i \in DOMAIN spec.ops : GuardsHold(spec.ops[i], f) /\ g = ApplyEffects(spec.ops[i], f)
    BY DEF FieldSteps, ToSet
  <1>4. /\ spec.lock.var \in Names(spec) /\ 1 \in Actors
        /\ owner \in Values(Variable(spec, spec.lock.var))
        /\ f = [name \in Names(spec) |-> f[name]] /\ InBounds(spec, f)
    BY <1>1, <1>2, LockFacts, AssignmentFacts
  <1>5. /\ held[spec.lock.var] = owner /\ held = [name \in Names(spec) |-> held[name]]
        /\ \A name \in Names(spec) \ {spec.lock.var} : held[name] = f[name]
    BY <1>4, LockSetFacts
  <1> HIDE DEF held
  <1>6. held \in Assignments(spec)
    <2>1. ASSUME NEW v \in ToSet(spec.vars)
          PROVE  held[v.name] \in Values(v)
      <3>1. v.name \in Names(spec) /\ Variable(spec, v.name) = v
        BY <1>1, VariableOfName
      <3>2. CASE v.name = spec.lock.var
        BY <1>4, <1>5, <3>1, <3>2
      <3>3. CASE v.name # spec.lock.var
        BY <1>4, <1>5, <3>1, <3>3 DEF InBounds
      <3> QED
        BY <3>2, <3>3
    <2>2. InBounds(spec, held)
      BY <2>1 DEF InBounds
    <2> QED
      BY <1>1, <1>5, <2>2, AssignmentIs
  <1>7. /\ GuardsHold(spec.ops[i], held)
        /\ \A name \in Names(spec) \ {spec.lock.var} :
             ApplyEffects(spec.ops[i], f)[name] = ApplyEffects(spec.ops[i], held)[name]
        /\ ApplyEffects(spec.ops[i], f)[spec.lock.var] = free
        /\ DOMAIN ApplyEffects(spec.ops[i], f) = Names(spec)
        /\ DOMAIN ApplyEffects(spec.ops[i], held) = Names(spec)
    BY <1>1, <1>2, <1>3, <1>5, <1>6, LockUnseen
  <1>8. LockSet(ApplyEffects(spec.ops[i], held), free) = g
    <2> DEFINE a == ApplyEffects(spec.ops[i], held)
               b == ApplyEffects(spec.ops[i], f)
    <2>1. a = [name \in Names(spec) |-> a[name]] /\ b = [name \in Names(spec) |-> b[name]]
      <3>1. DOMAIN held = Names(spec) /\ DOMAIN f = Names(spec)
        BY <1>4, <1>5
      <3> QED
        BY <3>1, EffectsAre
    <2>2. /\ b[spec.lock.var] = free /\ g = b
          /\ \A name \in Names(spec) \ {spec.lock.var} : b[name] = a[name]
      BY <1>3, <1>7
    <2> HIDE DEF a, b
    <2>3. LockSet(a, free) = b
      BY <1>4, <2>1, <2>2 DEF LockSet
    <2> QED
      BY <2>2, <2>3 DEF a
  <1> DEFINE t == Freed(s)
             u == [t EXCEPT !.fields = g]
  <1>9. /\ t \in discovered /\ t.fields = f
        /\ t = [fields |-> t.fields, pc |-> t.pc, pending |-> t.pending, result |-> t.result]
        /\ \A a \in Actors : t.pc[a] = "IDLE" /\ t.pending[a] = 0
    BY <1>2, FreedFound DEF Freed
  <1> HIDE DEF t
  <1>10. u \in discovered
    <2>1. LockSet(t.fields, spec.lock.owners[1]) = held
      BY <1>9 DEF held
    <2>2. [t EXCEPT !.fields =
             LockSet(ApplyEffects(spec.ops[i], LockSet(t.fields, spec.lock.owners[1])),
                     spec.lock.unlocked)] \in discovered
      <3>1. GuardsHold(spec.ops[i], LockSet(t.fields, spec.lock.owners[1]))
        BY <1>7, <2>1
      <3>2. t.fields[spec.lock.var] = spec.lock.unlocked
        BY <1>2, <1>9
      <3>3. 1 \in Actors
        BY <1>4
      <3>4. t \in discovered /\ \A a \in Actors : t.pc[a] = "IDLE" /\ t.pending[a] = 0
        BY <1>9
      <3> QED
        BY <3>1, <3>2, <3>3, <3>4, WholeCall
    <2> QED
      BY <1>8, <2>1, <2>2
  <1>11. u.fields = g /\ \A a \in Actors : u.pc[a] = "IDLE"
    BY <1>9
  <1> HIDE DEF u
  <1>12. \A a \in Actors : ~Inside(u, a)
    BY <1>11 DEF Inside
  <1> QED
    BY <1>10, <1>11, <1>12 DEF FreeFields

\* The operations, each as one step, lead to whatever fields were found where
\* the lock is free, and to nothing else.
LEMMA FieldsReached ==
  ASSUME TraversalInv, verdict = "accepted", Locked
  PROVE  AllReachable(FieldMachine)
  <1> DEFINE free == spec.lock.unlocked
             R == ReachableStates(FieldMachine)
             U == {s \in discovered : LockSet(s.fields, free) \in R}
  <1>1. /\ TraversalTypeOK /\ discovered \subseteq DomainStates(spec) /\ IsFiniteSet(discovered)
        /\ Initially(spec) \in discovered /\ \A s \in discovered : Protected(s)
        /\ spec.lock.var \in Names(spec)
        /\ InitialState(spec)[spec.lock.var] = free
    BY AcceptedClosed, AllProtected, LockFacts
  <1>2. LockSet(Initially(spec).fields, free) = InitialState(spec)
    <2>1. LockSet(InitialState(spec), free) = InitialState(spec)
      BY <1>1 DEF LockSet, InitialState
    <2> QED
      BY <2>1 DEF Initially
  <1>3. /\ FieldMachine.initial = InitialState(spec) /\ States(FieldMachine) = FreeFields
        /\ \A f \in FreeFields : FieldMachine.next[f] = FieldSteps(f)
        /\ FieldMachine.next \in [FreeFields -> SUBSET FreeFields]
    BY FieldsClosed DEF FieldMachine, States
  <1>4. IsFiniteSet(FreeFields)
    <2> DEFINE S == {t \in discovered : \A a \in Actors : ~Inside(t, a)}
               F == [s \in S |-> s.fields]
    <2>1. IsFiniteSet(S)
      BY <1>1, FS_Subset
    <2>2. FreeFields = {F[s] : s \in S}
      BY DEF FreeFields
    <2> HIDE DEF S, F
    <2> QED
      BY <2>1, <2>2, FiniteImage
  <1>5. InitialState(spec) \in FreeFields
    BY <1>1, <1>2, FreeFieldsAre
  <1>6. IsMachine(FieldMachine)
    BY <1>3, <1>4, <1>5 DEF IsMachine
  <1>7. R \subseteq FreeFields /\ InitialState(spec) \in R /\ \A f \in R : FieldSteps(f) \subseteq R
    BY <1>3, <1>6, ReachableClosed DEF Closed
  <1> HIDE DEF R
  <1>8. ASSUME NEW s \in U, NEW n \in Actors, NEW post \in discovered, LockStep(s, n, post)
        PROVE  post \in U
    <2>1. s \in discovered /\ s \in DomainStates(spec) /\ Protected(s) /\ LockSet(s.fields, free) \in R
      BY <1>1, <1>8
    <2>2. s.fields = [name \in Names(spec) |-> s.fields[name]] /\ s.fields \in Assignments(spec)
      BY <2>1, StateFacts
    <2>3. CASE LockSet(post.fields, free) = LockSet(s.fields, free)
      BY <1>8, <2>1, <2>3
    <2>4. CASE /\ s.pending[n] \in DOMAIN spec.ops
               /\ GuardsHold(spec.ops[s.pending[n]], s.fields)
               /\ post.fields = ApplyEffects(spec.ops[s.pending[n]], s.fields)
      <3> DEFINE i == s.pending[n]
                 f == LockSet(s.fields, free)
                 a == ApplyEffects(spec.ops[i], s.fields)
                 b == ApplyEffects(spec.ops[i], f)
      <3>1. /\ f[spec.lock.var] = free /\ f = [name \in Names(spec) |-> f[name]]
            /\ \A name \in Names(spec) \ {spec.lock.var} : s.fields[name] = f[name]
        BY <1>1, <2>2, LockSetFacts
      <3>2. f \in R /\ f \in FreeFields
        BY <1>7, <2>1
      <3> HIDE DEF f
      <3>3. f \in Assignments(spec)
        BY <3>2, FreeFieldsAre
      <3>4. /\ i \in DOMAIN spec.ops /\ GuardsHold(spec.ops[i], f)
            /\ \A name \in Names(spec) \ {spec.lock.var} : a[name] = b[name]
            /\ b[spec.lock.var] = free
        <4>1. TraversalTypeOK /\ i \in DOMAIN spec.ops /\ GuardsHold(spec.ops[i], s.fields)
          BY <1>1, <2>4
        <4> HIDE DEF i
        <4>2. s.fields \in Assignments(spec)
          BY <2>2
        <4>3. /\ GuardsHold(spec.ops[i], s.fields) <=> GuardsHold(spec.ops[i], f)
              /\ \A name \in Names(spec) \ {spec.lock.var} : a[name] = b[name]
          BY <3>1, <3>3, <4>1, <4>2, LockUnseen
        <4>4. b[spec.lock.var] = f[spec.lock.var]
          BY <3>3, <4>1, LockUnseen
        <4> QED
          BY <3>1, <4>1, <4>3, <4>4
      <3>5. a = [name \in Names(spec) |-> a[name]] /\ b = [name \in Names(spec) |-> b[name]]
        <4>1. DOMAIN s.fields = Names(spec) /\ DOMAIN f = Names(spec)
          BY <2>2, <3>1
        <4> QED
          BY <4>1, EffectsAre
      <3>6. b \in FieldSteps(f)
        BY <3>4 DEF FieldSteps, ToSet
      <3>7. post.fields = a
        BY <2>4
      <3> HIDE DEF a, b
      <3>8. LockSet(a, free) = b
        BY <1>1, <3>4, <3>5 DEF LockSet
      <3> QED
        BY <1>7, <1>8, <3>2, <3>6, <3>7, <3>8
    <2> QED
      BY <1>1, <1>8, <2>1, <2>3, <2>4, StepFields
  <1>9. U \subseteq discovered /\ (Initially(spec) \in discovered => Initially(spec) \in U)
    BY <1>1, <1>2, <1>7
  <1>10. \A s \in U, n \in Actors, post \in discovered : LockStep(s, n, post) => post \in U
    BY <1>8
  <1> HIDE DEF U
  <1>11. U = discovered
    BY <1>9, <1>10, FoundByInduction
  <1>12. FreeFields \subseteq R
    BY <1>11, FreeFieldsAre DEF U
  <1> QED
    BY <1>3, <1>6, <1>7, <1>12 DEF AllReachable, R

(***************************************************************************)
(* The lock protocol makes operations atomic, for any number of actors and *)
(* any operations that do not mention the lock: what is accepted has the   *)
(* lock owned by the actor inside, and where it is free exactly the fields *)
(* that the operations reach when each is one step.                        *)
(***************************************************************************)
THEOREM AtomicLock == TraversalSpec => []LockMakesAtomic
  <1>1. TraversalInv => LockMakesAtomic
    BY AllProtected, FieldsReached DEF LockMakesAtomic, Protected
  <1> QED
    BY <1>1, TraversalInvariance, PTL

-----------------------------------------------------------------------------
(* The static analysis                                                     *)

\* f[k] is the product of the first k factors.
Products(f, z, N) == f = [k \in 0 .. N |-> IF k = 0 THEN 1 ELSE f[k - 1] * z[k]]

LEMMA ProductsExist ==
  ASSUME NEW z, NEW N \in Nat
  PROVE  \E f : Products(f, z, N)
  <1> DEFINE S == {n \in Nat : ~ \E f : Products(f, z, n)}
  <1>1. SUFFICES ASSUME S # {}
                 PROVE  FALSE
    OBVIOUS
  <1>2. S \subseteq Nat
    OBVIOUS
  <1>3. PICK k \in S : \A n \in S : k <= n
    <2> HIDE DEF S
    <2> QED
      BY <1>1, <1>2, Least
  <1>4. CASE k = 0
    <2> DEFINE f == [n \in 0 .. 0 |-> 1]
    <2>1. f = [n \in 0 .. 0 |-> IF n = 0 THEN 1 ELSE f[n - 1] * z[n]]
      OBVIOUS
    <2>2. Products(f, z, 0)
      BY <2>1 DEF Products
    <2> QED
      BY <1>3, <1>4, <2>2
  <1>5. CASE k # 0
    <2>1. k \in Nat /\ k - 1 \in Nat /\ k - 1 \notin S
      BY <1>3, <1>5
    <2>2. PICK f : Products(f, z, k - 1)
      BY <2>1
    <2> DEFINE last == f[k - 1] * z[k]
               g == [n \in 0 .. k |-> IF n = k THEN last ELSE f[n]]
    <2>3. ASSUME NEW n \in 0 .. k
          PROVE  g[n] = IF n = 0 THEN 1 ELSE g[n - 1] * z[n]
      <3>1. n # 0 => n - 1 \in 0 .. k /\ n - 1 # k
        BY <2>1
      <3>2. n # k => n \in 0 .. k - 1
        BY <2>1
      <3>3. CASE n = k
        <4>1. g[n] = last /\ g[n - 1] = f[k - 1]
          BY <1>5, <2>1, <3>1, <3>3
        <4> QED
          BY <1>5, <3>3, <4>1
      <3>4. CASE n # k
        <4>1. f[n] = IF n = 0 THEN 1 ELSE f[n - 1] * z[n]
          BY <2>2, <3>2, <3>4 DEF Products
        <4>2. g[n] = f[n] /\ (n # 0 => g[n - 1] = f[n - 1])
          BY <3>1, <3>4
        <4> QED
          BY <4>1, <4>2
      <3> QED
        BY <3>3, <3>4
    <2>4. g = [n \in 0 .. k |-> g[n]]
      OBVIOUS
    <2>5. Products(g, z, k)
      <3> HIDE DEF g
      <3> QED
        BY <2>3, <2>4 DEF Products
    <2> QED
      BY <1>3, <2>5
  <1> QED
    BY <1>4, <1>5

LEMMA ProductIs ==
  ASSUME NEW z, Len(z) \in Nat
  PROVE  \E f : Products(f, z, Len(z)) /\ Product(z) = f[Len(z)]
  <1> DEFINE N == Len(z)
             Up(f) == f = [k \in 0 .. N |-> IF k = 0 THEN 1 ELSE f[k - 1] * z[k]]
  <1>1. \E f : Up(f)
    <2> HIDE DEF N
    <2>1. N \in Nat
      BY DEF N
    <2>2. \E f : Products(f, z, N)
      BY <2>1, ProductsExist
    <2> QED
      BY <2>2 DEF Products
  <1>2. Product(z) = (CHOOSE f : Up(f))[N]
    <2>1. Len(z) = N
      OBVIOUS
    <2> HIDE DEF N
    <2> QED
      BY Zenon, <2>1 DEF Product
  <1>3. Up(CHOOSE f : Up(f))
    <2> HIDE DEF Up
    <2> QED
      BY <1>1
  <1> QED
    BY <1>2, <1>3 DEF Products

LEMMA ProductsStep ==
  ASSUME NEW f, NEW z, NEW N \in Nat, Products(f, z, N), NEW k \in 0 .. N
  PROVE  /\ k = 0 => f[k] = 1
         /\ k # 0 => k - 1 \in 0 .. N /\ f[k] = f[k - 1] * z[k]
  <1>1. f[k] = IF k = 0 THEN 1 ELSE f[k - 1] * z[k]
    BY DEF Products
  <1> QED
    BY <1>1

LEMMA Multiplied ==
  ASSUME NEW a \in Nat, NEW b \in Nat, NEW c \in Nat, NEW d \in Nat, a <= b, c <= d
  PROVE  a * c <= b * d /\ a * c \in Nat /\ b * d \in Nat
  <1>1. PICK x \in Nat : b = a + x
    <2>1. b - a \in Nat /\ b = a + (b - a)
      OBVIOUS
    <2> QED
      BY <2>1
  <1>2. PICK y \in Nat : d = c + y
    <2>1. d - c \in Nat /\ d = c + (d - c)
      OBVIOUS
    <2> QED
      BY <2>1
  <1>3. b * d = a * c + (a * y + x * c + x * y)
    BY <1>1, <1>2
  <1>4. a * c \in Nat /\ a * y \in Nat /\ x * c \in Nat /\ x * y \in Nat
    OBVIOUS
  <1> QED
    BY <1>3, <1>4

(***************************************************************************)
(* Vectors whose i-th component is one of a finite set of at most z[i] are *)
(* no more than the product of these numbers.                              *)
(***************************************************************************)
LEMMA Vectors ==
  ASSUME NEW n \in Nat, NEW z, Len(z) = n, NEW S,
         \A i \in 1 .. n : z[i] \in Nat /\ IsFiniteSet(S[i]) /\ Cardinality(S[i]) <= z[i],
         NEW F, \A f \in F : f = [i \in 1 .. n |-> f[i]] /\ \A i \in 1 .. n : f[i] \in S[i]
  PROVE  IsFiniteSet(F) /\ Product(z) \in Nat /\ Cardinality(F) <= Product(z)
  <1> DEFINE U == UNION {S[i] : i \in 1 .. n}
             V(k) == {f \in [1 .. k -> U] : \A i \in 1 .. k : f[i] \in S[i]}
  <1>1. PICK p : Products(p, z, n) /\ Product(z) = p[n]
    BY ProductIs
  <1> DEFINE Few(k) == IsFiniteSet(V(k)) /\ p[k] \in Nat /\ Cardinality(V(k)) <= p[k]
             Bad == {k \in 0 .. n : ~Few(k)}
  <1>2. Few(0)
    <2> DEFINE nothing == [i \in 1 .. 0 |-> 0]
    <2>1. V(0) \subseteq {nothing}
      <3> SUFFICES ASSUME NEW f \in V(0)
                   PROVE  f = nothing
        OBVIOUS
      <3>1. f \in [1 .. 0 -> U]
        OBVIOUS
      <3>2. f = [i \in 1 .. 0 |-> f[i]] /\ \A i \in 1 .. 0 : f[i] = 0
        BY <3>1
      <3> QED
        BY <3>2
    <2>2. IsFiniteSet({nothing}) /\ Cardinality({nothing}) = 1
      BY FS_Singleton
    <2>3. p[0] = 1
      <3>1. 0 \in 0 .. n
        OBVIOUS
      <3> HIDE DEF V
      <3> QED
        BY <1>1, <3>1, ProductsStep
    <2> HIDE DEF V, nothing
    <2> QED
      BY <2>1, <2>2, <2>3, FS_Subset
  <1>3. ASSUME NEW k \in 1 .. n, Few(k - 1)
        PROVE  Few(k)
    <2> DEFINE before == V(k - 1)
               pairs == before \X S[k]
               split == [f \in V(k) |-> <<[i \in 1 .. k - 1 |-> f[i]], f[k]>>]
    <2>1. /\ IsFiniteSet(before) /\ p[k - 1] \in Nat /\ Cardinality(before) <= p[k - 1]
          /\ IsFiniteSet(S[k]) /\ Cardinality(S[k]) <= z[k] /\ z[k] \in Nat
      BY <1>3
    <2>2. ASSUME NEW f \in V(k)
          PROVE  split[f] \in pairs
      <3>1. f \in [1 .. k -> U] /\ \A i \in 1 .. k : f[i] \in S[i]
        OBVIOUS
      <3>2. k \in 1 .. k /\ 1 .. k - 1 \subseteq 1 .. k
        OBVIOUS
      <3>3. [i \in 1 .. k - 1 |-> f[i]] \in V(k - 1)
        BY <3>1, <3>2
      <3>4. f[k] \in S[k]
        BY <3>1, <3>2
      <3> HIDE DEF V
      <3> QED
        BY <3>3, <3>4
    <2>3. ASSUME NEW f \in V(k), NEW g \in V(k), split[f] = split[g]
          PROVE  f = g
      <3>1. f = [i \in 1 .. k |-> f[i]] /\ g = [i \in 1 .. k |-> g[i]]
        OBVIOUS
      <3>2. [i \in 1 .. k - 1 |-> f[i]] = [i \in 1 .. k - 1 |-> g[i]] /\ f[k] = g[k]
        BY <2>3
      <3>3. \A i \in 1 .. k - 1 : f[i] = g[i]
        <4> SUFFICES ASSUME NEW i \in 1 .. k - 1
                     PROVE  f[i] = g[i]
          OBVIOUS
        <4>1. [j \in 1 .. k - 1 |-> f[j]][i] = [j \in 1 .. k - 1 |-> g[j]][i]
          BY <3>2
        <4> QED
          BY <4>1
      <3>4. \A i \in 1 .. k : f[i] = g[i]
        BY <3>2, <3>3
      <3> QED
        BY <3>1, <3>4
    <2>4. split \in Injection(V(k), pairs)
      <3> HIDE DEF V, pairs
      <3> QED
        BY <2>2, <2>3 DEF Injection, IsInjective
    <2>5. IsFiniteSet(pairs) /\ Cardinality(pairs) = Cardinality(before) * Cardinality(S[k])
      <3> HIDE DEF before
      <3> QED
        BY <2>1, FS_Product
    <2> HIDE DEF before, pairs, split, V
    <2>6. IsFiniteSet(V(k)) /\ Cardinality(V(k)) <= Cardinality(pairs)
      BY <2>4, <2>5, FS_Injection
    <2>7. Cardinality(before) \in Nat /\ Cardinality(S[k]) \in Nat /\ Cardinality(V(k)) \in Nat
      BY <2>1, <2>6, FS_CardinalityType
    <2>8. /\ Cardinality(before) * Cardinality(S[k]) <= p[k - 1] * z[k]
          /\ Cardinality(before) * Cardinality(S[k]) \in Nat /\ p[k - 1] * z[k] \in Nat
      BY <2>1, <2>7, Multiplied
    <2>9. p[k] = p[k - 1] * z[k]
      BY <1>1, ProductsStep
    <2> QED
      BY <2>5, <2>6, <2>7, <2>8, <2>9
  <1>4. Bad = {}
    <2> HIDE DEF Few
    <2>1. SUFFICES ASSUME Bad # {}
                   PROVE  FALSE
      OBVIOUS
    <2>2. PICK k \in Bad : \A j \in Bad : k <= j
      <3>1. Bad \subseteq Nat
        OBVIOUS
      <3> HIDE DEF Bad
      <3> QED
        BY <2>1, <3>1, Least
    <2>3. k \in 1 .. n /\ k - 1 \in 0 .. n /\ k - 1 \notin Bad
      BY <1>2, <2>2
    <2> QED
      BY <1>3, <2>2, <2>3
  <1>5. Few(n)
    <2>1. n \in 0 .. n
      OBVIOUS
    <2> HIDE DEF Few
    <2> QED
      BY <1>4, <2>1
  <1>6. F \subseteq V(n)
    <2> SUFFICES ASSUME NEW f \in F
                 PROVE  f \in V(n)
      OBVIOUS
    <2>1. f = [i \in 1 .. n |-> f[i]] /\ \A i \in 1 .. n : f[i] \in S[i]
      OBVIOUS
    <2>2. \A i \in 1 .. n : f[i] \in U
      BY <2>1
    <2> HIDE DEF U
    <2> QED
      BY <2>1, <2>2
  <1> HIDE DEF V
  <1> QED
    BY <1>1, <1>5, <1>6, FS_Subset, FS_CardinalityType

\* What the estimate counts: nothing but a lock protocol has actors in phases, and
\* nothing but a refusal has results.
Tidy(s) ==
  /\ \A a \in Actors : s.pc[a] = "IDLE" <=> s.pending[a] = 0
  /\ ~Locked => s.pc = Initially(spec).pc
  /\ ~HasResults(spec) => s.result = Initially(spec).result

\* Without a lock the calls leave the phases alone.
LEMMA UnlockedTidy ==
  ASSUME TraversalInv, verdict = "accepted", ~Locked
  PROVE  \A s \in discovered : Tidy(s)
  <1> DEFINE Still(s) == /\ s.pc = Initially(spec).pc /\ s.pending = Initially(spec).pending
                         /\ ~HasResults(spec) => s.result = Initially(spec).result
             U == {s \in discovered : Still(s)}
  <1>1. /\ Initially(spec) \in discovered /\ TraversalTypeOK
        /\ discovered \subseteq DomainStates(spec)
    BY DEF TraversalInv, TraversalIInv, Positioned, TraversalTypeOK
  <1>2. ASSUME NEW s \in U, NEW post \in Successors(s)
        PROVE  Still(post)
    <2>1. s \in DomainStates(spec) /\ post \in Targets(s)
      BY <1>1, <1>2, TargetsAre
    <2>2. PICK e \in AtomicEdges(s) : post = e[3]
      BY <2>1 DEF Targets
    <2>3. PICK i \in DOMAIN spec.ops :
             \/ GuardsHold(spec.ops[i], s.fields) /\ \E a \in Callers(i) : e = <<i, a, Done(s, i, a)>>
             \/ /\ ~GuardsHold(spec.ops[i], s.fields) /\ spec.ops[i].stutter
                /\ \E a \in Actors : e = <<i, a, Refused(s, a)>>
      BY <2>2, AtomicEdgesAre
    <2>4. /\ s = [fields |-> s.fields, pc |-> s.pc, pending |-> s.pending, result |-> s.result]
          /\ s.result = [a \in Actors |-> s.result[a]]
      BY <2>1, StateFacts
    <2>5. CASE \E a \in Callers(i) : post = Done(s, i, a)
      <3>1. PICK a \in Callers(i) : post = Done(s, i, a)
        BY <2>5
      <3>2. post.pc = s.pc /\ post.pending = s.pending
        BY <2>4, <3>1 DEF Done
      <3>3. ~HasResults(spec) => post.result = s.result
        BY <2>4, <3>1 DEF Done
      <3> QED
        BY <3>2, <3>3
    <2>6. CASE spec.ops[i].stutter /\ \E a \in Actors : post = Refused(s, a)
      <3>1. HasResults(spec)
        BY <2>6 DEF HasResults
      <3>2. post.pc = s.pc /\ post.pending = s.pending
        BY <2>4, <2>6 DEF Refused
      <3> QED
        BY <3>1, <3>2
    <2> QED
      BY <2>2, <2>3, <2>5, <2>6
  <1>3. Initially(spec) \in U
    BY <1>1
  <1>4. U = discovered
    <2>1. \A s \in U : Successors(s) \cap discovered \subseteq U
      BY <1>2
    <2>2. U \subseteq discovered
      OBVIOUS
    <2> HIDE DEF U
    <2> QED
      BY <1>3, <2>1, <2>2 DEF TraversalInv, TraversalIInv, Generated
  <1>5. /\ \A a \in Actors : Initially(spec).pc[a] = "IDLE"
        /\ \A a \in Actors : Initially(spec).pending[a] = 0
    BY DEF Initially, Actors
  <1> QED
    BY <1>4, <1>5 DEF Tidy

\* With one an idle actor has no operation.
LEMMA LockedTidy ==
  ASSUME TraversalInv, verdict = "accepted", Locked
  PROVE  \A s \in discovered : Tidy(s)
  <1> DEFINE Kept(s) == \A a \in Actors : s.pc[a] = "IDLE" => s.pending[a] = 0
             U == {s \in discovered : Kept(s)}
  <1>1. /\ TraversalTypeOK /\ discovered \subseteq DomainStates(spec)
        /\ \A s \in discovered : Protected(s)
    BY AcceptedClosed, AllProtected
  <1>2. ASSUME NEW s \in U, NEW n \in Actors, NEW post \in discovered, LockStep(s, n, post)
        PROVE  post \in U
    <2>1. /\ s = [fields |-> s.fields, pc |-> s.pc, pending |-> s.pending, result |-> s.result]
          /\ s.pc \in [Actors -> {"IDLE", "INVOKED", "ACQUIRED", "LINEARIZED", "RELEASED"}]
          /\ s.pending \in [Actors -> 0 .. Len(spec.ops)]
      BY <1>1, StateFacts
    <2>2. CASE \E k \in DOMAIN spec.ops : post = Invoked(s, n, k)
      <3>1. /\ post.pc[n] = "INVOKED"
            /\ \A a \in Actors \ {n} : post.pc[a] = s.pc[a] /\ post.pending[a] = s.pending[a]
        BY <2>1, <2>2 DEF Invoked
      <3> QED
        BY <3>1
    <2>3. CASE \E f, phase : phase # "IDLE" /\ post = Moved(s, n, f, phase)
      <3>1. /\ post.pc[n] # "IDLE" /\ post.pending = s.pending
            /\ \A a \in Actors \ {n} : post.pc[a] = s.pc[a]
        BY <2>1, <2>3 DEF Moved
      <3> QED
        BY <3>1
    <2>4. CASE post = Responded(s, n)
      <3>1. /\ post.pending[n] = 0
            /\ \A a \in Actors \ {n} : post.pc[a] = s.pc[a] /\ post.pending[a] = s.pending[a]
        BY <2>1, <2>4 DEF Responded
      <3> QED
        BY <3>1
    <2> QED
      BY <1>2, <2>2, <2>3, <2>4 DEF LockStep
  <1>3. U \subseteq discovered /\ Initially(spec) \in discovered => Initially(spec) \in U
    BY DEF Initially, Actors
  <1>4. U = discovered
    <2> HIDE DEF U
    <2> QED
      BY <1>2, <1>3, FoundByInduction DEF U
  <1>5. DOMAIN spec.ops = 1 .. Len(spec.ops) /\ Len(spec.ops) \in Nat
    BY <1>1, SpecFacts
  <1> QED
    BY <1>1, <1>4, <1>5 DEF Tidy, Protected

\* A function on 1 .. n is a sequence of length n.
LEMMA LengthIs ==
  ASSUME NEW n \in Nat, NEW z, z = [i \in 1 .. n |-> z[i]]
  PROVE  Len(z) = n
  <1> DEFINE S == {z[i] : i \in 1 .. n}
  <1>1. z \in [1 .. n -> S]
    OBVIOUS
  <1>2. z \in Seq(S)
    BY <1>1
  <1> QED
    BY <1>1, <1>2

\* A thing more is one more at most.
LEMMA OneMore ==
  ASSUME NEW S, IsFiniteSet(S), NEW x
  PROVE  /\ IsFiniteSet(S \cup {x}) /\ Cardinality(S \cup {x}) \in Nat
         /\ Cardinality(S \cup {x}) <= Cardinality(S) + 1
  <1>1. Cardinality(S) \in Nat
    BY FS_CardinalityType
  <1>2. /\ IsFiniteSet(S \cup {x})
        /\ Cardinality(S \cup {x}) = IF x \in S THEN Cardinality(S) ELSE Cardinality(S) + 1
    BY FS_AddElement
  <1> QED
    BY <1>1, <1>2

\* Two things are at most two.
LEMMA TwoElements ==
  ASSUME NEW a, NEW b
  PROVE  IsFiniteSet({a, b}) /\ Cardinality({a, b}) <= 2
  <1>1. IsFiniteSet({a}) /\ Cardinality({a}) = 1
    BY FS_Singleton
  <1>2. IsFiniteSet({a} \cup {b}) /\ Cardinality({a} \cup {b}) <= 2
    <2> DEFINE S == {a}
    <2>1. IsFiniteSet(S) /\ Cardinality(S) = 1
      BY <1>1
    <2> HIDE DEF S
    <2>2. IsFiniteSet(S \cup {b}) /\ Cardinality(S \cup {b}) <= 2
      BY <2>1, OneMore
    <2> QED
      BY <2>2 DEF S
  <1>3. {a, b} = {a} \cup {b}
    OBVIOUS
  <1> QED
    BY <1>2, <1>3

\* What the fields of a state hold, in the order of their declarations.
Held(f) == [i \in DOMAIN spec.vars |-> f[spec.vars[i].name]]

\* The values of a field are as many as its size says.
LEMMA SizeIs ==
  ASSUME TraversalTypeOK, NEW i \in DOMAIN spec.vars
  PROVE  /\ Size(spec.vars[i]) \in Nat /\ IsFiniteSet(Values(spec.vars[i]))
         /\ Cardinality(Values(spec.vars[i])) <= Size(spec.vars[i])
  <1> DEFINE v == spec.vars[i]
  <1>1. /\ ~IsBoolean(v) => v.lo \in Int /\ v.hi \in Int
        /\ v.initial \in Values(v)
    BY TraversalAssumption DEF TraversalTypeOK, ValidSpec, ToSet
  <1> HIDE DEF v
  <1>2. CASE IsBoolean(v)
    <2>1. IsFiniteSet({TRUE, FALSE}) /\ Cardinality({TRUE, FALSE}) <= 2
      BY Zenon, TwoElements
    <2>2. Values(v) = {TRUE, FALSE} /\ Size(v) = 2
      <3>1. BOOLEAN = {TRUE, FALSE}
        OBVIOUS
      <3> QED
        BY Zenon, <1>2, <3>1 DEF Values, Size
    <2> QED
      BY <2>1, <2>2 DEF v
  <1>3. CASE ~IsBoolean(v)
    <2>1. v.lo \in Int /\ v.hi \in Int /\ Values(v) = v.lo .. v.hi /\ Size(v) = v.hi - v.lo + 1
      BY <1>1, <1>3 DEF Values, Size
    <2>2. v.lo <= v.hi
      BY <1>1, <2>1
    <2>3. IsFiniteSet(v.lo .. v.hi) /\ Cardinality(v.lo .. v.hi) = v.hi - v.lo + 1
      BY <2>1, <2>2, FS_Interval
    <2> QED
      BY <2>1, <2>2, <2>3 DEF v
  <1> QED
    BY <1>2, <1>3

\* So the assignments are at most the product of the sizes.
LEMMA HeldCounted ==
  ASSUME TraversalTypeOK, NEW F, F \subseteq Assignments(spec)
  PROVE  LET held == {Held(f) : f \in F}
             bound == Product([i \in DOMAIN spec.vars |-> Size(spec.vars[i])])
         IN  IsFiniteSet(held) /\ bound \in Nat /\ Cardinality(held) <= bound
  <1> DEFINE n == Len(spec.vars)
             z == [i \in DOMAIN spec.vars |-> Size(spec.vars[i])]
             S == [i \in 1 .. n |-> Values(spec.vars[i])]
             held == {Held(f) : f \in F}
  <1>1. n \in Nat /\ DOMAIN spec.vars = 1 .. n
    BY TraversalAssumption DEF TraversalTypeOK, IsSequence
  <1>2. Len(z) = n
    <2>1. z = [i \in 1 .. n |-> z[i]]
      BY <1>1
    <2> HIDE DEF z, n
    <2> QED
      BY <1>1, <2>1, LengthIs
  <1>3. \A i \in 1 .. n : z[i] \in Nat /\ IsFiniteSet(S[i]) /\ Cardinality(S[i]) <= z[i]
    BY <1>1, SizeIs
  <1>4. ASSUME NEW h \in held
        PROVE  h = [i \in 1 .. n |-> h[i]] /\ \A i \in 1 .. n : h[i] \in S[i]
    <2>1. PICK f \in F : h = Held(f)
      OBVIOUS
    <2>2. InBounds(spec, f)
      BY AssignmentFacts
    <2>3. \A i \in 1 .. n : f[spec.vars[i].name] \in Values(spec.vars[i])
      BY <1>1, <2>2 DEF InBounds, ToSet
    <2> QED
      BY <1>1, <2>1, <2>3 DEF Held
  <1> HIDE DEF n, z, S, held
  <1>5. IsFiniteSet(held) /\ Product(z) \in Nat /\ Cardinality(held) <= Product(z)
    BY <1>1, <1>2, <1>3, <1>4, Vectors
  <1> QED
    BY <1>5 DEF held, z

\* The vectors of n components of a finite set of at most m are at most m to the n.
LEMMA Powers ==
  ASSUME NEW n \in Nat, NEW m \in Nat, NEW C, IsFiniteSet(C), Cardinality(C) <= m,
         NEW F, F \subseteq [1 .. n -> C]
  PROVE  IsFiniteSet(F) /\ Power(m, n) \in Nat /\ Cardinality(F) <= Power(m, n)
  <1> DEFINE z == [i \in 1 .. n |-> m]
             S == [i \in 1 .. n |-> C]
  <1>1. Len(z) = n
    <2>1. z = [i \in 1 .. n |-> z[i]]
      OBVIOUS
    <2> HIDE DEF z
    <2> QED
      BY <2>1, LengthIs
  <1>2. \A i \in 1 .. n : z[i] \in Nat /\ IsFiniteSet(S[i]) /\ Cardinality(S[i]) <= z[i]
    OBVIOUS
  <1>3. \A f \in F : f = [i \in 1 .. n |-> f[i]] /\ \A i \in 1 .. n : f[i] \in S[i]
    OBVIOUS
  <1>4. Power(m, n) = Product(z)
    BY DEF Power
  <1> HIDE DEF z, S
  <1>5. IsFiniteSet(F) /\ Product(z) \in Nat /\ Cardinality(F) <= Product(z)
    BY <1>1, <1>2, <1>3, Vectors
  <1> QED
    BY <1>4, <1>5

\* So are the results of the actors; without refusals there is one vector of them.
LEMMA ResultsCounted ==
  ASSUME TraversalTypeOK, \A s \in discovered : Tidy(s)
  PROVE  LET results == {s.result : s \in discovered}
         IN  /\ IsFiniteSet(results) /\ ResultVectors(spec) \in Nat
             /\ Cardinality(results) <= ResultVectors(spec)
  <1> DEFINE results == {s.result : s \in discovered}
             Outcomes == {"none", "true", "false"}
  <1>1. CASE HasResults(spec)
    <2>1. IsFiniteSet({"none"}) /\ Cardinality({"none"}) = 1
      BY FS_Singleton
    <2>2. IsFiniteSet({"none"} \cup {"true"}) /\ Cardinality({"none"} \cup {"true"}) = 2
      BY <2>1, FS_AddElement
    <2>3. /\ IsFiniteSet(({"none"} \cup {"true"}) \cup {"false"})
          /\ Cardinality(({"none"} \cup {"true"}) \cup {"false"}) = 3
      BY <2>2, FS_AddElement
    <2>4. Outcomes = ({"none"} \cup {"true"}) \cup {"false"}
      OBVIOUS
    <2>5. results \subseteq [1 .. spec.actors -> Outcomes]
      BY DEF TraversalTypeOK, DomainStates
    <2>6. spec.actors \in Nat
      BY SpecFacts
    <2> HIDE DEF results, Outcomes
    <2>7. IsFiniteSet(Outcomes) /\ Cardinality(Outcomes) <= 3
      BY <2>3, <2>4
    <2>8. /\ IsFiniteSet(results) /\ Power(3, spec.actors) \in Nat
          /\ Cardinality(results) <= Power(3, spec.actors)
      BY <2>5, <2>6, <2>7, Powers
    <2> QED
      BY <1>1, <2>8 DEF ResultVectors, results
  <1>2. CASE ~HasResults(spec)
    <2>1. results \subseteq {Initially(spec).result}
      BY <1>2 DEF Tidy
    <2>2. IsFiniteSet({Initially(spec).result}) /\ Cardinality({Initially(spec).result}) = 1
      BY FS_Singleton
    <2> HIDE DEF results
    <2>3. IsFiniteSet(results) /\ Cardinality(results) <= 1
      BY <2>1, <2>2, FS_Subset
    <2> QED
      BY <1>2, <2>3 DEF ResultVectors, results
  <1> QED
    BY <1>1, <1>2

\* What the actors are doing.
Row(s) == [a \in Actors |-> <<s.pc[a], s.pending[a]>>]

Rows == {Row(s) : s \in discovered}

\* The factor of a lock protocol.
RowVectors == IF spec.lock # NoLock THEN Power(1 + 4 * Len(spec.ops), spec.actors) ELSE 1

\* An actor is idle or in one of four phases of an operation.
LEMMA RowsCounted ==
  ASSUME TraversalTypeOK, \A s \in discovered : Tidy(s)
  PROVE  IsFiniteSet(Rows) /\ RowVectors \in Nat /\ Cardinality(Rows) <= RowVectors
  <1>1. /\ spec.actors \in Nat /\ Len(spec.ops) \in Nat
        /\ \A s \in discovered : s \in DomainStates(spec)
    BY SpecFacts DEF TraversalTypeOK
  <1>2. CASE Locked
    <2> DEFINE N == Len(spec.ops)
               Busy == {"INVOKED", "ACQUIRED", "LINEARIZED", "RELEASED"}
               C == (Busy \X (1 .. N)) \cup {<<"IDLE", 0>>}
    <2>1. IsFiniteSet(Busy) /\ Cardinality(Busy) <= 4
      <3> DEFINE early == {"INVOKED", "ACQUIRED"}
                 late == {"LINEARIZED", "RELEASED"}
      <3>1. /\ IsFiniteSet(early) /\ Cardinality(early) <= 2
            /\ IsFiniteSet(late) /\ Cardinality(late) <= 2
        BY TwoElements
      <3>2. Busy = early \cup late
        OBVIOUS
      <3> HIDE DEF early, late, Busy
      <3>3. /\ IsFiniteSet(early \cup late) /\ IsFiniteSet(early \cap late)
            /\ Cardinality(early \cup late) =
                 Cardinality(early) + Cardinality(late) - Cardinality(early \cap late)
        BY <3>1, FS_Union, FS_Intersection
      <3>4. /\ Cardinality(early) \in Nat /\ Cardinality(late) \in Nat
            /\ Cardinality(early \cap late) \in Nat
        BY <3>1, <3>3, FS_CardinalityType
      <3> QED
        BY <3>1, <3>2, <3>3, <3>4
    <2>2. IsFiniteSet(1 .. N) /\ Cardinality(1 .. N) = N
      <3>1. N \in Int /\ 1 \in Int /\ N >= 0
        BY <1>1
      <3> HIDE DEF N
      <3>2. IsFiniteSet(1 .. N) /\ Cardinality(1 .. N) = IF 1 > N THEN 0 ELSE N - 1 + 1
        BY <3>1, FS_Interval
      <3> QED
        BY <3>1, <3>2
    <2>3. /\ IsFiniteSet(Busy \X (1 .. N))
          /\ Cardinality(Busy \X (1 .. N)) = Cardinality(Busy) * Cardinality(1 .. N)
      <3> HIDE DEF Busy
      <3> QED
        BY <2>1, <2>2, FS_Product
    <2>4. Cardinality(Busy \X (1 .. N)) \in Nat /\ Cardinality(Busy \X (1 .. N)) <= 4 * N
      <3>1. Cardinality(Busy) \in Nat
        BY <2>1, FS_CardinalityType
      <3> HIDE DEF Busy
      <3> QED
        BY <1>1, <2>1, <2>2, <2>3, <3>1, Multiplied
    <2>5. IsFiniteSet(C) /\ Cardinality(C) <= 1 + 4 * N /\ 1 + 4 * N \in Nat
      <3> DEFINE P == Busy \X (1 .. N)
      <3>1. IsFiniteSet(P) /\ Cardinality(P) \in Nat /\ Cardinality(P) <= 4 * N /\ N \in Nat
        BY <1>1, <2>3, <2>4
      <3> DEFINE rest == <<"IDLE", 0>>
      <3>2. C = P \cup {rest}
        OBVIOUS
      <3> HIDE DEF P, C, N, rest
      <3>3. IsFiniteSet(C) /\ Cardinality(C) <= Cardinality(P) + 1 /\ Cardinality(C) \in Nat
        BY <3>1, <3>2, OneMore
      <3> QED
        BY <3>1, <3>3
    <2>6. Rows \subseteq [1 .. spec.actors -> C]
      <3> SUFFICES ASSUME NEW s \in discovered
                   PROVE  Row(s) \in [1 .. spec.actors -> C]
        BY DEF Rows
      <3>1. /\ s.pc \in [Actors -> {"IDLE", "INVOKED", "ACQUIRED", "LINEARIZED", "RELEASED"}]
            /\ s.pending \in [Actors -> 0 .. N]
        BY <1>1, StateFacts
      <3>2. \A a \in Actors : s.pc[a] = "IDLE" <=> s.pending[a] = 0
        BY DEF Tidy
      <3>3. \A a \in Actors : <<s.pc[a], s.pending[a]>> \in C
        <4> SUFFICES ASSUME NEW a \in Actors
                     PROVE  <<s.pc[a], s.pending[a]>> \in C
          OBVIOUS
        <4>1. CASE s.pc[a] = "IDLE"
          BY <3>2, <4>1
        <4>2. CASE s.pc[a] # "IDLE"
          <5>1. s.pc[a] \in Busy /\ s.pending[a] \in 1 .. N
            BY <1>1, <3>1, <3>2, <4>2
          <5> QED
            BY <5>1
        <4> QED
          BY <4>1, <4>2
      <3> HIDE DEF C
      <3> QED
        BY <3>3 DEF Row, Actors
    <2> HIDE DEF C
    <2>7. /\ IsFiniteSet(Rows) /\ Power(1 + 4 * N, spec.actors) \in Nat
          /\ Cardinality(Rows) <= Power(1 + 4 * N, spec.actors)
      BY <1>1, <2>5, <2>6, Powers
    <2> QED
      BY <1>2, <2>7 DEF RowVectors, Locked
  <1>3. CASE ~Locked
    <2> DEFINE idle == [a \in Actors |-> <<"IDLE", 0>>]
    <2>1. ASSUME NEW s \in discovered
          PROVE  Row(s) = idle
      <3>1. \A a \in Actors : s.pc[a] = "IDLE" /\ s.pending[a] = 0
        BY <1>3 DEF Tidy, Initially, Actors
      <3> QED
        BY <3>1 DEF Row
    <2>2. IsFiniteSet({idle}) /\ Cardinality({idle}) = 1
      BY FS_Singleton
    <2>3. Rows \subseteq {idle}
      BY <2>1 DEF Rows
    <2> HIDE DEF idle
    <2>4. IsFiniteSet(Rows) /\ Cardinality(Rows) <= 1
      BY <2>2, <2>3, FS_Subset
    <2> QED
      BY <1>3, <2>4 DEF RowVectors, Locked
  <1> QED
    BY <1>2, <1>3

\* A state is told by what its fields hold, its results and its row.
LEMMA EstimateBounds ==
  ASSUME TraversalInv
  PROVE  EstimateIsUpperBound
  <1> SUFFICES ASSUME verdict = "accepted"
               PROVE  Cardinality(discovered) <= StateSpaceUpperBound(spec)
    BY DEF EstimateIsUpperBound
  <1> DEFINE F == {s.fields : s \in discovered}
             held == {Held(f) : f \in F}
             results == {s.result : s \in discovered}
             code == [s \in discovered |-> <<<<Held(s.fields), s.result>>, Row(s)>>]
             bound == Product([i \in DOMAIN spec.vars |-> Size(spec.vars[i])])
  <1>1. /\ TraversalTypeOK /\ \A s \in discovered : s \in DomainStates(spec) /\ Tidy(s)
    BY UnlockedTidy, LockedTidy DEF TraversalInv, TraversalTypeOK
  <1>2. F \subseteq Assignments(spec)
    BY <1>1, StateFacts
  <1>3. IsFiniteSet(held) /\ bound \in Nat /\ Cardinality(held) <= bound
    <2> HIDE DEF F
    <2> QED
      BY <1>1, <1>2, HeldCounted
  <1>4. /\ IsFiniteSet(results) /\ ResultVectors(spec) \in Nat
        /\ Cardinality(results) <= ResultVectors(spec)
    BY <1>1, ResultsCounted
  <1>5. IsFiniteSet(Rows) /\ RowVectors \in Nat /\ Cardinality(Rows) <= RowVectors
    BY <1>1, RowsCounted
  <1>6. ASSUME NEW s \in discovered
        PROVE  code[s] \in (held \X results) \X Rows
    BY DEF Rows
  <1>7. ASSUME NEW s \in discovered, NEW t \in discovered, code[s] = code[t]
        PROVE  s = t
    <2>1. Held(s.fields) = Held(t.fields) /\ s.result = t.result /\ Row(s) = Row(t)
      BY <1>7
    <2>2. /\ s = [fields |-> s.fields, pc |-> s.pc, pending |-> s.pending, result |-> s.result]
          /\ t = [fields |-> t.fields, pc |-> t.pc, pending |-> t.pending, result |-> t.result]
          /\ s.fields = [name \in Names(spec) |-> s.fields[name]]
          /\ t.fields = [name \in Names(spec) |-> t.fields[name]]
          /\ s.pc = [a \in Actors |-> s.pc[a]] /\ t.pc = [a \in Actors |-> t.pc[a]]
          /\ s.pending = [a \in Actors |-> s.pending[a]]
          /\ t.pending = [a \in Actors |-> t.pending[a]]
      <3>1. s \in DomainStates(spec) /\ t \in DomainStates(spec)
        BY <1>1
      <3> HIDE DEF code
      <3> QED
        BY <3>1, StateFacts
    <2>3. ASSUME NEW a \in Actors
          PROVE  s.pc[a] = t.pc[a] /\ s.pending[a] = t.pending[a]
      <3>1. Row(s)[a] = Row(t)[a]
        BY <2>1
      <3>2. <<s.pc[a], s.pending[a]>> = <<t.pc[a], t.pending[a]>>
        BY <3>1 DEF Row
      <3> QED
        BY <3>2
    <2>4. ASSUME NEW name \in Names(spec)
          PROVE  s.fields[name] = t.fields[name]
      <3>1. PICK i \in DOMAIN spec.vars : spec.vars[i].name = name
        BY DEF Names, ToSet
      <3>2. Held(s.fields)[i] = Held(t.fields)[i]
        BY <2>1
      <3> QED
        BY <3>1, <3>2 DEF Held
    <2>5. s.fields = t.fields /\ s.pc = t.pc /\ s.pending = t.pending
      BY <2>2, <2>3, <2>4
    <2> QED
      BY <2>1, <2>2, <2>5
  <1>8. /\ IsFiniteSet((held \X results) \X Rows)
        /\ Cardinality((held \X results) \X Rows) =
             (Cardinality(held) * Cardinality(results)) * Cardinality(Rows)
    <2> HIDE DEF held, results
    <2>1. /\ IsFiniteSet(held \X results)
          /\ Cardinality(held \X results) = Cardinality(held) * Cardinality(results)
      BY <1>3, <1>4, FS_Product
    <2> QED
      BY <1>5, <2>1, FS_Product
  <1>9. code \in Injection(discovered, (held \X results) \X Rows)
    <2>1. code \in [discovered -> (held \X results) \X Rows]
      <3> HIDE DEF held, results
      <3> QED
        BY <1>6
    <2> HIDE DEF code, held, results
    <2> QED
      BY <1>7, <2>1 DEF Injection, IsInjective
  <1> HIDE DEF held, results, code, bound
  <1>10. /\ Cardinality(discovered) <= (Cardinality(held) * Cardinality(results)) * Cardinality(Rows)
    BY <1>8, <1>9, FS_Injection
  <1>11. /\ Cardinality(held) \in Nat /\ Cardinality(results) \in Nat /\ Cardinality(Rows) \in Nat
         /\ Cardinality(discovered) \in Nat
    <2>1. IsFiniteSet(discovered)
      BY <1>1 DEF TraversalTypeOK
    <2> QED
      BY <1>3, <1>4, <1>5, <2>1, FS_CardinalityType
  <1>12. /\ Cardinality(held) * Cardinality(results) <= bound * ResultVectors(spec)
         /\ Cardinality(held) * Cardinality(results) \in Nat /\ bound * ResultVectors(spec) \in Nat
    BY <1>3, <1>4, <1>11, Multiplied
  <1>13. (Cardinality(held) * Cardinality(results)) * Cardinality(Rows)
           <= (bound * ResultVectors(spec)) * RowVectors
    <2> DEFINE x == Cardinality(held) * Cardinality(results)
               y == bound * ResultVectors(spec)
    <2>1. x \in Nat /\ y \in Nat /\ x <= y
      BY <1>12
    <2> HIDE DEF x, y
    <2>2. x * Cardinality(Rows) <= y * RowVectors
      BY <1>5, <1>11, <2>1, Multiplied
    <2> QED
      BY <2>2 DEF x, y
  <1>14. StateSpaceUpperBound(spec) = (bound * ResultVectors(spec)) * RowVectors
    BY DEF StateSpaceUpperBound, RowVectors, bound
  <1>15. (Cardinality(held) * Cardinality(results)) * Cardinality(Rows) \in Int
    BY <1>11, <1>12
  <1>16. (bound * ResultVectors(spec)) * RowVectors \in Int
    BY <1>5, <1>12
  <1> QED
    BY <1>10, <1>11, <1>13, <1>14, <1>15, <1>16

\* An operation whose guard is decided false by one field is disabled in every state
\* that has the value.
LEMMA FindingsAreReal ==
  ASSUME TraversalInv
  PROVE  DeadlockFindingIsReal
  <1> SUFFICES ASSUME NEW finding \in StaticDeadlockFindings(spec), NEW s \in discovered,
                      s.fields[finding[1]] = finding[2]
               PROVE  FieldSteps(s.fields) = {}
    BY DEF DeadlockFindingIsReal
  <1> DEFINE Stuck(v, x) == \A op \in ToSet(spec.ops) : ~OperationAdmits(op, v.name, x)
             Found(v) == {<<v.name, x>> : x \in {y \in EnteredValues(spec, v) \ v.terminal : Stuck(v, y)}}
  <1>1. \E v \in ToSet(spec.vars) : finding \in Found(v)
    <2> HIDE DEF Found
    <2>1. StaticDeadlockFindings(spec) = UNION {Found(v) : v \in {w \in ToSet(spec.vars) : ~IsBoolean(w)}}
      BY Zenon DEF StaticDeadlockFindings, Found
    <2> QED
      BY <2>1
  <1>2. PICK v \in ToSet(spec.vars) : finding \in Found(v)
    BY <1>1
  <1>3. PICK x : finding = <<v.name, x>> /\ Stuck(v, x)
    BY <1>2
  <1>4. s.fields[v.name] = x /\ v.name \in Names(spec)
    BY <1>3 DEF Names
  <1>5. s.fields \in Assignments(spec)
    BY StateFacts DEF TraversalInv, TraversalTypeOK
  <1>6. ASSUME NEW op \in ToSet(spec.ops)
        PROVE  ~GuardsHold(op, s.fields)
    <2>1. ~OperationAdmits(op, v.name, x)
      BY <1>3
    <2>2. PICK i \in DOMAIN op.guards :
            EvaluatePartially(op.guards[i], Only(v.name, x)) = FALSE
      BY <2>1 DEF OperationAdmits
    <2>3. EvaluatedAsWritten(op.guards[i], spec)
      <3>1. PICK j \in DOMAIN spec.ops : op = spec.ops[j]
        BY DEF ToSet
      <3> QED
        BY <3>1, TraversalAssumption DEF TraversalInv, TraversalTypeOK
    <2>4. EvaluatePartially(op.guards[i], Only(v.name, x)) \in {Unknown, Evaluate(op.guards[i], s.fields)}
      BY <1>4, <1>5, <2>3, PartialIsSound
    <2>5. Evaluate(op.guards[i], s.fields) = FALSE
      BY <2>2, <2>4, UnknownAssumption
    <2> QED
      BY <2>5 DEF GuardsHold
  <1> QED
    BY <1>6 DEF FieldSteps

(***************************************************************************)
(* What the static analysis says of a domain is true of its exploration:   *)
(* state_space_upper_bound bounds the states discovered, and a deadlock    *)
(* that find_static_deadlocks reports is one, for every domain and limits. *)
(***************************************************************************)
THEOREM StaticAnalysis == TraversalSpec => []StaticAnalysisIsSound
  <1>1. TraversalInv => StaticAnalysisIsSound
    BY EstimateBounds, FindingsAreReal DEF StaticAnalysisIsSound
  <1> QED
    BY <1>1, TraversalInvariance, PTL

=============================================================================
