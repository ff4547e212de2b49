------------------------- MODULE A2AAdmissionProofs -------------------------
(***************************************************************************)
(* Proofs about A2AAdmission, for any finite set of work items and any     *)
(* requests, grants and workers.                                           *)
(***************************************************************************)
EXTENDS A2AAdmission, FiniteSetTheorems, WellFoundedInduction, TLAPS

-----------------------------------------------------------------------------
(* Sums over finite sets.  MapThenSumSet picks the elements in an order of *)
(* its own; what it returns does not depend on it.                         *)

Pick(s) == CHOOSE x \in s : TRUE

Rest(s) == s \ {Pick(s)}

\* f[s] is the sum of a over s, for every part s of S, as MapThenSumSet has it.
Sums(f, a, S) ==
  f = [s \in SUBSET S |-> IF s = {} THEN 0 ELSE a[Pick(s)] + f[Rest(s)]]

LEMMA RestOf ==
  ASSUME NEW s, s # {}
  PROVE  Pick(s) \in s /\ Rest(s) \subseteq s /\ Rest(s) # s
  <1>1. Pick(s) \in s
    BY DEF Pick
  <1> QED
    BY <1>1 DEF Rest

\* Among sets of parts of a finite set there is a smallest one.
LEMMA SmallestPart ==
  ASSUME NEW S, IsFiniteSet(S), NEW T, T \subseteq SUBSET S, T # {}
  PROVE  \E m \in T : \A s \in T : s \subseteq m => s = m
  <1>1. IsWellFoundedOn(StrictSubsetOrdering(S), FiniteSubsetsOf(S))
    BY FS_StrictSubsetOrderingWellFounded
  <1>2. T \subseteq FiniteSubsetsOf(S)
    BY FS_Subset DEF FiniteSubsetsOf
  <1>3. PICK m \in T : \A s \in T : ~ (<<s, m>> \in StrictSubsetOrdering(S))
    BY <1>1, <1>2, WFMin
  <1>4. ASSUME NEW s \in T, s \subseteq m, s # m
        PROVE  <<s, m>> \in StrictSubsetOrdering(S)
    BY <1>4 DEF StrictSubsetOrdering
  <1>5. \A s \in T : s \subseteq m => s = m
    BY <1>3, <1>4
  <1> QED
    BY <1>5

LEMMA SumsStep ==
  ASSUME NEW f, NEW a, NEW S, Sums(f, a, S), NEW s \in SUBSET S
  PROVE  /\ s = {} => f[s] = 0
         /\ s # {} => f[s] = a[Pick(s)] + f[Rest(s)]
  BY DEF Sums

\* Equal amounts have equal sums.
LEMMA SumsAgree ==
  ASSUME NEW f, NEW a, NEW S, Sums(f, a, S), NEW g, NEW b, NEW R, Sums(g, b, R),
         NEW s, s \subseteq S, s \subseteq R, IsFiniteSet(s), \A x \in s : a[x] = b[x]
  PROVE  f[s] = g[s]
  <1> DEFINE T == {t \in SUBSET s : f[t] # g[t]}
  <1>1. SUFFICES ASSUME T # {}
                 PROVE  FALSE
    OBVIOUS
  <1>2. T \subseteq SUBSET s
    OBVIOUS
  <1>3. PICK m \in T : \A t \in T : t \subseteq m => t = m
    <2> HIDE DEF T
    <2> QED
      BY <1>1, <1>2, SmallestPart
  <1>4. m # {}
    BY <1>3, SumsStep
  <1>5. f[Rest(m)] = g[Rest(m)] /\ Pick(m) \in s
    BY <1>3, <1>4, RestOf
  <1>6. f[m] = a[Pick(m)] + f[Rest(m)] /\ g[m] = b[Pick(m)] + g[Rest(m)]
    BY <1>3, <1>4, SumsStep
  <1> QED
    BY <1>3, <1>5, <1>6

LEMMA SumsExist ==
  ASSUME NEW a, NEW S, IsFiniteSet(S)
  PROVE  \E f : Sums(f, a, S)
  <1> DEFINE Of(s) == CHOOSE f : Sums(f, a, s)
             T == {t \in SUBSET S : ~ \E f : Sums(f, a, t)}
  <1>1. SUFFICES ASSUME T # {}
                 PROVE  FALSE
    OBVIOUS
  <1>2. T \subseteq SUBSET S
    OBVIOUS
  <1>3. PICK m \in T : \A t \in T : t \subseteq m => t = m
    <2> HIDE DEF T
    <2> QED
      BY <1>1, <1>2, SmallestPart
  <1>4. ASSUME NEW s \in SUBSET m, s # m
        PROVE  Sums(Of(s), a, s)
    <2>1. \E f : Sums(f, a, s)
      BY <1>3, <1>4
    <2> QED
      BY <2>1
  <1> DEFINE top == IF m = {} THEN 0 ELSE a[Pick(m)] + Of(Rest(m))[Rest(m)]
             g == [s \in SUBSET m |-> IF s = m THEN top ELSE Of(s)[s]]
  <1> HIDE DEF Of
  <1>5. ASSUME NEW s \in SUBSET m
        PROVE  g[s] = IF s = {} THEN 0 ELSE a[Pick(s)] + g[Rest(s)]
    <2>1. CASE s = m
      BY <2>1, RestOf
    <2>2. CASE s # m /\ s = {}
      BY <1>4, <2>2, SumsStep
    <2>3. CASE s # m /\ s # {}
      <3>1. g[s] = Of(s)[s] /\ g[Rest(s)] = Of(Rest(s))[Rest(s)]
        BY <2>3, RestOf
      <3>2. Of(s)[s] = a[Pick(s)] + Of(s)[Rest(s)]
        BY <1>4, <2>3, SumsStep
      <3>3. Of(s)[Rest(s)] = Of(Rest(s))[Rest(s)]
        <4>1. Rest(s) \subseteq s /\ Rest(s) # m /\ Rest(s) \in SUBSET m
          BY <2>3, RestOf
        <4>2. IsFiniteSet(Rest(s))
          BY <4>1, FS_Subset
        <4> QED
          BY <1>4, <2>3, <4>1, <4>2, SumsAgree
      <3> QED
        BY <2>3, <3>1, <3>2, <3>3
    <2> QED
      BY <2>1, <2>2, <2>3
  <1>6. Sums(g, a, m)
    <2>1. g = [s \in SUBSET m |-> g[s]]
      OBVIOUS
    <2> HIDE DEF g
    <2> QED
      BY <1>5, <2>1 DEF Sums
  <1> QED
    BY <1>3, <1>6

LEMMA SumsNat ==
  ASSUME NEW f, NEW a, NEW S, Sums(f, a, S), IsFiniteSet(S), \A x \in S : a[x] \in Nat,
         NEW s \in SUBSET S
  PROVE  f[s] \in Nat
  <1> DEFINE T == {t \in SUBSET S : f[t] \notin Nat}
  <1>1. SUFFICES ASSUME T # {}
                 PROVE  FALSE
    OBVIOUS
  <1>2. T \subseteq SUBSET S
    OBVIOUS
  <1>3. PICK m \in T : \A t \in T : t \subseteq m => t = m
    <2> HIDE DEF T
    <2> QED
      BY <1>1, <1>2, SmallestPart
  <1>4. m # {}
    <2>1. m \in SUBSET S /\ f[m] \notin Nat
      BY <1>3
    <2>2. m = {} => f[m] = 0
      BY <2>1, SumsStep
    <2> QED
      BY <2>1, <2>2
  <1>5. f[Rest(m)] \in Nat /\ a[Pick(m)] \in Nat
    BY <1>3, <1>4, RestOf
  <1>6. f[m] = a[Pick(m)] + f[Rest(m)]
    BY <1>3, <1>4, SumsStep
  <1> QED
    BY <1>3, <1>5, <1>6

\* Any element may be taken out first.
LEMMA SumsSplit ==
  ASSUME NEW f, NEW a, NEW S, Sums(f, a, S), IsFiniteSet(S), \A x \in S : a[x] \in Nat,
         NEW s \in SUBSET S, NEW x \in s
  PROVE  f[s] = a[x] + f[s \ {x}]
  <1> DEFINE T == {t \in SUBSET S : \E y \in t : f[t] # a[y] + f[t \ {y}]}
  <1>1. SUFFICES ASSUME T # {}
                 PROVE  FALSE
    OBVIOUS
  <1>2. T \subseteq SUBSET S
    OBVIOUS
  <1>3. PICK m \in T : \A t \in T : t \subseteq m => t = m
    <2> HIDE DEF T
    <2> QED
      BY <1>1, <1>2, SmallestPart
  <1>4. PICK y \in m : f[m] # a[y] + f[m \ {y}]
    BY <1>3
  <1> DEFINE p == Pick(m)
  <1>5. p \in m /\ f[m] = a[p] + f[m \ {p}]
    BY <1>3, <1>4, RestOf, SumsStep DEF Rest
  <1> HIDE DEF p
  <1>6. y # p
    BY <1>4, <1>5
  <1>7. m \ {p} \notin T /\ m \ {y} \notin T
    BY <1>3, <1>4, <1>5
  <1>8. f[m \ {p}] = a[y] + f[(m \ {p}) \ {y}]
    BY <1>3, <1>4, <1>6, <1>7
  <1>9. f[m \ {y}] = a[p] + f[(m \ {y}) \ {p}]
    BY <1>3, <1>5, <1>6, <1>7
  <1>10. f[(m \ {p}) \ {y}] = f[(m \ {y}) \ {p}]
    <2>1. (m \ {p}) \ {y} = (m \ {y}) \ {p}
      OBVIOUS
    <2> QED
      BY <2>1
  <1>11. a[y] \in Nat /\ a[p] \in Nat /\ f[(m \ {y}) \ {p}] \in Nat
    BY <1>3, <1>4, <1>5, SumsNat
  <1> DEFINE z == f[(m \ {y}) \ {p}]
  <1>12. /\ f[m] = a[p] + f[m \ {p}] /\ f[m \ {p}] = a[y] + z /\ f[m \ {y}] = a[p] + z
         /\ z \in Nat
    BY <1>5, <1>8, <1>9, <1>10, <1>11
  <1> HIDE DEF z
  <1> QED
    BY <1>4, <1>11, <1>12

-----------------------------------------------------------------------------
(* Reservations                                                            *)

LEMMA ReservedIsSum ==
  ASSUME NEW ids, NEW key
  PROVE  Reserved(ids, key) = ReservedIn(record, ids, key)
  BY DEF Reserved

LEMMA SumIs ==
  ASSUME NEW rec, NEW ids, IsFiniteSet(ids), NEW key
  PROVE  \E f : /\ Sums(f, [id \in ids |-> Amount(rec[id].item, key)], ids)
               /\ ReservedIn(rec, ids, key) = f[ids]
  <1> DEFINE a == [id \in ids |-> Amount(rec[id].item, key)]
             Unfolds(f) == f = [s \in SUBSET ids |->
                                  IF s = {} THEN 0
                                  ELSE Amount(rec[CHOOSE x \in s : TRUE].item, key)
                                         + f[s \ {CHOOSE x \in s : TRUE}]]
  <1>1. \A f : Sums(f, a, ids) <=> Unfolds(f)
    <2> TAKE f
    <2>1. \A s \in SUBSET ids : s # {} =>
            a[Pick(s)] = Amount(rec[CHOOSE x \in s : TRUE].item, key)
      BY RestOf DEF Pick
    <2> HIDE DEF a
    <2>2. [s \in SUBSET ids |-> IF s = {} THEN 0 ELSE a[Pick(s)] + f[Rest(s)]] =
          [s \in SUBSET ids |-> IF s = {} THEN 0
                               ELSE Amount(rec[CHOOSE x \in s : TRUE].item, key)
                                      + f[s \ {CHOOSE x \in s : TRUE}]]
      BY <2>1 DEF Pick, Rest
    <2> QED
      BY <2>2 DEF Sums
  <1>2. \E f : Unfolds(f)
    <2> HIDE DEF a, Unfolds
    <2>1. \E f : Sums(f, a, ids)
      BY SumsExist
    <2> QED
      BY <1>1, <2>1
  <1>3. ReservedIn(rec, ids, key) = (CHOOSE f : Unfolds(f))[ids]
    BY Zenon DEF ReservedIn, MapThenSumSet, MapThenFoldSet
  <1>4. Unfolds(CHOOSE f : Unfolds(f))
    <2> HIDE DEF Unfolds
    <2> QED
      BY <1>2
  <1> HIDE DEF Unfolds
  <1> QED
    BY <1>1, <1>3, <1>4

\* What Fits and the ceilings need to know of a sum.
LEMMA SumFacts ==
  ASSUME NEW rec, NEW ids, IsFiniteSet(ids), NEW key,
         \A id \in ids : Amount(rec[id].item, key) \in Nat
  PROVE  /\ ReservedIn(rec, ids, key) \in Nat
         /\ ids = {} => ReservedIn(rec, ids, key) = 0
         /\ \A id \in ids :
              ReservedIn(rec, ids, key) =
                Amount(rec[id].item, key) + ReservedIn(rec, ids \ {id}, key)
  <1> DEFINE a == [id \in ids |-> Amount(rec[id].item, key)]
  <1>1. PICK f : Sums(f, a, ids) /\ ReservedIn(rec, ids, key) = f[ids]
    BY SumIs
  <1>2. \A x \in ids : a[x] \in Nat
    OBVIOUS
  <1>3. ASSUME NEW id \in ids
        PROVE  ReservedIn(rec, ids, key) =
                 Amount(rec[id].item, key) + ReservedIn(rec, ids \ {id}, key)
    <2> DEFINE rest == ids \ {id}
               b == [x \in rest |-> Amount(rec[x].item, key)]
    <2>1. IsFiniteSet(rest) /\ rest \subseteq ids
      BY FS_Subset
    <2>2. PICK g : Sums(g, b, rest) /\ ReservedIn(rec, rest, key) = g[rest]
      BY <2>1, SumIs
    <2>3. \A x \in rest : a[x] = b[x]
      BY <2>1
    <2>4. a[id] = Amount(rec[id].item, key)
      OBVIOUS
    <2> HIDE DEF a, b, rest
    <2>5. f[rest] = g[rest]
      BY <1>1, <2>1, <2>2, <2>3, SumsAgree
    <2>6. f[ids] = a[id] + f[ids \ {id}]
      BY <1>1, <1>2, SumsSplit
    <2> QED
      BY <1>1, <2>2, <2>4, <2>5, <2>6 DEF rest
  <1> HIDE DEF a
  <1>4. ReservedIn(rec, ids, key) \in Nat
    BY <1>1, <1>2, SumsNat
  <1>5. ids = {} => ReservedIn(rec, ids, key) = 0
    BY <1>1, SumsStep
  <1> QED
    BY <1>3, <1>4, <1>5

\* Records that agree on some tasks have the same sums over them.
LEMMA SumSame ==
  ASSUME NEW rec, NEW old, NEW ids, IsFiniteSet(ids), NEW key,
         \A id \in ids : rec[id] = old[id]
  PROVE  ReservedIn(rec, ids, key) = ReservedIn(old, ids, key)
  <1> DEFINE a == [id \in ids |-> Amount(rec[id].item, key)]
             b == [id \in ids |-> Amount(old[id].item, key)]
  <1>1. PICK f : Sums(f, a, ids) /\ ReservedIn(rec, ids, key) = f[ids]
    BY SumIs
  <1>2. PICK g : Sums(g, b, ids) /\ ReservedIn(old, ids, key) = g[ids]
    BY SumIs
  <1>3. \A id \in ids : a[id] = b[id]
    OBVIOUS
  <1> HIDE DEF a, b
  <1> QED
    BY <1>1, <1>2, <1>3, SumsAgree

-----------------------------------------------------------------------------
(* Items                                                                   *)

LEMMA BudgetFacts ==
  ASSUME NEW b \in Budget
  PROVE  /\ b = [key \in DOMAIN b |-> b[key]] /\ DOMAIN b \subseteq Keys
         /\ \A key \in DOMAIN b : b[key] \in 0 .. MaxBudget
  BY DEF Budget

LEMMA AmountNat ==
  ASSUME NEW item \in Item, NEW key
  PROVE  Amount(item, key) \in Nat
  <1>1. item.budget \in Budget /\ MaxBudget \in Nat
    BY AdmissionAssumption DEF Item
  <1>2. CASE key \in DOMAIN item.budget
    <2>1. item.budget[key] \in 0 .. MaxBudget
      BY <1>1, <1>2, BudgetFacts
    <2> QED
      BY <1>1, <1>2, <2>1 DEF Amount
  <1>3. CASE key \notin DOMAIN item.budget
    BY <1>3 DEF Amount
  <1> QED
    BY <1>2, <1>3

Admission == [asked : Requests, item : Item, grant : Grants, worker : Workers]

LEMMA StoredFacts ==
  ASSUME TypeOK, NEW id \in Ids, journal[id] # "absent"
  PROVE  /\ record[id] \in Admission
         /\ record[id].asked \in Item /\ record[id].asked \in Requests
         /\ record[id].item \in Item
         /\ record[id].grant \in Grants /\ record[id].grant \in Grant
         /\ record[id].worker \in Workers /\ record[id].worker \in Bounds
  BY AdmissionAssumption DEF TypeOK, Admission

LEMMA EffectiveItem ==
  ASSUME TypeOK, NEW req \in Item, req.parent # NoParent => Loadable(req.parent)
  PROVE  /\ Effective(req) \in Item
         /\ Effective(req).parent = req.parent /\ Effective(req).budget = req.budget
  <1>1. CASE req.parent = NoParent
    BY <1>1 DEF Effective
  <1>2. CASE req.parent # NoParent
    <2>1. record[req.parent].item.protected \subseteq Scope
      BY <1>2, StoredFacts DEF Loadable, Item
    <2> QED
      BY <1>2, <2>1 DEF Effective, Item
  <1> QED
    BY <1>1, <1>2

\* The reservations of live tasks are natural numbers.
LEMMA LiveFacts ==
  ASSUME TypeOK, NEW ids \in SUBSET Ids, \A id \in ids : journal[id] = "active", NEW key
  PROVE  IsFiniteSet(ids) /\ \A id \in ids : Amount(record[id].item, key) \in Nat
  <1>1. IsFiniteSet(ids)
    BY AdmissionAssumption, FS_Subset
  <1>2. ASSUME NEW id \in ids
        PROVE  Amount(record[id].item, key) \in Nat
    BY StoredFacts, AmountNat
  <1> QED
    BY <1>1, <1>2

LEMMA EffectiveParent ==
  ASSUME NEW req \in Item
  PROVE  Effective(req).parent = req.parent
  BY DEF Effective, Item

\* A stored task names a stored parent, as what was asked for did.
LEMMA JustifiedFacts ==
  ASSUME TypeOK, IInv, NEW id \in Stored
  PROVE  /\ id \in Ids /\ journal[id] \in {"active", "ended"} /\ Justified(id)
         /\ record[id].asked.parent = record[id].item.parent
         /\ record[id].item.parent # NoParent => record[id].item.parent \in Stored
  <1>1. id \in Ids /\ journal[id] \in {"active", "ended"} /\ Justified(id)
    BY DEF Stored, Loadable, IInv
  <1>2. record[id].asked.parent = record[id].item.parent
    BY <1>1, StoredFacts, EffectiveParent DEF Justified
  <1> QED
    BY <1>1, <1>2 DEF Justified, Stored, Loadable

-----------------------------------------------------------------------------
(* An admission                                                            *)

Admitted(id, req, g, w) ==
  LET item == Effective(req) IN
  /\ journal[id] = "absent" /\ req \in Item /\ item \in Item
  /\ item.parent = req.parent /\ req.parent # id
  /\ Authorized(item, g, w)
  /\ Fits(item, AggregateCeiling(g, w), UnderGrant(g))
  /\ req.parent # NoParent =>
       /\ Loadable(req.parent)
       /\ WithinParent(item, record[req.parent].item)
       /\ Fits(item, record[req.parent].item.budget, Children(req.parent))

LEMMA CreatedIsAdmitted ==
  ASSUME TypeOK, NEW id \in Ids, NEW req \in Requests, NEW g \in Grants, NEW w \in Workers,
         req.parent # id, Verdict(id, req, g, w) = "created"
  PROVE  Admitted(id, req, g, w)
  <1> DEFINE item == Effective(req)
  <1>1. /\ ~ (req.parent # NoParent /\ ~ Loadable(req.parent))
        /\ Authorized(item, g, w) /\ ~ Loadable(id)
        /\ ~ \E other \in Ids : journal[other] = "empty"
        /\ Fits(item, AggregateCeiling(g, w), UnderGrant(g))
        /\ req.parent # NoParent =>
             /\ WithinParent(item, record[req.parent].item)
             /\ Fits(item, record[req.parent].item.budget, Children(req.parent))
    BY DEF Verdict
  <1>2. journal[id] = "absent"
    BY <1>1 DEF TypeOK, Loadable
  <1>3. req \in Item
    BY AdmissionAssumption
  <1>4. item \in Item /\ item.parent = req.parent
    BY <1>1, <1>3, EffectiveItem
  <1> QED
    BY <1>1, <1>2, <1>3, <1>4 DEF Admitted

LEMMA StoreFacts ==
  ASSUME TypeOK, NEW id \in Ids, NEW req \in Requests, NEW g \in Grants, NEW w \in Workers,
         Admitted(id, req, g, w), NEW now \in {"active", "empty"}, Store(id, req, g, w, now)
  PROVE  /\ TypeOK'
         /\ journal'[id] = now /\ \A d \in Ids : d # id => journal'[d] = journal[d]
         /\ record'[id] = [asked |-> req, item |-> Effective(req), grant |-> g, worker |-> w]
         /\ \A d \in Ids : d # id => record'[d] = record[d]
  <1>1. /\ journal'[id] = now /\ \A d \in Ids : d # id => journal'[d] = journal[d]
        /\ journal' \in [Ids -> {"absent", "empty", "active", "ended"}]
    BY DEF TypeOK, Store
  <1> DEFINE r == [asked |-> req, item |-> Effective(req), grant |-> g, worker |-> w]
  <1>2. record' = [record EXCEPT ![id] = r] /\ DOMAIN record = Ids
    BY DEF TypeOK, Store
  <1>3. r \in Admission
    BY DEF Admission, Admitted
  <1> HIDE DEF r
  <1>4. DOMAIN record' = Ids /\ record'[id] = r
        /\ \A d \in Ids : d # id => record'[d] = record[d]
    BY <1>2
  <1>5. \A d \in Ids : journal'[d] # "absent" => record'[d] \in Admission
    BY <1>1, <1>3, <1>4 DEF TypeOK, Admission
  <1> QED
    BY <1>1, <1>4, <1>5 DEF TypeOK, Admission, r

\* What was stored before stays as it was, and justified.
LEMMA StoreJustifies ==
  ASSUME TypeOK, IInv, NEW id \in Ids, NEW req \in Requests, NEW g \in Grants,
         NEW w \in Workers, Admitted(id, req, g, w), NEW now \in {"active", "empty"},
         Store(id, req, g, w, now)
  PROVE  \A d \in Stored' : Justified(d)'
  <1>1. /\ journal'[id] = now /\ \A d \in Ids : d # id => journal'[d] = journal[d]
        /\ record'[id] = [asked |-> req, item |-> Effective(req), grant |-> g, worker |-> w]
        /\ \A d \in Ids : d # id => record'[d] = record[d]
    BY StoreFacts
  <1>2. id \notin Stored /\ \A d \in Stored : Loadable(d)' /\ record'[d] = record[d]
    BY <1>1 DEF Stored, Loadable, Admitted
  <1>3. ASSUME NEW r \in Item, r.parent # NoParent => r.parent \in Stored
        PROVE  Effective(r)' = Effective(r)
    BY <1>2, <1>3 DEF Effective
  <1>4. ASSUME NEW d \in Stored
        PROVE  Justified(d)'
    <2>1. /\ Justified(d) /\ record[d].asked.parent = record[d].item.parent
          /\ record[d].item.parent # NoParent => record[d].item.parent \in Stored
          /\ d \in Ids /\ journal[d] # "absent"
      BY JustifiedFacts
    <2>2. Effective(record[d].asked)' = Effective(record[d].asked)
      <3>1. record[d].asked \in Item /\ record'[d] = record[d]
        BY <1>2, <2>1, StoredFacts
      <3> QED
        BY <1>2, <2>1, <3>1 DEF Effective
    <2> QED
      BY <1>2, <2>1, <2>2 DEF Justified
  <1>5. CASE now = "active"
    <2>1. /\ Effective(req)' = Effective(req)
          /\ req.parent # NoParent => Loadable(req.parent)'
                                     /\ record'[req.parent] = record[req.parent]
      BY <1>2, <1>3 DEF Admitted, Stored, Loadable
    <2>2. Justified(id)'
      BY <1>1, <2>1 DEF Justified, Admitted
    <2>3. \A d \in Stored' : d = id \/ d \in Stored
      BY <1>1 DEF Stored, Loadable
    <2> QED
      BY <1>4, <2>2, <2>3
  <1>6. CASE now = "empty"
    <2>1. \A d \in Stored' : d \in Stored
      BY <1>1, <1>6 DEF Stored, Loadable
    <2> QED
      BY <1>4, <2>1
  <1> QED
    BY <1>5, <1>6

\* The sum over some live tasks, one of them new.
LEMMA NewSum ==
  ASSUME TypeOK, NEW id \in Ids, NEW req \in Requests, NEW g \in Grants,
         NEW w \in Workers, Admitted(id, req, g, w), NEW now \in {"active", "empty"},
         Store(id, req, g, w, now), NEW old \in SUBSET Ids, id \notin old,
         \A d \in old : journal[d] = "active", NEW key
  PROVE  /\ ReservedIn(record', old, key) = ReservedIn(record, old, key)
         /\ ReservedIn(record', old \cup {id}, key) =
              Amount(Effective(req), key) + ReservedIn(record, old, key)
  <1>1. /\ record'[id] = [asked |-> req, item |-> Effective(req), grant |-> g, worker |-> w]
        /\ \A d \in Ids : d # id => record'[d] = record[d]
    BY StoreFacts
  <1>2. IsFiniteSet(old) /\ \A d \in old : Amount(record[d].item, key) \in Nat
    BY LiveFacts
  <1>3. \A d \in old : record'[d] = record[d]
    BY <1>1
  <1>4. ReservedIn(record', old, key) = ReservedIn(record, old, key)
    BY <1>2, <1>3, SumSame
  <1>5. IsFiniteSet(old \cup {id})
    BY AdmissionAssumption, FS_Subset
  <1>6. Amount(Effective(req), key) \in Nat
    BY AmountNat DEF Admitted
  <1>7. \A d \in old \cup {id} : Amount(record'[d].item, key) \in Nat
    BY <1>1, <1>2, <1>3, <1>6
  <1>8. ReservedIn(record', old \cup {id}, key) =
          Amount(record'[id].item, key) + ReservedIn(record', (old \cup {id}) \ {id}, key)
    BY <1>5, <1>7, SumFacts
  <1>9. (old \cup {id}) \ {id} = old
    OBVIOUS
  <1> QED
    BY <1>1, <1>4, <1>8, <1>9

\* The new item was compared with what is reserved under its grant.
LEMMA StoreCeiling ==
  ASSUME TypeOK, IInv, NEW id \in Ids, NEW req \in Requests, NEW g \in Grants,
         NEW w \in Workers, Admitted(id, req, g, w), NEW now \in {"active", "empty"},
         Store(id, req, g, w, now)
  PROVE  CeilingIsShared'
  <1> SUFFICES ASSUME NEW h \in Grants, NEW key \in DOMAIN h.max,
                      \A v \in Workers : key \in DOMAIN v.max
               PROVE  Reserved(UnderGrant(h), key)' <= h.max[key]
    BY DEF CeilingIsShared
  <1> DEFINE old == UnderGrant(h)
  <1>1. Reserved(UnderGrant(h), key)' = ReservedIn(record', UnderGrant(h)', key)
    BY DEF Reserved
  <1>2. ReservedIn(record, old, key) <= h.max[key]
    BY ReservedIsSum DEF IInv, CeilingIsShared
  <1>3. /\ old \in SUBSET Ids /\ id \notin old /\ \A d \in old : journal[d] = "active"
    BY DEF UnderGrant, Admitted
  <1>4. /\ journal'[id] = now /\ \A d \in Ids : d # id => journal'[d] = journal[d]
        /\ record'[id] = [asked |-> req, item |-> Effective(req), grant |-> g, worker |-> w]
        /\ \A d \in Ids : d # id => record'[d] = record[d]
    BY StoreFacts
  <1>5. CASE now = "active" /\ h = g
    <2>1. UnderGrant(h)' = old \cup {id}
      BY <1>3, <1>4, <1>5 DEF UnderGrant
    <2>2. Amount(Effective(req), key) + Reserved(UnderGrant(g), key)
            <= AggregateCeiling(g, w)[key]
      BY <1>5 DEF Admitted, Fits, AggregateCeiling
    <2>3. AggregateCeiling(g, w)[key] = Lower(g.max[key], w.max[key])
      BY <1>5 DEF AggregateCeiling
    <2>4. g.max[key] \in Nat /\ w.max[key] \in Nat
      <3>1. g.max \in Budget /\ w.max \in Budget /\ MaxBudget \in Nat
        BY AdmissionAssumption DEF Grant, Bounds
      <3>2. g.max[key] \in 0 .. MaxBudget /\ w.max[key] \in 0 .. MaxBudget
        BY <1>5, <3>1, BudgetFacts
      <3> QED
        BY <3>1, <3>2
    <2>5. Reserved(UnderGrant(g), key) = ReservedIn(record, old, key)
      BY <1>5, ReservedIsSum
    <2>6. ReservedIn(record', old \cup {id}, key) =
            Amount(Effective(req), key) + ReservedIn(record, old, key)
      BY <1>3, NewSum, SMTT(30)
    <2>7. ReservedIn(record', old \cup {id}, key) <= Lower(g.max[key], w.max[key])
      <3>1. Amount(Effective(req), key) + ReservedIn(record, old, key)
              <= Lower(g.max[key], w.max[key])
        BY <2>2, <2>3, <2>5
      <3> QED
        BY <2>6, <3>1
    <2>8. Lower(g.max[key], w.max[key]) \in Nat
          /\ Lower(g.max[key], w.max[key]) <= g.max[key]
      BY <2>4 DEF Lower
    <2>9. ReservedIn(record', old \cup {id}, key) \in Nat
      <3>1. ReservedIn(record, old, key) \in Nat
        BY <1>3, LiveFacts, SumFacts
      <3>2. Amount(Effective(req), key) \in Nat
        BY AmountNat DEF Admitted
      <3> QED
        BY <2>6, <3>1, <3>2
    <2> HIDE DEF old
    <2> QED
      BY <1>1, <1>5, <2>1, <2>4, <2>7, <2>8, <2>9
  <1>6. CASE ~ (now = "active" /\ h = g)
    <2>1. UnderGrant(h)' = old
      BY <1>3, <1>4, <1>6 DEF UnderGrant
    <2>2. ReservedIn(record', old, key) = ReservedIn(record, old, key)
      <3>1. IsFiniteSet(old) /\ \A d \in old : record'[d] = record[d]
        BY <1>3, <1>4, LiveFacts
      <3> HIDE DEF old
      <3> QED
        BY <3>1, SumSame
    <2> QED
      BY <1>1, <1>2, <2>1, <2>2
  <1> QED
    BY <1>5, <1>6

\* The new item was compared with what its siblings reserve; it has no children.
LEMMA StoreChildren ==
  ASSUME TypeOK, IInv, NEW id \in Ids, NEW req \in Requests, NEW g \in Grants,
         NEW w \in Workers, Admitted(id, req, g, w), NEW now \in {"active", "empty"},
         Store(id, req, g, w, now)
  PROVE  ChildrenFitParent'
  <1> SUFFICES ASSUME NEW p \in Stored', NEW key \in DOMAIN record'[p].item.budget
               PROVE  Reserved(Children(p), key)' <= record'[p].item.budget[key]
    BY DEF ChildrenFitParent
  <1> DEFINE old == Children(p)
  <1>1. Reserved(Children(p), key)' = ReservedIn(record', Children(p)', key)
    BY DEF Reserved
  <1>2. /\ old \in SUBSET Ids /\ id \notin old /\ \A d \in old : journal[d] = "active"
    BY DEF Children, Admitted
  <1>3. /\ journal'[id] = now /\ \A d \in Ids : d # id => journal'[d] = journal[d]
        /\ record'[id] = [asked |-> req, item |-> Effective(req), grant |-> g, worker |-> w]
        /\ \A d \in Ids : d # id => record'[d] = record[d]
    BY StoreFacts
  <1>4. ReservedIn(record', old, key) = ReservedIn(record, old, key)
    <2>1. IsFiniteSet(old) /\ \A d \in old : record'[d] = record[d]
      BY <1>2, <1>3, LiveFacts
    <2> HIDE DEF old
    <2> QED
      BY <2>1, SumSame
  <1>5. Effective(req).parent = req.parent /\ req.parent # id
    BY DEF Admitted
  <1>6. Children(p)' = IF now = "active" /\ req.parent = p THEN old \cup {id} ELSE old
    BY <1>2, <1>3, <1>5 DEF Children
  <1>7. CASE p = id
    <2>1. old = {}
      <3> SUFFICES ASSUME NEW d \in old
                   PROVE  FALSE
        OBVIOUS
      <3>1. d \in Stored /\ record[d].item.parent = id
        BY <1>7 DEF Children, Stored, Loadable
      <3>2. id \in Stored
        BY <3>1, JustifiedFacts, AdmissionAssumption
      <3> QED
        BY <3>2 DEF Stored, Loadable, Admitted
    <2>2. Children(p)' = {}
      BY <1>5, <1>6, <1>7, <2>1
    <2>3. ReservedIn(record', {}, key) = 0
      <3>1. IsFiniteSet({})
        BY FS_EmptySet
      <3> QED
        BY <3>1, SumFacts
    <2>4. record'[p].item.budget[key] \in Nat
      <3>1. Effective(req).budget \in Budget /\ MaxBudget \in Nat
        BY AdmissionAssumption DEF Admitted, Item
      <3>2. record'[p].item.budget = Effective(req).budget
        BY <1>3, <1>7
      <3>3. record'[p].item.budget[key] \in 0 .. MaxBudget
        BY <3>1, <3>2, BudgetFacts
      <3> QED
        BY <3>1, <3>3
    <2> QED
      BY <1>1, <2>2, <2>3, <2>4
  <1>8. CASE p # id
    <2>1. p \in Stored /\ record'[p] = record[p]
      BY <1>3, <1>8 DEF Stored, Loadable
    <2>2. ReservedIn(record, old, key) <= record[p].item.budget[key]
      BY <2>1, ReservedIsSum DEF IInv, ChildrenFitParent
    <2>3. CASE now = "active" /\ req.parent = p
      <3>1. req.parent # NoParent
        BY <2>1, <2>3, AdmissionAssumption DEF Stored
      <3>2. Amount(Effective(req), key) + Reserved(Children(p), key)
              <= record[p].item.budget[key]
        BY <2>1, <2>3, <3>1 DEF Admitted, Fits
      <3>3. ReservedIn(record', old \cup {id}, key) =
              Amount(Effective(req), key) + ReservedIn(record, old, key)
        BY <1>2, NewSum
      <3> QED
        BY <1>1, <1>6, <2>1, <2>3, <3>2, <3>3, ReservedIsSum
    <2>4. CASE ~ (now = "active" /\ req.parent = p)
      BY <1>1, <1>4, <1>6, <2>1, <2>2, <2>4
    <2> QED
      BY <2>3, <2>4
  <1> QED
    BY <1>7, <1>8

\* A task that ends gives back what it reserved, and stays stored.
LEMMA EndStep ==
  ASSUME TypeOK, IInv, NEW id \in Ids, End(id)
  PROVE  TypeOK' /\ IInv'
  <1>1. /\ journal[id] = "active" /\ journal' = [journal EXCEPT ![id] = "ended"]
        /\ record' = record
    BY DEF End
  <1>2. /\ journal'[id] = "ended" /\ \A d \in Ids : d # id => journal'[d] = journal[d]
        /\ TypeOK'
    BY <1>1 DEF TypeOK
  <1>3. Stored' = Stored
    BY <1>1, <1>2 DEF Stored, Loadable
  <1>4. \A d \in Stored' : Justified(d)'
    <2>1. \A d : Loadable(d)' <=> Loadable(d)
      BY <1>1, <1>2 DEF Loadable
    <2> QED
      BY <1>1, <1>3, <2>1 DEF IInv, Justified, Effective
  <1>5. ASSUME NEW ids \in SUBSET Ids, \A d \in ids : journal[d] = "active", NEW key
        PROVE  /\ ReservedIn(record, ids \ {id}, key) <= ReservedIn(record, ids, key)
               /\ ReservedIn(record, ids \ {id}, key) \in Nat /\ ReservedIn(record, ids, key) \in Nat
    <2> DEFINE rest == ids \ {id}
    <2>1. /\ IsFiniteSet(ids) /\ \A d \in ids : Amount(record[d].item, key) \in Nat
      BY <1>5, LiveFacts
    <2>2. /\ IsFiniteSet(rest) /\ \A d \in rest : Amount(record[d].item, key) \in Nat
      BY <2>1, FS_Subset
    <2>3. ReservedIn(record, rest, key) \in Nat /\ ReservedIn(record, ids, key) \in Nat
      BY <2>1, <2>2, SumFacts
    <2>4. CASE id \in ids
      <3>1. ReservedIn(record, ids, key) = Amount(record[id].item, key) + ReservedIn(record, rest, key)
        BY <2>1, <2>4, SumFacts
      <3> QED
        BY <2>1, <2>3, <2>4, <3>1
    <2>5. CASE id \notin ids
      <3>1. rest = ids
        BY <2>5
      <3> QED
        BY <2>3, <3>1
    <2> QED
      BY <2>4, <2>5
  <1>6. CeilingIsShared'
    <2> SUFFICES ASSUME NEW h \in Grants, NEW key \in DOMAIN h.max,
                        \A v \in Workers : key \in DOMAIN v.max
                 PROVE  Reserved(UnderGrant(h), key)' <= h.max[key]
      BY DEF CeilingIsShared
    <2>1. Reserved(UnderGrant(h), key)' = ReservedIn(record', UnderGrant(h)', key)
      BY DEF Reserved
    <2>2. UnderGrant(h)' = UnderGrant(h) \ {id}
      BY <1>1, <1>2 DEF UnderGrant
    <2>3. ReservedIn(record, UnderGrant(h), key) <= h.max[key]
      BY ReservedIsSum DEF IInv, CeilingIsShared
    <2>4. h.max[key] \in Nat
      <3>1. h.max \in Budget /\ MaxBudget \in Nat
        BY AdmissionAssumption DEF Grant
      <3>2. h.max[key] \in 0 .. MaxBudget
        BY <3>1, BudgetFacts
      <3> QED
        BY <3>1, <3>2
    <2>5. UnderGrant(h) \in SUBSET Ids /\ \A d \in UnderGrant(h) : journal[d] = "active"
      BY DEF UnderGrant
    <2> QED
      BY <1>1, <1>5, <2>1, <2>2, <2>3, <2>4, <2>5
  <1>7. ChildrenFitParent'
    <2> SUFFICES ASSUME NEW p \in Stored, NEW key \in DOMAIN record[p].item.budget
                 PROVE  Reserved(Children(p), key)' <= record[p].item.budget[key]
      BY <1>1, <1>3 DEF ChildrenFitParent
    <2>1. Reserved(Children(p), key)' = ReservedIn(record', Children(p)', key)
      BY DEF Reserved
    <2>2. Children(p)' = Children(p) \ {id}
      BY <1>1, <1>2 DEF Children
    <2>3. ReservedIn(record, Children(p), key) <= record[p].item.budget[key]
      BY ReservedIsSum DEF IInv, ChildrenFitParent
    <2>4. record[p].item.budget[key] \in Nat
      <3>1. record[p].item.budget \in Budget /\ MaxBudget \in Nat
        BY JustifiedFacts, StoredFacts, AdmissionAssumption DEF Item
      <3>2. record[p].item.budget[key] \in 0 .. MaxBudget
        BY <3>1, BudgetFacts
      <3> QED
        BY <3>1, <3>2
    <2>5. Children(p) \in SUBSET Ids /\ \A d \in Children(p) : journal[d] = "active"
      BY DEF Children
    <2> QED
      BY <1>1, <1>5, <2>1, <2>2, <2>3, <2>4, <2>5
  <1> QED
    BY <1>2, <1>4, <1>6, <1>7 DEF IInv

-----------------------------------------------------------------------------
(* Delegation                                                              *)

\* What holds between an item and its parent's.
Narrows(below, above) ==
  /\ below.effects \subseteq above.effects
  /\ Within(below.allowed, above.allowed)
  /\ above.protected \subseteq below.protected

LEMMA ContainsTransitive ==
  ASSUME NEW a \in Scope, NEW b \in Scope, NEW c \in Scope,
         ScopeContains(a, b), ScopeContains(b, c)
  PROVE  ScopeContains(a, c)
  <1>1. /\ a.at \in Paths /\ b.at \in Paths /\ c.at \in Paths
        /\ a.tree \in BOOLEAN /\ b.tree \in BOOLEAN /\ c.tree \in BOOLEAN
    BY DEF Scope
  <1>2. <<a.at, b.at>> \in Beneath /\ <<b.at, c.at>> \in Beneath =>
          <<a.at, c.at>> \in Beneath
    BY <1>1, AdmissionAssumption
  <1> QED
    BY <1>1, <1>2 DEF ScopeContains

LEMMA NarrowsTransitive ==
  ASSUME NEW a \in Item, NEW b \in Item, NEW c \in Item, Narrows(a, b), Narrows(b, c)
  PROVE  Narrows(a, c)
  <1>1. ASSUME NEW s \in a.allowed
        PROVE  \E t \in c.allowed : ScopeContains(t, s)
    <2>1. PICK u \in b.allowed : ScopeContains(u, s)
      BY DEF Narrows, Within
    <2>2. PICK t \in c.allowed : ScopeContains(t, u)
      BY DEF Narrows, Within
    <2>3. s \in Scope /\ u \in Scope /\ t \in Scope
      BY DEF Item
    <2> QED
      BY <2>1, <2>2, <2>3, ContainsTransitive
  <1> QED
    BY <1>1 DEF Narrows, Within

LEMMA NarrowsReflexive ==
  ASSUME NEW item \in Item
  PROVE  Narrows(item, item)
  <1>1. \A s \in item.allowed : ScopeContains(s, s)
    BY DEF Item, Scope, ScopeContains
  <1> QED
    BY <1>1 DEF Narrows, Within

\* A narrower item may change fewer paths, but for the roots of the wider one's trees.
LEMMA NarrowsChanges ==
  ASSUME NEW below \in Item, NEW above \in Item, Narrows(below, above)
  PROVE  MayChange(below) \subseteq
           MayChange(above) \cup {s.at : s \in {t \in above.allowed : t.tree}}
  <1> SUFFICES ASSUME NEW p \in MayChange(below), p \notin MayChange(above)
               PROVE  \E c \in above.allowed : c.tree /\ p = c.at
    OBVIOUS
  <1>1. PICK s \in below.allowed : Matches(p, s)
    BY DEF MayChange
  <1>2. PICK c \in above.allowed : ScopeContains(c, s)
    BY DEF Narrows, Within
  <1>3. p \in Paths /\ \A t \in above.protected : ~ Matches(p, t)
    BY DEF MayChange, Narrows
  <1>4. ~ Matches(p, c)
    BY <1>3 DEF MayChange
  <1>5. s \in Scope /\ c \in Scope
    BY DEF Item
  <1>6. <<c.at, s.at>> \in Beneath /\ <<s.at, p>> \in Beneath => <<c.at, p>> \in Beneath
    BY <1>3, <1>5, AdmissionAssumption DEF Scope
  <1>7. c.tree \in BOOLEAN /\ s.tree \in BOOLEAN
    BY <1>5 DEF Scope
  <1>8. c.tree /\ p = c.at
    BY <1>1, <1>2, <1>4, <1>6, <1>7 DEF ScopeContains, Matches
  <1> QED
    BY <1>8

\* A child was admitted within its parent, whose protected scopes it inherited.
LEMMA ChildNarrows ==
  ASSUME TypeOK, IInv, NEW id \in Stored, record[id].item.parent # NoParent
  PROVE  /\ record[id].item.parent \in Stored
         /\ Narrows(record[id].item, record[record[id].item.parent].item)
  <1> DEFINE r == record[id]
             p == r.item.parent
  <1>1. Justified(id) /\ r.asked.parent = p /\ p \in Stored
    BY JustifiedFacts
  <1>2. r.item = [r.asked EXCEPT !.protected = @ \cup record[p].item.protected]
    BY <1>1 DEF Justified, Effective
  <1>3. r.asked \in Item
    BY JustifiedFacts, StoredFacts
  <1>4. record[p].item.protected \subseteq r.item.protected
    BY <1>2, <1>3 DEF Item
  <1>5. WithinParent(r.item, record[p].item)
    BY <1>1 DEF Justified
  <1> QED
    BY <1>1, <1>4, <1>5 DEF WithinParent, Narrows

\* f[n] is a task with its ancestors up to the n-th, for every n up to N.
Climbs(f, id, N) ==
  f = [n \in 0 .. N |-> IF n = 0 THEN {id} ELSE f[n - 1] \cup Parents(f[n - 1])]

Below == {pair \in Nat \X Nat : pair[1] < pair[2]}

LEMMA Least ==
  ASSUME NEW S, S \subseteq Nat, S # {}
  PROVE  \E n \in S : \A k \in S : n <= k
  <1>1. IsWellFoundedOn(Below, Nat)
    BY NatLessThanWellFounded DEF OpToRel, Below
  <1>2. PICK n \in S : \A k \in S : ~ (<<k, n>> \in Below)
    BY <1>1, WFMin
  <1>3. ASSUME NEW k \in S, ~ (n <= k)
        PROVE  FALSE
    <2>1. k \in Nat /\ n \in Nat /\ k < n
      BY <1>3
    <2>2. <<k, n>> \in Nat \X Nat /\ <<k, n>>[1] < <<k, n>>[2]
      BY <2>1
    <2> QED
      BY <1>2, <2>2 DEF Below
  <1> QED
    BY <1>3

LEMMA ClimbExists ==
  ASSUME NEW id, NEW N \in Nat
  PROVE  \E f : Climbs(f, id, N)
  <1> DEFINE S == {n \in Nat : ~ \E f : Climbs(f, id, n)}
  <1>1. SUFFICES ASSUME S # {}
                 PROVE  FALSE
    OBVIOUS
  <1>2. S \subseteq Nat
    OBVIOUS
  <1>3. PICK m \in S : \A k \in S : m <= k
    <2> HIDE DEF S
    <2> QED
      BY <1>1, <1>2, Least
  <1>4. CASE m = 0
    <2> DEFINE f == [n \in 0 .. 0 |-> {id}]
    <2>1. f = [n \in 0 .. 0 |-> IF n = 0 THEN {id} ELSE f[n - 1] \cup Parents(f[n - 1])]
      OBVIOUS
    <2>2. Climbs(f, id, 0)
      BY <2>1 DEF Climbs
    <2> QED
      BY <1>3, <1>4, <2>2
  <1>5. CASE m # 0
    <2>1. m \in Nat /\ m - 1 \in Nat /\ m - 1 \notin S
      BY <1>3, <1>5
    <2>2. PICK f : Climbs(f, id, m - 1)
      BY <2>1
    <2> DEFINE g == [n \in 0 .. m |-> IF n = m THEN f[m - 1] \cup Parents(f[m - 1]) ELSE f[n]]
    <2>3. ASSUME NEW n \in 0 .. m
          PROVE  g[n] = IF n = 0 THEN {id} ELSE g[n - 1] \cup Parents(g[n - 1])
      <3>1. n # 0 => n - 1 \in 0 .. m /\ n - 1 # m
        BY <2>1
      <3>2. n # m => n \in 0 .. m - 1
        BY <2>1
      <3>3. CASE n = m
        BY <1>5, <2>1, <3>1, <3>3
      <3>4. CASE n # m
        <4>1. f[n] = IF n = 0 THEN {id} ELSE f[n - 1] \cup Parents(f[n - 1])
          BY <2>2, <3>2, <3>4 DEF Climbs
        <4>2. g[n] = f[n] /\ (n # 0 => g[n - 1] = f[n - 1])
          BY <3>1, <3>4
        <4> QED
          BY <4>1, <4>2
      <3> QED
        BY <3>3, <3>4
    <2>4. g = [n \in 0 .. m |-> g[n]]
      OBVIOUS
    <2>5. Climbs(g, id, m)
      <3> HIDE DEF g
      <3> QED
        BY <2>3, <2>4 DEF Climbs
    <2> QED
      BY <1>3, <2>5
  <1> QED
    BY <1>4, <1>5

\* Every task a climb reaches is stored, and the climber's item is narrower.
LEMMA ClimbNarrows ==
  ASSUME TypeOK, IInv, NEW id \in Stored, NEW N \in Nat, NEW f, Climbs(f, id, N),
         NEW n \in 0 .. N, NEW top \in f[n]
  PROVE  top \in Stored /\ Narrows(record[id].item, record[top].item)
  <1> DEFINE Fine(t) == t \in Stored /\ Narrows(record[id].item, record[t].item)
             S == {k \in 0 .. N : \E t \in f[k] : ~ Fine(t)}
  <1>1. SUFFICES ASSUME S # {}
                 PROVE  FALSE
    OBVIOUS
  <1>2. S \subseteq Nat
    OBVIOUS
  <1>3. PICK m \in S : \A k \in S : m <= k
    <2> HIDE DEF S
    <2> QED
      BY <1>1, <1>2, Least
  <1>4. m \in 0 .. N /\ f[m] = IF m = 0 THEN {id} ELSE f[m - 1] \cup Parents(f[m - 1])
    BY <1>3 DEF Climbs
  <1>5. \A t \in Stored : record[t].item \in Item
    BY JustifiedFacts, StoredFacts
  <1>6. PICK t \in f[m] : ~ Fine(t)
    BY <1>3
  <1>7. Fine(id)
    BY <1>5, NarrowsReflexive
  <1>8. m # 0
    BY <1>4, <1>6, <1>7
  <1>9. m - 1 \in 0 .. N /\ m - 1 \notin S
    BY <1>3, <1>4, <1>8
  <1>10. \A u \in f[m - 1] : Fine(u)
    BY <1>9
  <1>11. t \in Parents(f[m - 1])
    BY <1>4, <1>6, <1>8, <1>10
  <1>12. PICK u \in f[m - 1] : t = record[u].item.parent /\ t # NoParent
    BY <1>11 DEF Parents
  <1>13. t \in Stored /\ Narrows(record[u].item, record[t].item)
    BY <1>10, <1>12, ChildNarrows
  <1> QED
    BY <1>5, <1>6, <1>10, <1>13, NarrowsTransitive

LEMMA AncestryNarrows ==
  ASSUME TypeOK, IInv, NEW id \in Stored, NEW top \in Ancestry(id)
  PROVE  top \in Stored /\ Narrows(record[id].item, record[top].item)
  <1> DEFINE N == Cardinality(Ids)
             Up(f) == f = [n \in 0 .. N |->
                             IF n = 0 THEN {id} ELSE f[n - 1] \cup Parents(f[n - 1])]
  <1>1. N \in Nat
    BY AdmissionAssumption, FS_CardinalityType
  <1>2. \E f : Up(f)
    <2> HIDE DEF N
    <2>1. \E f : Climbs(f, id, N)
      BY <1>1, ClimbExists
    <2> QED
      BY <2>1 DEF Climbs
  <1>3. Ancestry(id) = (CHOOSE f : Up(f))[N]
    BY DEF Ancestry
  <1>4. Up(CHOOSE f : Up(f))
    <2> HIDE DEF Up
    <2> QED
      BY <1>2
  <1> HIDE DEF N
  <1>5. PICK f : Climbs(f, id, N) /\ Ancestry(id) = f[N]
    BY <1>3, <1>4 DEF Climbs
  <1>6. N \in 0 .. N
    BY <1>1
  <1> QED
    BY <1>1, <1>5, <1>6, ClimbNarrows

-----------------------------------------------------------------------------
(* The inductive invariant                                                 *)

Inv == TypeOK /\ IInv

LEMMA InvInit == Init => Inv
  <1> SUFFICES ASSUME Init
               PROVE  Inv
    OBVIOUS
  <1>1. TypeOK /\ Stored = {}
    BY DEF Init, TypeOK, Stored, Loadable
  <1>2. ASSUME NEW g \in Grants, NEW key \in DOMAIN g.max
        PROVE  Reserved(UnderGrant(g), key) <= g.max[key]
    <2>1. UnderGrant(g) = {}
      BY DEF Init, UnderGrant
    <2>2. ReservedIn(record, {}, key) = 0
      <3>1. IsFiniteSet({})
        BY FS_EmptySet
      <3> QED
        BY <3>1, SumFacts
    <2>3. g.max[key] \in 0 .. MaxBudget /\ MaxBudget \in Nat
      <3>1. g.max \in Budget /\ MaxBudget \in Nat
        BY AdmissionAssumption DEF Grant
      <3> QED
        BY <3>1, BudgetFacts
    <2> QED
      BY <2>1, <2>2, <2>3, ReservedIsSum
  <1> QED
    BY <1>1, <1>2 DEF Inv, IInv, CeilingIsShared, ChildrenFitParent

LEMMA InvNext ==
  ASSUME Inv, [Next]_vars
  PROVE  Inv'
  <1>1. CASE UNCHANGED vars
    <2>1. ASSUME NEW ids, NEW key
          PROVE  Reserved(ids, key)' = Reserved(ids, key)
      BY <1>1 DEF Reserved, vars
    <2> QED
      BY <1>1
      DEF vars, Inv, TypeOK, IInv, Stored, Loadable, Justified, Effective, CeilingIsShared,
          ChildrenFitParent, UnderGrant, Children, Reserved
  <1>2. ASSUME NEW id \in Ids, End(id)
        PROVE  Inv'
    BY <1>2, EndStep DEF Inv
  <1>3. ASSUME NEW id \in Ids, NEW req \in Requests, NEW g \in Grants, NEW w \in Workers,
               Submit(id, req, g, w) \/ CrashInAppend(id, req, g, w)
        PROVE  Inv'
    <2>1. PICK now \in {"active", "empty"} : Store(id, req, g, w, now)
      BY <1>3 DEF Submit, CrashInAppend
    <2>2. Admitted(id, req, g, w)
      BY <1>3, CreatedIsAdmitted DEF Submit, CrashInAppend, Inv
    <2>3. TypeOK'
      BY <2>1, <2>2, StoreFacts DEF Inv
    <2>4. \A d \in Stored' : Justified(d)'
      BY <2>1, <2>2, StoreJustifies DEF Inv
    <2>5. CeilingIsShared'
      BY <2>1, <2>2, StoreCeiling DEF Inv
    <2>6. ChildrenFitParent'
      BY <2>1, <2>2, StoreChildren DEF Inv
    <2> QED
      BY <2>3, <2>4, <2>5, <2>6 DEF Inv, IInv
  <1> QED
    BY <1>1, <1>2, <1>3 DEF Next

\* Every variable has its type, every stored task is justified, and the sums of
\* the reservations stay within what they were admitted under.
THEOREM Invariance == Spec => [](TypeOK /\ IInv)
  BY InvInit, InvNext, PTL DEF Spec, Inv

\* create: work admitted under one revision of the authority stays within its
\* ceiling in all, whichever coordinators admitted it.
THEOREM Ceiling == Spec => []CeilingIsShared
  <1>1. IInv => CeilingIsShared
    BY DEF IInv
  <1> QED
    BY <1>1, Invariance, PTL

\* create: the live children of a task together stay within its budget.
THEOREM WithinBudget == Spec => []ChildrenFitParent
  <1>1. IInv => ChildrenFitParent
    BY DEF IInv
  <1> QED
    BY <1>1, Invariance, PTL

\* submit: a submission that is repeated is answered with the stored task.
THEOREM Idempotent == Spec => []ResubmissionIsIdempotent
  <1>1. TypeOK /\ IInv => ResubmissionIsIdempotent
    <2> SUFFICES ASSUME TypeOK, IInv, NEW id \in Stored
                 PROVE  LET r == record[id] IN
                        Verdict(id, r.asked, r.grant, r.worker) = "existing"
      BY DEF ResubmissionIsIdempotent
    <2>1. /\ Justified(id) /\ Loadable(id)
          /\ record[id].asked.parent # NoParent => Loadable(record[id].asked.parent)
      BY JustifiedFacts DEF Stored
    <2> QED
      BY <2>1 DEF Verdict, Justified
  <1> QED
    BY <1>1, Invariance, PTL

\* submit and create: however often work is delegated, a task has no effect and
\* no scope that an ancestor lacks, and changes no path the ancestor may not, save
\* the root of one of the ancestor's trees.
THEOREM Narrowing == Spec => []DelegationOnlyNarrows
  <1>1. TypeOK /\ IInv => DelegationOnlyNarrows
    <2> SUFFICES ASSUME TypeOK, IInv, NEW id \in Stored, NEW top \in Ancestry(id)
                 PROVE  LET below == record[id].item
                            above == record[top].item
                            roots == {s.at : s \in {t \in above.allowed : t.tree}}
                        IN /\ below.effects \subseteq above.effects
                           /\ Within(below.allowed, above.allowed)
                           /\ above.protected \subseteq below.protected
                           /\ MayChange(below) \subseteq MayChange(above) \cup roots
      BY DEF DelegationOnlyNarrows
    <2>1. top \in Stored /\ Narrows(record[id].item, record[top].item)
      BY AncestryNarrows
    <2>2. record[id].item \in Item /\ record[top].item \in Item
      BY <2>1, JustifiedFacts, StoredFacts
    <2> QED
      BY <2>1, <2>2, NarrowsChanges DEF Narrows
  <1> QED
    BY <1>1, Invariance, PTL

=============================================================================
