-------------------------------- MODULE MCDomains --------------------------------
(***************************************************************************)
(* Builders for the small domains that the bounded explorer and the        *)
(* network fault checker are run on, over the code's expressions.          *)
(***************************************************************************)
EXTENDS DomainExpressions

IntVar(name, lo, hi, initial) ==
  [name |-> name, kind |-> "int", lo |-> lo, hi |-> hi, initial |-> initial, terminal |-> {}]
BoolVar(name, initial) ==
  [name |-> name, kind |-> "bool", initial |-> initial]

Op(name, guards, effects) ==
  [name |-> name, guards |-> guards, effects |-> effects, boolean |-> FALSE, stutter |-> FALSE]
BooleanOp(name, guards, effects) == [Op(name, guards, effects) EXCEPT !.boolean = TRUE]
RefusingOp(name, guards, effects) == [BooleanOp(name, guards, effects) EXCEPT !.stutter = TRUE]

Num(n) == Literal(n)
Is(e, n) == Binary("eq", e, Num(n))
Plus(e, n) == Binary("add", e, Num(n))
Below(e, n) == Binary("lt", e, Num(n))
True == Num(TRUE)
Set(name, e) == [target |-> name, value |-> e]

Domain(vs, ops, inv, actors) ==
  [vars |-> vs, ops |-> ops, invs |-> <<inv>>, actors |-> actors, lock |-> NoLock]

=============================================================================
