--------------------------- MODULE DomainExpressions ---------------------------
(***************************************************************************)
(* The recursion by which the code computes something from the typed       *)
(* expressions of a V2 domain (pipeline/domain_v2.py, domain_v2_model.py): *)
(* the value in a state, what is known of it where fields are undecided,   *)
(* the fields mentioned, and the parts.                                    *)
(***************************************************************************)
EXTENDS DomainMachine

RECURSIVE EvaluateExpression(_, _)
EvaluateExpression(e, state) ==
  ValueOf(e, state, OfOperands(e, LAMBDA f : EvaluateExpression(f, state)))

RECURSIVE Evaluate3(_, _)
Evaluate3(e, env) == PartialValueOf(e, env, OfOperands(e, LAMBDA f : Evaluate3(f, env)))

RECURSIVE ReferencedFields(_)
ReferencedFields(e) == MentionedBy(e, OfOperands(e, ReferencedFields))

RECURSIVE Subexpressions(_)
Subexpressions(e) == {e} \cup UNION ToSet(OfOperands(e, Subexpressions))
=============================================================================
