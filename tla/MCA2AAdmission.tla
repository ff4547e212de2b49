--------------------------- MODULE MCA2AAdmission ---------------------------
(***************************************************************************)
(* A2AAdmission with three work items, so that delegation can be two deep, *)
(* two workers of which one does not limit every key, and two revisions of *)
(* the authority.                                                          *)
(***************************************************************************)
EXTENDS A2AAdmission, TLC

CONSTANTS i1, i2, i3, src, file, doc, tokens, wall, read, write

MCIds == {i1, i2, i3}
MCPaths == {src, file, doc}
MCBeneath == {<<src, file>>}
MCKeys == {tokens, wall}
MCEffects == {read, write}

Tree(p) == [at |-> p, tree |-> TRUE]
Only(p) == [at |-> p, tree |-> FALSE]

Spend(t, s) == [key \in MCKeys |-> IF key = tokens THEN t ELSE s]
SpendTokens(t) == [key \in {tokens} |-> t]

MCGrants ==
  {[revision |-> n, effects |-> MCEffects, allowed |-> {Tree(src), Only(doc)},
    max |-> Spend(3, 2)] : n \in {1, 2}}

MCWorkers ==
  {[effects |-> MCEffects, allowed |-> {Tree(src), Only(doc)}, max |-> Spend(2, 2)],
   [effects |-> MCEffects, allowed |-> {Tree(src), Only(doc)}, max |-> SpendTokens(3)]}

Ask(parent, effects, allowed, protected, budget) ==
  [parent |-> parent, effects |-> effects, allowed |-> allowed,
   protected |-> protected, budget |-> budget]

MCRequests ==
  {Ask(NoParent, MCEffects, {Tree(src), Only(doc)}, {Only(doc)}, Spend(1, 1)),
   Ask(NoParent, {read}, {Tree(src)}, {}, Spend(2, 2))}
  \cup
  UNION {{Ask(p, MCEffects, {Tree(src)}, {Only(file)}, SpendTokens(1)),
          Ask(p, {read}, {Only(file)}, {}, Spend(1, 1)),
          Ask(p, {read}, {Only(src)}, {Tree(src)}, SpendTokens(0)),
          Ask(p, MCEffects, {Only(doc)}, {}, SpendTokens(2))} : p \in MCIds}

\* Requests name every work item as a parent alike.
IdSymmetry == Permutations(Ids)
=============================================================================
