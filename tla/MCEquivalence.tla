------------------------------ MODULE MCEquivalence ------------------------------
(***************************************************************************)
(* Instances of DomainEquivalence: all machines of two and of three states *)
(* that start in 0, the third state with at most one successor, and the    *)
(* mappings of up to three pairs: one that is a function has two.          *)
(***************************************************************************)
EXTENDS DomainEquivalence

MachinesOver(states) == {[initial |-> 0, next |-> n] : n \in [states -> SUBSET states]}

MCBaselines == MachinesOver({0, 1})
MCRefactorings == {m \in MachinesOver({0, 1, 2}) : Cardinality(m.next[2]) <= 1}
MCMappings == {m \in SUBSET ({0, 1} \X {0, 1, 2}) : Cardinality(m) <= 3}

=============================================================================
