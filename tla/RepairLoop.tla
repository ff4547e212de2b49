------------------------------ MODULE RepairLoop ------------------------------
(***************************************************************************)
(* The bounded generate-and-repair loops: orchestrator.run drafts a JML    *)
(* contract, synthesize_implementation and its polyglot twin implement a   *)
(* trusted scaffold.  strategy.decide chooses between a fresh sample,      *)
(* feedback on the last candidate and stopping.                            *)
(*                                                                         *)
(* A candidate is a record [id, trusted, after, outcome, fault]: whether   *)
(* it keeps the trusted surface, whether it does after the accepted        *)
(* passes, what the tools say of the source that results, and the failure  *)
(* fingerprint.  The language model may answer with any of them.           *)
(***************************************************************************)
EXTENDS Naturals, Sequences, FiniteSets

CONSTANTS
  Candidates,    \* what the model may answer
  Budgets,       \* the budgets [max, resample, feedback] of a call
  Nothing        \* no candidate

VARIABLES
  loop,          \* which of the three loops runs
  budget,
  history,       \* the candidates that decide looks at
  samples, feedback,
  statuses,      \* the status of each attempt
  code,          \* final_code, or the source at stub_path
  claim,         \* "running" until the loop stops
  final          \* final_status of the result, "none" before it is delivered

loopVars == <<loop, budget, history, samples, feedback, statuses, code, claim, final>>

Loops == {"draft", "java", "polyglot"}

Outcomes == {"proved", "dropped", "uncompilable", "refuted", "missing"}

\* The answer without any source.
Empty == [id |-> "empty", trusted |-> FALSE, after |-> FALSE, outcome |-> "empty", fault |-> {}]

\* Only OpenJML drops conditions and still exits cleanly.
Answers == {c \in Candidates : loop = "polyglot" => c.outcome # "dropped"}

\* A clean exit, by loop: OpenJML -check for a draft, ESC or its like otherwise.
Status(c) ==
  CASE c.outcome = "proved" -> "VERIFIED"
    [] c.outcome = "dropped" -> IF loop = "java" THEN "VACUOUS_VERIFIED" ELSE "VERIFIED"
    [] c.outcome = "uncompilable" -> "COMPILE_FAILED"
    [] c.outcome = "refuted" -> "VERIFY_FAILED"
    [] c.outcome = "empty" -> IF loop = "draft" THEN "VERIFY_FAILED" ELSE "GEN_EMPTY"
    [] c.outcome = "missing" -> "TOOL_MISSING"

\* The failing rows of a candidate; an empty draft has one of its own.
Fingerprint(c) == IF c = Empty /\ loop = "draft" THEN {"no class"} ELSE c.fault

Last(seq) == seq[Len(seq)]

Tried == {history[i] : i \in 1 .. Len(history) - 1}

\* is_stalled: the failing rows, or the source, were seen before.
Stalled ==
  /\ Len(history) >= 3
  /\ \/ /\ Fingerprint(Last(history)) # {}
        /\ \E c \in Tried : Fingerprint(c) = Fingerprint(Last(history))
     \/ Last(history) \in Tried

Succeeded == statuses # <<>> /\ Last(statuses) = "VERIFIED"

\* max_attempts or the sum of the two budgets.
AttemptLimit == IF budget.max = 0 THEN budget.resample + budget.feedback ELSE budget.max

Decide ==
  IF Succeeded THEN "stop"
  ELSE IF history = <<>> THEN "sample"
  ELSE IF Len(history) >= AttemptLimit \/ Stalled THEN "stop"
  ELSE IF samples < budget.resample THEN "sample"
  ELSE IF feedback < budget.feedback THEN "feedback"
  ELSE "stop"

Init ==
  /\ loop \in Loops /\ budget \in Budgets
  /\ history = <<>> /\ statuses = <<>>
  /\ samples = 0 /\ feedback = 0
  /\ code = Nothing /\ claim = "running" /\ final = "none"

\* One more call of the model, as decided.
Call ==
  /\ claim = "running" /\ Decide # "stop"
  /\ IF Decide = "sample" THEN samples' = samples + 1 /\ UNCHANGED feedback
     ELSE feedback' = feedback + 1 /\ UNCHANGED samples

\* The claim of a loop whose last attempt has this status.  A draft keeps the default
\* of its SpecResult whether it succeeded or not: only its final status tells.
ClaimOf(status) ==
  IF loop = "draft" THEN "STATIC_CHECK"
  ELSE IF status = "VERIFIED" THEN "PROOF" ELSE "NO_PROOF"

\* An implementation is delivered at once, a polyglot one after its refinement gate;
\* the evidence of a draft is published first.
FinalOf(status) ==
  CASE loop = "draft" -> {"none"}
    [] loop = "java" -> {status}
    [] loop = "polyglot" -> {status, "REFINEMENT_FAILED"}

End(status) == claim' = ClaimOf(status) /\ final' \in FinalOf(status)

\* The provider fails: the loop ends.
ApiError ==
  /\ claim = "running" /\ Decide # "stop"
  /\ statuses' = Append(statuses, "API_ERROR")
  /\ End("API_ERROR")
  /\ UNCHANGED <<loop, budget, history, samples, feedback, code>>

\* A mutant: an empty answer is not remembered.
ForgetEmpty ==
  /\ loop # "draft"
  /\ Call
  /\ statuses' = Append(statuses, "GEN_EMPTY")
  /\ UNCHANGED <<loop, budget, history, code, claim, final>>

\* An empty answer counts as an attempt and may be repaired.
EmptyGeneration ==
  /\ loop # "draft"
  /\ Call
  /\ statuses' = Append(statuses, "GEN_EMPTY")
  /\ history' = Append(history, Empty)
  /\ UNCHANGED <<loop, budget, code, claim, final>>

\* A mutant: the surface is compared before the accepted passes only.
Crosses(c) == ~c.trusted

\* The trusted surface is compared before the accepted passes and, by the Java
\* loop, after them.
Violates(c) == ~c.trusted \/ (loop = "java" /\ ~c.after)

TrustBoundary ==
  /\ loop # "draft"
  /\ Call
  /\ \E c \in Answers : Violates(c)
  /\ statuses' = Append(statuses, "TRUST_BOUNDARY_VIOLATION")
  /\ End("TRUST_BOUNDARY_VIOLATION")
  /\ UNCHANGED <<loop, budget, history, code>>

\* A candidate reaches the tools; a missing checker ends a draft.
Checked ==
  /\ Call
  /\ \E c \in Answers \cup (IF loop = "draft" THEN {Empty} ELSE {}) :
       /\ loop = "draft" \/ ~Violates(c)
       /\ statuses' = Append(statuses, Status(c))
       /\ history' = Append(history, c)
       /\ code' = c
       /\ IF loop = "draft" /\ Status(c) \in {"TOOL_MISSING", "VERIFIED"}
            THEN End(Status(c)) ELSE UNCHANGED <<claim, final>>
  /\ UNCHANGED <<loop, budget>>

\* The loop stops with the status of its last attempt.
Stop ==
  /\ claim = "running" /\ Decide = "stop"
  /\ End(Last(statuses))
  /\ UNCHANGED <<loop, budget, history, samples, feedback, statuses, code>>

\* ledger.commit of a draft, which may raise.
PublishEvidence ==
  /\ loop = "draft" /\ claim # "running" /\ final = "none"
  /\ \/ final' = Last(statuses) /\ UNCHANGED claim
     \/ final' = "EVIDENCE_PUBLICATION_FAILED" /\ claim' = "NO_PROOF"
  /\ UNCHANGED <<loop, budget, history, samples, feedback, statuses, code>>

Next == ApiError \/ EmptyGeneration \/ TrustBoundary \/ Checked \/ Stop \/ PublishEvidence

-----------------------------------------------------------------------------
(***************************************************************************)
(* A proof, and a VERIFIED result, are about the source that is delivered: *)
(* the last candidate, which the tools accepted; in the Java loop with the *)
(* trusted surface after all passes, and with no condition dropped by the  *)
(* prover.  A draft is never more than checked; its claim alone does not   *)
(* say even that, for a draft that failed has the same one.                *)
(***************************************************************************)
ClaimIsTheCodes ==
  claim = "PROOF" \/ final = "VERIFIED" =>
    /\ code = Last(history) /\ Status(code) = "VERIFIED"
    /\ loop = "java" => code.trusted /\ code.after /\ code.outcome = "proved"
    /\ claim = IF loop = "draft" THEN "STATIC_CHECK" ELSE "PROOF"

(***************************************************************************)
(* A loop that makes no progress stops: after three attempts no source and *)
(* no failing row comes a second time and is repaired again.               *)
(***************************************************************************)
NoProgressStops ==
  \A i \in 3 .. Len(history) - 1 : \A j \in 1 .. i - 1 :
    /\ history[i] # history[j]
    /\ Fingerprint(history[i]) # {} => Fingerprint(history[i]) # Fingerprint(history[j])

(***************************************************************************)
(* Whatever the model answers, a loop makes no more calls than its budgets *)
(* allow, and one at least.                                                *)
(***************************************************************************)
WithinBudget ==
  /\ Len(statuses) <= AttemptLimit \/ Len(statuses) <= 1
  /\ samples <= budget.resample \/ samples <= 1
  /\ feedback <= budget.feedback

Statuses ==
  {"VERIFIED", "VACUOUS_VERIFIED", "COMPILE_FAILED", "VERIFY_FAILED", "GEN_EMPTY",
   "TOOL_MISSING", "API_ERROR", "TRUST_BOUNDARY_VIOLATION"}

TypeOK ==
  /\ loop \in Loops /\ budget \in Budgets
  /\ history \in Seq(Candidates \cup {Empty}) /\ statuses \in Seq(Statuses)
  /\ samples \in Nat /\ feedback \in Nat
  /\ claim \in {"running", "NO_PROOF", "STATIC_CHECK", "PROOF"}
  /\ final \in Statuses \cup {"none", "REFINEMENT_FAILED", "EVIDENCE_PUBLICATION_FAILED"}

\* The last candidate is the source at hand, and the tools accepted it.
Accepted ==
  /\ history # <<>> /\ code = Last(history) /\ Status(code) = "VERIFIED"
  /\ loop = "java" => code.trusted /\ code.after /\ code.outcome = "proved"

\* The inductive invariant: with TypeOK it implies the properties above.
IInv ==
  /\ claim = "running" =>
       /\ Len(statuses) = Len(history) /\ Len(history) = samples + feedback
       /\ final = "none"
  /\ claim # "running" => statuses # <<>>
  /\ Succeeded => Accepted
  /\ claim = "PROOF" \/ final = "VERIFIED" =>
       Succeeded /\ claim = IF loop = "draft" THEN "STATIC_CHECK" ELSE "PROOF"
  /\ loop = "draft" /\ claim # "running" /\ final = "none" => claim = "STATIC_CHECK"
  /\ NoProgressStops /\ WithinBudget
=============================================================================
