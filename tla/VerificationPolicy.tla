--------------------------- MODULE VerificationPolicy ---------------------------
(***************************************************************************)
(* decide_result and decide_verification of pipeline/verification_policy.py*)
(* : a backend's payload is normalised into a claim.  Each layer that      *)
(* forwards a payload may normalise it again, so it is applied repeatedly. *)
(***************************************************************************)
EXTENDS Integers

CONSTANTS
  Payloads,      \* the raw payloads of the backends
  Absent,        \* a key that a payload does not have
  Words,         \* what a payload may say for a status or a claim
  MaxLayers      \* how often a payload is normalised

\* A payload has exit, status, claim, total, proved, dropped, complete,
\* satisfied, completed, consistent; conflict: its status or exit code is given
\* twice and differs; marker: its output has a dropped-condition warning.
Maybe(values) == values \cup {Absent}

Payload ==
  [exit : Int, status : Maybe(Words), claim : Maybe(Words), total : Maybe(Int),
   proved : Maybe(Int), dropped : Maybe(BOOLEAN), complete : Maybe(BOOLEAN),
   satisfied : Maybe(BOOLEAN), completed : Maybe(BOOLEAN), consistent : Maybe(BOOLEAN),
   conflict : BOOLEAN, marker : BOOLEAN]

VARIABLES request, payload, layers

policyVars == <<request, payload, layers>>

\* The words that the policy uses itself.
PolicyWords ==
  {"VERIFIED", "VERIFY_FAILED", "VACUOUS_VERIFIED", "STATIC_CHECKED",
   "NO_PROOF", "STATIC_CHECK", "BOUNDED_EVIDENCE", "DEDUCTIVE_PROOF"}

Requests == {"openjml", "kani", "javac"} \X {"esc", "check"}

Tool == request[1]
Mode == request[2]

ProofTools == {"openjml", "kani"}

Classify(exit) == IF exit = 0 THEN "VERIFIED" ELSE "VERIFY_FAILED"

Counted(p) == p.total # Absent \/ p.proved # Absent

AllProved(p) ==
  p.total # Absent /\ p.proved # Absent /\ p.total > 0 /\ p.proved = p.total

\* The counts, when a payload has any, decide completeness; a negative
\* declaration stands against them.
Complete(p) == IF p.complete # FALSE /\ Counted(p) THEN AllProved(p) ELSE p.complete

MarkerDropped(p) == Tool = "openjml" /\ p.marker

Dropped(p) == MarkerDropped(p) \/ p.dropped = TRUE

\* Two fields of the payload conflict, or a layer before found that they do.
Contradicted(p) ==
  \/ p.completed = TRUE /\ p.exit # 0
  \/ p.complete = TRUE /\ Counted(p) /\ ~AllProved(p)
  \/ MarkerDropped(p) /\ p.dropped = FALSE
  \/ p.consistent = FALSE \/ p.conflict

Completed(p) == p.exit = 0 /\ p.completed # FALSE

SemanticStatus(p) ==
  LET status == IF p.status = Absent THEN Classify(p.exit) ELSE p.status
  IN  IF Mode = "esc" /\ Dropped(p) /\ status = "VERIFIED" THEN "VACUOUS_VERIFIED" ELSE status

\* A mutant: an earlier refusal is forgotten.
SatisfiedNow(p) ==
  /\ Completed(p) /\ ~Contradicted(p)
  /\ IF Mode = "esc"
     THEN /\ SemanticStatus(p) = "VERIFIED" /\ Complete(p) # FALSE /\ ~Dropped(p)
          /\ Tool \in ProofTools /\ p.claim # "NO_PROOF"
     ELSE SemanticStatus(p) \in {"VERIFIED", "STATIC_CHECKED"}

\* The request is satisfied.
Satisfied(p) ==
  /\ p.satisfied # FALSE
  /\ Completed(p) /\ ~Contradicted(p)
  /\ IF Mode = "esc"
     THEN /\ SemanticStatus(p) = "VERIFIED" /\ Complete(p) # FALSE /\ ~Dropped(p)
          /\ Tool \in ProofTools /\ p.claim # "NO_PROOF"
     ELSE SemanticStatus(p) \in {"VERIFIED", "STATIC_CHECKED"}

Claim(p) ==
  IF ~Satisfied(p) THEN "NO_PROOF"
  ELSE IF Mode = "check" THEN "STATIC_CHECK"
  ELSE IF Tool = "kani" THEN "BOUNDED_EVIDENCE" ELSE "DEDUCTIVE_PROOF"

\* decide_result: the payload with the decision written over it; the output
\* and the counts stay.
Decide(p) ==
  [p EXCEPT !.status = SemanticStatus(p), !.claim = Claim(p), !.satisfied = Satisfied(p),
            !.completed = Completed(p), !.dropped = Dropped(p), !.complete = Complete(p),
            !.consistent = ~Contradicted(p)]

Init ==
  /\ request \in Requests /\ payload \in Payloads
  /\ layers = 0

Normalize ==
  /\ layers < MaxLayers
  /\ payload' = Decide(payload)
  /\ layers' = layers + 1
  /\ UNCHANGED request

-----------------------------------------------------------------------------
Negative(p) ==
  \/ p.satisfied = FALSE \/ p.completed = FALSE \/ p.consistent = FALSE
  \/ (Mode = "esc" /\ (p.dropped = TRUE \/ p.complete = FALSE))

(***************************************************************************)
(* Normalising again never strengthens: a payload that is unsatisfied,     *)
(* incomplete, dropped or inconsistent claims nothing afterwards, and one  *)
(* that was normalised already keeps its claim and its status.             *)
(***************************************************************************)
KeepsDecision ==
  /\ Negative(payload) => payload'.claim = "NO_PROOF" /\ ~payload'.satisfied
  /\ layers > 0 => payload'.claim = payload.claim /\ payload'.status = payload.status

NeverStrengthened == [][KeepsDecision]_policyVars

TypeOK == request \in Requests /\ payload \in Payload /\ layers \in 0 .. MaxLayers

\* With TypeOK this is inductive: a decision decides as it says.
IInv == layers > 0 => Decide(payload) = payload
=============================================================================
