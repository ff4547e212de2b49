--------------------------- MODULE BehaviorCorrection ---------------------------
(***************************************************************************)
(* correct_behavior of pipeline/behavior_correction.py for a Java source:  *)
(* the model strengthens the contract, deterministic checks look for       *)
(* patterns the strategy forbids and allocations the hardware cannot hold, *)
(* and up to max_attempts repairs are proved.                              *)
(*                                                                         *)
(* A source is a record [contract, residual, discharged]: the contract it  *)
(* carries, whether a forbidden pattern is left, and whether ESC exits     *)
(* cleanly on it.                                                          *)
(***************************************************************************)
EXTENDS Naturals

CONSTANTS
  Sources,       \* what the model may answer
  Original,      \* the contract of the target
  MaxAttempts,
  NoSource

VARIABLES
  phase,         \* strengthen, attempt, repaired, verified, failed
  strengthened,  \* strengthened_path
  corrected,     \* corrected_path
  attempt,
  recorded       \* the contract hash in the evidence

correctionVars == <<phase, strengthened, corrected, attempt, recorded>>

Init ==
  /\ phase = "strengthen"
  /\ strengthened = NoSource /\ corrected = NoSource
  /\ attempt = 0 /\ recorded = Original

\* verify: the exit code of one ESC run.
EscExitsCleanly(source) == source.discharged

\* The model's rewrite passes the residual checks and is written.
Strengthen ==
  /\ phase = "strengthen"
  /\ \E s \in Sources :
       IF s.residual
       THEN phase' = "failed" /\ UNCHANGED <<strengthened, recorded>>
       ELSE phase' = "attempt" /\ strengthened' = s /\ recorded' = s.contract
  /\ UNCHANGED <<corrected, attempt>>

ProviderFails ==
  /\ \/ phase = "strengthen"
     \/ phase = "attempt" /\ attempt < MaxAttempts /\ ~EscExitsCleanly(strengthened)
  /\ phase' = "failed"
  /\ attempt' = IF phase = "attempt" THEN attempt + 1 ELSE attempt
  /\ UNCHANGED <<strengthened, corrected, recorded>>

\* One round: the strengthened source itself if it is proved, else a repair.
Propose ==
  /\ phase = "attempt" /\ attempt < MaxAttempts
  /\ attempt' = attempt + 1
  /\ corrected' \in IF EscExitsCleanly(strengthened) THEN {strengthened} ELSE Sources
  /\ phase' = "repaired"
  /\ UNCHANGED <<strengthened, recorded>>

\* The corrected file is proved once more.
VerifyCorrected ==
  /\ phase = "repaired"
  /\ phase' = IF EscExitsCleanly(corrected) THEN "verified" ELSE "attempt"
  /\ UNCHANGED <<strengthened, corrected, attempt, recorded>>

OutOfAttempts ==
  /\ phase = "attempt" /\ attempt >= MaxAttempts
  /\ phase' = "failed"
  /\ UNCHANGED <<strengthened, corrected, attempt, recorded>>

Next == Strengthen \/ ProviderFails \/ Propose \/ VerifyCorrected \/ OutOfAttempts

-----------------------------------------------------------------------------
(***************************************************************************)
(* A verified correction: the file delivered was itself accepted by ESC,   *)
(* and when the first rewrite was good enough it is that one, with the     *)
(* contract the evidence records and no forbidden pattern.                 *)
(***************************************************************************)
CorrectionWasProved ==
  phase = "verified" =>
    /\ corrected.discharged
    /\ strengthened.discharged =>
         corrected = strengthened /\ corrected.contract = recorded /\ ~corrected.residual

TypeOK ==
  /\ phase \in {"strengthen", "attempt", "repaired", "verified", "failed"}
  /\ strengthened \in Sources \cup {NoSource} /\ corrected \in Sources \cup {NoSource}
  /\ attempt \in 0 .. MaxAttempts

\* The inductive invariant: with TypeOK it implies the property above.
IInv ==
  /\ phase \in {"attempt", "repaired", "verified"} =>
       /\ strengthened \in Sources /\ ~strengthened.residual
       /\ recorded = strengthened.contract
  /\ phase \in {"repaired", "verified"} /\ EscExitsCleanly(strengthened) =>
       corrected = strengthened
  /\ phase = "verified" => EscExitsCleanly(corrected)
=============================================================================
