--------------------------------- MODULE Claims ---------------------------------
(***************************************************************************)
(* The parts of the pipeline that make a claim out of what the tools       *)
(* report, each in its own instance: the claim policy, the repair loops,   *)
(* behaviour correction and the system orchestrator.  They share no state, *)
(* so a behaviour follows one of them; which one is chosen at the start.   *)
(***************************************************************************)
EXTENDS Integers, Sequences, FiniteSets

CONSTANTS
  None,                                             \* the state of a part that does not run
  Payloads, Absent, Words, MaxLayers,               \* of VerificationPolicy
  Candidates, Budgets,                              \* of RepairLoop
  Sources, Original, MaxAttempts,                   \* of BehaviorCorrection
  Components, Places, MaxWorkers, Missing, Earlier  \* of SystemOrchestration

VARIABLES
  part,
  request, payload, layers,
  loop, budget, history, samples, feedback, statuses, code, claim, final,
  phase, strengthened, corrected, attempt, recorded,
  mode, place, worker, files, exit, collected, gated, system

Policy == INSTANCE VerificationPolicy

Loops == INSTANCE RepairLoop WITH Nothing <- None

Correction == INSTANCE BehaviorCorrection WITH NoSource <- None

Orchestration == INSTANCE SystemOrchestration WITH verdict <- collected

ASSUME ClaimsAssumption ==
  /\ Payloads \subseteq Policy!Payload /\ Policy!PolicyWords \subseteq Words
  /\ Absent \notin BOOLEAN \cup Int \cup Words
  /\ MaxLayers \in Nat
  /\ \A c \in Candidates : c.outcome \in Loops!Outcomes
  /\ Budgets \subseteq [max : Nat, resample : Nat, feedback : Nat]
  /\ MaxAttempts \in Nat

policyVars == <<request, payload, layers>>
loopVars == <<loop, budget, history, samples, feedback, statuses, code, claim, final>>
correctionVars == <<phase, strengthened, corrected, attempt, recorded>>
systemVars == <<mode, place, worker, files, exit, collected, gated, system>>

claimVars ==
  <<part, policyVars, loopVars, correctionVars, systemVars>>

\* A part that does not run.
NoPolicy == request = None /\ payload = None /\ layers = None
NoLoop ==
  /\ loop = None /\ budget = None /\ history = None /\ samples = None /\ feedback = None
  /\ statuses = None /\ code = None /\ claim = None /\ final = None
NoCorrection ==
  /\ phase = None /\ strengthened = None /\ corrected = None /\ attempt = None
  /\ recorded = None
NoSystem ==
  /\ mode = None /\ place = None /\ worker = None /\ files = None /\ exit = None
  /\ collected = None /\ gated = None /\ system = None

Parts == {"policy", "loop", "correction", "system"}

ClaimsInit ==
  /\ part \in Parts
  /\ IF part = "policy" THEN Policy!Init ELSE NoPolicy
  /\ IF part = "loop" THEN Loops!Init ELSE NoLoop
  /\ IF part = "correction" THEN Correction!Init ELSE NoCorrection
  /\ IF part = "system" THEN Orchestration!Init ELSE NoSystem

ClaimsNext ==
  /\ UNCHANGED part
  /\ IF part = "policy" THEN Policy!Normalize ELSE UNCHANGED policyVars
  /\ IF part = "loop" THEN Loops!Next ELSE UNCHANGED loopVars
  /\ IF part = "correction" THEN Correction!Next ELSE UNCHANGED correctionVars
  /\ IF part = "system" THEN Orchestration!Next ELSE UNCHANGED systemVars

ClaimsSpec == ClaimsInit /\ [][ClaimsNext]_claimVars

\* Normalising a payload again never strengthens it.
NeverStrengthened == [][part = "policy" => Policy!KeepsDecision]_policyVars

\* What is delivered as proved or verified is the source that the tools accepted, in
\* the repair loops and in the correction of a behaviour.
ClaimIsTheCodes ==
  /\ part = "loop" => Loops!ClaimIsTheCodes
  /\ part = "correction" => Correction!CorrectionWasProved

\* A repair loop keeps its budgets, and stops when it makes no progress.
LoopStops == part = "loop" => Loops!NoProgressStops /\ Loops!WithinBudget

\* A verified system is one of verified components.
SystemIsItsComponents == part = "system" => Orchestration!SystemIsItsComponents

TypeOK ==
  /\ part \in Parts
  /\ part = "policy" => Policy!TypeOK
  /\ part = "loop" => Loops!TypeOK
  /\ part = "correction" => Correction!TypeOK
  /\ part = "system" => Orchestration!TypeOK

\* The inductive invariant of the part that runs.
ClaimsInv ==
  /\ TypeOK
  /\ part = "policy" => Policy!IInv
  /\ part = "loop" => Loops!IInv
  /\ part = "correction" => Correction!IInv
  /\ part = "system" => Orchestration!IInv

=============================================================================
