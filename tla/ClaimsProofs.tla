------------------------------ MODULE ClaimsProofs ------------------------------
(***************************************************************************)
(* Proofs about Claims, for any payloads, candidates and budgets, sources  *)
(* and components.                                                         *)
(***************************************************************************)
EXTENDS Claims, FiniteSetTheorems, WellFoundedInduction, TLAPS

-----------------------------------------------------------------------------
(* The claim policy                                                        *)

LEMMA PayloadFacts ==
  ASSUME NEW p \in Policy!Payload
  PROVE  /\ p.exit \in Int /\ p.conflict \in BOOLEAN /\ p.marker \in BOOLEAN
         /\ p.status \in Words \cup {Absent} /\ p.claim \in Words \cup {Absent}
         /\ p.total \in Int \cup {Absent} /\ p.proved \in Int \cup {Absent}
         /\ p.dropped \in BOOLEAN \cup {Absent} /\ p.complete \in BOOLEAN \cup {Absent}
         /\ p.satisfied \in BOOLEAN \cup {Absent} /\ p.completed \in BOOLEAN \cup {Absent}
         /\ p.consistent \in BOOLEAN \cup {Absent}
  BY DEF Policy!Payload, Policy!Maybe

LEMMA DecisionType ==
  ASSUME NEW p \in Policy!Payload
  PROVE  /\ Policy!Decide(p) \in Policy!Payload
         /\ Policy!SemanticStatus(p) \in Words /\ Policy!Claim(p) \in Words
         /\ Policy!Satisfied(p) \in BOOLEAN /\ Policy!Completed(p) \in BOOLEAN
         /\ Policy!Dropped(p) \in BOOLEAN /\ Policy!Contradicted(p) \in BOOLEAN
         /\ Policy!AllProved(p) \in BOOLEAN /\ Policy!MarkerDropped(p) \in BOOLEAN
         /\ Policy!Complete(p) \in BOOLEAN \cup {Absent}
  <1>1. Policy!SemanticStatus(p) \in Words
    <2>1. p.status \in Words \cup {Absent} /\ Policy!PolicyWords \subseteq Words
      BY PayloadFacts, ClaimsAssumption
    <2> QED
      BY <2>1 DEF Policy!PolicyWords, Policy!SemanticStatus, Policy!Classify
  <1>2. Policy!Claim(p) \in Words
    <2>1. Policy!PolicyWords \subseteq Words
      BY ClaimsAssumption
    <2> QED
      BY <2>1 DEF Policy!PolicyWords, Policy!Claim
  <1>3. /\ Policy!AllProved(p) \in BOOLEAN /\ Policy!MarkerDropped(p) \in BOOLEAN
        /\ Policy!Dropped(p) \in BOOLEAN /\ Policy!Completed(p) \in BOOLEAN
        /\ Policy!Contradicted(p) \in BOOLEAN /\ Policy!Satisfied(p) \in BOOLEAN
    <2>1. Policy!AllProved(p) \in BOOLEAN
      BY Zenon DEF Policy!AllProved
    <2>2. Policy!MarkerDropped(p) \in BOOLEAN
      BY PayloadFacts DEF Policy!MarkerDropped
    <2>3. Policy!Dropped(p) \in BOOLEAN
      BY Zenon DEF Policy!Dropped
    <2>4. Policy!Completed(p) \in BOOLEAN
      BY Zenon DEF Policy!Completed
    <2>5. Policy!Contradicted(p) \in BOOLEAN
      BY Zenon DEF Policy!Contradicted
    <2>6. Policy!Satisfied(p) \in BOOLEAN
      BY Zenon DEF Policy!Satisfied
    <2> QED
      BY <2>1, <2>2, <2>3, <2>4, <2>5, <2>6
  <1>4. Policy!Complete(p) \in BOOLEAN \cup {Absent}
    <2>1. p.complete \in BOOLEAN \cup {Absent}
      BY PayloadFacts
    <2> QED
      BY <1>3, <2>1 DEF Policy!Complete
  <1>5. Policy!Decide(p) \in Policy!Payload
    <2> DEFINE status == Policy!SemanticStatus(p)
               says == Policy!Claim(p)
               satisfied == Policy!Satisfied(p)
               completed == Policy!Completed(p)
               dropped == Policy!Dropped(p)
               complete == Policy!Complete(p)
               consistent == ~ Policy!Contradicted(p)
    <2>1. /\ status \in Words /\ says \in Words /\ satisfied \in BOOLEAN
          /\ completed \in BOOLEAN /\ dropped \in BOOLEAN
          /\ complete \in BOOLEAN \cup {Absent} /\ consistent \in BOOLEAN
      BY <1>1, <1>2, <1>3, <1>4
    <2> DEFINE p1 == [p EXCEPT !.status = status]
               p2 == [p1 EXCEPT !.claim = says]
               p3 == [p2 EXCEPT !.satisfied = satisfied]
               p4 == [p3 EXCEPT !.completed = completed]
               p5 == [p4 EXCEPT !.dropped = dropped]
               p6 == [p5 EXCEPT !.complete = complete]
               p7 == [p6 EXCEPT !.consistent = consistent]
    <2>2. Policy!Decide(p) = p7
      BY DEF Policy!Decide
    <2> HIDE DEF status, says, satisfied, completed, dropped, complete, consistent
    <2> HIDE DEF p1, p2, p3, p4, p5, p6, p7
    <2>3. p1 \in Policy!Payload
      BY <2>1 DEF p1, Policy!Payload, Policy!Maybe
    <2>4. p2 \in Policy!Payload
      BY <2>1, <2>3 DEF p2, Policy!Payload, Policy!Maybe
    <2>5. p3 \in Policy!Payload
      BY <2>1, <2>4 DEF p3, Policy!Payload, Policy!Maybe
    <2>6. p4 \in Policy!Payload
      BY <2>1, <2>5 DEF p4, Policy!Payload, Policy!Maybe
    <2>7. p5 \in Policy!Payload
      BY <2>1, <2>6 DEF p5, Policy!Payload, Policy!Maybe
    <2>8. p6 \in Policy!Payload
      BY <2>1, <2>7 DEF p6, Policy!Payload, Policy!Maybe
    <2>9. p7 \in Policy!Payload
      BY <2>1, <2>8 DEF p7, Policy!Payload, Policy!Maybe
    <2> QED
      BY <2>2, <2>9
  <1> QED
    BY <1>1, <1>2, <1>3, <1>4, <1>5

\* decide_result writes the decision over the payload and keeps the rest.
LEMMA DecisionFields ==
  ASSUME NEW p \in Policy!Payload, NEW q, q = Policy!Decide(p)
  PROVE  /\ q.exit = p.exit /\ q.total = p.total /\ q.proved = p.proved
         /\ q.conflict = p.conflict /\ q.marker = p.marker
         /\ q.status = Policy!SemanticStatus(p) /\ q.claim = Policy!Claim(p)
         /\ q.satisfied = Policy!Satisfied(p) /\ q.completed = Policy!Completed(p)
         /\ q.dropped = Policy!Dropped(p) /\ q.complete = Policy!Complete(p)
         /\ q.consistent = ~ Policy!Contradicted(p)
  BY DEF Policy!Decide, Policy!Payload

\* A decision decides as it says: normalising it again changes nothing.
LEMMA DecisionStands ==
  ASSUME NEW p \in Policy!Payload
  PROVE  Policy!Decide(Policy!Decide(p)) = Policy!Decide(p)
  <1> DEFINE q == Policy!Decide(p)
  <1>1. q \in Policy!Payload
    BY DecisionType
  <1>2. /\ q.exit = p.exit /\ q.total = p.total /\ q.proved = p.proved
        /\ q.conflict = p.conflict /\ q.marker = p.marker
        /\ q.status = Policy!SemanticStatus(p) /\ q.claim = Policy!Claim(p)
        /\ q.satisfied = Policy!Satisfied(p) /\ q.completed = Policy!Completed(p)
        /\ q.dropped = Policy!Dropped(p) /\ q.complete = Policy!Complete(p)
        /\ q.consistent = ~ Policy!Contradicted(p)
    BY DecisionFields
  <1>3. /\ Policy!SemanticStatus(p) \in Words /\ Policy!Claim(p) \in Words
        /\ Policy!Satisfied(p) \in BOOLEAN /\ Policy!Completed(p) \in BOOLEAN
        /\ Policy!Dropped(p) \in BOOLEAN /\ Policy!Contradicted(p) \in BOOLEAN
        /\ Policy!AllProved(p) \in BOOLEAN /\ Policy!MarkerDropped(p) \in BOOLEAN
        /\ Policy!Complete(p) \in BOOLEAN \cup {Absent}
    BY DecisionType
  <1>4. Absent \notin BOOLEAN /\ Absent \notin Words
    BY ClaimsAssumption
  <1> HIDE DEF q
  <1>5. Policy!Completed(q) = Policy!Completed(p)
    BY <1>2, <1>3 DEF Policy!Completed
  <1>6. Policy!MarkerDropped(q) = Policy!MarkerDropped(p)
    BY <1>2 DEF Policy!MarkerDropped
  <1>7. Policy!Dropped(q) = Policy!Dropped(p)
    BY <1>2, <1>3, <1>6 DEF Policy!Dropped
  <1>8. Policy!SemanticStatus(q) = Policy!SemanticStatus(p)
    BY <1>2, <1>3, <1>4, <1>7 DEF Policy!SemanticStatus
  <1>9. Policy!AllProved(q) = Policy!AllProved(p) /\ Policy!Counted(q) = Policy!Counted(p)
    BY <1>2 DEF Policy!AllProved, Policy!Counted
  <1>10. Policy!Complete(q) = Policy!Complete(p)
    BY <1>2, <1>3, <1>9 DEF Policy!Complete
  <1>11. Policy!Contradicted(q) = Policy!Contradicted(p)
    <2>1. CASE Policy!Contradicted(p)
      BY <1>2, <2>1 DEF Policy!Contradicted
    <2>2. CASE ~ Policy!Contradicted(p)
      BY <1>2, <1>3, <1>6, <1>9, <2>2
      DEF Policy!Contradicted, Policy!Completed, Policy!Complete, Policy!Dropped
    <2> QED
      BY <2>1, <2>2
  <1>12. Policy!Satisfied(q) = Policy!Satisfied(p)
    <2>1. CASE Policy!Satisfied(p)
      BY <1>2, <1>5, <1>7, <1>8, <1>10, <1>11, <2>1 DEF Policy!Satisfied, Policy!Claim
    <2>2. CASE ~ Policy!Satisfied(p)
      BY <1>2, <2>2 DEF Policy!Satisfied
    <2> QED
      BY <2>1, <2>2
  <1>13. Policy!Claim(q) = Policy!Claim(p)
    BY <1>12 DEF Policy!Claim
  <1> QED
    BY <1>5, <1>7, <1>8, <1>10, <1>11, <1>12, <1>13 DEF q, Policy!Decide

LEMMA PolicyInit ==
  ASSUME Policy!Init
  PROVE  Policy!TypeOK /\ Policy!IInv
  <1>1. payload \in Policy!Payload /\ layers = 0 /\ request \in Policy!Requests
    BY ClaimsAssumption DEF Policy!Init
  <1> QED
    BY <1>1, ClaimsAssumption DEF Policy!TypeOK, Policy!IInv

\* A negative field of the payload decides; a second decision is the first one.
LEMMA PolicyStep ==
  ASSUME Policy!TypeOK, Policy!IInv, Policy!Normalize
  PROVE  Policy!TypeOK' /\ Policy!IInv' /\ Policy!KeepsDecision
  <1>1. /\ payload \in Policy!Payload /\ layers \in Nat /\ layers < MaxLayers
        /\ payload' = Policy!Decide(payload) /\ layers' = layers + 1 /\ request' = request
    BY ClaimsAssumption DEF Policy!TypeOK, Policy!Normalize
  <1>2. Policy!TypeOK'
    <2>1. payload' \in Policy!Payload
      BY <1>1, DecisionType
    <2>2. layers' \in 0 .. MaxLayers
      BY <1>1, ClaimsAssumption
    <2> QED
      BY <1>1, <2>1, <2>2 DEF Policy!TypeOK
  <1>3. Policy!Decide(payload)' = Policy!Decide(payload')
    <2>1. request' = request
      BY <1>1
    <2> QED
      BY <2>1
      DEF Policy!Decide, Policy!SemanticStatus, Policy!Claim, Policy!Satisfied,
          Policy!Completed, Policy!Dropped, Policy!Complete, Policy!Contradicted,
          Policy!MarkerDropped, Policy!Counted, Policy!AllProved, Policy!Classify,
          Policy!Tool, Policy!Mode
  <1>4. Policy!IInv'
    <2>1. Policy!Decide(payload') = payload'
      BY <1>1, DecisionStands
    <2> QED
      BY <1>3, <2>1 DEF Policy!IInv
  <1>5. ASSUME Policy!Negative(payload)
        PROVE  payload'.claim = "NO_PROOF" /\ ~ payload'.satisfied
    <2>1. /\ payload'.claim = Policy!Claim(payload)
          /\ payload'.satisfied = Policy!Satisfied(payload)
      BY <1>1, DecisionFields
    <2>2. ~ Policy!Satisfied(payload)
      BY <1>5
      DEF Policy!Negative, Policy!Satisfied, Policy!Completed, Policy!Contradicted,
          Policy!Dropped, Policy!Complete
    <2> QED
      BY <2>1, <2>2 DEF Policy!Claim
  <1>6. layers > 0 => payload' = payload
    BY <1>1 DEF Policy!IInv
  <1> QED
    BY <1>2, <1>4, <1>5, <1>6 DEF Policy!KeepsDecision

-----------------------------------------------------------------------------
(* The repair loops                                                        *)

LoopInv == Loops!TypeOK /\ Loops!IInv

LEMMA CandidateFacts ==
  ASSUME NEW c \in Candidates \cup {Loops!Empty}
  PROVE  /\ c.outcome \in Loops!Outcomes \cup {"empty"}
         /\ Loops!Status(c) \in Loops!Statuses
         /\ Loops!Status(c) = "VERIFIED" =>
              c.outcome \in {"proved", "dropped"} /\ (loop = "java" => c.outcome = "proved")
  <1>1. c.outcome \in Loops!Outcomes \cup {"empty"}
    BY ClaimsAssumption DEF Loops!Empty
  <1> QED
    BY <1>1 DEF Loops!Outcomes, Loops!Statuses, Loops!Status

\* What decide has looked at when the loop goes on.
LEMMA DecideFacts ==
  ASSUME LoopInv, claim = "running", Loops!Decide # "stop"
  PROVE  /\ ~ Loops!Succeeded
         /\ history = <<>> \/ (Len(history) < Loops!AttemptLimit /\ ~ Loops!Stalled)
         /\ Loops!Decide = "sample" =>
              history = <<>> \/ samples < budget.resample
         /\ Loops!Decide # "sample" =>
              history # <<>> /\ Loops!Decide = "feedback" /\ feedback < budget.feedback
  <1>1. budget \in [max : Nat, resample : Nat, feedback : Nat]
    BY ClaimsAssumption DEF LoopInv, Loops!TypeOK
  <1>2. Loops!AttemptLimit \in Nat /\ Len(history) \in Nat
    BY <1>1 DEF LoopInv, Loops!TypeOK, Loops!AttemptLimit
  <1> QED
    BY <1>2 DEF Loops!Decide

LEMMA LoopInit ==
  ASSUME Loops!Init
  PROVE  LoopInv
  <1>1. budget \in [max : Nat, resample : Nat, feedback : Nat]
    BY ClaimsAssumption DEF Loops!Init
  <1>2. Loops!TypeOK
    BY DEF Loops!Init, Loops!TypeOK
  <1>3. Loops!NoProgressStops /\ Loops!WithinBudget
    BY <1>1 DEF Loops!Init, Loops!NoProgressStops, Loops!WithinBudget
  <1>4. /\ statuses = <<>> /\ history = <<>> /\ samples = 0 /\ feedback = 0
        /\ claim = "running" /\ final = "none" /\ Len(history) = 0 /\ Len(statuses) = 0
    BY DEF Loops!Init
  <1> QED
    BY <1>2, <1>3, <1>4 DEF LoopInv, Loops!IInv, Loops!Succeeded

\* An attempt appends its status and, unless it ends the loop, what was tried.
LEMMA AttemptKeepsBudget ==
  ASSUME LoopInv, Loops!Call, NEW status, statuses' = Append(statuses, status),
         UNCHANGED <<loop, budget>>
  PROVE  /\ Loops!WithinBudget' /\ samples' \in Nat /\ feedback' \in Nat
         /\ samples' + feedback' = Len(history) + 1 /\ Len(statuses') = Len(history) + 1
         /\ ~ Loops!Succeeded /\ claim = "running"
         /\ history = <<>> \/ ~ Loops!Stalled
  <1>1. /\ claim = "running" /\ Loops!Decide # "stop"
        /\ Len(statuses) = Len(history) /\ Len(history) = samples + feedback
        /\ Loops!WithinBudget /\ history \in Seq(Candidates \cup {Loops!Empty})
        /\ statuses \in Seq(Loops!Statuses) /\ samples \in Nat /\ feedback \in Nat
        /\ budget \in Budgets /\ loop \in Loops!Loops
    BY DEF LoopInv, Loops!TypeOK, Loops!IInv, Loops!Call
  <1>2. budget \in [max : Nat, resample : Nat, feedback : Nat]
    BY <1>1, ClaimsAssumption
  <1>3. Loops!AttemptLimit \in Nat /\ Loops!AttemptLimit' = Loops!AttemptLimit
    BY <1>2 DEF Loops!AttemptLimit
  <1>4. Len(statuses') = Len(history) + 1 /\ Len(history) \in Nat
    BY <1>1
  <1>5. history = <<>> => Len(history) = 0 /\ samples = 0 /\ feedback = 0
    BY <1>1
  <1>6. CASE Loops!Decide = "sample"
    <2>1. samples' = samples + 1 /\ feedback' = feedback
      BY <1>6 DEF Loops!Call
    <2>2. Len(statuses') <= Loops!AttemptLimit \/ Len(statuses') <= 1
      BY <1>1, <1>3, <1>4, <1>5, DecideFacts
    <2>3. samples' <= budget.resample \/ samples' <= 1
      BY <1>1, <1>2, <1>5, <1>6, <2>1, DecideFacts
    <2>4. feedback' <= budget.feedback
      BY <1>1, <2>1 DEF Loops!WithinBudget
    <2> QED
      BY <1>1, <1>3, <1>4, <2>1, <2>2, <2>3, <2>4, DecideFacts DEF Loops!WithinBudget
  <1>7. CASE Loops!Decide # "sample"
    <2>1. samples' = samples /\ feedback' = feedback + 1
      BY <1>7 DEF Loops!Call
    <2>2. Len(statuses') <= Loops!AttemptLimit \/ Len(statuses') <= 1
      BY <1>1, <1>3, <1>4, <1>5, DecideFacts
    <2>3. samples' <= budget.resample \/ samples' <= 1
      BY <1>1, <2>1 DEF Loops!WithinBudget
    <2>4. feedback' <= budget.feedback
      BY <1>1, <1>2, <1>7, <2>1, DecideFacts
    <2> QED
      BY <1>1, <1>3, <1>4, <2>1, <2>2, <2>3, <2>4, DecideFacts DEF Loops!WithinBudget
  <1> QED
    BY <1>6, <1>7

\* What is tried next was not the last thing tried for nothing.
LEMMA AttemptProgresses ==
  ASSUME LoopInv, history = <<>> \/ ~ Loops!Stalled, loop' = loop,
         NEW c \in Candidates \cup {Loops!Empty}, history' = Append(history, c)
  PROVE  Loops!NoProgressStops'
  <1>1. history \in Seq(Candidates \cup {Loops!Empty}) /\ Loops!NoProgressStops
    BY DEF LoopInv, Loops!TypeOK, Loops!IInv
  <1>2. /\ Len(history) \in Nat /\ Len(history') = Len(history) + 1
        /\ \A i \in 1 .. Len(history) : history'[i] = history[i]
    BY <1>1
  <1>3. \A d : Loops!Fingerprint(d)' = Loops!Fingerprint(d)
    BY DEF Loops!Fingerprint
  <1> SUFFICES ASSUME NEW i \in 3 .. Len(history') - 1, NEW j \in 1 .. i - 1
               PROVE  /\ history'[i] # history'[j]
                      /\ Loops!Fingerprint(history'[i]) # {} =>
                           Loops!Fingerprint(history'[i]) # Loops!Fingerprint(history'[j])
    BY <1>3 DEF Loops!NoProgressStops
  <1>4. /\ i \in Nat /\ j \in Nat /\ 3 <= i /\ i <= Len(history) /\ 1 <= j /\ j < i
        /\ history'[i] = history[i] /\ history'[j] = history[j]
    BY <1>2
  <1>5. CASE i < Len(history)
    <2>1. i \in 3 .. Len(history) - 1
      BY <1>2, <1>4, <1>5
    <2> QED
      BY <1>1, <1>4, <2>1 DEF Loops!NoProgressStops
  <1>6. CASE i = Len(history)
    <2>1. history # <<>>
      BY <1>4, <1>6
    <2>2. j \in 1 .. Len(history) - 1
      BY <1>2, <1>4, <1>6
    <2>3. history[j] \in Loops!Tried
      BY <2>2 DEF Loops!Tried
    <2> QED
      BY <1>4, <1>6, <2>1, <2>3 DEF Loops!Stalled, Loops!Last
  <1> QED
    BY <1>2, <1>4, <1>5, <1>6

\* The same history is judged as before.
LEMMA SameHistory ==
  ASSUME LoopInv, UNCHANGED <<loop, history>>
  PROVE  Loops!NoProgressStops'
  <1>1. \A d : Loops!Fingerprint(d)' = Loops!Fingerprint(d)
    BY DEF Loops!Fingerprint
  <1> QED
    BY <1>1 DEF LoopInv, Loops!IInv, Loops!NoProgressStops

LEMMA Appended ==
  ASSUME NEW S, NEW seq \in Seq(S), NEW x \in S
  PROVE  /\ Append(seq, x) \in Seq(S) /\ Append(seq, x) # <<>>
         /\ Len(Append(seq, x)) = Len(seq) + 1 /\ Loops!Last(Append(seq, x)) = x
  BY DEF Loops!Last

\* A loop that ends delivers what its last status says; a draft, not yet.
LEMMA Ends ==
  ASSUME loop \in Loops!Loops, NEW status \in Loops!Statuses, Loops!End(status)
  PROVE  /\ claim' \in {"NO_PROOF", "STATIC_CHECK", "PROOF"}
         /\ final' \in Loops!Statuses \cup {"none", "REFINEMENT_FAILED"}
         /\ loop = "draft" => claim' = "STATIC_CHECK" /\ final' = "none"
         /\ claim' = "PROOF" \/ final' = "VERIFIED" =>
              /\ status = "VERIFIED"
              /\ claim' = IF loop = "draft" THEN "STATIC_CHECK" ELSE "PROOF"
  <1>1. CASE loop = "draft"
    BY <1>1 DEF Loops!End, Loops!ClaimOf, Loops!FinalOf
  <1>2. CASE loop = "java"
    BY <1>2 DEF Loops!End, Loops!ClaimOf, Loops!FinalOf
  <1>3. CASE loop = "polyglot"
    BY <1>3 DEF Loops!End, Loops!ClaimOf, Loops!FinalOf
  <1> QED
    BY <1>1, <1>2, <1>3 DEF Loops!Loops

\* The provider failed, or the answer crossed the trusted surface: no proof.
LEMMA LoopEnds ==
  ASSUME LoopInv, Loops!ApiError \/ Loops!TrustBoundary
  PROVE  LoopInv'
  <1>1. PICK status \in {"API_ERROR", "TRUST_BOUNDARY_VIOLATION"} :
          statuses' = Append(statuses, status) /\ Loops!End(status)
    BY DEF Loops!ApiError, Loops!TrustBoundary
  <1>2. /\ UNCHANGED <<loop, budget, history, code>>
        /\ claim = "running"
    BY DEF Loops!ApiError, Loops!TrustBoundary, Loops!Call
  <1>3. /\ statuses \in Seq(Loops!Statuses) /\ status \in Loops!Statuses
        /\ Loops!TypeOK
    BY DEF LoopInv, Loops!TypeOK, Loops!Statuses
  <1>4. /\ statuses' \in Seq(Loops!Statuses) /\ Loops!Last(statuses') = status
        /\ Len(statuses') = Len(statuses) + 1
    BY <1>1, <1>3, Appended
  <1>5. Loops!WithinBudget' /\ samples' \in Nat /\ feedback' \in Nat
    <2>1. CASE Loops!Call
      BY <1>1, <1>2, <2>1, AttemptKeepsBudget
    <2>2. CASE Loops!ApiError
      <3>1. UNCHANGED <<samples, feedback>> /\ Loops!Decide # "stop"
        BY <2>2 DEF Loops!ApiError
      <3>2. Len(statuses) = Len(history) /\ history \in Seq(Candidates \cup {Loops!Empty})
        BY <1>2, <1>3 DEF LoopInv, Loops!IInv, Loops!TypeOK
      <3>3. budget \in [max : Nat, resample : Nat, feedback : Nat]
        BY <1>3, ClaimsAssumption DEF Loops!TypeOK
      <3>4. Loops!AttemptLimit \in Nat /\ Loops!AttemptLimit' = Loops!AttemptLimit
        BY <1>2, <3>3 DEF Loops!AttemptLimit
      <3>5. history = <<>> \/ Len(history) < Loops!AttemptLimit
        BY <1>2, <3>1, DecideFacts
      <3>6. Len(statuses') <= Loops!AttemptLimit \/ Len(statuses') <= 1
        BY <1>4, <3>2, <3>4, <3>5
      <3> QED
        BY <1>2, <1>3, <3>1, <3>4, <3>6 DEF Loops!WithinBudget, LoopInv, Loops!IInv, Loops!TypeOK
    <2> QED
      BY <2>1, <2>2 DEF Loops!TrustBoundary
  <1>6. Loops!NoProgressStops'
    BY <1>2, SameHistory
  <1>7. ~ Loops!Succeeded'
    BY <1>1, <1>4 DEF Loops!Succeeded
  <1>8. /\ claim' \in {"NO_PROOF", "STATIC_CHECK", "PROOF"}
        /\ final' \in Loops!Statuses \cup {"none", "REFINEMENT_FAILED"}
        /\ loop = "draft" => claim' = "STATIC_CHECK" /\ final' = "none"
        /\ ~ (claim' = "PROOF" \/ final' = "VERIFIED")
    BY <1>1, <1>3, Ends DEF Loops!TypeOK
  <1>9. Loops!TypeOK'
    BY <1>2, <1>3, <1>4, <1>5, <1>8 DEF Loops!TypeOK
  <1>10. statuses' # <<>>
    BY <1>1, <1>3, Appended
  <1> QED
    BY <1>2, <1>5, <1>6, <1>7, <1>8, <1>9, <1>10 DEF LoopInv, Loops!IInv

LEMMA EmptyAnswer ==
  ASSUME LoopInv, Loops!EmptyGeneration
  PROVE  LoopInv'
  <1>1. /\ Loops!Call /\ statuses' = Append(statuses, "GEN_EMPTY")
        /\ history' = Append(history, Loops!Empty)
        /\ UNCHANGED <<loop, budget, code, claim, final>>
    BY DEF Loops!EmptyGeneration
  <1>2. /\ Loops!TypeOK /\ "GEN_EMPTY" \in Loops!Statuses
        /\ statuses \in Seq(Loops!Statuses) /\ history \in Seq(Candidates \cup {Loops!Empty})
        /\ Loops!Empty \in Candidates \cup {Loops!Empty}
    BY DEF LoopInv, Loops!TypeOK, Loops!Statuses
  <1>3. /\ statuses' \in Seq(Loops!Statuses) /\ Loops!Last(statuses') = "GEN_EMPTY"
        /\ history' \in Seq(Candidates \cup {Loops!Empty})
        /\ Len(history') = Len(history) + 1
    BY <1>1, <1>2, Appended
  <1>4. /\ Loops!WithinBudget' /\ samples' \in Nat /\ feedback' \in Nat
        /\ samples' + feedback' = Len(history') /\ Len(statuses') = Len(history')
        /\ claim = "running"
        /\ history = <<>> \/ ~ Loops!Stalled
    BY <1>1, <1>3, AttemptKeepsBudget
  <1>5. claim = "running" /\ final = "none"
    BY <1>1 DEF Loops!Call, LoopInv, Loops!IInv
  <1>6. Loops!NoProgressStops'
    BY <1>1, <1>2, <1>4, AttemptProgresses
  <1>7. ~ Loops!Succeeded'
    BY <1>3 DEF Loops!Succeeded
  <1>8. Loops!TypeOK'
    BY <1>1, <1>2, <1>3, <1>4 DEF Loops!TypeOK
  <1> QED
    BY <1>1, <1>4, <1>5, <1>6, <1>7, <1>8 DEF LoopInv, Loops!IInv

\* A candidate that the tools accept is the source at hand and kept the surface.
LEMMA CheckedCandidate ==
  ASSUME LoopInv, Loops!Checked
  PROVE  LoopInv'
  <1>1. PICK c \in Loops!Answers \cup (IF loop = "draft" THEN {Loops!Empty} ELSE {}) :
          /\ loop = "draft" \/ ~ Loops!Violates(c)
          /\ statuses' = Append(statuses, Loops!Status(c)) /\ history' = Append(history, c)
          /\ code' = c
          /\ IF loop = "draft" /\ Loops!Status(c) \in {"TOOL_MISSING", "VERIFIED"}
               THEN Loops!End(Loops!Status(c)) ELSE UNCHANGED <<claim, final>>
    BY DEF Loops!Checked
  <1>2. /\ Loops!Call /\ claim = "running" /\ final = "none" /\ UNCHANGED <<loop, budget>>
    BY DEF Loops!Checked, Loops!Call, LoopInv, Loops!IInv
  <1>3. c \in Candidates \cup {Loops!Empty}
    BY DEF Loops!Answers
  <1>4. /\ Loops!Status(c) \in Loops!Statuses
        /\ Loops!Status(c) = "VERIFIED" => (loop = "java" => c.outcome = "proved")
    BY <1>3, CandidateFacts
  <1>5. /\ Loops!TypeOK /\ statuses \in Seq(Loops!Statuses)
        /\ history \in Seq(Candidates \cup {Loops!Empty})
    BY DEF LoopInv, Loops!TypeOK
  <1>6. /\ statuses' \in Seq(Loops!Statuses) /\ Loops!Last(statuses') = Loops!Status(c)
        /\ history' \in Seq(Candidates \cup {Loops!Empty}) /\ Loops!Last(history') = c
        /\ Len(history') = Len(history) + 1 /\ history' # <<>> /\ statuses' # <<>>
    BY <1>1, <1>3, <1>4, <1>5, Appended
  <1>7. /\ Loops!WithinBudget' /\ samples' \in Nat /\ feedback' \in Nat
        /\ samples' + feedback' = Len(history') /\ Len(statuses') = Len(history')
        /\ history = <<>> \/ ~ Loops!Stalled
    BY <1>1, <1>2, <1>6, AttemptKeepsBudget
  <1>8. Loops!NoProgressStops'
    BY <1>1, <1>2, <1>3, <1>7, AttemptProgresses
  <1>9. Loops!Status(c)' = Loops!Status(c)
    BY <1>2 DEF Loops!Status
  <1>10. ASSUME Loops!Succeeded'
         PROVE  Loops!Accepted'
    <2>1. Loops!Status(c) = "VERIFIED"
      BY <1>6, <1>10 DEF Loops!Succeeded
    <2>2. loop = "java" => c.trusted /\ c.after /\ c.outcome = "proved"
      BY <1>1, <1>4, <2>1 DEF Loops!Violates
    <2>3. Loops!Status(code)' = "VERIFIED"
      BY <1>1, <1>2, <2>1 DEF Loops!Status
    <2> QED
      BY <1>1, <1>2, <1>6, <2>2, <2>3 DEF Loops!Accepted
  <1>11. \/ claim' = "running" /\ final' = "none"
         \/ loop = "draft" /\ claim' = "STATIC_CHECK" /\ final' = "none"
    BY <1>1, <1>2, <1>4, <1>5, Ends DEF Loops!TypeOK
  <1>12. Loops!TypeOK'
    BY <1>2, <1>5, <1>6, <1>7, <1>11 DEF Loops!TypeOK
  <1> QED
    BY <1>2, <1>6, <1>7, <1>8, <1>10, <1>11, <1>12 DEF LoopInv, Loops!IInv

LEMMA LoopStop ==
  ASSUME LoopInv, Loops!Stop
  PROVE  LoopInv'
  <1>1. /\ claim = "running" /\ Loops!Decide = "stop"
        /\ Loops!End(Loops!Last(statuses))
        /\ UNCHANGED <<loop, budget, history, samples, feedback, statuses, code>>
    BY DEF Loops!Stop
  <1>2. /\ Loops!NoProgressStops' /\ Loops!WithinBudget'
    BY <1>1, SameHistory DEF LoopInv, Loops!IInv, Loops!WithinBudget, Loops!AttemptLimit
  <1>3. Loops!Succeeded' = Loops!Succeeded /\ (Loops!Accepted => Loops!Accepted')
    BY <1>1 DEF Loops!Succeeded, Loops!Accepted, Loops!Last, Loops!Status
  <1>4. statuses # <<>>
    <2>1. statuses = <<>> => history = <<>>
      BY <1>1 DEF LoopInv, Loops!TypeOK, Loops!IInv
    <2> QED
      BY <1>1, <2>1 DEF Loops!Decide, Loops!Succeeded
  <1>5. Loops!Last(statuses) \in Loops!Statuses
    BY <1>4 DEF LoopInv, Loops!TypeOK, Loops!Last
  <1>6. /\ claim' \in {"NO_PROOF", "STATIC_CHECK", "PROOF"}
        /\ final' \in Loops!Statuses \cup {"none", "REFINEMENT_FAILED"}
        /\ loop = "draft" => claim' = "STATIC_CHECK" /\ final' = "none"
        /\ claim' = "PROOF" \/ final' = "VERIFIED" =>
             Loops!Succeeded /\ claim' = IF loop = "draft" THEN "STATIC_CHECK" ELSE "PROOF"
    BY <1>1, <1>4, <1>5, Ends DEF Loops!Succeeded, LoopInv, Loops!TypeOK
  <1>7. Loops!TypeOK'
    BY <1>1, <1>6 DEF LoopInv, Loops!TypeOK
  <1>8. Loops!Succeeded => Loops!Accepted
    BY DEF LoopInv, Loops!IInv
  <1> QED
    BY <1>1, <1>2, <1>3, <1>4, <1>6, <1>7, <1>8 DEF LoopInv, Loops!IInv

\* The evidence of a draft is committed, or its result says that it is not.
LEMMA EvidenceStep ==
  ASSUME LoopInv, Loops!PublishEvidence
  PROVE  LoopInv'
  <1>1. /\ loop = "draft" /\ claim # "running" /\ final = "none" /\ claim = "STATIC_CHECK"
        /\ UNCHANGED <<loop, budget, history, samples, feedback, statuses, code>>
        /\ statuses # <<>>
    BY DEF Loops!PublishEvidence, LoopInv, Loops!IInv
  <1>2. \/ final' = Loops!Last(statuses) /\ claim' = "STATIC_CHECK"
        \/ final' = "EVIDENCE_PUBLICATION_FAILED" /\ claim' = "NO_PROOF"
    BY <1>1 DEF Loops!PublishEvidence
  <1>3. Loops!Last(statuses) \in Loops!Statuses /\ "none" \notin Loops!Statuses
    BY <1>1 DEF LoopInv, Loops!TypeOK, Loops!Last, Loops!Statuses
  <1>4. Loops!TypeOK'
    BY <1>1, <1>2, <1>3 DEF LoopInv, Loops!TypeOK
  <1>5. /\ Loops!NoProgressStops' /\ Loops!WithinBudget'
    BY <1>1, SameHistory DEF LoopInv, Loops!IInv, Loops!WithinBudget, Loops!AttemptLimit
  <1>6. Loops!Succeeded' = Loops!Succeeded /\ (Loops!Accepted => Loops!Accepted')
    BY <1>1 DEF Loops!Succeeded, Loops!Accepted, Loops!Last, Loops!Status
  <1>7. final' = "VERIFIED" => Loops!Succeeded
    BY <1>1, <1>2 DEF Loops!Succeeded
  <1>8. Loops!Succeeded => Loops!Accepted
    BY DEF LoopInv, Loops!IInv
  <1> QED
    BY <1>1, <1>2, <1>3, <1>4, <1>5, <1>6, <1>7, <1>8 DEF LoopInv, Loops!IInv

LEMMA LoopStep ==
  ASSUME LoopInv, Loops!Next
  PROVE  LoopInv'
  BY LoopEnds, EmptyAnswer, CheckedCandidate, LoopStop, EvidenceStep DEF Loops!Next

LEMMA LoopProperties ==
  ASSUME LoopInv
  PROVE  Loops!ClaimIsTheCodes /\ Loops!NoProgressStops /\ Loops!WithinBudget
  BY DEF LoopInv, Loops!IInv, Loops!ClaimIsTheCodes, Loops!Accepted

-----------------------------------------------------------------------------
(* Behaviour correction                                                    *)

CorrectionInv == Correction!TypeOK /\ Correction!IInv

LEMMA CorrectionInit ==
  ASSUME Correction!Init
  PROVE  CorrectionInv
  BY ClaimsAssumption
  DEF CorrectionInv, Correction!Init, Correction!TypeOK, Correction!IInv

LEMMA CorrectionStep ==
  ASSUME CorrectionInv, Correction!Next
  PROVE  CorrectionInv'
  <1>1. Correction!TypeOK /\ Correction!IInv /\ attempt \in Nat
    BY ClaimsAssumption DEF CorrectionInv, Correction!TypeOK
  <1>2. CASE Correction!Strengthen
    BY <1>1, <1>2
    DEF CorrectionInv, Correction!TypeOK, Correction!IInv, Correction!Strengthen
  <1>3. CASE Correction!ProviderFails
    <2>1. attempt' \in 0 .. MaxAttempts
      BY <1>1, <1>3, ClaimsAssumption DEF Correction!TypeOK, Correction!ProviderFails
    <2> QED
      BY <1>1, <1>3, <2>1
      DEF CorrectionInv, Correction!TypeOK, Correction!IInv, Correction!ProviderFails
  <1>4. CASE Correction!Propose
    <2>1. attempt' \in 0 .. MaxAttempts
      BY <1>1, <1>4, ClaimsAssumption DEF Correction!Propose
    <2>2. /\ phase = "attempt" /\ phase' = "repaired"
          /\ UNCHANGED <<strengthened, recorded>>
          /\ corrected' \in IF Correction!EscExitsCleanly(strengthened)
                            THEN {strengthened} ELSE Sources
      BY <1>4 DEF Correction!Propose
    <2>3. /\ strengthened \in Sources /\ ~ strengthened.residual
          /\ recorded = strengthened.contract
      BY <1>1, <2>2 DEF Correction!IInv
    <2>4. /\ corrected' \in Sources
          /\ Correction!EscExitsCleanly(strengthened) => corrected' = strengthened
      BY <2>2, <2>3
    <2> QED
      BY <1>1, <2>1, <2>2, <2>3, <2>4
      DEF CorrectionInv, Correction!TypeOK, Correction!IInv
  <1>5. CASE Correction!VerifyCorrected
    BY <1>1, <1>5
    DEF CorrectionInv, Correction!TypeOK, Correction!IInv, Correction!VerifyCorrected
  <1>6. CASE Correction!OutOfAttempts
    BY <1>1, <1>6
    DEF CorrectionInv, Correction!TypeOK, Correction!IInv, Correction!OutOfAttempts
  <1> QED
    BY <1>2, <1>3, <1>4, <1>5, <1>6 DEF Correction!Next

LEMMA CorrectionProperty ==
  ASSUME CorrectionInv
  PROVE  Correction!CorrectionWasProved
  BY DEF CorrectionInv, Correction!IInv, Correction!CorrectionWasProved,
         Correction!EscExitsCleanly

-----------------------------------------------------------------------------
(* The system orchestrator                                                 *)

SystemInv == Orchestration!TypeOK /\ Orchestration!IInv

LEMMA SystemInit ==
  ASSUME Orchestration!Init
  PROVE  SystemInv
  <1> DEFINE found == {Missing} \cup Orchestration!Verdicts(Components \cup {Earlier})
  <1>1. Orchestration!TypeOK
    <2>1. [owner |-> Earlier, good |-> TRUE] \in found /\ Missing \in found
      BY DEF Orchestration!Verdicts
    <2> HIDE DEF found
    <2>2. files \in [Places -> found] /\ collected \in [Components -> found]
      BY <2>1 DEF Orchestration!Init
    <2> QED
      BY <2>2 DEF found, Orchestration!Init, Orchestration!TypeOK
  <1>2. Orchestration!IInv
    BY DEF Orchestration!Init, Orchestration!IInv, Orchestration!OwnFile
  <1> QED
    BY <1>1, <1>2 DEF SystemInv

\* A component that a step leaves alone keeps what it has.
LEMMA KeepsOwnFile ==
  ASSUME NEW d \in Components, Orchestration!OwnFile(d),
         worker'[d] = worker[d], exit'[d] = exit[d], collected'[d] = collected[d],
         files'[place'[d]] = files[place[d]]
  PROVE  Orchestration!OwnFile(d)'
  BY DEF Orchestration!OwnFile, Orchestration!Failed

\* The steps of one worker: what they do to the files of the others is nothing.
LEMMA WorkerStep ==
  ASSUME SystemInv, NEW c \in Components,
         \/ Orchestration!Start(c) \/ Orchestration!Write(c) \/ Orchestration!Exit(c)
         \/ Orchestration!Die(c) \/ Orchestration!Collect(c) \/ Orchestration!Prove(c)
  PROVE  SystemInv'
  <1>1. /\ Orchestration!TypeOK /\ Orchestration!IInv
        /\ UNCHANGED <<mode, place, gated, system>>
    BY DEF SystemInv, Orchestration!Start, Orchestration!Write, Orchestration!Exit,
           Orchestration!Die, Orchestration!Collect, Orchestration!Prove
  <1>2. /\ worker[c] # "done" /\ system # "verified"
    <2>1. worker[c] # "done"
      BY DEF Orchestration!Start, Orchestration!Write, Orchestration!Exit,
             Orchestration!Die, Orchestration!Collect, Orchestration!Prove
    <2> QED
      BY <1>1, <2>1 DEF Orchestration!IInv
  <1>3. \A d \in Components : d # c =>
          worker'[d] = worker[d] /\ exit'[d] = exit[d] /\ collected'[d] = collected[d]
    BY <1>1
    DEF Orchestration!TypeOK, Orchestration!Start, Orchestration!Write,
        Orchestration!Exit, Orchestration!Die, Orchestration!Collect, Orchestration!Prove
  <1>4. \A p \in Places : p # place[c] => files'[p] = files[p]
    BY <1>1
    DEF Orchestration!TypeOK, Orchestration!Start, Orchestration!Write,
        Orchestration!Exit, Orchestration!Die, Orchestration!Collect, Orchestration!Prove
  <1>5. Orchestration!Distinct' = Orchestration!Distinct
    BY <1>1 DEF Orchestration!Distinct
  <1>6. ASSUME Orchestration!Distinct, NEW d \in Components, d # c
        PROVE  Orchestration!OwnFile(d)'
    <2>1. Orchestration!OwnFile(d)
      BY <1>1, <1>6 DEF Orchestration!IInv
    <2>2. place[d] # place[c] /\ place[d] \in Places /\ place'[d] = place[d]
      BY <1>1, <1>6 DEF Orchestration!Distinct, Orchestration!TypeOK
    <2> QED
      BY <1>3, <1>4, <1>6, <2>1, <2>2, KeepsOwnFile
  <1>7. /\ place[c] \in Places /\ DOMAIN worker = Components /\ DOMAIN exit = Components
        /\ DOMAIN collected = Components /\ DOMAIN files = Places
    BY <1>1 DEF Orchestration!TypeOK
  <1>8. ASSUME Orchestration!TypeOK', Orchestration!Distinct => Orchestration!OwnFile(c)'
        PROVE  SystemInv'
    <2>1. Orchestration!Distinct' => \A d \in Components : Orchestration!OwnFile(d)'
      BY <1>5, <1>6, <1>8
    <2> QED
      BY <1>1, <1>2, <1>5, <1>8, <2>1 DEF SystemInv, Orchestration!IInv
  <1>9. CASE Orchestration!Start(c)
    <2>1. Orchestration!TypeOK'
      BY <1>1, <1>9 DEF Orchestration!TypeOK, Orchestration!Start
    <2>2. worker'[c] = "running"
      BY <1>7, <1>9 DEF Orchestration!Start
    <2> QED
      BY <1>8, <2>1, <2>2 DEF Orchestration!OwnFile
  <1>10. CASE Orchestration!Write(c)
    <2>1. PICK good \in BOOLEAN :
            files' = [files EXCEPT ![place[c]] = [owner |-> c, good |-> good]]
      BY <1>10 DEF Orchestration!Write
    <2>2. [owner |-> c, good |-> good] \in
            {Missing} \cup Orchestration!Verdicts(Components \cup {Earlier})
      BY DEF Orchestration!Verdicts
    <2>3. files' \in
            [Places -> {Missing} \cup Orchestration!Verdicts(Components \cup {Earlier})]
      BY <1>1, <2>1, <2>2 DEF Orchestration!TypeOK
    <2>4. Orchestration!TypeOK'
      BY <1>1, <1>10, <2>3 DEF Orchestration!TypeOK, Orchestration!Write
    <2>5. worker'[c] = "written" /\ files'[place'[c]] = [owner |-> c, good |-> good]
      BY <1>1, <1>7, <1>10, <2>1 DEF Orchestration!Write
    <2>6. [owner |-> c, good |-> good] \in Orchestration!Verdicts({c})
      BY <2>1 DEF Orchestration!Verdicts
    <2>7. files'[place'[c]] \in Orchestration!Verdicts({c})
      BY <2>5, <2>6
    <2>8. Orchestration!OwnFile(c)'
      BY <2>5, <2>7 DEF Orchestration!OwnFile
    <2> QED
      BY <1>8, <2>4, <2>8
  <1>11. CASE Orchestration!Exit(c)
    <2>1. Orchestration!TypeOK' /\ worker'[c] = "exited" /\ worker[c] = "written"
      <3>1. /\ worker[c] = "written" /\ worker' = [worker EXCEPT ![c] = "exited"]
        BY <1>11 DEF Orchestration!Exit
      <3>2. Orchestration!TypeOK'
        BY <1>1, <1>11, <3>1 DEF Orchestration!TypeOK, Orchestration!Exit
      <3>3. worker'[c] = "exited"
        BY <1>1, <3>1 DEF Orchestration!TypeOK
      <3> QED
        BY <3>1, <3>2, <3>3
    <2>2. files' = files
      BY <1>11 DEF Orchestration!Exit
    <2>3. Orchestration!Distinct => files[place[c]] \in Orchestration!Verdicts({c})
      BY <1>1, <2>1 DEF Orchestration!IInv, Orchestration!OwnFile
    <2> QED
      BY <1>1, <1>8, <2>1, <2>2, <2>3 DEF Orchestration!OwnFile
  <1>12. CASE Orchestration!Die(c)
    <2>1. Orchestration!TypeOK' /\ worker'[c] = "exited" /\ exit'[c] = 127
      BY <1>1, <1>7, <1>12 DEF Orchestration!TypeOK, Orchestration!Die
    <2> QED
      BY <1>8, <2>1 DEF Orchestration!OwnFile
  <1>13. CASE Orchestration!Collect(c)
    <2>1. /\ worker[c] = "exited" /\ worker'[c] = "done" /\ UNCHANGED <<files, exit>>
          /\ collected'[c] = files[place[c]]
          /\ files[place[c]] \in
               {Missing} \cup Orchestration!Verdicts(Components \cup {Earlier})
      BY <1>1, <1>7, <1>13 DEF Orchestration!TypeOK, Orchestration!Collect
    <2>2. Orchestration!TypeOK'
      BY <1>1, <1>13, <2>1 DEF Orchestration!TypeOK, Orchestration!Collect
    <2>3. Orchestration!Distinct /\ exit[c] = 0 =>
            files[place[c]] \in Orchestration!Verdicts({c})
      BY <1>1, <2>1 DEF Orchestration!IInv, Orchestration!OwnFile
    <2> QED
      BY <1>1, <1>8, <2>1, <2>2, <2>3
      DEF Orchestration!OwnFile, Orchestration!Failed, Orchestration!Verdicts
  <1>14. CASE Orchestration!Prove(c)
    <2> DEFINE good == files[place[c]] = [owner |-> c, good |-> TRUE]
    <2>1. /\ worker[c] = "written" /\ worker'[c] = "done" /\ UNCHANGED <<files, exit>>
          /\ collected' = [collected EXCEPT ![c] = [owner |-> c, good |-> good]]
          /\ collected'[c] = [owner |-> c, good |-> good]
      BY <1>7, <1>14 DEF Orchestration!Prove
    <2>2. good \in BOOLEAN
      OBVIOUS
    <2>3. [owner |-> c, good |-> good] \in
            {Missing} \cup Orchestration!Verdicts(Components \cup {Earlier})
      <3> HIDE DEF good
      <3> QED
        BY <2>2 DEF Orchestration!Verdicts
    <2>4. collected' \in
            [Components -> {Missing} \cup Orchestration!Verdicts(Components \cup {Earlier})]
      BY <1>1, <2>1, <2>3 DEF Orchestration!TypeOK
    <2>5. Orchestration!TypeOK'
      BY <1>1, <1>14, <2>4 DEF Orchestration!TypeOK, Orchestration!Prove
    <2>6. ~ Orchestration!Failed(c)' => good
      <3>1. collected'[c].good = good
        BY <2>1
      <3> QED
        BY <3>1 DEF Orchestration!Failed
    <2> QED
      BY <1>1, <1>8, <2>1, <2>5, <2>6 DEF Orchestration!OwnFile
  <1> QED
    BY <1>9, <1>10, <1>11, <1>12, <1>13, <1>14

LEMMA SystemStep ==
  ASSUME SystemInv, Orchestration!Next
  PROVE  SystemInv'
  <1>1. Orchestration!TypeOK /\ Orchestration!IInv
    BY DEF SystemInv
  <1>2. CASE Orchestration!Parse
    <2>1. /\ system = "start" /\ UNCHANGED <<mode, place, worker, files, exit, collected, gated>>
          /\ system' \in {"invalid", "working"}
          /\ system' = "working" /\ mode = "verify" => Orchestration!Distinct
      BY <1>2 DEF Orchestration!Parse
    <2>2. \A d \in Components : Orchestration!OwnFile(d)' = Orchestration!OwnFile(d)
      BY <2>1 DEF Orchestration!OwnFile, Orchestration!Failed
    <2>3. Orchestration!TypeOK'
      BY <1>1, <2>1 DEF Orchestration!TypeOK
    <2> QED
      BY <1>1, <2>1, <2>2, <2>3 DEF SystemInv, Orchestration!IInv, Orchestration!Distinct
  <1>3. CASE Orchestration!Aggregate
    <2>1. /\ system = "working" /\ UNCHANGED <<mode, place, worker, files, exit, collected>>
          /\ \A c \in Components : worker[c] = "done"
          /\ system' \in {"failed", "verified"} /\ gated' \in {gated, gated + 1}
          /\ system' = "verified" =>
               /\ \A c \in Components : ~ Orchestration!Failed(c)
               /\ mode = "verify" => gated' = gated + 1
      BY <1>3 DEF Orchestration!Aggregate
    <2>2. gated = 0
      BY <1>1, <2>1 DEF Orchestration!IInv
    <2>3. \A d \in Components : /\ Orchestration!OwnFile(d)' = Orchestration!OwnFile(d)
                                /\ Orchestration!Failed(d)' = Orchestration!Failed(d)
      BY <2>1 DEF Orchestration!OwnFile, Orchestration!Failed
    <2>4. Orchestration!TypeOK'
      <3>1. gated' \in Nat
        BY <2>1, <2>2
      <3> QED
        BY <1>1, <2>1, <3>1 DEF Orchestration!TypeOK
    <2> QED
      BY <1>1, <2>1, <2>2, <2>3, <2>4
      DEF SystemInv, Orchestration!IInv, Orchestration!Distinct
  <1> QED
    BY <1>2, <1>3, WorkerStep DEF Orchestration!Next

LEMMA SystemProperty ==
  ASSUME SystemInv
  PROVE  Orchestration!SystemIsItsComponents
  <1> SUFFICES ASSUME system = "verified", mode # "verify" => Orchestration!Distinct
               PROVE  /\ \A c \in Components :
                           /\ collected[c] = [owner |-> c, good |-> TRUE]
                           /\ files[place[c]] = collected[c]
                      /\ gated <= 1 /\ (mode = "verify" => gated = 1)
    BY DEF Orchestration!SystemIsItsComponents
  <1>1. Orchestration!IInv
    BY DEF SystemInv
  <1>2. Orchestration!Distinct
    BY <1>1 DEF Orchestration!IInv
  <1> QED
    BY <1>1, <1>2 DEF Orchestration!IInv, Orchestration!OwnFile

-----------------------------------------------------------------------------
(* The parts together                                                      *)

PolicyInv == Policy!TypeOK /\ Policy!IInv

LEMMA InvIs ==
  ClaimsInv <=> /\ part \in Parts
                /\ part = "policy" => PolicyInv
                /\ part = "loop" => LoopInv
                /\ part = "correction" => CorrectionInv
                /\ part = "system" => SystemInv
  BY DEF ClaimsInv, TypeOK, PolicyInv, LoopInv, CorrectionInv, SystemInv

\* A step that changes nothing keeps what is known of the part.
LEMMA NothingChanges ==
  ASSUME UNCHANGED claimVars, ClaimsInv
  PROVE  ClaimsInv'
  <1>1. /\ part' = part /\ UNCHANGED policyVars /\ UNCHANGED loopVars
        /\ UNCHANGED correctionVars /\ UNCHANGED systemVars
    BY DEF claimVars
  <1>3. ASSUME PolicyInv
        PROVE  PolicyInv'
    BY <1>1, <1>3
    DEF policyVars, PolicyInv, Policy!TypeOK, Policy!IInv, Policy!Decide,
        Policy!SemanticStatus, Policy!Claim, Policy!Satisfied, Policy!Completed,
        Policy!Dropped, Policy!Complete, Policy!Contradicted, Policy!MarkerDropped,
        Policy!Counted, Policy!AllProved, Policy!Classify, Policy!Tool, Policy!Mode
  <1>4. ASSUME LoopInv
        PROVE  LoopInv'
    <2>1. UNCHANGED loopVars
      BY <1>1
    <2>2. Loops!TypeOK'
      BY <1>4, <2>1 DEF loopVars, LoopInv, Loops!TypeOK
    <2>3. /\ Loops!NoProgressStops' <=> Loops!NoProgressStops
          /\ Loops!WithinBudget' <=> Loops!WithinBudget
      <3>1. Loops!NoProgressStops' <=> Loops!NoProgressStops
        BY <2>1 DEF loopVars, Loops!NoProgressStops, Loops!Fingerprint
      <3>2. Loops!WithinBudget' <=> Loops!WithinBudget
        BY <2>1 DEF loopVars, Loops!WithinBudget, Loops!AttemptLimit
      <3> QED
        BY <3>1, <3>2
    <2>4. (Loops!Succeeded' <=> Loops!Succeeded) /\ (Loops!Accepted' <=> Loops!Accepted)
      BY <2>1 DEF loopVars, Loops!Succeeded, Loops!Accepted, Loops!Status
    <2> QED
      BY <1>4, <2>1, <2>2, <2>3, <2>4 DEF loopVars, LoopInv, Loops!IInv
  <1>5. ASSUME CorrectionInv
        PROVE  CorrectionInv'
    BY <1>1, <1>5
    DEF correctionVars, CorrectionInv, Correction!TypeOK, Correction!IInv,
        Correction!EscExitsCleanly
  <1>6. ASSUME SystemInv
        PROVE  SystemInv'
    BY <1>1, <1>6
    DEF systemVars, SystemInv, Orchestration!TypeOK, Orchestration!IInv,
        Orchestration!Distinct, Orchestration!OwnFile, Orchestration!Failed
  <1> QED
    BY <1>1, <1>3, <1>4, <1>5, <1>6
    DEF ClaimsInv, TypeOK, PolicyInv, LoopInv, CorrectionInv, SystemInv

LEMMA InvInit ==
  ASSUME ClaimsInit
  PROVE  ClaimsInv
  <1>1. part \in Parts
    BY DEF ClaimsInit
  <1>3. part = "policy" => PolicyInv
    BY PolicyInit DEF ClaimsInit, PolicyInv
  <1>4. part = "loop" => LoopInv
    BY LoopInit DEF ClaimsInit
  <1>5. part = "correction" => CorrectionInv
    BY CorrectionInit DEF ClaimsInit
  <1>6. part = "system" => SystemInv
    BY SystemInit DEF ClaimsInit
  <1> QED
    BY <1>1, <1>3, <1>4, <1>5, <1>6, InvIs

LEMMA InvNext ==
  ASSUME ClaimsInv, [ClaimsNext]_claimVars
  PROVE  ClaimsInv'
  <1>1. CASE ClaimsNext
    <2>1. part \in Parts /\ part' = part
      BY <1>1, InvIs DEF ClaimsNext
    <2>3. part = "policy" => PolicyInv'
      BY <1>1, InvIs, PolicyStep DEF ClaimsNext, PolicyInv
    <2>4. part = "loop" => LoopInv'
      BY <1>1, InvIs, LoopStep DEF ClaimsNext
    <2>5. part = "correction" => CorrectionInv'
      BY <1>1, InvIs, CorrectionStep DEF ClaimsNext
    <2>6. part = "system" => SystemInv'
      BY <1>1, InvIs, SystemStep DEF ClaimsNext
    <2> QED
      BY <2>1, <2>3, <2>4, <2>5, <2>6
      DEF ClaimsInv, TypeOK, PolicyInv, LoopInv, CorrectionInv, SystemInv
  <1>2. CASE UNCHANGED claimVars
    BY <1>2, NothingChanges
  <1> QED
    BY <1>1, <1>2

(***************************************************************************)
(* Whatever part runs, its inductive invariant holds: a normalised payload *)
(* is its own decision, a successful loop holds the source that the tools  *)
(* took, a verified correction was proved, and a worker's file is its own  *)
(* while component names are unique.                                       *)
(***************************************************************************)
THEOREM Invariance == ClaimsSpec => []ClaimsInv
  BY InvInit, InvNext, PTL DEF ClaimsSpec

\* Every variable of the part that runs keeps its type.
THEOREM Typed == ClaimsSpec => []TypeOK
  <1>1. ClaimsInv => TypeOK
    BY DEF ClaimsInv
  <1> QED
    BY <1>1, Invariance, PTL

(***************************************************************************)
(* decide_result never turns a payload with a negative field into a proof, *)
(* and deciding again changes neither the claim nor the status, through    *)
(* however many layers the payload travels.                                *)
(***************************************************************************)
THEOREM Monotone == ClaimsSpec => NeverStrengthened
  <1>1. ASSUME ClaimsInv, [ClaimsNext]_claimVars
        PROVE  [part = "policy" => Policy!KeepsDecision]_policyVars
    <2>1. CASE ClaimsNext
      BY <1>1, <2>1, InvIs, PolicyStep DEF ClaimsNext, PolicyInv
    <2>2. CASE UNCHANGED claimVars
      BY <2>2 DEF claimVars
    <2> QED
      BY <1>1, <2>1, <2>2
  <1> QED
    BY <1>1, Invariance, PTL DEF ClaimsSpec, NeverStrengthened

(***************************************************************************)
(* What a repair loop hands over as proved or as VERIFIED is the last      *)
(* source it tried, which the tools accepted, and a draft is called        *)
(* checked, never proved; what behaviour correction hands over as verified *)
(* was discharged, against the recorded contract if the strengthened       *)
(* source was.                                                             *)
(***************************************************************************)
THEOREM Delivered == ClaimsSpec => []ClaimIsTheCodes
  <1>1. ClaimsInv => ClaimIsTheCodes
    BY InvIs, LoopProperties, CorrectionProperty DEF ClaimIsTheCodes
  <1> QED
    BY <1>1, Invariance, PTL

(***************************************************************************)
(* From its third attempt on, a repair loop goes on only after a source    *)
(* and failing rows that it had not seen before; and beyond the first call *)
(* of the model it keeps its budgets.                                      *)
(***************************************************************************)
THEOREM Stops == ClaimsSpec => []LoopStops
  <1>1. ClaimsInv => LoopStops
    BY InvIs, LoopProperties DEF LoopStops
  <1> QED
    BY <1>1, Invariance, PTL

(***************************************************************************)
(* While component names are unique, a verified system is one whose        *)
(* components were all verified by their own workers, in their own files,  *)
(* and whose composition gate ran once.                                    *)
(***************************************************************************)
THEOREM SystemVerified == ClaimsSpec => []SystemIsItsComponents
  <1>1. ClaimsInv => SystemIsItsComponents
    BY InvIs, SystemProperty DEF SystemIsItsComponents
  <1> QED
    BY <1>1, Invariance, PTL

=============================================================================
