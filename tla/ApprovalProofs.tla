---------------------------- MODULE ApprovalProofs ----------------------------
(***************************************************************************)
(* Proofs about Approval, for any number of reviewers, of calls of execute *)
(* and of signers, of edits, of deaths and of signatures.                  *)
(***************************************************************************)
EXTENDS Approval, TLAPS

Inv == TypeOK /\ IInv

\* What no step takes back.
Stands ==
  /\ voted \subseteq voted' /\ (withdrawn => withdrawn')
  /\ Authentic /\ ~withdrawn' => decision' = decision /\ approval' = approval
  /\ request \in Files => request' = request
  /\ signature # Absent => signature' = signature

-----------------------------------------------------------------------------
(* The files and the processes                                             *)

LEMMA Distinct ==
  /\ Absent # Torn /\ Absent \notin Files /\ Torn \notin Files
  /\ Absent \notin Decisions /\ Torn \notin Decisions
  /\ Absent \notin Signatures
  /\ Absent \notin Receipts /\ Torn \notin Receipts
  /\ Absent \notin Executors /\ Absent \notin Signers
  BY ApprovalAssumption

LEMMA IdleIsCall == Idle \in Call
  BY DEF Idle, Call

LEMMA NoSignerIsSigner == NoSigner \in Signer
  BY ApprovalAssumption DEF NoSigner, Signer

LEMMA Unpacked ==
  ASSUME Inv
  PROVE  /\ DecisionInv
         /\ \A e \in Executors : calls[e] \in Call /\ CallInv(e)
         /\ \A s \in Signers : signers[s] \in Signer /\ SignerInv(s)
         /\ signature # Absent => Approved /\ signature.over = request.artifact
         /\ receipt \in Receipts => Owed(receipt)
         /\ \A p \in People : deciding[p] \in Writer
  BY DEF Inv, IInv, TypeOK

LEMMA VotedIsOfFiles ==
  ASSUME Inv, NEW verdict, Voted(verdict)
  PROVE  request \in Files
  BY Unpacked DEF DecisionInv, Voted

-----------------------------------------------------------------------------
(* What a step keeps of those it does not move                             *)

LEMMA VotedStays ==
  ASSUME Inv, Stands, NEW verdict, Voted(verdict)
  PROVE  Voted(verdict)' /\ request' = request
  <1>1. verdict \in voted' /\ request' = request
    BY VotedIsOfFiles DEF Stands, Voted
  <1>2. ASSUME ~withdrawn'
        PROVE  Authentic' /\ decision' = decision /\ decision.verdict = verdict
    BY <1>2 DEF Stands, Voted, Authentic
  <1> QED
    BY <1>1, <1>2 DEF Voted

LEMMA ApprovedStays ==
  ASSUME Inv, Stands, Approved
  PROVE  Approved' /\ request' = request
  BY VotedStays DEF Approved

LEMMA OwedStays ==
  ASSUME Inv, Stands, signature' # signature => Approved, NEW value, Owed(value)
  PROVE  Owed(value)'
  <1>1. CASE value.status = "SIGNED"
    <2>1. Voted("approve") /\ signature' = signature /\ signature # Absent
          /\ value.signature = signature
      BY <1>1 DEF Owed, Stands
    <2> QED
      BY <1>1, <2>1, VotedStays DEF Owed
  <1>2. CASE value.status # "SIGNED"
    <2>1. Voted("deny") /\ value.signature = Absent /\ (~withdrawn => signature = Absent)
      BY <1>2 DEF Owed
    <2>2. ~withdrawn' => ~withdrawn
      BY DEF Stands
    <2>3. ~withdrawn => ~Approved
      BY <2>1 DEF Approved, Voted
    <2>4. ~withdrawn' => signature' = Absent
      BY <2>1, <2>2, <2>3
    <2> QED
      BY <1>2, <2>1, <2>4, VotedStays DEF Owed
  <1> QED
    BY <1>1, <1>2

LEMMA OtherCall ==
  ASSUME Inv, Stands, signature' # signature => Approved,
         NEW e \in Executors, calls'[e] = calls[e], lock' = e <=> lock = e
  PROVE  CallInv(e)'
  <1>1. CallInv(e)
    BY Unpacked
  <1>2. calls[e].pc \in {"bind", "sign", "wait", "verify"} => Approved'
    BY <1>1, ApprovedStays DEF CallInv
  <1>3. calls[e].pc = "verify" => signature' # Absent
    BY <1>1 DEF CallInv, Stands
  <1>4. calls[e].pc \in {"write", "fill"} => Owed(calls[e].receipt)'
    <2>1. ASSUME calls[e].pc \in {"write", "fill"}
          PROVE  Owed(calls[e].receipt)
      BY <1>1, <2>1 DEF CallInv
    <2>2. \A value : Owed(value) => Owed(value)'
      BY OwedStays
    <2> QED
      BY <2>1, <2>2 DEF Owed, Voted
  <1> QED
    BY <1>1, <1>2, <1>3, <1>4 DEF CallInv

LEMMA OtherSigner ==
  ASSUME Inv, Stands, NEW s \in Signers,
         \/ signers'[s] = signers[s]
         \/ signers'[s].pc \in {"idle", "start", "done", "failed"}
  PROVE  SignerInv(s)'
  BY Unpacked, ApprovedStays DEF SignerInv

LEMMA FilesStay ==
  ASSUME Inv, Stands, UNCHANGED signature
  PROVE  signature' # Absent => Approved' /\ signature'.over = request'.artifact
  BY Unpacked, ApprovedStays

LEMMA ReceiptStays ==
  ASSUME Inv, Stands, signature' # signature => Approved, UNCHANGED receipt
  PROVE  receipt' \in Receipts => Owed(receipt)'
  <1>1. receipt \in Receipts => Owed(receipt)
    BY Unpacked
  <1>2. \A value : Owed(value) => Owed(value)'
    BY OwedStays
  <1> QED
    BY <1>1, <1>2 DEF Owed, Voted

-----------------------------------------------------------------------------
(* The request and the people who decide it                                *)

LEMMA OthersWork ==
  ASSUME Inv, Stands, DecisionInv', UNCHANGED <<signature, receipt, lock, calls, signers>>
  PROVE  IInv'
  <1>1. \A e \in Executors : CallInv(e)'
    BY OtherCall
  <1>2. \A s \in Signers : SignerInv(s)'
    BY OtherSigner
  <1> QED
    BY <1>1, <1>2, FilesStay, ReceiptStays DEF IInv

LEMMA RequestStep ==
  ASSUME Inv, CreateRequest \/ FillRequest \/ Edit \/ Expire
  PROVE  TypeOK' /\ Stands /\ IInv'
  <1>1. TypeOK'
    <2>1. CASE CreateRequest
      BY <2>1 DEF CreateRequest, people, Inv, TypeOK
    <2>2. CASE FillRequest
      BY <2>2 DEF FillRequest, people, Inv, TypeOK
    <2>3. CASE Edit
      BY <2>3, ApprovalAssumption DEF Edit, people, Inv, TypeOK, Files, Versions
    <2>4. CASE Expire
      BY <2>4 DEF Expire, people, Inv, TypeOK
    <2> QED
      BY <2>1, <2>2, <2>3, <2>4
  <1>2. UNCHANGED <<people, signature, receipt, lock, calls, signers>>
    BY DEF CreateRequest, FillRequest, Edit, Expire, people
  <1>3. request \in Files => request' = request
    BY Distinct DEF CreateRequest, FillRequest, Edit, Expire
  <1>4. Stands
    BY <1>2, <1>3 DEF Stands, people
  <1>5. request \notin Files => decision' = Absent /\ voted' = {}
    BY <1>2, Unpacked DEF DecisionInv, people
  <1>6. DecisionInv'
    BY <1>2, <1>3, <1>5, Unpacked DEF DecisionInv, Authentic, people
  <1> QED
    BY <1>1, <1>2, <1>4, <1>6, OthersWork DEF people

LEMMA NobodyElseDecides ==
  ASSUME Inv, NEW p \in People, deciding[p].pc # "idle"
  PROVE  /\ deciding[p].pc # "check" => approval = Absent
         /\ deciding[p].pc \in {"gpg", "orphan", "check", "undo"} =>
              decision = [verdict |-> deciding[p].verdict, by |-> p] /\ decision \in Decisions
         /\ request \in Files
         /\ \A q \in People : q # p => deciding[q].pc = "idle"
  <1>1. deciding[p].pc \in {"fill", "gpg", "check", "undo", "orphan"}
        /\ deciding[p].verdict \in Verdicts
    BY Unpacked DEF Writer
  <1>2. DecisionInv
    BY Unpacked
  <1>3. \A q \in People : q # p => deciding[q].pc = "idle"
    BY <1>2 DEF DecisionInv
  <1>4. deciding[p].pc = "fill" => decision = Torn
    BY <1>2 DEF DecisionInv
  <1>5. deciding[p].pc # "fill" => decision = [verdict |-> deciding[p].verdict, by |-> p]
    BY <1>1, <1>2 DEF DecisionInv
  <1>6. [verdict |-> deciding[p].verdict, by |-> p] \in Decisions
    BY <1>1 DEF Decisions
  <1>7. deciding[p].pc # "check" => approval = Absent
    BY <1>1, <1>2, <1>4, Distinct DEF DecisionInv
  <1>8. request \in Files
    BY <1>2, <1>4, <1>5, <1>6, Distinct DEF DecisionInv
  <1> QED
    BY <1>1, <1>3, <1>5, <1>6, <1>7, <1>8

\* Where a step of a recorder leads, and whom it leaves alone.
LEMMA Moved ==
  ASSUME Inv, NEW p \in People, PersonStep(p)
  PROVE  /\ UNCHANGED <<files, signature, receipt, lock, calls, signers, signings>>
         /\ deciding' \in [People -> Writer] /\ crashes' \in 0 .. MaxCrashes
         /\ \A q \in People : q # p => deciding'[q] = deciding[q]
  <1>1. deciding \in [People -> Writer] /\ deciding[p] \in Writer
        /\ crashes \in 0 .. MaxCrashes
    BY DEF Inv, TypeOK
  <1>2. CASE \E verdict \in Verdicts : BeginDecision(p, verdict)
    BY <1>1, <1>2 DEF BeginDecision, Writer
  <1>3. CASE FillDecision(p)
    BY <1>1, <1>3 DEF FillDecision, Writer
  <1>4. CASE SignDecision(p)
    BY <1>1, <1>4 DEF SignDecision, Writer
  <1>5. CASE RecordDecision(p)
    BY <1>1, <1>5 DEF RecordDecision, Writer
  <1>6. CASE AbandonDecision(p)
    <2>1. crashes' \in 0 .. MaxCrashes
      BY <1>1, <1>6, ApprovalAssumption DEF AbandonDecision
    <2> QED
      BY <1>1, <1>6, <2>1 DEF AbandonDecision, Writer
  <1>7. CASE RemoveDecision(p)
    BY <1>1, <1>7 DEF RemoveDecision, Writer
  <1>8. CASE PersonDies(p)
    <2>1. crashes' \in 0 .. MaxCrashes
      BY <1>1, <1>8, ApprovalAssumption DEF PersonDies
    <2> QED
      BY <1>1, <1>8, <2>1 DEF PersonDies, Writer
  <1> QED
    BY <1>2, <1>3, <1>4, <1>5, <1>6, <1>7, <1>8 DEF PersonStep

LEMMA Resting ==
  ASSUME Inv, decision = Absent
  PROVE  \A q \in People : deciding[q].pc = "idle"
  BY NobodyElseDecides, Unpacked, Distinct DEF DecisionInv, Writer

\* A decision that is on file and authentic changes only at the hands of its own
\* recorder, which then says so.
LEMMA PersonStands ==
  ASSUME Inv, NEW p \in People, PersonStep(p)
  PROVE  /\ Stands
         /\ Authentic /\ deciding[Reviewer].pc = "idle" =>
              decision' = decision /\ approval' = approval
  <1>1. UNCHANGED <<files, signature>>
    BY Moved
  <1>2. voted \subseteq voted' /\ (withdrawn => withdrawn')
    <2>1. CASE SignDecision(p)
      BY <2>1 DEF SignDecision
    <2>2. CASE AbandonDecision(p)
      BY <2>2 DEF AbandonDecision
    <2>3. CASE \/ FillDecision(p) \/ RecordDecision(p) \/ RemoveDecision(p) \/ PersonDies(p)
               \/ \E verdict \in Verdicts : BeginDecision(p, verdict)
      BY <2>3 DEF FillDecision, RecordDecision, RemoveDecision, PersonDies, BeginDecision
    <2> QED
      BY <2>1, <2>2, <2>3 DEF PersonStep
  <1>3. ASSUME Authentic
        PROVE  /\ ~withdrawn' => decision' = decision /\ approval' = approval
               /\ deciding[Reviewer].pc = "idle" =>
                    decision' = decision /\ approval' = approval
    <2>1. CASE RecordDecision(p) \/ PersonDies(p)
      BY <2>1 DEF RecordDecision, PersonDies
    <2>2. CASE FillDecision(p) \/ SignDecision(p) \/ RemoveDecision(p)
      BY <1>3, <2>2, NobodyElseDecides
      DEF FillDecision, SignDecision, RemoveDecision, Authentic
    <2>3. CASE AbandonDecision(p)
      <3>1. withdrawn' /\ deciding[p].pc \in {"gpg", "check"}
        BY <1>3, <2>3 DEF AbandonDecision
      <3>2. decision = [verdict |-> deciding[p].verdict, by |-> p]
        BY <3>1, NobodyElseDecides
      <3>3. approval # Absent /\ approval.key = Reviewer /\ approval.key = decision.by
        BY <1>3, Unpacked DEF Authentic, DecisionInv
      <3>4. p = Reviewer
        BY <3>2, <3>3
      <3> QED
        BY <3>1, <3>4
    <2>4. CASE \E verdict \in Verdicts : BeginDecision(p, verdict)
      BY <1>3, <2>4, Distinct DEF BeginDecision, Authentic
    <2> QED
      BY <2>1, <2>2, <2>3, <2>4 DEF PersonStep
  <1> QED
    BY <1>1, <1>2, <1>3 DEF Stands, files

LEMMA PersonTypes ==
  ASSUME Inv, NEW p \in People, PersonStep(p)
  PROVE  TypeOK'
  <1>1. TypeOK /\ deciding[p] \in Writer
    BY DEF Inv, TypeOK
  <1>2. UNCHANGED <<request, live, expired, edits>>
    BY Moved DEF files
  <1>3. /\ decision' \in Decisions \cup {Absent, Torn}
        /\ approval' \in [key : People, over : Decisions] \cup {Absent}
        /\ voted' \in SUBSET Verdicts /\ withdrawn' \in BOOLEAN
    <2>1. CASE \E verdict \in Verdicts : BeginDecision(p, verdict)
      BY <1>1, <2>1 DEF BeginDecision, TypeOK
    <2>2. CASE FillDecision(p)
      <3>1. [verdict |-> deciding[p].verdict, by |-> p] \in Decisions
        BY <1>1 DEF Writer, Decisions
      <3> QED
        BY <1>1, <2>2, <3>1 DEF FillDecision, TypeOK
    <2>3. CASE SignDecision(p)
      <3>1. decision \in Decisions
        BY <2>3, NobodyElseDecides DEF SignDecision
      <3>2. decision.verdict \in Verdicts
        BY <3>1 DEF Decisions
      <3> QED
        BY <1>1, <2>3, <3>1, <3>2 DEF SignDecision, TypeOK
    <2>4. CASE AbandonDecision(p)
      BY <1>1, <2>4 DEF AbandonDecision, TypeOK, Authentic
    <2>5. CASE RecordDecision(p) \/ RemoveDecision(p) \/ PersonDies(p)
      BY <1>1, <2>5 DEF RecordDecision, RemoveDecision, PersonDies, TypeOK
    <2> QED
      BY <2>1, <2>2, <2>3, <2>4, <2>5 DEF PersonStep
  <1> QED
    BY <1>1, <1>2, <1>3, Moved DEF TypeOK

\* What a recorder's step has to show of the decision.
LEMMA OneDecides ==
  ASSUME Inv, NEW p \in People, PersonStep(p),
         \A q \in People : q # p => deciding[q].pc = "idle",
         request \in Files,
         decision' \notin Decisions => approval' = Absent,
         approval' # Absent => approval'.over = decision' /\ approval'.key = decision'.by,
         Authentic' => decision'.verdict \in voted',
         deciding'[p].pc = "fill" => decision' = Torn,
         deciding'[p].pc \in {"gpg", "orphan", "check", "undo"} =>
           decision' = [verdict |-> deciding'[p].verdict, by |-> p],
         deciding'[p].pc \in {"gpg", "orphan", "undo"} => approval' = Absent
  PROVE  DecisionInv'
  <1>1. /\ request' = request
        /\ \A q \in People : q # p => deciding'[q] = deciding[q]
    BY Moved DEF files
  <1>2. \A q \in People : q # p => deciding'[q].pc = "idle"
    BY <1>1
  <1> QED
    BY <1>1, <1>2 DEF DecisionInv

LEMMA PersonDecides ==
  ASSUME Inv, NEW p \in People, PersonStep(p)
  PROVE  DecisionInv'
  <1>1. deciding \in [People -> Writer] /\ deciding[p] \in Writer
    BY DEF Inv, TypeOK
  <1>2. CASE \E verdict \in Verdicts : BeginDecision(p, verdict)
    <2>1. \A q \in People : deciding[q].pc = "idle"
      BY <1>2, Resting DEF BeginDecision
    <2>2. /\ deciding'[p].pc = "fill" /\ decision' = Torn /\ request \in Files
          /\ approval' = Absent
      BY <1>1, <1>2, Unpacked, Distinct DEF BeginDecision, DecisionInv
    <2> QED
      BY <2>1, <2>2, Distinct, OneDecides DEF Authentic
  <1>3. CASE FillDecision(p)
    <2>1. /\ deciding[p].pc = "fill" /\ deciding'[p].pc = "gpg"
          /\ deciding'[p].verdict = deciding[p].verdict
          /\ decision' = [verdict |-> deciding[p].verdict, by |-> p] /\ approval' = approval
      BY <1>1, <1>3 DEF FillDecision, Writer
    <2>2. /\ \A q \in People : q # p => deciding[q].pc = "idle"
          /\ approval = Absent /\ request \in Files
      BY <2>1, NobodyElseDecides
    <2> QED
      BY <2>1, <2>2, OneDecides DEF Authentic
  <1>4. CASE SignDecision(p)
    <2>1. /\ \A q \in People : q # p => deciding[q].pc = "idle"
          /\ decision = [verdict |-> deciding[p].verdict, by |-> p] /\ decision \in Decisions
          /\ request \in Files
      BY <1>4, NobodyElseDecides DEF SignDecision
    <2>2. deciding'[p].pc \in {"check", "idle"} /\ deciding'[p].verdict = deciding[p].verdict
      BY <1>1, <1>4 DEF SignDecision, Writer
    <2>3. /\ decision' = decision /\ approval' = [key |-> p, over |-> decision]
          /\ p = Reviewer => decision.verdict \in voted'
      BY <1>4 DEF SignDecision
    <2>4. Authentic' => decision'.verdict \in voted'
      BY <2>3 DEF Authentic
    <2>5. approval'.over = decision' /\ approval'.key = decision'.by /\ decision' \in Decisions
      BY <2>1, <2>3
    <2> QED
      BY <2>1, <2>2, <2>3, <2>4, <2>5, OneDecides
  <1>5. CASE RecordDecision(p)
    <2>1. /\ deciding[p].pc = "check" /\ deciding'[p].pc = "idle"
          /\ decision' = decision /\ approval' = approval /\ voted' = voted
      BY <1>1, <1>5 DEF RecordDecision, Writer
    <2>2. Authentic' => decision'.verdict \in voted'
      BY <2>1, Unpacked DEF Authentic, DecisionInv
    <2>3. /\ decision' \notin Decisions => approval' = Absent
          /\ approval' # Absent => approval'.over = decision' /\ approval'.key = decision'.by
      BY <2>1, Unpacked DEF DecisionInv
    <2> QED
      BY <2>1, <2>2, <2>3, NobodyElseDecides, OneDecides
  <1>6. CASE AbandonDecision(p)
    <2>1. /\ deciding[p].pc \in {"gpg", "check"} /\ deciding'[p].pc = "undo"
          /\ deciding'[p].verdict = deciding[p].verdict
          /\ decision' = decision /\ approval' = Absent
      BY <1>1, <1>6 DEF AbandonDecision, Writer
    <2> QED
      BY <2>1, NobodyElseDecides, OneDecides DEF Authentic
  <1>7. CASE RemoveDecision(p)
    <2>1. /\ deciding[p].pc = "undo" /\ deciding'[p].pc = "idle"
          /\ decision' = Absent /\ approval' = approval
      BY <1>1, <1>7 DEF RemoveDecision, Writer
    <2>2. approval' = Absent
      BY <2>1, NobodyElseDecides
    <2> QED
      BY <2>1, <2>2, NobodyElseDecides, OneDecides DEF Authentic
  <1>8. CASE PersonDies(p)
    <2>1. /\ deciding[p].pc # "idle"
          /\ deciding'[p].pc = (IF deciding[p].pc = "gpg" THEN "orphan" ELSE "idle")
          /\ deciding'[p].verdict = deciding[p].verdict
          /\ decision' = decision /\ approval' = approval /\ voted' = voted
      BY <1>1, <1>8 DEF PersonDies, Writer
    <2>2. Authentic' => decision'.verdict \in voted'
      BY <2>1, Unpacked DEF Authentic, DecisionInv
    <2>3. /\ decision' \notin Decisions => approval' = Absent
          /\ approval' # Absent => approval'.over = decision' /\ approval'.key = decision'.by
      BY <2>1, Unpacked DEF DecisionInv
    <2> QED
      BY <2>1, <2>2, <2>3, NobodyElseDecides, OneDecides
  <1> QED
    BY <1>2, <1>3, <1>4, <1>5, <1>6, <1>7, <1>8 DEF PersonStep

-----------------------------------------------------------------------------
(* The calls of execute                                                    *)

\* What a step of the call that holds the lock, or takes it, has to show.
LEMMA CallStep ==
  ASSUME Inv, NEW e \in Executors, UNCHANGED <<files, people, signature>>,
         receipt' = receipt \/ (receipt' \in Receipts => Owed(receipt)'),
         \A d \in Executors : d # e => calls'[d] = calls[d],
         lock' \in {lock, e, Absent}, lock \in {e, Absent},
         CallInv(e)',
         \A s \in Signers :
           signers'[s] = signers[s] \/ signers'[s].pc \in {"idle", "start", "done", "failed"}
  PROVE  IInv'
  <1>1. Stands /\ UNCHANGED signature
    BY DEF Stands, files, people
  <1>2. DecisionInv'
    BY Unpacked DEF DecisionInv, Authentic, files, people
  <1>3. \A d \in Executors : d # e => CallInv(d)'
    <2> SUFFICES ASSUME NEW d \in Executors, d # e
                 PROVE  CallInv(d)'
      OBVIOUS
    <2>1. lock' = d <=> lock = d
      BY Distinct
    <2> QED
      BY <1>1, <2>1, OtherCall
  <1>4. \A s \in Signers : SignerInv(s)'
    BY <1>1, OtherSigner
  <1> QED
    BY <1>1, <1>2, <1>3, <1>4, FilesStay, ReceiptStays DEF IInv

LEMMA Active ==
  ASSUME Inv, NEW e \in Executors, calls[e].pc # "idle"
  PROVE  lock = e
  BY Unpacked DEF CallInv

LEMMA Returned ==
  ASSUME Inv, NEW e \in Executors, Return(e)
  PROVE  /\ calls' \in [Executors -> Call] /\ lock' = Absent
         /\ CallInv(e)'
         /\ \A d \in Executors : d # e => calls'[d] = calls[d]
  <1>1. calls \in [Executors -> Call] /\ calls' = [calls EXCEPT ![e] = Idle] /\ lock' = Absent
    BY DEF Inv, TypeOK, Return
  <1>2. calls'[e] = Idle /\ lock' # e
    BY <1>1, Distinct
  <1> QED
    BY <1>1, <1>2, IdleIsCall DEF CallInv, Idle

LEMMA Continued ==
  ASSUME Inv, NEW e \in Executors,
         NEW pc \in {"bind", "sign", "verify", "fill"}, Continue(e, pc)
  PROVE  /\ calls' \in [Executors -> Call] /\ lock' = lock
         /\ calls'[e] = [calls[e] EXCEPT !.pc = pc] /\ calls'[e].pc = pc
         /\ calls'[e].child = calls[e].child /\ calls'[e].receipt = calls[e].receipt
         /\ \A d \in Executors : d # e => calls'[d] = calls[d]
  <1>1. calls \in [Executors -> Call] /\ calls' = [calls EXCEPT ![e].pc = pc] /\ lock' = lock
    BY DEF Inv, TypeOK, Continue
  <1>2. calls[e] \in Call
    BY <1>1
  <1>3. calls'[e] = [calls[e] EXCEPT !.pc = pc]
    BY <1>1
  <1>4. calls'[e] \in Call /\ calls'[e].pc = pc
        /\ calls'[e].child = calls[e].child /\ calls'[e].receipt = calls[e].receipt
    BY <1>2, <1>3 DEF Call
  <1> QED
    BY <1>1, <1>3, <1>4

LEMMA EnterStep ==
  ASSUME Inv, NEW e \in Executors, Enter(e)
  PROVE  TypeOK' /\ IInv'
  <1> DEFINE denied == [status |-> "DENIED", signature |-> Absent]
             k == IF decision.verdict = "deny"
                    THEN [pc |-> "write", child |-> Absent, receipt |-> denied]
                    ELSE [Idle EXCEPT !.pc = "bind"]
  <1>1. /\ Authentic /\ lock = Absent /\ lock' = e /\ calls' = [calls EXCEPT ![e] = k]
        /\ UNCHANGED <<files, people, signature, receipt, signers, signings, crashes>>
        /\ TypeOK
    BY DEF Enter, Inv
  <1>2. denied \in Receipts
    BY DEF Receipts
  <1>3. k \in Call
    BY <1>2 DEF Call, Idle
  <1>4. calls'[e] = k /\ \A d \in Executors : d # e => calls'[d] = calls[d]
    BY <1>1 DEF TypeOK
  <1>5. TypeOK'
    BY <1>1, <1>3 DEF TypeOK, files, people
  <1>6. /\ Authentic' /\ decision' = decision /\ decision.verdict \in Verdicts
        /\ decision.verdict \in voted' /\ withdrawn' = withdrawn
    BY <1>1, Unpacked DEF files, people, Authentic, Decisions, DecisionInv
  <1>7. CallInv(e)'
    <2>1. CASE decision.verdict = "deny"
      <3>1. k = [pc |-> "write", child |-> Absent, receipt |-> denied]
        BY <2>1
      <3>2. ~withdrawn => signature = Absent
        BY <2>1, Unpacked DEF Approved, Voted
      <3>3. ~withdrawn' => signature' = Absent
        BY <3>2, <1>1, <1>6
      <3>4. Owed(denied)'
        BY <1>6, <2>1, <3>3 DEF Owed, Voted
      <3> QED
        BY <1>1, <1>2, <1>4, <3>1, <3>4 DEF CallInv
    <2>2. CASE decision.verdict = "approve"
      BY <1>1, <1>4, <1>6, <2>2 DEF CallInv, Idle, Approved, Voted
    <2> QED
      BY <1>6, <2>1, <2>2 DEF Verdicts
  <1> QED
    BY <1>1, <1>4, <1>5, <1>7, CallStep

LEMMA ReturnStep ==
  ASSUME Inv, NEW e \in Executors, calls[e].pc # "idle", Return(e),
         UNCHANGED <<files, people, signature>>,
         receipt' = receipt \/ (receipt' \in Receipts => Owed(receipt)'),
         \A s \in Signers :
           signers'[s] = signers[s] \/ signers'[s].pc \in {"idle", "start", "done", "failed"}
  PROVE  IInv'
  BY Active, Returned, CallStep

\* The approval a call found still stands while it goes on.
LEMMA ApprovedGoesOn ==
  ASSUME UNCHANGED <<files, people, signature>>
  PROVE  /\ Approved => Approved'
         /\ \A value : Owed(value) => Owed(value)'
  BY DEF files, people, Approved, Authentic, Owed, Voted

LEMMA ValidateStep ==
  ASSUME Inv, NEW e \in Executors, ValidateBound(e) \/ FindSignature(e)
  PROVE  TypeOK' /\ IInv'
  <1>1. /\ UNCHANGED <<files, people, signature, receipt, signers, signings, crashes>>
        /\ calls[e].pc \in {"bind", "sign"} /\ TypeOK /\ lock = e /\ CallInv(e) /\ Approved
    BY Active, Unpacked DEF ValidateBound, FindSignature, Inv, CallInv
  <1>2. CASE Return(e)
    <2>1. TypeOK'
      BY <1>1, <1>2, Returned DEF TypeOK, files, people
    <2> QED
      BY <1>1, <1>2, <2>1, ReturnStep
  <1>3. ASSUME NEW pc \in {"sign", "verify"}, Continue(e, pc),
               pc = "verify" => signature # Absent
        PROVE  TypeOK' /\ IInv'
    <2>1. TypeOK'
      <3>1. calls' \in [Executors -> Call] /\ lock' = lock
        BY <1>3, Continued
      <3> QED
        BY <1>1, <3>1 DEF TypeOK, files, people
    <2>2. calls'[e].pc = pc /\ calls'[e].child = calls[e].child /\ lock' = lock
          /\ \A d \in Executors : d # e => calls'[d] = calls[d]
      BY <1>3, Continued
    <2>3. Approved'
      BY <1>1, ApprovedGoesOn
    <2>4. CallInv(e)'
      BY <1>1, <1>3, <2>2, <2>3 DEF CallInv
    <2> QED
      BY <1>1, <2>1, <2>2, <2>4, CallStep
  <1> QED
    BY <1>2, <1>3 DEF ValidateBound, FindSignature

LEMMA InvokeStep ==
  ASSUME Inv, NEW e \in Executors, InvokeSigner(e)
  PROVE  TypeOK' /\ IInv'
  <1>1. PICK s \in Signers :
          /\ signers[s].pc = "idle"
          /\ signers' = [signers EXCEPT ![s].pc = "start"]
          /\ calls' = [calls EXCEPT ![e] = [@ EXCEPT !.pc = "wait", !.child = s]]
    BY DEF InvokeSigner
  <1>2. /\ UNCHANGED <<files, people, signature, receipt, lock, signings, crashes>>
        /\ calls[e].pc = "sign" /\ TypeOK /\ lock = e /\ CallInv(e) /\ Approved
        /\ calls[e] \in Call /\ signers[s] \in Signer
    BY Active, Unpacked DEF InvokeSigner, Inv, CallInv
  <1>3. /\ calls'[e] = [calls[e] EXCEPT !.pc = "wait", !.child = s]
        /\ \A d \in Executors : d # e => calls'[d] = calls[d]
        /\ signers'[s].pc = "start" /\ \A t \in Signers : t # s => signers'[t] = signers[t]
    BY <1>1, <1>2 DEF TypeOK, Signer
  <1>4. TypeOK'
    <2>1. [calls[e] EXCEPT !.pc = "wait", !.child = s] \in Call
      BY <1>2 DEF Call
    <2>2. calls' \in [Executors -> Call]
      BY <1>1, <1>2, <2>1 DEF TypeOK
    <2>3. signers' \in [Signers -> Signer]
      BY <1>1, <1>2 DEF TypeOK, Signer
    <2> QED
      BY <1>2, <2>2, <2>3 DEF TypeOK, files, people
  <1>5. CallInv(e)'
    <2>1. calls'[e].pc = "wait" /\ calls'[e].child = s /\ s # Absent
      BY <1>2, <1>3, Distinct DEF Call
    <2>2. Approved'
      BY <1>2, ApprovedGoesOn
    <2> QED
      BY <1>2, <2>1, <2>2 DEF CallInv
  <1> QED
    BY <1>2, <1>3, <1>4, <1>5, CallStep

LEMMA SignerReturnedStep ==
  ASSUME Inv, NEW e \in Executors, SignerReturned(e)
  PROVE  TypeOK' /\ IInv'
  <1> DEFINE s == calls[e].child
  <1>1. /\ UNCHANGED <<files, people, signature, receipt, signings, crashes>>
        /\ calls[e].pc = "wait" /\ TypeOK /\ lock = e /\ CallInv(e) /\ Approved
        /\ calls[e] \in Call /\ signers' = [signers EXCEPT ![s] = NoSigner]
    BY Active, Unpacked DEF SignerReturned, Inv, CallInv
  <1>2. \A t \in Signers : signers'[t] = signers[t] \/ signers'[t].pc = "idle"
    BY <1>1 DEF TypeOK, NoSigner
  <1>3. signers' \in [Signers -> Signer]
    BY <1>1, NoSignerIsSigner DEF TypeOK
  <1>4. CASE Return(e)
    <2>1. TypeOK'
      BY <1>1, <1>3, <1>4, Returned DEF TypeOK, files, people
    <2> QED
      BY <1>1, <1>2, <1>4, <2>1, ReturnStep
  <1>5. CASE /\ signature # Absent /\ UNCHANGED lock
             /\ calls' = [calls EXCEPT ![e] = [@ EXCEPT !.pc = "verify", !.child = Absent]]
    <2>1. /\ calls'[e] = [calls[e] EXCEPT !.pc = "verify", !.child = Absent]
          /\ \A d \in Executors : d # e => calls'[d] = calls[d]
      BY <1>1, <1>5 DEF TypeOK
    <2>2. calls'[e] \in Call /\ calls'[e].pc = "verify" /\ calls'[e].child = Absent
      BY <1>1, <2>1 DEF Call
    <2>3. calls' \in [Executors -> Call]
      BY <1>1, <1>5, <2>1, <2>2 DEF TypeOK
    <2>4. TypeOK'
      BY <1>1, <1>3, <1>5, <2>3 DEF TypeOK, files, people
    <2>5. Approved'
      BY <1>1, ApprovedGoesOn
    <2>6. CallInv(e)'
      BY <1>1, <1>5, <2>2, <2>5 DEF CallInv
    <2> QED
      BY <1>1, <1>2, <1>5, <2>1, <2>4, <2>6, CallStep
  <1> QED
    BY <1>4, <1>5 DEF SignerReturned

LEMMA VerifyStep ==
  ASSUME Inv, NEW e \in Executors, VerifySignature(e)
  PROVE  TypeOK' /\ IInv'
  <1>1. /\ UNCHANGED <<files, people, signature, receipt, signers, signings, crashes>>
        /\ calls[e].pc = "verify" /\ TypeOK /\ lock = e /\ CallInv(e) /\ Approved
        /\ signature # Absent
    BY Active, Unpacked DEF VerifySignature, Inv, CallInv
  <1>2. CASE Return(e)
    <2>1. TypeOK'
      BY <1>1, <1>2, Returned DEF TypeOK, files, people
    <2> QED
      BY <1>1, <1>2, <2>1, ReturnStep
  <1>3. CASE Remember(e, [status |-> "SIGNED", signature |-> signature])
    <2> DEFINE value == [status |-> "SIGNED", signature |-> signature]
               k == [pc |-> "write", child |-> Absent, receipt |-> value]
    <2>1. value \in Receipts
      BY <1>1 DEF Receipts, TypeOK
    <2>2. k \in Call /\ calls' = [calls EXCEPT ![e] = k] /\ lock' = lock
      BY <1>3, <2>1 DEF Call, Remember
    <2>3. calls'[e] = k /\ \A d \in Executors : d # e => calls'[d] = calls[d]
      BY <1>1, <2>2 DEF TypeOK
    <2>4. TypeOK'
      BY <1>1, <2>2 DEF TypeOK, files, people
    <2>5. Owed(value)
      BY <1>1 DEF Owed, Approved
    <2>6. Owed(value)' /\ value' = value
      BY <1>1, <2>5 DEF Owed, Voted, Authentic, files, people
    <2>7. CallInv(e)'
      BY <1>1, <2>1, <2>2, <2>3, <2>6 DEF CallInv
    <2> QED
      BY <1>1, <2>2, <2>3, <2>4, <2>7, CallStep
  <1> QED
    BY <1>2, <1>3 DEF VerifySignature

LEMMA CreateReceiptStep ==
  ASSUME Inv, NEW e \in Executors, CreateReceipt(e)
  PROVE  TypeOK' /\ IInv'
  <1>1. /\ UNCHANGED <<files, people, signature, signers, signings, crashes>>
        /\ calls[e].pc = "write" /\ TypeOK /\ lock = e /\ CallInv(e)
    BY Active, Unpacked DEF CreateReceipt, Inv
  <1>2. CASE UNCHANGED receipt /\ Return(e)
    <2>1. TypeOK'
      BY <1>1, <1>2, Returned DEF TypeOK, files, people
    <2> QED
      BY <1>1, <1>2, <2>1, ReturnStep
  <1>3. CASE receipt' = Torn /\ Continue(e, "fill")
    <2>1. TypeOK'
      BY <1>1, <1>3, Continued DEF TypeOK, files, people
    <2>2. /\ calls'[e].pc = "fill" /\ calls'[e].child = calls[e].child
          /\ calls'[e].receipt = calls[e].receipt /\ lock' = lock
          /\ \A d \in Executors : d # e => calls'[d] = calls[d]
      BY <1>3, Continued
    <2>3. calls[e].receipt \in Receipts /\ Owed(calls[e].receipt)
      BY <1>1 DEF CallInv
    <2>4. Owed(calls[e].receipt)'
      BY <1>1, <2>2, <2>3 DEF Owed, Voted, Authentic, files, people
    <2>5. CallInv(e)'
      BY <1>1, <2>2, <2>3, <2>4 DEF CallInv
    <2> QED
      BY <1>1, <1>3, <2>1, <2>2, <2>5, Distinct, CallStep
  <1> QED
    BY <1>2, <1>3 DEF CreateReceipt

LEMMA FillReceiptStep ==
  ASSUME Inv, NEW e \in Executors, FillReceipt(e)
  PROVE  TypeOK' /\ IInv'
  <1>1. /\ UNCHANGED <<files, people, signature, signers, signings, crashes>>
        /\ calls[e].pc = "fill" /\ receipt' = calls[e].receipt /\ Return(e)
        /\ TypeOK /\ calls[e].receipt \in Receipts /\ Owed(calls[e].receipt)
    BY Unpacked DEF FillReceipt, Inv, CallInv
  <1>2. TypeOK'
    BY <1>1, Returned DEF TypeOK, files, people
  <1>3. Owed(receipt)'
    BY <1>1 DEF Owed, Voted, Authentic, files, people
  <1> QED
    BY <1>1, <1>2, <1>3, ReturnStep

LEMMA ExecutorDiesStep ==
  ASSUME Inv, NEW e \in Executors, ExecutorDies(e)
  PROVE  TypeOK' /\ IInv'
  <1>1. /\ UNCHANGED <<files, people, signature, receipt, signings>>
        /\ calls[e].pc # "idle" /\ Return(e) /\ TypeOK
        /\ crashes < MaxCrashes /\ crashes' = crashes + 1
        /\ signers' = [s \in Signers |->
             IF s = calls[e].child /\ signers[s].pc \in {"done", "failed"}
               THEN NoSigner ELSE signers[s]]
    BY DEF ExecutorDies, Inv
  <1>2. signers' \in [Signers -> Signer]
    BY <1>1, NoSignerIsSigner DEF TypeOK
  <1>3. \A s \in Signers : signers'[s] = signers[s] \/ signers'[s].pc = "idle"
    BY <1>1 DEF NoSigner
  <1>4. crashes' \in 0 .. MaxCrashes
    BY <1>1, ApprovalAssumption DEF TypeOK
  <1>5. TypeOK'
    BY <1>1, <1>2, <1>4, Returned DEF TypeOK, files, people
  <1> QED
    BY <1>1, <1>3, <1>5, ReturnStep

-----------------------------------------------------------------------------
(* The signers                                                             *)

\* What a step of one signer has to show.
LEMMA OneSigner ==
  ASSUME Inv, NEW s \in Signers, UNCHANGED <<files, people, receipt, lock, calls>>,
         signature # Absent => signature' = signature,
         signature' # signature => Approved /\ signature'.over = request.artifact,
         SignerInv(s)',
         \A t \in Signers : t # s => signers'[t] = signers[t]
  PROVE  IInv'
  <1>1. Stands
    BY DEF Stands, files, people
  <1>2. DecisionInv'
    BY Unpacked DEF DecisionInv, Authentic, files, people
  <1>3. \A e \in Executors : CallInv(e)'
    BY <1>1, OtherCall
  <1>4. \A t \in Signers : SignerInv(t)'
    BY <1>1, OtherSigner
  <1>5. signature' # Absent => Approved' /\ signature'.over = request'.artifact
    BY <1>1, Unpacked, ApprovedStays
  <1> QED
    BY <1>1, <1>2, <1>3, <1>4, <1>5, ReceiptStays DEF IInv

LEMMA Exited ==
  ASSUME TypeOK, NEW s \in Signers, NEW pc \in {"done", "failed"}, Exit(s, pc)
  PROVE  /\ signers' \in [Signers -> Signer]
         /\ SignerInv(s)'
         /\ \A t \in Signers : t # s => signers'[t] = signers[t]
  <1> DEFINE k == IF \E e \in Executors : calls[e].child = s
                    THEN [NoSigner EXCEPT !.pc = pc] ELSE NoSigner
  <1>1. k \in Signer /\ k.pc \in {"idle", "done", "failed"}
    BY ApprovalAssumption DEF NoSigner, Signer
  <1>2. signers' = [signers EXCEPT ![s] = k] /\ signers \in [Signers -> Signer]
    BY DEF Exit, TypeOK
  <1>3. signers'[s] = k
    BY <1>2
  <1> QED
    BY <1>1, <1>2, <1>3 DEF SignerInv

LEMMA Gone ==
  ASSUME TypeOK, NEW s \in Signers, NEW pc \in {"artifact", "gpg"}, Go(s, pc)
  PROVE  /\ signers' \in [Signers -> Signer]
         /\ signers'[s].pc = pc /\ signers'[s].snapshot = signers[s].snapshot
         /\ \A t \in Signers : t # s => signers'[t] = signers[t]
  BY DEF Go, TypeOK, Signer

LEMMA AuthorizeStep ==
  ASSUME Inv, NEW s \in Signers, SignerAuthorize(s)
  PROVE  TypeOK' /\ IInv'
  <1>1. UNCHANGED <<files, people, signature, receipt, lock, calls, signings, crashes>> /\ TypeOK
    BY DEF SignerAuthorize, Inv
  <1>2. CASE Exit(s, "failed")
    BY <1>1, <1>2, Exited, OneSigner DEF TypeOK, files, people
  <1>3. CASE Authentic /\ decision.verdict = "approve" /\ Go(s, "artifact")
    <2>1. Approved'
      <3>1. Approved
        BY <1>3, Unpacked DEF DecisionInv, Approved, Voted
      <3> QED
        BY <1>1, <3>1, ApprovedGoesOn
    <2>2. SignerInv(s)'
      BY <1>1, <1>3, <2>1, Gone DEF SignerInv
    <2> QED
      BY <1>1, <1>3, <2>2, Gone, OneSigner DEF TypeOK, files, people
  <1> QED
    BY <1>2, <1>3 DEF SignerAuthorize

LEMMA CaptureStep ==
  ASSUME Inv, NEW s \in Signers, SignerCaptureArtifact(s) \/ SignerCaptureEvidence(s)
  PROVE  TypeOK' /\ IInv'
  <1>1. /\ UNCHANGED <<files, people, signature, receipt, lock, calls, signings, crashes>>
        /\ TypeOK /\ Approved /\ SignerInv(s) /\ signers[s] \in Signer
        /\ request' = request
    BY Unpacked DEF SignerCaptureArtifact, SignerCaptureEvidence, Inv, SignerInv, files
  <1>2. Approved'
    BY <1>1, ApprovedGoesOn
  <1>3. CASE Exit(s, "failed")
    BY <1>1, <1>3, Exited, OneSigner DEF TypeOK, files, people
  <1>4. CASE SignerCaptureArtifact(s) /\ live.artifact = request.artifact
    <2>1. /\ signers' = [signers EXCEPT ![s] =
               [@ EXCEPT !.pc = "evidence", !.snapshot = live.artifact]]
          /\ live.artifact = request.artifact
      BY <1>4 DEF SignerCaptureArtifact
    <2>2. live.artifact \in Versions
      BY <1>1 DEF TypeOK, Files
    <2>3. /\ signers' \in [Signers -> Signer]
          /\ signers'[s].pc = "evidence" /\ signers'[s].snapshot = live.artifact
          /\ \A t \in Signers : t # s => signers'[t] = signers[t]
      BY <1>1, <2>1, <2>2 DEF TypeOK, Signer
    <2>4. SignerInv(s)'
      BY <1>1, <1>2, <2>1, <2>3 DEF SignerInv
    <2> QED
      BY <1>1, <2>3, <2>4, OneSigner DEF TypeOK, files, people
  <1>5. CASE SignerCaptureEvidence(s) /\ Go(s, "gpg")
    <2>1. signers[s].snapshot = request.artifact
      BY <1>1, <1>5 DEF SignerCaptureEvidence, SignerInv
    <2>2. SignerInv(s)'
      BY <1>1, <1>2, <1>5, <2>1, Gone DEF SignerInv
    <2> QED
      BY <1>1, <1>5, <2>2, Gone, OneSigner DEF TypeOK, files, people
  <1> QED
    BY <1>3, <1>4, <1>5 DEF SignerCaptureArtifact, SignerCaptureEvidence

LEMMA SignStep ==
  ASSUME Inv, NEW s \in Signers, SignerSign(s)
  PROVE  TypeOK' /\ IInv'
  <1>1. /\ UNCHANGED <<files, people, signature, receipt, lock, calls, crashes>>
        /\ TypeOK /\ Approved /\ signers[s] \in Signer /\ request' = request
        /\ signers[s].snapshot = request.artifact
        /\ signings < MaxSignings /\ signings' = signings + 1
        /\ signers' = [signers EXCEPT ![s] = [@ EXCEPT !.pc = "link", !.id = signings + 1]]
    BY Unpacked DEF SignerSign, Inv, SignerInv, files
  <1> DEFINE k == [signers[s] EXCEPT !.pc = "link", !.id = signings + 1]
  <1>2. signings + 1 \in 0 .. MaxSignings /\ signings + 1 > 0
    BY <1>1, ApprovalAssumption DEF TypeOK
  <1>3. k \in Signer /\ k.pc = "link" /\ k.id = signings + 1 /\ k.snapshot = signers[s].snapshot
    BY <1>1, <1>2 DEF Signer
  <1>4. /\ signers' \in [Signers -> Signer] /\ signers'[s] = k
        /\ \A t \in Signers : t # s => signers'[t] = signers[t]
    BY <1>1, <1>3 DEF TypeOK
  <1>5. Approved'
    BY <1>1, ApprovedGoesOn
  <1>6. SignerInv(s)'
    BY <1>1, <1>2, <1>3, <1>4, <1>5 DEF SignerInv
  <1>7. TypeOK'
    BY <1>1, <1>2, <1>4 DEF TypeOK, files, people
  <1> QED
    BY <1>1, <1>4, <1>6, <1>7, OneSigner

LEMMA LinkStep ==
  ASSUME Inv, NEW s \in Signers, SignerLink(s)
  PROVE  TypeOK' /\ IInv'
  <1>1. /\ UNCHANGED <<files, people, receipt, lock, calls, signings, crashes>>
        /\ TypeOK /\ Approved /\ signers[s] \in Signer
        /\ signers[s].snapshot = request.artifact /\ signers[s].id > 0
    BY Unpacked DEF SignerLink, Inv, SignerInv
  <1>2. CASE UNCHANGED signature /\ Exit(s, "failed")
    BY <1>1, <1>2, Exited, OneSigner DEF TypeOK, files, people
  <1>3. CASE /\ signature = Absent /\ Exit(s, "done")
             /\ signature' = [over |-> signers[s].snapshot, id |-> signers[s].id]
    <2>1. request \in Files
      BY <1>1, VotedIsOfFiles DEF Approved
    <2>2. signature' \in Signatures
      BY <1>1, <1>3, <2>1, ApprovalAssumption DEF Signatures, Signer, Files
    <2>3. TypeOK'
      BY <1>1, <1>3, <2>2, Exited DEF TypeOK, files, people
    <2> QED
      BY <1>1, <1>3, <2>3, Exited, OneSigner
  <1> QED
    BY <1>2, <1>3 DEF SignerLink

LEMMA FailsStep ==
  ASSUME Inv, NEW s \in Signers, SignerFails(s)
  PROVE  TypeOK' /\ IInv'
  BY Exited, OneSigner DEF SignerFails, Inv, TypeOK, files, people

-----------------------------------------------------------------------------
(* The specification                                                       *)

LEMMA InvInit == Init => Inv
  <1> SUFFICES ASSUME Init
               PROVE  TypeOK /\ IInv
    BY DEF Inv
  <1>1. TypeOK
    <2>1. live \in Files /\ deciding \in [People -> Writer] /\ voted \in SUBSET Verdicts
      BY DEF Init, Files, Versions, Writer, Verdicts
    <2>2. calls \in [Executors -> Call] /\ signers \in [Signers -> Signer]
      BY IdleIsCall, NoSignerIsSigner DEF Init
    <2>3. /\ signings \in 0 .. MaxSignings
          /\ edits \in 0 .. MaxEdits /\ crashes \in 0 .. MaxCrashes
      BY ApprovalAssumption DEF Init
    <2> QED
      BY <2>1, <2>2, <2>3 DEF Init, TypeOK
  <1>2. DecisionInv
    BY Distinct DEF Init, DecisionInv, Authentic
  <1>3. \A e \in Executors : CallInv(e)
    BY Distinct DEF Init, CallInv, Idle
  <1>4. \A s \in Signers : SignerInv(s)
    BY DEF Init, SignerInv, NoSigner
  <1> QED
    BY <1>1, <1>2, <1>3, <1>4, Distinct DEF Init, IInv

LEMMA InvNext ==
  ASSUME Inv, [Next]_vars
  PROVE  Inv'
  <1>1. CASE CreateRequest \/ FillRequest \/ Edit \/ Expire
    BY <1>1, RequestStep DEF Inv
  <1>2. ASSUME NEW p \in People, PersonStep(p)
        PROVE  Inv'
    BY <1>2, Moved, PersonStands, PersonTypes, PersonDecides, OthersWork DEF Inv
  <1>3. ASSUME NEW e \in Executors, Enter(e) \/ Proceed(e) \/ ExecutorDies(e)
        PROVE  Inv'
    BY <1>3, EnterStep, ValidateStep, InvokeStep, SignerReturnedStep, VerifyStep,
       CreateReceiptStep, FillReceiptStep, ExecutorDiesStep DEF Inv, Proceed
  <1>4. ASSUME NEW s \in Signers, SignerStep(s)
        PROVE  Inv'
    BY <1>4, AuthorizeStep, CaptureStep, SignStep, LinkStep, FailsStep DEF Inv, SignerStep
  <1>5. CASE UNCHANGED vars
    <2>1. TypeOK'
      BY <1>5 DEF Inv, TypeOK, vars
    <2>2. Stands /\ UNCHANGED <<signature, receipt, lock, calls, signers>>
      BY <1>5 DEF vars, Stands
    <2>3. DecisionInv'
      BY <1>5, Unpacked DEF vars, DecisionInv, Authentic
    <2> QED
      BY <2>1, <2>2, <2>3, OthersWork DEF Inv
  <1> QED
    BY <1>1, <1>2, <1>3, <1>4, <1>5 DEF Next

\* Every variable keeps its shape, and what people, calls and signers know of
\* the files stays true: whoever edits, records, retries or dies in between.
THEOREM Invariance == Spec => [](TypeOK /\ IInv)
  BY InvInit, InvNext, PTL DEF Spec, Inv

\* Every variable keeps its shape.
THEOREM Typed == Spec => []TypeOK
  BY Invariance, PTL

\* A signature that exists covers the bytes the request binds, and the reviewer
\* has signed an approval of them: the one on file, unless a recorder whose GPG
\* failed late took one back (sign_approved_artifact, record_human_decision).
THEOREM Signed == Spec => []SignatureIsApproved
  <1>1. TypeOK /\ IInv => SignatureIsApproved
    BY DEF IInv, SignatureIsApproved, Approved
  <1> QED
    BY <1>1, Invariance, PTL

\* A complete receipt says what the reviewer has signed, the decision on file
\* unless one was taken back, and binds the signature that is there (execute).
THEOREM TrueReceipt == Spec => []ReceiptIsTrue
  <1>1. TypeOK /\ IInv => ReceiptIsTrue
    BY DEF IInv, ReceiptIsTrue
  <1> QED
    BY <1>1, Invariance, PTL

LEMMA StepStands ==
  ASSUME Inv, [Next]_vars, Authentic, deciding[Reviewer].pc = "idle"
  PROVE  decision' = decision /\ approval' = approval
  <1>1. ASSUME NEW p \in People, PersonStep(p)
        PROVE  decision' = decision /\ approval' = approval
    BY <1>1, PersonStands
  <1>2. CASE CreateRequest \/ FillRequest \/ Edit \/ Expire
    BY <1>2 DEF CreateRequest, FillRequest, Edit, Expire, people
  <1>3. ASSUME NEW e \in Executors, Enter(e) \/ Proceed(e) \/ ExecutorDies(e)
        PROVE  UNCHANGED people
    BY <1>3 DEF Enter, Proceed, ExecutorDies, ValidateBound, FindSignature, InvokeSigner,
       SignerReturned, VerifySignature, CreateReceipt, FillReceipt
  <1>4. ASSUME NEW s \in Signers, SignerStep(s)
        PROVE  UNCHANGED people
    BY <1>4 DEF SignerStep, SignerAuthorize, SignerCaptureArtifact, SignerCaptureEvidence,
       SignerSign, SignerLink, SignerFails
  <1> QED
    BY <1>1, <1>2, <1>3, <1>4 DEF Next, vars, people

\* The reviewer's decision, once it is on file and signed and its own recorder
\* has returned or died, is replaced or removed by no step of anybody.
THEOREM Standing == Spec => DecisionStands
  <1>1. TypeOK /\ IInv /\ [Next]_vars =>
          (Authentic /\ deciding[Reviewer].pc = "idle" =>
             decision' = decision /\ approval' = approval)
    BY StepStands DEF Inv
  <1> QED
    BY <1>1, Invariance, PTL DEF Spec, DecisionStands
=============================================================================
