------------------------------- MODULE Approval -------------------------------
(***************************************************************************)
(* One approval request: the files of its directory, the people who decide *)
(* it outside the server, the calls of execute, and the protected signer   *)
(* each call may start.  Source: pipeline/approval_service.py and          *)
(* pipeline/protected_signer.py.                                           *)
(*                                                                         *)
(* A file is Absent, Torn (created under its final name, its bytes not yet *)
(* there) or holds its content.  Digests stand for the bytes they identify *)
(* and a GPG signature for the key and the bytes it covers.  The signer is *)
(* a process of its own: it outlives a call that dies, since only the call *)
(* holds the lock; so does the GPG a recorder starts.                      *)
(***************************************************************************)
EXTENDS Naturals

CONSTANTS
  Executors,   \* calls of execute that may run at the same time
  Signers,     \* bound: signer processes alive at the same time
  Reviewer,    \* the reviewer identity of the request
  Others,      \* people whose keys are not that identity
  Absent, Torn,
  MaxEdits,    \* bound: changes of the live artifact or evidence
  MaxCrashes,  \* bound: processes that die, a GPG with its output written too
  MaxSignings  \* bound: no signer starts once GPG has signed this often

People == {Reviewer} \cup Others

Versions == {"v1", "v2"}

Files == [artifact : Versions, evidence : Versions]

Verdicts == {"approve", "deny"}

Decisions == [verdict : Verdicts, by : People]

\* `id' tells apart two signatures of the same bytes: GPG dates each of them.
Signatures == [over : Versions, id : 1 .. MaxSignings]

Receipts ==
  [status : {"SIGNED", "DENIED"}, signature : Signatures \cup {Absent}]

ASSUME ApprovalAssumption ==
  /\ MaxEdits \in Nat /\ MaxCrashes \in Nat /\ MaxSignings \in Nat
  /\ Reviewer \notin Others
  /\ Absent # Torn
  /\ {Absent, Torn} \cap (Files \cup Decisions \cup Signatures \cup Receipts) = {}
  /\ Absent \notin Executors \cup Signers

VARIABLES
  request,   \* request.json: the digests it binds
  live,      \* the artifact and the evidence as they are on disk now
  decision,  \* decision.json
  approval,  \* decision.json.sig: who signed which decision
  signature, \* the detached signature of the artifact
  receipt,   \* receipt.json
  expired,   \* the clock is past expires_at
  deciding,  \* where each person is in record_human_decision
  voted,     \* history: verdicts the reviewer's key has signed
  withdrawn, \* history: a recorder has removed an authentic decision
  lock,      \* who holds execution.lock
  calls,     \* where each execute is, and what it remembers
  signers,   \* the signer processes
  signings,  \* history: signatures GPG made for the signer
  edits, crashes

people == <<decision, approval, deciding, voted, withdrawn>>
files  == <<request, live, expired, edits>>
vars == <<request, live, decision, approval, signature, receipt, expired, deciding,
          voted, withdrawn, lock, calls, signers, signings, edits, crashes>>

-----------------------------------------------------------------------------
Idle == [pc |-> "idle", child |-> Absent, receipt |-> Absent]

Call ==
  [pc      : {"idle", "bind", "sign", "wait", "verify", "write", "fill"},
   child   : Signers \cup {Absent},
   receipt : Receipts \cup {Absent}]

NoSigner == [pc |-> "idle", snapshot |-> Absent, id |-> 0]

Signer ==
  [pc       : {"idle", "start", "artifact", "evidence", "gpg", "link", "done", "failed"},
   snapshot : Versions \cup {Absent},
   id       : 0 .. MaxSignings]

Writer ==
  [pc : {"idle", "fill", "gpg", "check", "undo", "orphan"}, verdict : Verdicts]

Init ==
  /\ request = Absent
  /\ live = [artifact |-> "v1", evidence |-> "v1"]
  /\ decision = Absent /\ approval = Absent
  /\ signature = Absent /\ receipt = Absent
  /\ expired = FALSE
  /\ deciding = [p \in People |-> [pc |-> "idle", verdict |-> "deny"]]
  /\ voted = {} /\ withdrawn = FALSE
  /\ lock = Absent
  /\ calls = [e \in Executors |-> Idle]
  /\ signers = [s \in Signers |-> NoSigner]
  /\ signings = 0 /\ edits = 0 /\ crashes = 0

-----------------------------------------------------------------------------
(* The request, the files it binds, and time                               *)

\* create_request: the digests are taken, then _write_once.
CreateRequest ==
  /\ request = Absent
  /\ request' = Torn
  /\ UNCHANGED <<live, expired, edits, people, signature, receipt, lock, calls,
                 signers, signings, crashes>>

FillRequest ==
  /\ request = Torn
  /\ request' = live
  /\ UNCHANGED <<live, expired, edits, people, signature, receipt, lock, calls,
                 signers, signings, crashes>>

\* Somebody changes a live file; changing it twice restores it.
Edit ==
  /\ edits < MaxEdits /\ edits' = edits + 1
  /\ \E f \in {"artifact", "evidence"} :
       live' = [live EXCEPT ![f] = IF @ = "v1" THEN "v2" ELSE "v1"]
  /\ UNCHANGED <<request, expired, people, signature, receipt, lock, calls, signers,
                 signings, crashes>>

Expire ==
  /\ request \in Files /\ ~expired
  /\ expired' = TRUE
  /\ UNCHANGED <<request, live, edits, people, signature, receipt, lock, calls,
                 signers, signings, crashes>>

-----------------------------------------------------------------------------
(* record_human_decision, under no lock                                    *)

\* _authenticate_decision: both files, bound to this request, by its reviewer.
Authentic ==
  /\ decision \in Decisions
  /\ approval # Absent
  /\ approval.key = Reviewer /\ approval.over = decision

\* Mutant: whoever has recorded a decision may record another in its place.
BeginAgain(p, verdict) ==
  /\ deciding[p].pc = "idle" /\ request \in Files
  /\ decision = Absent \/ (decision \in Decisions /\ decision.by = p)
  /\ decision' = Torn
  /\ deciding' = [deciding EXCEPT ![p] = [pc |-> "fill", verdict |-> verdict]]
  /\ UNCHANGED <<files, approval, voted, withdrawn, signature, receipt, lock, calls,
                 signers, signings, crashes>>

BeginDecision(p, verdict) ==
  /\ deciding[p].pc = "idle" /\ request \in Files
  /\ decision = Absent                 \* _write_once, else APPROVAL_REPLAY
  /\ decision' = Torn
  /\ deciding' = [deciding EXCEPT ![p] = [pc |-> "fill", verdict |-> verdict]]
  /\ UNCHANGED <<files, approval, voted, withdrawn, signature, receipt, lock, calls,
                 signers, signings, crashes>>

FillDecision(p) ==
  /\ deciding[p].pc = "fill"
  /\ decision' = [verdict |-> deciding[p].verdict, by |-> p]
  /\ deciding' = [deciding EXCEPT ![p].pc = "gpg"]
  /\ UNCHANGED <<files, approval, voted, withdrawn, signature, receipt, lock, calls,
                 signers, signings, crashes>>

\* GPG writes decision.json.sig: from here on execute, which takes no lock
\* against a recorder, can authenticate the decision.
SignDecision(p) ==
  /\ deciding[p].pc \in {"gpg", "orphan"}
  /\ approval' = [key |-> p, over |-> decision]
  /\ voted' = IF p = Reviewer THEN voted \cup {decision.verdict} ELSE voted
  /\ deciding' = [deciding EXCEPT ![p].pc = IF @ = "gpg" THEN "check" ELSE "idle"]
  /\ UNCHANGED <<files, decision, withdrawn, signature, receipt, lock, calls, signers,
                 signings, crashes>>

\* GPG ended well and its file is there.
RecordDecision(p) ==
  /\ deciding[p].pc = "check"
  /\ deciding' = [deciding EXCEPT ![p].pc = "idle"]
  /\ UNCHANGED <<files, decision, approval, voted, withdrawn, signature, receipt, lock,
                 calls, signers, signings, crashes>>

\* GPG failed, before it wrote its file or after (nonzero exit, a signal, an
\* exception of the runner): the signature is unlinked if it is there.
AbandonDecision(p) ==
  /\ deciding[p].pc \in {"gpg", "check"}
  /\ IF deciding[p].pc = "check"
       THEN crashes < MaxCrashes /\ crashes' = crashes + 1
       ELSE UNCHANGED crashes
  /\ approval' = Absent
  /\ withdrawn' = (withdrawn \/ Authentic)
  /\ deciding' = [deciding EXCEPT ![p].pc = "undo"]
  /\ UNCHANGED <<files, decision, voted, signature, receipt, lock, calls, signers, signings>>

\* ... and then the decision.
RemoveDecision(p) ==
  /\ deciding[p].pc = "undo"
  /\ decision' = Absent
  /\ deciding' = [deciding EXCEPT ![p].pc = "idle"]
  /\ UNCHANGED <<files, approval, voted, withdrawn, signature, receipt, lock, calls,
                 signers, signings, crashes>>

\* The process dies: what it wrote stays, and the GPG it started goes on.
PersonDies(p) ==
  /\ deciding[p].pc \in {"fill", "gpg", "check", "undo"}
  /\ crashes < MaxCrashes /\ crashes' = crashes + 1
  /\ deciding' = [deciding EXCEPT ![p].pc = IF @ = "gpg" THEN "orphan" ELSE "idle"]
  /\ UNCHANGED <<files, decision, approval, voted, withdrawn, signature, receipt, lock,
                 calls, signers, signings>>

-----------------------------------------------------------------------------
(* execute, under execution.lock                                           *)

Return(e) ==
  /\ calls' = [calls EXCEPT ![e] = Idle]
  /\ lock' = Absent

Continue(e, pc) ==
  /\ calls' = [calls EXCEPT ![e].pc = pc]
  /\ UNCHANGED lock

Remember(e, value) ==
  /\ calls' = [calls EXCEPT ![e] = [pc |-> "write", child |-> Absent, receipt |-> value]]
  /\ UNCHANGED lock

\* A receipt is answered or rejected, without effect: such a call is no step.
Enter(e) ==
  /\ lock = Absent
  /\ receipt = Absent
  /\ request \in Files /\ ~expired
  /\ Authentic
  /\ lock' = e
  /\ calls' = [calls EXCEPT ![e] =
       IF decision.verdict = "deny"
         THEN [pc |-> "write", child |-> Absent,
               receipt |-> [status |-> "DENIED", signature |-> Absent]]
         ELSE [Idle EXCEPT !.pc = "bind"]]
  /\ UNCHANGED <<files, people, signature, receipt, signers, signings, crashes>>

\* _validate_bound_file, of the artifact and of the evidence.
ValidateBound(e) ==
  /\ calls[e].pc = "bind"
  /\ IF live = request THEN Continue(e, "sign") ELSE Return(e)
  /\ UNCHANGED <<files, people, signature, receipt, signers, signings, crashes>>

FindSignature(e) ==
  /\ calls[e].pc = "sign" /\ signature # Absent
  /\ Continue(e, "verify")
  /\ UNCHANGED <<files, people, signature, receipt, signers, signings, crashes>>

InvokeSigner(e) ==
  /\ calls[e].pc = "sign" /\ signature = Absent
  /\ \E s \in Signers :
       /\ signers[s].pc = "idle"
       /\ signers' = [signers EXCEPT ![s].pc = "start"]
       /\ calls' = [calls EXCEPT ![e] = [@ EXCEPT !.pc = "wait", !.child = s]]
  /\ UNCHANGED <<files, people, signature, receipt, lock, signings, crashes>>

SignerReturned(e) ==
  /\ calls[e].pc = "wait"
  /\ LET s == calls[e].child IN
       /\ signers[s].pc \in {"done", "failed"}
       /\ signers' = [signers EXCEPT ![s] = NoSigner]
       /\ IF signers[s].pc = "done" /\ signature # Absent
            THEN /\ calls' = [calls EXCEPT ![e] = [@ EXCEPT !.pc = "verify", !.child = Absent]]
                 /\ UNCHANGED lock
            ELSE Return(e)
  /\ UNCHANGED <<files, people, signature, receipt, signings, crashes>>

\* GPG verifies the signature against the artifact as it is now.
VerifySignature(e) ==
  /\ calls[e].pc = "verify"
  /\ IF signature.over = live.artifact
       THEN Remember(e, [status |-> "SIGNED", signature |-> signature])
       ELSE Return(e)
  /\ UNCHANGED <<files, people, signature, receipt, signers, signings, crashes>>

CreateReceipt(e) ==
  /\ calls[e].pc = "write"
  /\ IF receipt = Absent
       THEN receipt' = Torn /\ Continue(e, "fill")
       ELSE UNCHANGED receipt /\ Return(e)
  /\ UNCHANGED <<files, people, signature, signers, signings, crashes>>

FillReceipt(e) ==
  /\ calls[e].pc = "fill"
  /\ receipt' = calls[e].receipt
  /\ Return(e)
  /\ UNCHANGED <<files, people, signature, signers, signings, crashes>>

\* Mutant: the lock is the file, not a lock on it.
DieHolding(e) ==
  /\ calls[e].pc # "idle"
  /\ crashes < MaxCrashes /\ crashes' = crashes + 1
  /\ calls' = [calls EXCEPT ![e] = Idle]
  /\ UNCHANGED <<files, people, signature, receipt, lock, signers, signings>>

\* The kernel releases the lock of a dead process; its signer lives on.
ExecutorDies(e) ==
  /\ calls[e].pc # "idle"
  /\ crashes < MaxCrashes /\ crashes' = crashes + 1
  /\ Return(e)
  /\ signers' = [s \in Signers |->
       IF s = calls[e].child /\ signers[s].pc \in {"done", "failed"}
         THEN NoSigner ELSE signers[s]]
  /\ UNCHANGED <<files, people, signature, receipt, signings>>

-----------------------------------------------------------------------------
(* sign_approved_artifact                                                  *)

\* A signer nobody waits for leaves no exit status.
Exit(s, pc) ==
  signers' = [signers EXCEPT ![s] =
    IF \E e \in Executors : calls[e].child = s
      THEN [NoSigner EXCEPT !.pc = pc] ELSE NoSigner]

Go(s, pc) == signers' = [signers EXCEPT ![s].pc = pc]

SignerAuthorize(s) ==
  /\ signers[s].pc = "start" /\ signings < MaxSignings
  /\ IF ~expired /\ Authentic /\ decision.verdict = "approve"
       THEN Go(s, "artifact") ELSE Exit(s, "failed")
  /\ UNCHANGED <<files, people, signature, receipt, lock, calls, signings, crashes>>

SignerCaptureArtifact(s) ==
  /\ signers[s].pc = "artifact"
  /\ IF live.artifact = request.artifact
       THEN signers' = [signers EXCEPT ![s] =
              [@ EXCEPT !.pc = "evidence", !.snapshot = live.artifact]]
       ELSE Exit(s, "failed")
  /\ UNCHANGED <<files, people, signature, receipt, lock, calls, signings, crashes>>

SignerCaptureEvidence(s) ==
  /\ signers[s].pc = "evidence"
  /\ IF live.evidence = request.evidence /\ signature = Absent
       THEN Go(s, "gpg") ELSE Exit(s, "failed")
  /\ UNCHANGED <<files, people, signature, receipt, lock, calls, signings, crashes>>

SignerSign(s) ==
  /\ signers[s].pc = "gpg" /\ signings < MaxSignings
  /\ signings' = signings + 1
  /\ signers' = [signers EXCEPT ![s] = [@ EXCEPT !.pc = "link", !.id = signings + 1]]
  /\ UNCHANGED <<files, people, signature, receipt, lock, calls, crashes>>

\* Mutant: the signer signs the file it was given, not what it captured.
LinkLive(s) ==
  /\ signers[s].pc = "link"
  /\ IF signature = Absent
       THEN /\ signature' = [over |-> live.artifact, id |-> signers[s].id]
            /\ Exit(s, "done")
       ELSE UNCHANGED signature /\ Exit(s, "failed")
  /\ UNCHANGED <<files, people, receipt, lock, calls, signings, crashes>>

\* Mutant: the signature is moved into place, over another one if need be.
LinkReplacing(s) ==
  /\ signers[s].pc = "link"
  /\ signature' = [over |-> signers[s].snapshot, id |-> signers[s].id]
  /\ Exit(s, "done")
  /\ UNCHANGED <<files, people, receipt, lock, calls, signings, crashes>>

\* os.link gives the signature its name, and replaces nothing.
SignerLink(s) ==
  /\ signers[s].pc = "link"
  /\ IF signature = Absent
       THEN /\ signature' = [over |-> signers[s].snapshot, id |-> signers[s].id]
            /\ Exit(s, "done")
       ELSE UNCHANGED signature /\ Exit(s, "failed")
  /\ UNCHANGED <<files, people, receipt, lock, calls, signings, crashes>>

\* GPG refuses, or the process dies: before it did anything, or with the
\* signature in place.
SignerFails(s) ==
  /\ signers[s].pc \in {"start", "artifact", "evidence", "gpg", "link", "done"}
  /\ Exit(s, "failed")
  /\ UNCHANGED <<files, people, signature, receipt, lock, calls, signings, crashes>>

-----------------------------------------------------------------------------
PersonStep(p) ==
  \/ \E verdict \in Verdicts : BeginDecision(p, verdict)
  \/ FillDecision(p) \/ SignDecision(p) \/ RecordDecision(p)
  \/ AbandonDecision(p) \/ RemoveDecision(p) \/ PersonDies(p)

\* What the scheduler owes a call that holds the lock.
Proceed(e) ==
  \/ ValidateBound(e) \/ FindSignature(e) \/ InvokeSigner(e) \/ SignerReturned(e)
  \/ VerifySignature(e) \/ CreateReceipt(e) \/ FillReceipt(e)

SignerStep(s) ==
  \/ SignerAuthorize(s) \/ SignerCaptureArtifact(s) \/ SignerCaptureEvidence(s)
  \/ SignerSign(s) \/ SignerLink(s) \/ SignerFails(s)

Next ==
  \/ CreateRequest \/ FillRequest \/ Edit \/ Expire
  \/ \E p \in People : PersonStep(p)
  \/ \E e \in Executors : Enter(e) \/ Proceed(e) \/ ExecutorDies(e)
  \/ \E s \in Signers : SignerStep(s)

Spec == Init /\ [][Next]_vars

\* Processes that run are scheduled; nobody has to decide, retry or die.
FairSpec ==
  /\ Spec
  /\ \A e \in Executors : WF_vars(Proceed(e))
  /\ \A s \in Signers : WF_vars(SignerStep(s))

-----------------------------------------------------------------------------
(* Properties                                                              *)

\* Every variable keeps its shape.
TypeOK ==
  /\ request \in Files \cup {Absent, Torn}
  /\ live \in Files
  /\ decision \in Decisions \cup {Absent, Torn}
  /\ approval \in [key : People, over : Decisions] \cup {Absent}
  /\ signature \in Signatures \cup {Absent}
  /\ receipt \in Receipts \cup {Absent, Torn}
  /\ expired \in BOOLEAN
  /\ deciding \in [People -> Writer]
  /\ voted \in SUBSET Verdicts /\ withdrawn \in BOOLEAN
  /\ lock \in Executors \cup {Absent}
  /\ calls \in [Executors -> Call]
  /\ signers \in [Signers -> Signer]
  /\ signings \in 0 .. MaxSignings
  /\ edits \in 0 .. MaxEdits /\ crashes \in 0 .. MaxCrashes

\* The reviewer's key has signed this verdict on the request; and it is the
\* decision on file, unless a recorder has removed one that was authentic.
Voted(verdict) ==
  /\ verdict \in voted
  /\ ~withdrawn => Authentic /\ decision.verdict = verdict

\* protected_signer: whatever is edited, recorded or killed meanwhile, a
\* signature that exists covers the very bytes the request binds, and the
\* reviewer has signed an approval of them: the one on file, unless a recorder
\* whose GPG failed late has taken an approval back since.
SignatureIsApproved ==
  signature # Absent =>
    /\ signature.over = request.artifact
    /\ Voted("approve")

\* What a receipt, written or remembered, owes to the decision and the signature.
Owed(value) ==
  /\ Voted(IF value.status = "SIGNED" THEN "approve" ELSE "deny")
  /\ IF value.status = "SIGNED"
       THEN signature # Absent /\ value.signature = signature
       ELSE value.signature = Absent /\ (~withdrawn => signature = Absent)

\* _receipt: a complete receipt says what the reviewer's key has signed, the
\* decision on file unless one was taken back; a SIGNED one binds the signature
\* that is there, not one that a signer left behind by a dead call has put in
\* its place, and a DENIED one means that there is none.
ReceiptIsTrue == receipt \in Receipts => Owed(receipt)

\* record_human_decision, which takes no lock: the reviewer's decision is
\* replaced or removed by nobody once its own recorder has returned or died.
\* Before that an authentic decision can go: see AbandonDecision.
DecisionStands ==
  [][Authentic /\ deciding[Reviewer].pc = "idle" =>
       decision' = decision /\ approval' = approval]_vars

\* execute: however its signer ends and whoever dies, the lock of a request
\* does not stay taken.
LockIsReleased == lock # Absent ~> lock = Absent

\* Whoever is recording a decision is alone; a signed decision is the one on
\* file, of the key that signed it, and only the recorder whose GPG wrote the
\* signature can be at work by then.
DecisionInv ==
  /\ request \notin Files => decision = Absent /\ voted = {}
  /\ decision \notin Decisions => approval = Absent
  /\ approval # Absent => approval.over = decision /\ approval.key = decision.by
  /\ Authentic => decision.verdict \in voted
  /\ \A p \in People :
       /\ deciding[p].pc = "fill" => decision = Torn
       /\ deciding[p].pc \in {"gpg", "orphan", "check", "undo"} =>
            decision = [verdict |-> deciding[p].verdict, by |-> p]
       /\ deciding[p].pc \in {"gpg", "orphan", "undo"} => approval = Absent
       /\ \A q \in People :
            deciding[p].pc # "idle" /\ deciding[q].pc # "idle" => p = q

Approved == Voted("approve")

\* What the call that holds the lock knows, by how far it is.
CallInv(e) ==
  /\ calls[e].pc # "idle" <=> lock = e
  /\ calls[e].pc = "idle" => calls[e] = Idle
  /\ calls[e].pc = "wait" <=> calls[e].child # Absent
  /\ calls[e].pc \in {"bind", "sign", "wait", "verify"} => Approved
  /\ calls[e].pc = "verify" => signature # Absent
  /\ calls[e].pc \in {"write", "fill"} =>
       calls[e].receipt \in Receipts /\ Owed(calls[e].receipt)

\* A signer that got past its authorisation goes on under an approval the
\* reviewer has signed, with the bytes the request binds.
SignerInv(s) ==
  /\ signers[s].pc \in {"artifact", "evidence", "gpg", "link"} => Approved
  /\ signers[s].pc \in {"evidence", "gpg", "link"} =>
       signers[s].snapshot = request.artifact
  /\ signers[s].pc = "link" => signers[s].id > 0

\* The inductive invariant: with TypeOK it implies every invariant above.
IInv ==
  /\ DecisionInv
  /\ \A e \in Executors : CallInv(e)
  /\ \A s \in Signers : SignerInv(s)
  /\ signature # Absent => Approved /\ signature.over = request.artifact
  /\ receipt \in Receipts => Owed(receipt)

\* "If the process stops after signature creation but before receipt
\* publication, retry validates the existing signature and publishes the
\* receipt" (docs/APPROVAL_SIGNING.md): a stop must leave a receipt.json that
\* is absent or whole, since every retry takes a torn one for the receipt.
StoppedSigningCanBeRetried ==
  signature # Absent /\ lock = Absent => receipt # Torn

=============================================================================
