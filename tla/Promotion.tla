------------------------------ MODULE Promotion -------------------------------
(***************************************************************************)
(* Approved promotion of reviewed domains into one file of the protected   *)
(* registry: requests, their decisions, and the publishers that execute    *)
(* them, retry and die.  Source: pipeline/domain_promotion_approval.py.    *)
(*                                                                         *)
(* The bytes a request publishes hold its own identity, so a request       *)
(* stands for them.  What Approval shows of a decision and of the signer   *)
(* is used here: a decision is there or not, and its recorder may take it  *)
(* back; a signature appears whole.                                        *)
(* Only publishers write the registry, as docs/DOMAIN_PROMOTION_APPROVAL.md *)
(* demands of the operator.                                                *)
(***************************************************************************)
EXTENDS Naturals, FiniteSets

CONSTANTS
  Requests,    \* promotion requests for one destination
  Publishers,  \* publisher processes that may run at the same time
  NoDomain,    \* the destination does not exist
  Nobody,
  MaxCrashes,  \* bound: publishers that die, or are killed by the time limit, and
               \* decisions that are taken back
  MaxVoids     \* bound: what is expired, revoked or edited

ASSUME PromotionAssumption ==
  /\ MaxCrashes \in Nat /\ MaxVoids \in Nat
  /\ NoDomain \notin Requests
  /\ Nobody \notin Publishers \cup Requests

Contents == Requests \cup {NoDomain}

VARIABLES
  destination, \* the registry's file
  request,     \* request.json and operation.json of each request
  decision,    \* the authentic decision of each request
  voted,       \* history: the verdicts each request was ever given
  intent,      \* publication-intent.json
  signed,      \* reviewed.sig exists
  receipt,     \* receipt.json
  void,        \* why a request may no longer be carried out
  lock,        \* .promotion.lock, one for the registry
  calls,       \* where each publisher is
  published,   \* history: how often each request was renamed into place
  crashes

vars == <<destination, request, decision, voted, intent, signed, receipt, void, lock,
          calls, published, crashes>>

decisions == <<decision, voted>>

Written == {"absent", "torn", "whole"}

Reasons == {"expired", "revoked", "inputs changed"}

Operation == [made : BOOLEAN, prior : Contents, sign : BOOLEAN]

Call ==
  [pc : {"idle", "check", "intent", "fill intent", "sign", "recheck", "replace",
         "write", "fill"},
   request : Requests \cup {Nobody}, recovered : BOOLEAN, status : {"PROMOTED", "DENIED"}]

Idle == [pc |-> "idle", request |-> Nobody, recovered |-> FALSE, status |-> "DENIED"]

Init ==
  /\ destination = NoDomain
  /\ request = [r \in Requests |-> [made |-> FALSE, prior |-> NoDomain, sign |-> FALSE]]
  /\ decision = [r \in Requests |-> "none"]
  /\ voted = [r \in Requests |-> {}]
  /\ intent = [r \in Requests |-> "absent"]
  /\ signed = [r \in Requests |-> FALSE]
  /\ receipt = [r \in Requests |-> "absent"]
  /\ void = [r \in Requests |-> {}]
  /\ lock = Nobody
  /\ calls = [p \in Publishers |-> Idle]
  /\ published = [r \in Requests |-> 0]
  /\ crashes = 0

-----------------------------------------------------------------------------
(* Requests and what happens to them                                       *)

\* request_promotion: it binds what the destination holds now.
RequestPromotion(r, replace, sign) ==
  /\ ~request[r].made
  /\ destination # NoDomain => replace       \* else DESTINATION_EXISTS
  /\ request' = [request EXCEPT ![r] = [made |-> TRUE, prior |-> destination, sign |-> sign]]
  /\ UNCHANGED <<destination, decisions, intent, signed, receipt, void, lock, calls,
                 published, crashes>>

\* record_human_decision: GPG has written its signature.
Decide(r, verdict) ==
  /\ request[r].made /\ decision[r] = "none"
  /\ decision' = [decision EXCEPT ![r] = verdict]
  /\ voted' = [voted EXCEPT ![r] = @ \cup {verdict}]
  /\ UNCHANGED <<destination, request, intent, signed, receipt, void, lock, calls,
                 published, crashes>>

\* Its GPG fails with the signature written: the recorder removes both files, however
\* long that takes it.
WithdrawDecision(r) ==
  /\ decision[r] # "none"
  /\ crashes < MaxCrashes /\ crashes' = crashes + 1
  /\ decision' = [decision EXCEPT ![r] = "none"]
  /\ UNCHANGED <<destination, request, voted, intent, signed, receipt, void, lock, calls,
                 published>>

\* Time passes, the operator revokes, somebody edits the live inputs.
Void(r, reason) ==
  /\ request[r].made /\ reason \notin void[r]
  /\ Cardinality({q \in Requests \X Reasons : q[2] \in void[q[1]]}) < MaxVoids
  /\ void' = [void EXCEPT ![r] = @ \cup {reason}]
  /\ UNCHANGED <<destination, request, decisions, intent, signed, receipt, lock, calls,
                 published, crashes>>

-----------------------------------------------------------------------------
(* publish_approved, under .promotion.lock                                 *)

Return(p) ==
  /\ calls' = [calls EXCEPT ![p] = Idle]
  /\ lock' = Nobody

Continue(p, pc) ==
  /\ calls' = [calls EXCEPT ![p].pc = pc]
  /\ UNCHANGED lock

\* _authorization: _validate_request and _authenticate_decision.
Authorized(r) ==
  /\ request[r].made /\ decision[r] # "none"
  /\ void[r] \cap {"expired", "revoked"} = {}

Started(r) ==
  IF decision[r] = "deny"
    THEN [pc |-> "write", request |-> r, recovered |-> FALSE, status |-> "DENIED"]
    ELSE [pc |-> "check", request |-> r, recovered |-> FALSE, status |-> "PROMOTED"]

\* Mutant: one lock for each request, as the signing of evidence has it.
BeginUnderOwnLock(p, r) ==
  /\ calls[p].pc = "idle" /\ \A q \in Publishers : calls[q].request # r
  /\ receipt[r] = "absent" /\ Authorized(r)
  /\ lock' = p
  /\ calls' = [calls EXCEPT ![p] = Started(r)]
  /\ UNCHANGED <<destination, request, decisions, intent, signed, receipt, void,
                 published, crashes>>

\* A receipt is answered or rejected without effect: such a call is no step.
Begin(p, r) ==
  /\ lock = Nobody
  /\ receipt[r] = "absent" /\ Authorized(r)
  /\ lock' = p
  /\ calls' = [calls EXCEPT ![p] = Started(r)]
  /\ UNCHANGED <<destination, request, decisions, intent, signed, receipt, void,
                 published, crashes>>

\* Mutant: an intent is taken for the publication it announces.
Intends(r) == intent[r] # "absent"

\* Mutant: a retry is held to the destination that was reviewed.
RecoversNothing(r) == FALSE

\* The destination holds this request's own bytes, and it meant to put them there.
Recovers(r) == intent[r] # "absent" /\ destination = r

\* The inputs, the captured bytes, the intent and the reviewed destination.
Check(p) ==
  LET r == calls[p].request IN
  /\ calls[p].pc = "check"
  /\ IF /\ "inputs changed" \notin void[r]
        /\ intent[r] # "torn"
        /\ Recovers(r) \/ destination = request[r].prior
       THEN /\ calls' = [calls EXCEPT ![p] =
                 [@ EXCEPT !.pc = IF intent[r] = "absent" THEN "intent" ELSE "sign",
                           !.recovered = Recovers(r)]]
            /\ UNCHANGED lock
       ELSE Return(p)
  /\ UNCHANGED <<destination, request, decisions, intent, signed, receipt, void,
                 published, crashes>>

\* _write_once of publication-intent.json.
CreateIntent(p) ==
  /\ calls[p].pc = "intent"
  /\ intent' = [intent EXCEPT ![calls[p].request] = "torn"]
  /\ Continue(p, "fill intent")
  /\ UNCHANGED <<destination, request, decisions, signed, receipt, void, published, crashes>>

FillIntent(p) ==
  /\ calls[p].pc = "fill intent"
  /\ intent' = [intent EXCEPT ![calls[p].request] = "whole"]
  /\ Continue(p, "sign")
  /\ UNCHANGED <<destination, request, decisions, signed, receipt, void, published, crashes>>

AfterSigning(p) == IF calls[p].recovered THEN "write" ELSE "recheck"

\* No signature wanted, or one is there.
SkipSigning(p) ==
  LET r == calls[p].request IN
  /\ calls[p].pc = "sign" /\ (request[r].sign => signed[r])
  /\ Continue(p, AfterSigning(p))
  /\ UNCHANGED <<destination, request, decisions, intent, signed, receipt, void,
                 published, crashes>>

\* The protected signer checks the expiry and the decision once more, and may fail.
Sign(p) ==
  LET r == calls[p].request IN
  /\ calls[p].pc = "sign" /\ request[r].sign /\ ~signed[r]
  /\ \/ /\ "expired" \notin void[r] /\ decision[r] = "approve"
        /\ signed' = [signed EXCEPT ![r] = TRUE]
        /\ Continue(p, AfterSigning(p))
     \/ UNCHANGED signed /\ Return(p)
  /\ UNCHANGED <<destination, request, decisions, intent, receipt, void, published, crashes>>

\* Signing can take time: the destination is compared again before the rename.
Recheck(p) ==
  /\ calls[p].pc = "recheck"
  /\ IF destination = request[calls[p].request].prior
       THEN Continue(p, "replace") ELSE Return(p)
  /\ UNCHANGED <<destination, request, decisions, intent, signed, receipt, void,
                 published, crashes>>

\* os.replace.
Replace(p) ==
  LET r == calls[p].request IN
  /\ calls[p].pc = "replace"
  /\ destination' = r
  /\ published' = [published EXCEPT ![r] = @ + 1]
  /\ Continue(p, "write")
  /\ UNCHANGED <<request, decisions, intent, signed, receipt, void, crashes>>

CreateReceipt(p) ==
  /\ calls[p].pc = "write"
  /\ receipt' = [receipt EXCEPT ![calls[p].request] = "torn"]
  /\ Continue(p, "fill")
  /\ UNCHANGED <<destination, request, decisions, intent, signed, void, published, crashes>>

FillReceipt(p) ==
  /\ calls[p].pc = "fill"
  /\ receipt' = [receipt EXCEPT ![calls[p].request] = calls[p].status]
  /\ Return(p)
  /\ UNCHANGED <<destination, request, decisions, intent, signed, void, published, crashes>>

\* execute gives the publisher 120 seconds and kills it.
PublisherDies(p) ==
  /\ calls[p].pc # "idle"
  /\ crashes < MaxCrashes /\ crashes' = crashes + 1
  /\ Return(p)
  /\ UNCHANGED <<destination, request, decisions, intent, signed, receipt, void, published>>

Step(p) ==
  \/ Check(p) \/ CreateIntent(p) \/ FillIntent(p) \/ SkipSigning(p) \/ Sign(p)
  \/ Recheck(p) \/ Replace(p) \/ CreateReceipt(p) \/ FillReceipt(p)

Next ==
  \/ \E r \in Requests :
       \/ \E replace, sign \in BOOLEAN : RequestPromotion(r, replace, sign)
       \/ \E verdict \in {"approve", "deny"} : Decide(r, verdict)
       \/ WithdrawDecision(r)
       \/ \E reason \in Reasons : Void(r, reason)
       \/ \E p \in Publishers : Begin(p, r)
  \/ \E p \in Publishers : Step(p) \/ PublisherDies(p)

Spec == Init /\ [][Next]_vars

\* A publisher that runs is scheduled; and whoever waits for a request asks again
\* as long as it is authorised and has no receipt ("retry the same request ID").
Retried(r) == \E p \in Publishers : Begin(p, r)

FairSpec ==
  /\ Spec
  /\ \A p \in Publishers : WF_vars(Step(p))
  /\ \A r \in Requests : SF_vars(Retried(r))

-----------------------------------------------------------------------------
(* Properties                                                              *)

\* Every variable keeps its shape.
TypeOK ==
  /\ destination \in Contents
  /\ request \in [Requests -> Operation]
  /\ decision \in [Requests -> {"none", "approve", "deny"}]
  /\ voted \in [Requests -> SUBSET {"approve", "deny"}]
  /\ intent \in [Requests -> Written]
  /\ signed \in [Requests -> BOOLEAN]
  /\ receipt \in [Requests -> {"absent", "torn", "PROMOTED", "DENIED"}]
  /\ void \in [Requests -> SUBSET Reasons]
  /\ lock \in Publishers \cup {Nobody}
  /\ calls \in [Publishers -> Call]
  /\ published \in [Requests -> Nat]
  /\ crashes \in 0 .. MaxCrashes

\* publish_approved: a receipt that says PROMOTED was approved, signed if that
\* was reviewed, and published once, whatever retries and deaths lie between.
ReceiptMeansPublished ==
  \A r \in Requests : receipt[r] = "PROMOTED" =>
    /\ "approve" \in voted[r] /\ published[r] = 1
    /\ request[r].sign => signed[r]

\* publish_approved: what has been renamed into place gets its receipt, whoever
\* dies before that, as long as it is retried.  The code lets go of it in four
\* cases: a death while receipt.json is being filled, which leaves a torn one; a
\* later request that has replaced the file; an expiry, a revocation or a change
\* of the inputs; and a decision that its recorder has taken back.
PublicationIsFinished ==
  \A r \in Requests :
    published[r] > 0 ~> \/ receipt[r] # "absent"
                        \/ destination # r
                        \/ void[r] # {}
                        \/ decision[r] # "approve"

\* What that rests on: while its file is in place and its inputs are unchanged, a
\* published request is turned away at no step of a retry; a call that was
\* approved ends with the PROMOTED receipt, or dies.
RetryIsNotRefused ==
  [][\A p \in Publishers :
       LET r == calls[p].request IN
       /\ calls[p].pc # "idle" /\ calls[p].status = "PROMOTED"
       /\ published[r] > 0 /\ destination = r /\ "inputs changed" \notin void[r]
       /\ calls'[p].pc = "idle"
       => receipt'[r] = "PROMOTED" \/ crashes' > crashes]_vars

Register == INSTANCE DomainRegister WITH
  value <- destination,
  seen <- [r \in Requests |-> IF request[r].made THEN request[r].prior ELSE "unseen"],
  applied <- {r \in Requests : published[r] > 0}

\* Publishers of different requests, retries and deaths leave a register that
\* changes once per request, from the content its reviewer saw.
ImplementsRegister == Register!Spec

\* A request is published at most once, intended first; what a reviewer saw was
\* published before, so the destination never comes back to what a published
\* request replaced.
RegistryInv ==
  /\ destination # NoDomain => published[destination] > 0
  /\ \A r \in Requests :
       /\ published[r] \in {0, 1}
       /\ request[r].made /\ request[r].prior # NoDomain =>
            published[request[r].prior] > 0
       /\ published[r] > 0 =>
            /\ request[r].made /\ intent[r] = "whole"
            /\ destination # request[r].prior
            /\ request[r].sign => signed[r]
       /\ decision[r] # "none" => decision[r] \in voted[r]
       /\ voted[r] # {} => request[r].made

\* What the publisher that holds the lock knows, by how far it is.
CallInv(p) ==
  LET k == calls[p]
      r == k.request IN
  /\ k.pc # "idle" <=> lock = p
  /\ k.pc = "idle" => k = Idle
  /\ k.pc # "idle" =>
       /\ r \in Requests
       /\ (IF k.status = "PROMOTED" THEN "approve" ELSE "deny") \in voted[r]
       /\ receipt[r] = (IF k.pc = "fill" THEN "torn" ELSE "absent")
  /\ k.status = "DENIED" => k.pc \in {"idle", "write", "fill"}
  /\ k.pc = "intent" => intent[r] = "absent"
  /\ k.pc = "fill intent" => intent[r] = "torn"
  /\ k.pc \in {"sign", "recheck", "replace"} => intent[r] = "whole"
  /\ k.pc \in {"intent", "fill intent", "sign", "recheck", "replace"} =>
       IF k.recovered THEN destination = r ELSE destination = request[r].prior
  /\ k.pc \in {"intent", "fill intent", "recheck", "replace"} => ~k.recovered
  /\ k.pc \in {"recheck", "replace", "write", "fill"} /\ k.status = "PROMOTED" =>
       (request[r].sign => signed[r])
  /\ k.pc \in {"write", "fill"} /\ k.status = "PROMOTED" => published[r] = 1

\* The inductive invariant: with TypeOK it implies every property above.
IInv ==
  /\ RegistryInv
  /\ \A p \in Publishers : CallInv(p)
  /\ ReceiptMeansPublished

=============================================================================
