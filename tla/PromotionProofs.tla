---------------------------- MODULE PromotionProofs ----------------------------
(***************************************************************************)
(* Proofs about Promotion, for any number of requests, of publishers and   *)
(* of deaths: what a receipt means, that a retry is not refused, and that   *)
(* the registry's file is the register DomainRegister promises.            *)
(***************************************************************************)
EXTENDS Promotion, TLAPS

Inv == TypeOK /\ IInv

LEMMA Distinct ==
  /\ NoDomain \notin Requests /\ Nobody \notin Requests /\ Nobody \notin Publishers
  /\ MaxCrashes \in Nat
  BY PromotionAssumption

LEMMA IdleIsCall == Idle \in Call
  BY DEF Idle, Call

-----------------------------------------------------------------------------
(* The publisher that holds the lock                                       *)

LEMMA Active ==
  ASSUME Inv, NEW p \in Publishers, calls[p].pc # "idle"
  PROVE  /\ TypeOK /\ calls[p] \in Call /\ CallInv(p) /\ lock = p
         /\ calls[p].request \in Requests /\ request[calls[p].request].made
         /\ \A q \in Publishers : q # p => calls[q] = Idle
  <1>1. TypeOK /\ calls[p] \in Call /\ \A q \in Publishers : CallInv(q)
    BY DEF Inv, IInv, TypeOK
  <1>2. lock = p /\ calls[p].request \in Requests /\ voted[calls[p].request] # {}
    BY <1>1 DEF CallInv
  <1>3. \A q \in Publishers : q # p => calls[q] = Idle
    BY <1>1, <1>2 DEF CallInv
  <1> QED
    BY <1>1, <1>2, <1>3 DEF Inv, IInv, RegistryInv

LEMMA IdleCall ==
  ASSUME NEW q \in Publishers, calls'[q] = Idle, lock' # q
  PROVE  CallInv(q)'
  BY DEF CallInv, Idle

\* What a step of the publisher that holds the lock has to show.
LEMMA PublisherStep ==
  ASSUME NEW p \in Publishers, lock' \in {p, Nobody},
         \A q \in Publishers : q # p => calls'[q] = Idle,
         CallInv(p)', RegistryInv', ReceiptMeansPublished'
  PROVE  IInv'
  BY IdleCall, Distinct DEF IInv

LEMMA Returned ==
  ASSUME Inv, NEW p \in Publishers, calls[p].pc # "idle", Return(p),
         RegistryInv', ReceiptMeansPublished'
  PROVE  IInv' /\ calls' \in [Publishers -> Call] /\ lock' = Nobody
  <1>1. /\ calls \in [Publishers -> Call] /\ calls' = [calls EXCEPT ![p] = Idle]
        /\ lock' = Nobody /\ lock' # p
    BY Distinct DEF Inv, TypeOK, Return
  <1>2. calls'[p] = Idle /\ \A q \in Publishers : q # p => calls'[q] = Idle
    BY <1>1, Active
  <1> QED
    BY <1>1, <1>2, IdleIsCall, IdleCall, PublisherStep

LEMMA Continued ==
  ASSUME Inv, NEW p \in Publishers, calls[p].pc # "idle",
         NEW pc \in {"fill intent", "sign", "recheck", "replace", "write", "fill"},
         Continue(p, pc)
  PROVE  /\ calls' \in [Publishers -> Call] /\ lock' = p
         /\ calls'[p] = [calls[p] EXCEPT !.pc = pc]
         /\ calls'[p].pc = pc /\ calls'[p].request = calls[p].request
         /\ calls'[p].recovered = calls[p].recovered /\ calls'[p].status = calls[p].status
         /\ \A q \in Publishers : q # p => calls'[q] = Idle
  <1>1. /\ calls \in [Publishers -> Call] /\ calls' = [calls EXCEPT ![p].pc = pc]
        /\ lock' = lock /\ lock = p /\ calls[p] \in Call
    BY Active DEF Inv, TypeOK, Continue
  <1>2. calls'[p] = [calls[p] EXCEPT !.pc = pc]
    BY <1>1
  <1>3. calls'[p] \in Call /\ calls'[p].pc = pc /\ calls'[p].request = calls[p].request
        /\ calls'[p].recovered = calls[p].recovered /\ calls'[p].status = calls[p].status
    BY <1>1, <1>2 DEF Call
  <1>4. \A q \in Publishers : q # p => calls'[q] = Idle
    BY <1>1, Active
  <1> QED
    BY <1>1, <1>2, <1>3, <1>4

LEMMA RegistryKeeps ==
  ASSUME Inv, UNCHANGED <<destination, request, decision, voted, intent, published>>,
         \A r \in Requests : signed[r] => signed'[r]
  PROVE  RegistryInv'
  BY DEF Inv, IInv, RegistryInv

LEMMA ReceiptsKeep ==
  ASSUME Inv, UNCHANGED <<request, voted, receipt, published>>,
         \A r \in Requests : signed[r] => signed'[r]
  PROVE  ReceiptMeansPublished'
  BY DEF Inv, IInv, ReceiptMeansPublished

-----------------------------------------------------------------------------
(* Requests and what happens to them                                       *)

LEMMA OthersWork ==
  ASSUME Inv, UNCHANGED <<destination, intent, signed, receipt, lock, calls, published>>,
         \A r \in Requests : request[r].made => request'[r] = request[r],
         \A r \in Requests : voted[r] \subseteq voted'[r],
         RegistryInv'
  PROVE  IInv'
  <1>1. ASSUME NEW p \in Publishers
        PROVE  CallInv(p)'
    <2>1. CASE calls[p].pc = "idle"
      BY <2>1 DEF Inv, IInv, CallInv, Idle
    <2>2. CASE calls[p].pc # "idle"
      <3>1. /\ CallInv(p) /\ calls[p].request \in Requests
            /\ request'[calls[p].request] = request[calls[p].request]
        BY <2>2, Active
      <3>2. voted[calls[p].request] \subseteq voted'[calls[p].request]
        BY <3>1
      <3> QED
        BY <2>2, <3>1, <3>2 DEF CallInv
    <2> QED
      BY <2>1, <2>2
  <1>2. ReceiptMeansPublished'
    <2> SUFFICES ASSUME NEW r \in Requests, receipt[r] = "PROMOTED"
                 PROVE  /\ "approve" \in voted'[r] /\ published[r] = 1
                        /\ request'[r].sign => signed[r]
      BY DEF ReceiptMeansPublished
    <2>1. "approve" \in voted[r] /\ published[r] = 1 /\ (request[r].sign => signed[r])
      BY DEF Inv, IInv, ReceiptMeansPublished
    <2>2. request[r].made
      BY <2>1 DEF Inv, IInv, RegistryInv
    <2> QED
      BY <2>1, <2>2
  <1> QED
    BY <1>1, <1>2 DEF IInv

LEMMA RequestStep ==
  ASSUME Inv, NEW r \in Requests, NEW replace \in BOOLEAN, NEW sign \in BOOLEAN,
         RequestPromotion(r, replace, sign)
  PROVE  TypeOK' /\ IInv'
  <1> DEFINE made == [made |-> TRUE, prior |-> destination, sign |-> sign]
  <1>1. /\ TypeOK /\ RegistryInv /\ ~request[r].made
        /\ request' = [request EXCEPT ![r] = made]
        /\ UNCHANGED <<destination, decision, voted, intent, signed, receipt, void, lock,
                       calls, published, crashes>>
    BY DEF RequestPromotion, Inv, IInv, decisions
  <1>2. made \in Operation
    BY <1>1 DEF TypeOK, Operation
  <1>3. TypeOK'
    BY <1>1, <1>2 DEF TypeOK
  <1>4. request'[r] = made /\ \A q \in Requests : q # r => request'[q] = request[q]
    BY <1>1 DEF TypeOK
  <1>5. RegistryInv'
    BY <1>1, <1>4 DEF RegistryInv
  <1> QED
    BY <1>1, <1>3, <1>4, <1>5, OthersWork

LEMMA DecideStep ==
  ASSUME Inv, NEW r \in Requests, NEW verdict \in {"approve", "deny"}, Decide(r, verdict)
  PROVE  TypeOK' /\ IInv'
  <1>1. /\ TypeOK /\ RegistryInv /\ request[r].made /\ decision[r] = "none"
        /\ decision' = [decision EXCEPT ![r] = verdict]
        /\ voted' = [voted EXCEPT ![r] = @ \cup {verdict}]
        /\ UNCHANGED <<destination, request, intent, signed, receipt, void, lock, calls,
                       published, crashes>>
    BY DEF Decide, Inv, IInv
  <1>2. TypeOK'
    BY <1>1 DEF TypeOK
  <1>3. /\ decision'[r] = verdict /\ voted'[r] = voted[r] \cup {verdict}
        /\ \A q \in Requests : q # r => decision'[q] = decision[q] /\ voted'[q] = voted[q]
    BY <1>1 DEF TypeOK
  <1>4. RegistryInv'
    BY <1>1, <1>3 DEF RegistryInv
  <1> QED
    BY <1>1, <1>2, <1>3, <1>4, OthersWork

LEMMA WithdrawStep ==
  ASSUME Inv, NEW r \in Requests, WithdrawDecision(r)
  PROVE  TypeOK' /\ IInv'
  <1>1. /\ TypeOK /\ RegistryInv /\ crashes < MaxCrashes /\ crashes' = crashes + 1
        /\ decision' = [decision EXCEPT ![r] = "none"]
        /\ UNCHANGED <<destination, request, voted, intent, signed, receipt, void, lock, calls,
                       published>>
    BY DEF WithdrawDecision, Inv, IInv
  <1>2. TypeOK'
    BY <1>1, Distinct DEF TypeOK
  <1>3. \A q \in Requests : decision'[q] \in {"none", decision[q]}
    BY <1>1 DEF TypeOK
  <1>4. RegistryInv'
    BY <1>1, <1>3 DEF RegistryInv
  <1> QED
    BY <1>1, <1>2, <1>4, OthersWork

LEMMA VoidStep ==
  ASSUME Inv, NEW r \in Requests, NEW reason \in Reasons, Void(r, reason)
  PROVE  TypeOK' /\ IInv'
  <1>1. TypeOK'
    BY DEF Void, Inv, TypeOK, decisions
  <1>2. UNCHANGED <<destination, request, decision, voted, intent, signed, receipt, lock, calls,
                    published>>
    BY DEF Void, decisions
  <1> QED
    BY <1>1, <1>2, RegistryKeeps, OthersWork

-----------------------------------------------------------------------------
(* The steps of a publisher                                                *)

LEMMA BeginStep ==
  ASSUME Inv, NEW p \in Publishers, NEW r \in Requests, Begin(p, r)
  PROVE  TypeOK' /\ IInv'
  <1>1. /\ lock = Nobody /\ receipt[r] = "absent" /\ request[r].made /\ decision[r] \in voted[r]
        /\ decision[r] # "none" /\ lock' = p /\ calls' = [calls EXCEPT ![p] = Started(r)] /\ TypeOK
        /\ UNCHANGED <<destination, request, decision, voted, intent, signed, receipt, void,
                       published, crashes>>
    BY DEF Begin, Authorized, Inv, IInv, RegistryInv, decisions
  <1>2. Started(r) \in Call
    BY DEF Started, Call
  <1>3. TypeOK'
    BY <1>1, <1>2 DEF TypeOK
  <1>4. \A q \in Publishers : q # p => calls'[q] = Idle
    <2>1. \A q \in Publishers : calls[q] = Idle
      BY <1>1, Distinct DEF Inv, IInv, CallInv
    <2> QED
      BY <1>1, <2>1 DEF TypeOK
  <1>5. calls'[p] = Started(r)
    BY <1>1 DEF TypeOK
  <1>6. CallInv(p)'
    <2>1. CASE decision[r] = "deny"
      <3>1. calls'[p] = [pc |-> "write", request |-> r, recovered |-> FALSE, status |-> "DENIED"]
        BY <1>5, <2>1 DEF Started
      <3>2. calls'[p].pc = "write" /\ calls'[p].request = r /\ calls'[p].status = "DENIED"
        BY <3>1
      <3> QED
        BY <1>1, <2>1, <3>2 DEF CallInv
    <2>2. CASE decision[r] = "approve"
      <3>1. calls'[p] = [pc |-> "check", request |-> r, recovered |-> FALSE, status |-> "PROMOTED"]
        BY <1>5, <2>2 DEF Started
      <3>2. calls'[p].pc = "check" /\ calls'[p].request = r /\ calls'[p].status = "PROMOTED"
        BY <3>1
      <3> QED
        BY <1>1, <2>2, <3>2 DEF CallInv
    <2> QED
      BY <1>1, <2>1, <2>2 DEF TypeOK
  <1> QED
    BY <1>1, <1>3, <1>4, <1>6, RegistryKeeps, ReceiptsKeep, PublisherStep

LEMMA CheckStep ==
  ASSUME Inv, NEW p \in Publishers, Check(p)
  PROVE  TypeOK' /\ IInv'
  <1> DEFINE r == calls[p].request
             pc == IF intent[r] = "absent" THEN "intent" ELSE "sign"
             k == [calls[p] EXCEPT !.pc = pc, !.recovered = Recovers(r)]
  <1>1. /\ UNCHANGED <<destination, request, decision, voted, intent, signed, receipt, void,
                       published, crashes>>
        /\ calls[p].pc = "check" /\ TypeOK /\ calls[p] \in Call /\ CallInv(p) /\ lock = p
        /\ r \in Requests
    BY Active DEF Check, decisions
  <1>2. RegistryInv' /\ ReceiptMeansPublished'
    BY <1>1, RegistryKeeps, ReceiptsKeep
  <1>3. CASE Return(p)
    BY <1>1, <1>2, <1>3, Returned DEF TypeOK
  <1>4. CASE /\ intent[r] # "torn"
             /\ Recovers(r) \/ destination = request[r].prior
             /\ calls' = [calls EXCEPT ![p] = k] /\ UNCHANGED lock
    <2>1. /\ k \in Call /\ k.pc = pc /\ k.request = r /\ k.recovered = Recovers(r)
          /\ k.status = calls[p].status
      BY <1>1 DEF Call, Recovers
    <2>2. calls'[p] = k /\ calls' \in [Publishers -> Call]
      BY <1>1, <1>4, <2>1 DEF TypeOK
    <2>3. \A q \in Publishers : q # p => calls'[q] = Idle
      BY <1>1, <1>4, Active DEF TypeOK
    <2>4. TypeOK'
      BY <1>1, <1>4, <2>2 DEF TypeOK
    <2>5. /\ calls'[p].pc = pc /\ calls'[p].request = r /\ calls'[p].recovered = Recovers(r)
          /\ calls'[p].status = calls[p].status /\ lock' = lock
      BY <1>4, <2>1, <2>2
    <2>6. CASE intent[r] = "absent"
      <3>1. calls'[p].pc = "intent" /\ ~calls'[p].recovered /\ destination = request[r].prior
        BY <1>4, <2>5, <2>6 DEF Recovers
      <3>2. CallInv(p)'
        BY <1>1, <2>5, <2>6, <3>1 DEF CallInv
      <3> QED
        BY <1>1, <1>2, <2>3, <2>4, <2>5, <3>2, PublisherStep
    <2>7. CASE intent[r] = "whole"
      <3>1. /\ calls'[p].pc = "sign"
            /\ IF calls'[p].recovered THEN destination = r ELSE destination = request[r].prior
        BY <1>4, <2>5, <2>7 DEF Recovers
      <3>2. CallInv(p)'
        BY <1>1, <2>5, <2>7, <3>1 DEF CallInv
      <3> QED
        BY <1>1, <1>2, <2>3, <2>4, <2>5, <3>2, PublisherStep
    <2> QED
      BY <1>1, <1>4, <2>6, <2>7 DEF TypeOK, Written
  <1> QED
    BY <1>3, <1>4 DEF Check

LEMMA IntentStep ==
  ASSUME Inv, NEW p \in Publishers, CreateIntent(p) \/ FillIntent(p)
  PROVE  TypeOK' /\ IInv'
  <1> DEFINE r == calls[p].request
  <1>1. /\ UNCHANGED <<destination, request, decision, voted, signed, receipt, void, published, crashes>>
        /\ calls[p].pc \in {"intent", "fill intent"} /\ TypeOK /\ CallInv(p) /\ lock = p
        /\ r \in Requests /\ RegistryInv
    BY Active DEF CreateIntent, FillIntent, Inv, IInv, decisions
  <1>2. intent[r] # "whole" /\ published[r] = 0
    <2>1. intent[r] # "whole"
      BY <1>1 DEF CallInv
    <2>2. published[r] \in {0, 1} /\ ~(published[r] > 0)
      BY <1>1, <2>1 DEF RegistryInv
    <2> QED
      BY <2>1, <2>2
  <1>3. ReceiptMeansPublished'
    BY <1>1, ReceiptsKeep
  <1>4. ASSUME NEW value \in {"torn", "whole"}, intent' = [intent EXCEPT ![r] = value],
               NEW pc \in {"fill intent", "sign"}, Continue(p, pc),
               pc = "fill intent" <=> value = "torn"
        PROVE  TypeOK' /\ IInv'
    <2>1. intent' \in [Requests -> Written] /\ intent'[r] = value
      BY <1>1, <1>4 DEF TypeOK, Written
    <2>2. RegistryInv'
      BY <1>1, <1>2, <1>4, <2>1 DEF RegistryInv, TypeOK
    <2>3. /\ calls' \in [Publishers -> Call] /\ lock' = p
          /\ calls'[p].pc = pc /\ calls'[p].request = r
          /\ calls'[p].recovered = calls[p].recovered /\ calls'[p].status = calls[p].status
          /\ \A q \in Publishers : q # p => calls'[q] = Idle
      BY <1>1, <1>4, Continued
    <2>4. TypeOK'
      BY <1>1, <2>1, <2>3 DEF TypeOK
    <2>5. CallInv(p)'
      BY <1>1, <1>4, <2>1, <2>3 DEF CallInv
    <2> QED
      BY <1>1, <1>3, <2>2, <2>3, <2>4, <2>5, PublisherStep
  <1> QED
    BY <1>4 DEF CreateIntent, FillIntent

\* A call goes on once its signature is there, or none is wanted.
LEMMA SignedStep ==
  ASSUME Inv, NEW p \in Publishers, calls[p].pc = "sign", Continue(p, AfterSigning(p)),
         UNCHANGED <<destination, request, decision, voted, intent, receipt, void, published, crashes>>,
         signed' \in [Requests -> BOOLEAN], \A r \in Requests : signed[r] => signed'[r],
         request[calls[p].request].sign => signed'[calls[p].request]
  PROVE  TypeOK' /\ IInv'
  <1> DEFINE r == calls[p].request
  <1>1. /\ TypeOK /\ CallInv(p) /\ lock = p /\ calls[p] \in Call /\ r \in Requests
        /\ RegistryInv
    BY Active DEF Inv, IInv
  <1>2. RegistryInv' /\ ReceiptMeansPublished'
    BY RegistryKeeps, ReceiptsKeep
  <1>3. calls[p].recovered => published[r] = 1
    <2>1. calls[p].recovered => destination = r
      BY <1>1 DEF CallInv
    <2> QED
      BY <1>1, <2>1, Distinct DEF RegistryInv
  <1>4. ASSUME NEW pc \in {"write", "recheck"}, Continue(p, pc),
               pc = "write" <=> calls[p].recovered
        PROVE  TypeOK' /\ IInv'
    <2>1. TypeOK'
      <3>1. calls' \in [Publishers -> Call] /\ lock' = p
        BY <1>4, Continued
      <3> QED
        BY <1>1, <3>1 DEF TypeOK
    <2>2. /\ calls'[p].pc = pc /\ calls'[p].request = r /\ lock' = p
          /\ calls'[p].recovered = calls[p].recovered /\ calls'[p].status = calls[p].status
      <3>1. /\ pc \in {"fill intent", "sign", "recheck", "replace", "write", "fill"}
            /\ calls[p].pc # "idle" /\ Continue(p, pc)
        BY <1>4
      <3> HIDE DEF r
      <3>2. /\ calls'[p].pc = pc /\ calls'[p].request = calls[p].request /\ lock' = p
            /\ calls'[p].recovered = calls[p].recovered /\ calls'[p].status = calls[p].status
        <4>1. CASE pc = "write"
          BY <3>1, <4>1, Continued
        <4>2. CASE pc = "recheck"
          BY <3>1, <4>2, Continued
        <4> QED
          BY <4>1, <4>2
      <3> QED
        BY <3>2 DEF r
    <2>3. calls[p].status # "DENIED" /\ receipt[r] = "absent" /\ intent[r] = "whole"
      BY <1>1 DEF CallInv
    <2>4. CallInv(p)'
      BY <1>1, <1>3, <1>4, <2>2, <2>3 DEF CallInv
    <2> QED
      BY <1>2, <1>4, <2>1, <2>4, Continued, PublisherStep
  <1> QED
    BY <1>1, <1>4 DEF AfterSigning, Call

LEMMA SignStep ==
  ASSUME Inv, NEW p \in Publishers, SkipSigning(p) \/ Sign(p)
  PROVE  TypeOK' /\ IInv'
  <1>1. /\ UNCHANGED <<destination, request, decision, voted, intent, receipt, void, published, crashes>>
        /\ calls[p].pc = "sign" /\ TypeOK /\ calls[p].request \in Requests
    BY Active DEF SkipSigning, Sign, decisions
  <1>2. CASE SkipSigning(p)
    BY <1>1, <1>2, SignedStep DEF SkipSigning, TypeOK
  <1>3. CASE UNCHANGED signed /\ Return(p)
    BY <1>1, <1>3, RegistryKeeps, ReceiptsKeep, Returned DEF TypeOK
  <1>4. CASE /\ signed' = [signed EXCEPT ![calls[p].request] = TRUE]
             /\ Continue(p, AfterSigning(p))
    <2>1. /\ signed' \in [Requests -> BOOLEAN] /\ signed'[calls[p].request]
          /\ \A r \in Requests : signed[r] => signed'[r]
      BY <1>1, <1>4 DEF TypeOK
    <2> QED
      BY <1>1, <1>4, <2>1, SignedStep
  <1> QED
    BY <1>2, <1>3, <1>4 DEF Sign

LEMMA RecheckStep ==
  ASSUME Inv, NEW p \in Publishers, Recheck(p)
  PROVE  TypeOK' /\ IInv'
  <1>1. /\ UNCHANGED <<destination, request, decision, voted, intent, signed, receipt, void,
                       published, crashes>>
        /\ calls[p].pc = "recheck" /\ TypeOK /\ CallInv(p) /\ lock = p
        /\ calls[p].request \in Requests
    BY Active DEF Recheck, decisions
  <1>2. RegistryInv' /\ ReceiptMeansPublished'
    BY <1>1, RegistryKeeps, ReceiptsKeep
  <1>3. CASE Return(p)
    BY <1>1, <1>2, <1>3, Returned DEF TypeOK
  <1>4. CASE Continue(p, "replace")
    <2>1. TypeOK'
      BY <1>1, <1>4, Continued DEF TypeOK
    <2>2. CallInv(p)'
      BY <1>1, <1>4, Continued DEF CallInv
    <2> QED
      BY <1>1, <1>2, <1>4, <2>1, <2>2, Continued, PublisherStep
  <1> QED
    BY <1>3, <1>4 DEF Recheck

\* At the rename the destination is what the reviewer saw, and the request was
\* not published yet.
LEMMA AtReplace ==
  ASSUME Inv, NEW p \in Publishers, Replace(p)
  PROVE  LET r == calls[p].request IN
         /\ r \in Requests /\ request[r].made /\ request[r].prior = destination
         /\ published[r] = 0 /\ intent[r] = "whole" /\ receipt[r] = "absent"
         /\ destination' = r /\ published' = [published EXCEPT ![r] = 1]
         /\ UNCHANGED <<request, decision, voted, intent, signed, receipt, void, crashes>>
  <1> DEFINE r == calls[p].request
  <1>1. /\ calls[p].pc = "replace" /\ TypeOK /\ CallInv(p) /\ r \in Requests /\ request[r].made
        /\ RegistryInv
    BY Active DEF Replace, Inv, IInv
  <1>2. request[r].prior = destination /\ intent[r] = "whole" /\ receipt[r] = "absent"
    BY <1>1 DEF CallInv
  <1>3. published[r] = 0
    BY <1>1, <1>2 DEF RegistryInv
  <1>4. destination' = r /\ published' = [published EXCEPT ![r] = @ + 1]
        /\ UNCHANGED <<request, decision, voted, intent, signed, receipt, void, crashes>>
    BY DEF Replace, decisions
  <1>5. published' = [published EXCEPT ![r] = 1]
    BY <1>1, <1>3, <1>4 DEF TypeOK
  <1> QED
    BY <1>1, <1>2, <1>3, <1>4, <1>5

LEMMA ReplaceStep ==
  ASSUME Inv, NEW p \in Publishers, Replace(p)
  PROVE  TypeOK' /\ IInv'
  <1> DEFINE r == calls[p].request
  <1>1. /\ r \in Requests /\ request[r].made /\ request[r].prior = destination
        /\ published[r] = 0 /\ intent[r] = "whole" /\ receipt[r] = "absent"
        /\ destination' = r /\ published' = [published EXCEPT ![r] = 1]
        /\ UNCHANGED <<request, decision, voted, intent, signed, receipt, void, crashes>>
    BY AtReplace
  <1>2. /\ TypeOK /\ CallInv(p) /\ lock = p /\ RegistryInv /\ ReceiptMeansPublished
        /\ calls[p].pc = "replace" /\ Continue(p, "write")
    BY Active DEF Replace, Inv, IInv
  <1>3. /\ published' \in [Requests -> Nat] /\ published'[r] = 1
        /\ \A q \in Requests : q # r => published'[q] = published[q]
    BY <1>1, <1>2 DEF TypeOK
  <1>4. TypeOK'
    <2>1. calls' \in [Publishers -> Call] /\ lock' = p
      BY <1>2, Continued
    <2>2. destination' \in Contents
      BY <1>1 DEF Contents
    <2> QED
      BY <1>1, <1>2, <1>3, <2>1, <2>2 DEF TypeOK
  <1>5. RegistryInv'
    <2>1. destination' # NoDomain => published'[destination'] > 0
      BY <1>1, <1>3
    <2> SUFFICES ASSUME NEW q \in Requests
                 PROVE  /\ published'[q] \in {0, 1}
                        /\ request[q].made /\ request[q].prior # NoDomain =>
                             published'[request[q].prior] > 0
                        /\ published'[q] > 0 =>
                             /\ request[q].made /\ intent[q] = "whole"
                             /\ destination' # request[q].prior
                             /\ request[q].sign => signed[q]
                        /\ decision[q] # "none" => decision[q] \in voted[q]
                        /\ voted[q] # {} => request[q].made
      BY <1>1, <2>1 DEF RegistryInv
    <2>2. /\ published'[q] \in {0, 1}
          /\ decision[q] # "none" => decision[q] \in voted[q]
          /\ voted[q] # {} => request[q].made
      BY <1>2, <1>3 DEF RegistryInv
    <2>3. request[q].made /\ request[q].prior # NoDomain =>
            request[q].prior \in Requests /\ published[request[q].prior] > 0
      BY <1>2 DEF RegistryInv, TypeOK, Operation, Contents
    <2>4. request[q].made => r # request[q].prior
      BY <1>1, <2>3, Distinct
    <2>5. request[q].made /\ request[q].prior # NoDomain => published'[request[q].prior] > 0
      BY <1>3, <2>3, <2>4
    <2>6. request[r].sign => signed[r]
      <3>1. calls[p] \in Call
        BY <1>2 DEF TypeOK
      <3>2. calls[p].status = "PROMOTED"
        BY <1>2, <3>1 DEF Call, CallInv
      <3> QED
        BY <1>2, <3>2 DEF CallInv
    <2>7. published'[q] > 0 =>
            /\ request[q].made /\ intent[q] = "whole"
            /\ request[q].sign => signed[q]
      <3>1. CASE q = r
        BY <1>1, <2>6, <3>1
      <3>2. CASE q # r
        BY <1>2, <1>3, <3>2 DEF RegistryInv
      <3> QED
        BY <3>1, <3>2
    <2>8. request[q].made => destination' # request[q].prior
      BY <1>1, <2>4
    <2> QED
      BY <2>2, <2>5, <2>7, <2>8
  <1>6. ReceiptMeansPublished'
    BY <1>1, <1>2, <1>3 DEF ReceiptMeansPublished
  <1>7. /\ lock' = p /\ calls'[p].pc = "write" /\ calls'[p].request = r
        /\ calls'[p].recovered = calls[p].recovered /\ calls'[p].status = calls[p].status
        /\ \A q \in Publishers : q # p => calls'[q] = Idle
    BY <1>2, Continued
  <1>8. CallInv(p)'
    BY <1>1, <1>2, <1>3, <1>7 DEF CallInv
  <1> QED
    BY <1>4, <1>5, <1>6, <1>7, <1>8, PublisherStep

LEMMA ReceiptStep ==
  ASSUME Inv, NEW p \in Publishers, CreateReceipt(p) \/ FillReceipt(p)
  PROVE  TypeOK' /\ IInv'
  <1> DEFINE r == calls[p].request
  <1>1. /\ UNCHANGED <<destination, request, decision, voted, intent, signed, void, published, crashes>>
        /\ calls[p].pc \in {"write", "fill"} /\ TypeOK /\ CallInv(p) /\ lock = p
        /\ r \in Requests /\ calls[p] \in Call /\ ReceiptMeansPublished
    BY Active DEF CreateReceipt, FillReceipt, Inv, IInv, decisions
  <1>2. RegistryInv'
    BY <1>1, RegistryKeeps
  <1>3. CASE CreateReceipt(p)
    <2>1. receipt' = [receipt EXCEPT ![r] = "torn"] /\ Continue(p, "fill")
      BY <1>3 DEF CreateReceipt
    <2>2. TypeOK' /\ receipt'[r] = "torn"
      BY <1>1, <2>1, Continued DEF TypeOK
    <2>3. ReceiptMeansPublished'
      BY <1>1, <2>1 DEF ReceiptMeansPublished, TypeOK
    <2>4. /\ calls[p].pc = "write" /\ calls'[p].pc = "fill" /\ lock' = p
          /\ calls'[p].request = r /\ calls'[p].status = calls[p].status
          /\ calls'[p].recovered = calls[p].recovered
      BY <1>1, <1>3, <2>1, Continued DEF CreateReceipt
    <2>5. /\ (IF calls[p].status = "PROMOTED" THEN "approve" ELSE "deny") \in voted[r]
          /\ calls[p].status = "PROMOTED" => (request[r].sign => signed[r]) /\ published[r] = 1
      BY <1>1, <2>4 DEF CallInv
    <2>6. CallInv(p)'
      BY <1>1, <2>2, <2>4, <2>5 DEF CallInv
    <2>7. /\ lock' = p
          /\ \A q \in Publishers : q # p => calls'[q] = Idle
      BY <1>1, <2>1, Continued
    <2> QED
      BY <1>1, <1>2, <2>2, <2>3, <2>6, <2>7, PublisherStep
  <1>4. CASE FillReceipt(p)
    <2>1. receipt' = [receipt EXCEPT ![r] = calls[p].status] /\ Return(p) /\ calls[p].pc = "fill"
      BY <1>4 DEF FillReceipt
    <2>2. receipt' \in [Requests -> {"absent", "torn", "PROMOTED", "DENIED"}]
      BY <1>1, <2>1 DEF TypeOK, Call
    <2>3. ReceiptMeansPublished'
      BY <1>1, <2>1 DEF ReceiptMeansPublished, TypeOK, CallInv
    <2> QED
      BY <1>1, <1>2, <2>1, <2>2, <2>3, Returned DEF TypeOK
  <1> QED
    BY <1>3, <1>4

LEMMA DiesStep ==
  ASSUME Inv, NEW p \in Publishers, PublisherDies(p)
  PROVE  TypeOK' /\ IInv'
  <1>1. /\ UNCHANGED <<destination, request, decision, voted, intent, signed, receipt, void, published>>
        /\ calls[p].pc # "idle" /\ Return(p) /\ crashes < MaxCrashes /\ crashes' = crashes + 1
        /\ TypeOK
    BY DEF PublisherDies, Inv, decisions
  <1>2. crashes' \in 0 .. MaxCrashes
    BY <1>1, Distinct DEF TypeOK
  <1> QED
    BY <1>1, <1>2, RegistryKeeps, ReceiptsKeep, Returned DEF TypeOK

-----------------------------------------------------------------------------
(* The specification                                                       *)

LEMMA InvInit == Init => Inv
  <1> SUFFICES ASSUME Init
               PROVE  TypeOK /\ IInv
    BY DEF Inv
  <1>1. TypeOK
    BY IdleIsCall, Distinct DEF Init, TypeOK, Contents, Operation, Written
  <1>2. RegistryInv /\ ReceiptMeansPublished
    BY DEF Init, RegistryInv, ReceiptMeansPublished
  <1>3. \A p \in Publishers : CallInv(p)
    BY Distinct DEF Init, CallInv, Idle
  <1> QED
    BY <1>1, <1>2, <1>3 DEF IInv

LEMMA InvNext ==
  ASSUME Inv, [Next]_vars
  PROVE  Inv'
  <1>1. ASSUME NEW r \in Requests,
               \/ \E replace, sign \in BOOLEAN : RequestPromotion(r, replace, sign)
               \/ \E verdict \in {"approve", "deny"} : Decide(r, verdict)
               \/ WithdrawDecision(r)
               \/ \E reason \in Reasons : Void(r, reason)
               \/ \E p \in Publishers : Begin(p, r)
        PROVE  Inv'
    BY <1>1, RequestStep, DecideStep, WithdrawStep, VoidStep, BeginStep DEF Inv
  <1>2. ASSUME NEW p \in Publishers, Step(p) \/ PublisherDies(p)
        PROVE  Inv'
    BY <1>2, CheckStep, IntentStep, SignStep, RecheckStep, ReplaceStep, ReceiptStep, DiesStep
    DEF Inv, Step
  <1>3. CASE UNCHANGED vars
    <2>1. TypeOK'
      BY <1>3 DEF vars, Inv, TypeOK
    <2>2. RegistryInv'
      BY <1>3, RegistryKeeps DEF vars
    <2> QED
      BY <1>3, <2>1, <2>2, OthersWork DEF vars, Inv
  <1> QED
    BY <1>1, <1>2, <1>3 DEF Next

\* Every variable keeps its shape, a request is published at most once, and what
\* the publisher under the lock knows of the files stays true.
THEOREM Invariance == Spec => [](TypeOK /\ IInv)
  BY InvInit, InvNext, PTL DEF Spec, Inv

\* Every variable keeps its shape.
THEOREM Typed == Spec => []TypeOK
  BY Invariance, PTL

\* A receipt that says PROMOTED was approved, signed if that was reviewed, and
\* published exactly once (publish_approved).
THEOREM PromotedIsPublished == Spec => []ReceiptMeansPublished
  BY Invariance, PTL DEF IInv

\* The steps at which a publisher lets go of its call.
LEMMA Leaves ==
  ASSUME Inv, [Next]_vars, NEW p \in Publishers, calls[p].pc # "idle", calls'[p].pc = "idle"
  PROVE  Check(p) \/ Sign(p) \/ Recheck(p) \/ FillReceipt(p) \/ PublisherDies(p)
  <1>1. calls \in [Publishers -> Call] /\ lock = p /\ lock # Nobody
        /\ \A q \in Publishers : q # p => calls[q] = Idle
    BY Active, Distinct DEF TypeOK
  <1>2. calls' # calls
    OBVIOUS
  <1>3. PICK q \in Publishers : Step(q) \/ PublisherDies(q)
    BY <1>1, <1>2 DEF Next, vars, RequestPromotion, Decide, WithdrawDecision, Void, Begin
  <1>4. q = p
    <2>1. calls[q].pc # "idle"
      BY <1>3 DEF Step, Check, CreateIntent, FillIntent, SkipSigning, Sign, Recheck, Replace,
         CreateReceipt, FillReceipt, PublisherDies
    <2> QED
      BY <1>1, <2>1 DEF Idle
  <1>5. ASSUME NEW pc \in {"fill intent", "sign", "recheck", "replace", "write", "fill"},
               Continue(p, pc)
        PROVE  FALSE
    BY <1>5, Continued
  <1>6. AfterSigning(p) \in {"recheck", "write"}
    BY DEF AfterSigning
  <1> QED
    BY <1>3, <1>4, <1>5, <1>6 DEF Step, CreateIntent, FillIntent, SkipSigning, Replace,
       CreateReceipt

LEMMA DeathsCount ==
  ASSUME TypeOK, NEW p \in Publishers, PublisherDies(p)
  PROVE  crashes' > crashes
  <1>1. crashes \in Nat
    BY Distinct DEF TypeOK
  <1> QED
    BY <1>1 DEF PublisherDies

LEMMA Refuses ==
  ASSUME Inv, [Next]_vars, NEW p \in Publishers, calls[p].pc # "idle", calls'[p].pc = "idle",
         NEW r, r = calls[p].request, calls[p].status = "PROMOTED",
         published[r] > 0, destination = r, "inputs changed" \notin void[r]
  PROVE  receipt'[r] = "PROMOTED" \/ crashes' > crashes
  <1>1. /\ TypeOK /\ CallInv(p) /\ RegistryInv /\ r \in Requests
        /\ intent[r] = "whole" /\ destination # request[r].prior
        /\ request[r].sign => signed[r]
    <2>1. TypeOK /\ CallInv(p) /\ RegistryInv /\ r \in Requests
      BY Active DEF Inv, IInv
    <2> QED
      BY <2>1 DEF RegistryInv
  <1>2. ~Check(p)
    <2>1. SUFFICES ASSUME Check(p) PROVE FALSE
      OBVIOUS
    <2>2. Recovers(r) /\ intent[r] # "torn"
      BY <1>1 DEF Recovers
    <2>3. calls' = [calls EXCEPT ![p] = [@ EXCEPT !.pc = "sign", !.recovered = Recovers(r)]]
      BY <1>1, <2>1, <2>2 DEF Check
    <2>4. calls[p] \in Call /\ calls'[p] = [calls[p] EXCEPT !.pc = "sign", !.recovered = Recovers(r)]
      BY <1>1, <2>3 DEF TypeOK
    <2> QED
      BY <2>4 DEF Call
  <1>3. ~Sign(p)
    BY <1>1 DEF Sign
  <1>4. ~Recheck(p)
    <2>1. Recheck(p) => ~calls[p].recovered /\ destination = request[r].prior
      BY <1>1 DEF CallInv, Recheck
    <2> QED
      BY <1>1, <2>1
  <1>5. FillReceipt(p) => receipt'[r] = "PROMOTED"
    BY <1>1 DEF FillReceipt, TypeOK
  <1>6. PublisherDies(p) => crashes' > crashes
    BY <1>1, DeathsCount
  <1> QED
    BY <1>2, <1>3, <1>4, <1>5, <1>6, Leaves

\* A retry of a request whose file is in place is turned away nowhere: it ends with
\* the PROMOTED receipt unless its inputs were changed or it dies (publish_approved).
THEOREM RetryFinishes == Spec => RetryIsNotRefused
  <1>1. TypeOK /\ IInv /\ [Next]_vars =>
          [\A p \in Publishers :
             LET r == calls[p].request IN
             /\ calls[p].pc # "idle" /\ calls[p].status = "PROMOTED"
             /\ published[r] > 0 /\ destination = r /\ "inputs changed" \notin void[r]
             /\ calls'[p].pc = "idle"
             => receipt'[r] = "PROMOTED" \/ crashes' > crashes]_vars
    BY Refuses DEF Inv
  <1> QED
    BY <1>1, Invariance, PTL DEF Spec, RetryIsNotRefused

-----------------------------------------------------------------------------
(* The register                                                            *)

seen == [r \in Requests |-> IF request[r].made THEN request[r].prior ELSE "unseen"]

applied == {r \in Requests : published[r] > 0}

LEMMA RegisterInit == Init => Register!Init
  BY DEF Init, Register!Init, Register!Unseen

\* A request is prepared against what the destination holds.
LEMMA Prepares ==
  ASSUME Inv, NEW r \in Requests, NEW replace \in BOOLEAN, NEW sign \in BOOLEAN,
         RequestPromotion(r, replace, sign)
  PROVE  Register!Next
  <1>1. /\ TypeOK /\ ~request[r].made /\ UNCHANGED <<destination, published>>
        /\ request' = [request EXCEPT ![r] =
                         [made |-> TRUE, prior |-> destination, sign |-> sign]]
    BY DEF RequestPromotion, Inv
  <1>2. request'[r].made /\ request'[r].prior = destination
        /\ \A q \in Requests : q # r => request'[q] = request[q]
    BY <1>1 DEF TypeOK
  <1>3. seen[r] = "unseen" /\ seen' = [seen EXCEPT ![r] = destination]
    <2>1. seen' = [q \in Requests |->
                    IF request'[q].made THEN request'[q].prior ELSE "unseen"]
      BY DEF seen
    <2>2. seen' = [q \in Requests |-> IF q = r THEN destination ELSE seen[q]]
      BY <1>2, <2>1 DEF seen
    <2> QED
      BY <1>1, <2>2 DEF seen
  <1>4. applied' = applied
    BY <1>1 DEF applied
  <1>5. Register!Prepare(r)
    BY <1>1, <1>3, <1>4 DEF Register!Prepare, Register!Unseen, seen, applied
  <1> QED
    BY <1>5 DEF Register!Next

\* A rename changes the register from what the reviewer saw, once per request.
LEMMA Applies ==
  ASSUME Inv, NEW p \in Publishers, Replace(p)
  PROVE  Register!Next
  <1> SUFFICES ASSUME NEW r, r = calls[p].request
               PROVE  Register!Next
    OBVIOUS
  <1>1. /\ r \in Requests /\ request[r].made /\ request[r].prior = destination
        /\ published[r] = 0 /\ destination' = r
        /\ published' = [published EXCEPT ![r] = 1] /\ request' = request
    BY AtReplace
  <1>2. published'[r] = 1 /\ \A q \in Requests : q # r => published'[q] = published[q]
    BY <1>1 DEF Inv, TypeOK
  <1>3. r \notin applied /\ applied' = applied \cup {r}
    BY <1>1, <1>2 DEF applied
  <1>4. seen[r] = destination /\ seen' = seen
    BY <1>1 DEF seen
  <1>5. Register!Apply(r)
    BY <1>1, <1>3, <1>4 DEF Register!Apply, seen, applied
  <1> QED
    BY <1>1, <1>5 DEF Register!Next

LEMMA RegisterStep ==
  ASSUME Inv, [Next]_vars
  PROVE  Register!Next \/ UNCHANGED <<destination, request, published>>
  <1>1. ASSUME NEW r \in Requests,
               \/ \E replace, sign \in BOOLEAN : RequestPromotion(r, replace, sign)
               \/ \E verdict \in {"approve", "deny"} : Decide(r, verdict)
               \/ WithdrawDecision(r)
               \/ \E reason \in Reasons : Void(r, reason)
               \/ \E p \in Publishers : Begin(p, r)
        PROVE  Register!Next \/ UNCHANGED <<destination, request, published>>
    BY <1>1, Prepares DEF Decide, WithdrawDecision, Void, Begin
  <1>2. ASSUME NEW p \in Publishers, Step(p) \/ PublisherDies(p)
        PROVE  Register!Next \/ UNCHANGED <<destination, request, published>>
    BY <1>2, Applies DEF Step, PublisherDies, Check, CreateIntent, FillIntent, SkipSigning, Sign,
       Recheck, CreateReceipt, FillReceipt
  <1> QED
    BY <1>1, <1>2 DEF Next, vars

\* Publishers of different requests, their retries and deaths implement a register
\* that changes once per request, and from exactly the content its reviewer saw.
THEOREM Refinement == Spec => ImplementsRegister
  <1>1. TypeOK /\ IInv /\ [Next]_vars => [Register!Next]_<<destination, seen, applied>>
    BY RegisterStep DEF Inv, seen, applied
  <1>2. TypeOK /\ IInv /\ [Next]_vars =>
          Register!Next \/ UNCHANGED <<destination,
            [r \in Requests |-> IF request[r].made THEN request[r].prior ELSE "unseen"],
            {r \in Requests : published[r] > 0}>>
    BY <1>1 DEF seen, applied
  <1> QED
    BY <1>2, RegisterInit, Invariance, PTL DEF Spec, ImplementsRegister, Register!Spec
=============================================================================
