---------------------------- MODULE AgentRunProofs ----------------------------
(***************************************************************************)
(* Proofs about AgentRun, for any number of controllers, of findings and   *)
(* of crashes.                                                             *)
(***************************************************************************)
EXTENDS AgentRun, TLAPS

Inv == TypeOK /\ IInv

Action == [workflow : Workflows, succeeded : BOOLEAN]

Counts == [Workflows -> Nat]

-----------------------------------------------------------------------------
(* The plan and the lists of results                                       *)

LEMMA PlanFacts ==
  /\ Len(Plan) = 2 /\ DOMAIN Plan = {1, 2}
  /\ Plan[1] = "inspect" /\ Plan[2] = "verify"
  /\ Workflows = {"inspect", "verify"}
  <1>1. Len(Plan) = 2 /\ Plan[1] = "inspect" /\ Plan[2] = "verify"
    BY DEF Plan
  <1>2. DOMAIN Plan = {1, 2}
    BY DEF Plan
  <1>3. QED
    BY <1>1, <1>2 DEF Workflows

LEMMA ListFacts ==
  ASSUME NEW a \in Actions
  PROVE  /\ Len(a) \in Nat /\ DOMAIN a = 1 .. Len(a)
         /\ \A i \in DOMAIN a :
              a[i].workflow \in Workflows /\ a[i].succeeded \in BOOLEAN
  <1>1. a \in Seq(Action)
    BY DEF Actions, Action
  <1>2. \A i \in DOMAIN a : a[i] \in Action
    BY <1>1
  <1>3. Len(a) \in Nat /\ DOMAIN a = 1 .. Len(a)
    BY <1>1
  <1>4. QED
    BY <1>2, <1>3 DEF Action

LEMMA EmptyList ==
  /\ <<>> \in Actions
  /\ \A counts : Earned(<<>>, counts)
  BY DEF Actions, Earned

LEMMA LongerList ==
  ASSUME NEW a \in Actions, NEW x \in Action
  PROVE  Append(a, x) \in Actions /\ Len(Append(a, x)) = Len(a) + 1
  BY DEF Actions, Action

\* What was earned stays so while workflows are invoked again.
LEMMA StillEarned ==
  ASSUME NEW a \in Actions, NEW m \in Counts, NEW n \in Counts,
         \A w \in Workflows : n[w] >= m[w], Earned(a, m)
  PROVE  Earned(a, n)
  BY ListFacts DEF Earned, Counts

\* The result of the next action of the plan, or of one done before.
LEMMA EarnedNext ==
  ASSUME NEW a \in Actions, NEW m \in Counts, Earned(a, m),
         NEW seq \in 1 .. 2, seq <= Len(a) + 1, NEW ok \in BOOLEAN,
         ok => m[Plan[seq]] > 0
  PROVE  Earned(Append(a, [workflow |-> Plan[seq], succeeded |-> ok]), m)
  <1> DEFINE x == [workflow |-> Plan[seq], succeeded |-> ok]
             b == Append(a, x)
  <1>1. x \in Action
    BY PlanFacts DEF Action
  <1>2. /\ DOMAIN b = 1 .. Len(a) + 1 /\ DOMAIN a = 1 .. Len(a)
        /\ b[Len(a) + 1] = x /\ Len(b) = Len(a) + 1 /\ Len(a) \in Nat
        /\ \A i \in 1 .. Len(a) : b[i] = a[i]
    BY <1>1 DEF Actions, Action
  <1>3. b[1].workflow = Plan[1]
    <2>1. CASE Len(a) = 0
      BY <2>1, <1>2
    <2>2. CASE Len(a) > 0
      BY <2>2, <1>2 DEF Earned
    <2> QED
      BY <2>1, <2>2, <1>2
  <1>4. ASSUME NEW i \in DOMAIN b, b[i].succeeded
        PROVE  m[b[i].workflow] > 0
    <2>1. CASE i = Len(a) + 1
      BY <2>1, <1>2, <1>4
    <2>2. CASE i \in 1 .. Len(a)
      BY <2>2, <1>2, <1>4 DEF Earned
    <2> QED
      BY <2>1, <2>2, <1>2
  <1> QED
    BY <1>3, <1>4 DEF Earned

LEMMA BuiltReview ==
  ASSUME NEW r \in RunRecord, NEW target \in TERMINAL_RUN_STATES,
         NEW op \in Operations, NEW m \in Counts, Earned(r.actions, m)
  PROVE  LET review == BuildReview(r, target, op) IN
         /\ review \in Review
         /\ Sound(review, m)
         /\ review.status = target \/ review.satisfied
  <1>1. Satisfied(r.actions) \in BOOLEAN
    BY DEF Satisfied
  <1>2. (IF Satisfied(r.actions) THEN "completed" ELSE target) \in TERMINAL_RUN_STATES
    BY DEF TERMINAL_RUN_STATES
  <1>3. r.actions \in Actions /\ r.findings \in Nat
    BY DEF RunRecord
  <1> QED
    BY <1>1, <1>2, <1>3 DEF BuildReview, Review, Sound

-----------------------------------------------------------------------------
(* What the calls that do not move keep                                    *)

\* What no step takes back.
Grows ==
  /\ run'.actions \in Actions /\ Len(run'.actions) >= Len(run.actions)
  /\ invoked' \in Counts /\ \A w \in Workflows : invoked'[w] >= invoked[w]
  /\ published # NoReview => published' = published

LEMMA SoundReviews ==
  ASSUME NEW r \in Review, NEW m \in Counts, NEW n \in Counts,
         \A w \in Workflows : n[w] >= m[w], Sound(r, m)
  PROVE  Sound(r, n)
  <1>1. r.actions \in Actions
    BY DEF Review
  <1>2. QED
    BY <1>1, StillEarned DEF Sound

LEMMA OtherCall ==
  ASSUME Inv, Grows, NEW d \in Controllers, calls'[d] = calls[d]
  PROVE  CallOK(calls[d])'
  <1> DEFINE k == calls[d]
  <1>1. k \in Call /\ CallOK(k) /\ invoked \in Counts /\ invoked' \in Counts
    BY DEF Inv, IInv, TypeOK, Counts, Grows
  <1>2. k.seq \in 0 .. 2 /\ Len(run.actions) \in Nat
    BY <1>1, PlanFacts, ListFacts DEF Call, Inv, TypeOK, RunRecord
  <1>3. ASSUME k.pc \in {"claim", "execute", "invoked"}
        PROVE  k.seq > 0 /\ k.seq <= Len(run'.actions) + 1
    <2>1. k.seq > 0 /\ k.seq <= Len(run.actions) + 1
      BY <1>1, <1>3 DEF CallOK
    <2>2. Len(run'.actions) \in Nat /\ Len(run'.actions) >= Len(run.actions)
      BY ListFacts DEF Grows
    <2> QED
      BY <1>2, <2>1, <2>2
  <1>4. ASSUME k.pc = "invoked"
        PROVE  invoked'[Plan[k.seq]] > 0
    <2>1. Plan[k.seq] \in Workflows /\ invoked[Plan[k.seq]] > 0
      BY <1>1, <1>2, <1>4, PlanFacts DEF CallOK
    <2> QED
      BY <1>1, <2>1 DEF Grows, Counts
  <1>5. ASSUME k.pc \in {"publish", "settle"}
        PROVE  Sound(k.review, invoked')
    BY <1>1, <1>5, SoundReviews DEF CallOK, Grows
  <1>6. ASSUME k.pc = "settle"
        PROVE  published' = k.review
    <2>1. published = k.review /\ k.review \in Review
      BY <1>1, <1>6 DEF CallOK
    <2> QED
      BY <2>1, RunAssumption DEF Grows
  <1> QED
    BY <1>1, <1>3, <1>4, <1>5, <1>6 DEF CallOK

-----------------------------------------------------------------------------
(* The pieces every step is put together from                              *)

LEMMA Unpacked ==
  ASSUME Inv
  PROVE  /\ run \in RunRecord /\ run.actions \in Actions
         /\ published \in Review \cup {NoReview}
         /\ invoked \in Counts /\ crashes \in 0 .. MaxCrashes
         /\ RecordInv
         /\ \A c \in Controllers : calls[c] \in Call /\ CallOK(calls[c])
  BY DEF Inv, TypeOK, IInv, RunRecord, Counts

LEMMA CallMoves ==
  ASSUME Inv, NEW c \in Controllers, NEW k \in Call, calls' = [calls EXCEPT ![c] = k]
  PROVE  /\ calls' \in [Controllers -> Call]
         /\ calls'[c] = k
         /\ \A d \in Controllers \ {c} : calls'[d] = calls[d]
  BY DEF Inv, TypeOK

\* A step leaves the invariant true if it does so for the record and for its call.
LEMMA StepInv ==
  ASSUME Inv, Grows, NEW c \in Controllers,
         calls' \in [Controllers -> Call],
         \A d \in Controllers \ {c} : calls'[d] = calls[d],
         CallOK(calls[c])',
         run' \in RunRecord, published' \in Review \cup {NoReview},
         crashes' \in 0 .. MaxCrashes, RecordInv'
  PROVE  Inv'
  <1>1. TypeOK'
    BY DEF TypeOK, Grows, Counts
  <1>2. ASSUME NEW d \in Controllers
        PROVE  CallOK(calls[d])'
    <2>1. CASE d = c
      BY <2>1
    <2>2. CASE d # c
      BY <2>2, OtherCall
    <2> QED
      BY <2>1, <2>2
  <1>3. IInv'
    BY <1>2 DEF IInv
  <1> QED
    BY <1>1, <1>3 DEF Inv

\* A step that only moves its call.
LEMMA CallInv ==
  ASSUME Inv, NEW c \in Controllers, NEW k \in Call, calls' = [calls EXCEPT ![c] = k],
         UNCHANGED <<run, published, invoked>>, crashes' \in 0 .. MaxCrashes,
         CallOK(k)
  PROVE  Inv'
  <1>1. Grows
    BY Unpacked, ListFacts DEF Grows, Counts
  <1>2. RecordInv'
    BY Unpacked DEF RecordInv, Exists, Terminal
  <1>3. CallOK(calls[c])'
    BY CallMoves DEF CallOK
  <1>4. run' \in RunRecord /\ published' \in Review \cup {NoReview}
    BY Unpacked
  <1> QED
    BY <1>1, <1>2, <1>3, <1>4, CallMoves, StepInv

\* A run that has its review is not active and not to be started, so what is
\* known of its review outlasts the step.
LEMMA RecordStep ==
  ASSUME Inv, Grows, run' \in RunRecord,
         Earned(run.actions, invoked)',
         run'.state # "absent" \/ run'.actions = <<>>,
         \/ run.review = NoReview /\ run'.review = NoReview /\ ~ run'.satisfied
         \/ run.review # NoReview /\ run'.review = run.review
            /\ run'.satisfied = run.satisfied /\ run'.state = run.state
            /\ run'.active = 0
  PROVE  RecordInv'
  <1>1. CASE run'.review = NoReview
    BY <1>1 DEF RecordInv, Exists
  <1>2. CASE run'.review # NoReview
    <2>1. run.review # NoReview /\ run'.review = run.review
      BY <1>2
    <2>2. run.review \in Review
      BY <2>1, Unpacked DEF RunRecord
    <2>3. Sound(run.review, invoked')
      BY <2>1, <2>2, Unpacked, SoundReviews DEF RecordInv, Grows
    <2>4. published' = run.review
      BY <2>1, <2>2, Unpacked, RunAssumption DEF RecordInv, Grows
    <2> QED
      BY <2>1, <2>3, <2>4, Unpacked DEF RecordInv, Exists, Terminal
  <1> QED
    BY <1>1, <1>2

\* A call that begins knows what it needs.
Begun(op, pc, target) == [Idle EXCEPT !.op = op, !.pc = pc, !.target = target]

LEMMA IdleCall ==
  Idle \in Call /\ CallOK(Idle)
  BY PlanFacts DEF Idle, Call, CallOK

LEMMA BegunCall ==
  ASSUME NEW op \in Operations, NEW pc \in {"advance", "block", "finalize"},
         NEW target \in TERMINAL_RUN_STATES \cup {"none"},
         pc = "finalize" => target \in TERMINAL_RUN_STATES
  PROVE  /\ Begun(op, pc, target) \in Call
         /\ Begun(op, pc, target).pc = pc
         /\ Begun(op, pc, target).op = op
         /\ Begun(op, pc, target).target = target
         /\ CallOK(Begun(op, pc, target))
  <1> DEFINE k == Begun(op, pc, target)
  <1>1. k.pc = pc /\ k.op = op /\ k.target = target
    BY DEF Idle, Begun
  <1>2. k \in Call
    BY IdleCall DEF Begun, Call
  <1> HIDE DEF k
  <1>3. CallOK(k)
    BY <1>1 DEF CallOK
  <1> QED
    BY <1>1, <1>2, <1>3 DEF k

LEMMA InitInv ==
  Init => Inv
  <1> SUFFICES ASSUME Init PROVE Inv
    OBVIOUS
  <1>1. run \in RunRecord
    BY EmptyList, PlanFacts DEF Init, Fresh, RunRecord
  <1>3. RecordInv
    BY EmptyList DEF Init, Fresh, RecordInv, Exists
  <1>4. \A c \in Controllers : CallOK(calls[c])
    BY DEF Init, Idle, CallOK
  <1>5. TypeOK
    BY <1>1, IdleCall, PlanFacts, RunAssumption DEF Init, TypeOK
  <1> QED
    BY <1>3, <1>4, <1>5 DEF Inv, IInv

-----------------------------------------------------------------------------
(* The steps                                                               *)

LEMMA StartInv ==
  ASSUME Inv, NEW c \in Controllers, Start(c)
  PROVE  Inv'
  <1> DEFINE k == Begun("start", "advance", "none")
  <1>0. k \in Call /\ CallOK(k) /\ k.pc = "advance" /\ k.op = "start"
    BY BegunCall DEF Operations
  <1>1. calls' = [calls EXCEPT ![c] = k]
    BY DEF Start, Begin, Begun
  <1> HIDE DEF k
  <1>2. UNCHANGED <<published, invoked, crashes>>
    BY DEF Start
  <1>3. run' = run \/ (~ Exists /\ run' = Fresh("planned"))
    BY DEF Start
  <1>4. Fresh("planned") \in RunRecord
    BY EmptyList, PlanFacts DEF Fresh, RunRecord
  <1>5. CASE ~ Exists /\ run' = Fresh("planned")
    <2>1. run.actions = <<>> /\ run.review = NoReview
      BY <1>5, Unpacked DEF RecordInv, Terminal, TERMINAL_RUN_STATES, Exists
    <2>2. /\ run'.actions = <<>> /\ run'.review = NoReview /\ ~ run'.satisfied
          /\ run'.state = "planned"
      BY <1>5 DEF Fresh
    <2>3. Grows
      BY <1>2, <2>1, <2>2, Unpacked, ListFacts DEF Grows, Counts
    <2>4. RecordInv'
      BY <1>4, <1>5, <2>1, <2>2, <2>3, EmptyList, RecordStep
    <2>5. CallOK(calls[c])'
      BY <1>0, <1>1, CallMoves DEF CallOK, Operations
    <2> QED
      BY <1>0, <1>1, <1>2, <1>4, <1>5, <2>3, <2>4, <2>5, CallMoves, Unpacked, StepInv
  <1>6. CASE run' = run
    BY <1>0, <1>1, <1>2, <1>6, Unpacked, CallInv
  <1> QED
    BY <1>3, <1>5, <1>6

LEMMA ResumeInv ==
  ASSUME Inv, NEW c \in Controllers, Resume(c)
  PROVE  Inv'
  <1> DEFINE pc == IF run.active # 0 THEN "block" ELSE "advance"
             k == Begun("resume", pc, "none")
  <1>1. k \in Call /\ CallOK(k)
    <2>1. pc \in {"advance", "block", "finalize"} /\ pc # "finalize"
      OBVIOUS
    <2> HIDE DEF pc
    <2> QED
      BY <2>1, BegunCall DEF Operations
  <1>2. calls' = [calls EXCEPT ![c] = k]
    BY DEF Resume, Begin, Begun
  <1> HIDE DEF k
  <1> QED
    BY <1>1, <1>2, Unpacked, CallInv DEF Resume

LEMMA CancelledRecord ==
  ASSUME Inv, NEW s, s = Cancelled(run), Exists
  PROVE  /\ s \in RunRecord /\ s.state # "absent"
         /\ s.actions = run.actions /\ s.active = run.active
         /\ s.review = run.review /\ s.satisfied = run.satisfied
         /\ run.review # NoReview => s = run
         /\ Terminal(run) => s = run
  <1>1. run \in RunRecord /\ (run.review # NoReview => Terminal(run))
    BY Unpacked DEF RecordInv
  <1> DEFINE new == IF run.active # 0 THEN "cancellation_pending" ELSE "cancelled"
  <1>2. CASE Terminal(run)
    BY <1>1, <1>2 DEF Cancelled, Exists
  <1>3. CASE ~ Terminal(run)
    <2>1. s = [run EXCEPT !.cancel_requested = TRUE, !.state = new]
      BY <1>3 DEF Cancelled
    <2>2. new \in {"cancellation_pending", "cancelled"}
      OBVIOUS
    <2> HIDE DEF new
    <2> QED
      BY <1>1, <1>3, <2>1, <2>2 DEF RunRecord, TERMINAL_RUN_STATES
  <1> QED
    BY <1>2, <1>3

LEMMA CancelInv ==
  ASSUME Inv, NEW c \in Controllers, Cancel(c)
  PROVE  Inv'
  <1> DEFINE k == Begun("cancel", "finalize", "cancelled")
  <1>1. run' = Cancelled(run) /\ Exists /\ UNCHANGED <<published, invoked, crashes>>
    BY DEF Cancel
  <1>2. /\ run' \in RunRecord /\ run'.state # "absent"
        /\ run'.actions = run.actions
        /\ run'.review = run.review /\ run'.satisfied = run.satisfied
        /\ run.review # NoReview => run' = run
    BY <1>1, CancelledRecord
  <1>3. Grows
    BY <1>1, <1>2, Unpacked, ListFacts DEF Grows, Counts
  <1>4. RecordInv'
    BY <1>1, <1>2, <1>3, Unpacked, RecordStep DEF RecordInv
  <1>5. /\ k \in Call /\ k.pc = "finalize" /\ k.op \in Operations
        /\ k.target \in TERMINAL_RUN_STATES
    BY BegunCall DEF Operations, TERMINAL_RUN_STATES
  <1>6. CASE calls' = [calls EXCEPT ![c] = k]
    <2> HIDE DEF k
    <2>1. CallOK(calls[c])'
      BY <1>5, <1>6, CallMoves DEF CallOK
    <2> QED
      BY <1>1, <1>2, <1>3, <1>4, <1>5, <1>6, <2>1, CallMoves, Unpacked, StepInv
  <1>7. CASE calls' = calls
    <2>1. CallOK(calls[c])'
      BY <1>3, <1>7, OtherCall
    <2>2. calls' \in [Controllers -> Call]
      BY <1>7 DEF Inv, TypeOK
    <2> QED
      BY <1>1, <1>2, <1>3, <1>4, <1>7, <2>1, <2>2, Unpacked, StepInv
  <1> QED
    BY <1>6, <1>7 DEF Cancel, Begin, Begun

-----------------------------------------------------------------------------
(* How a call under way goes on, whatever becomes of the record            *)

CallMoved(c) ==
  /\ calls' \in [Controllers -> Call]
  /\ \A d \in Controllers \ {c} : calls'[d] = calls[d]
  /\ CallOK(calls[c])'

LEMMA ReturnMoves ==
  ASSUME Inv, NEW c \in Controllers, Return(c)
  PROVE  CallMoved(c)
  <1>1. calls' = [calls EXCEPT ![c] = Idle]
    BY DEF Return
  <1>2. calls'[c].pc = "idle"
    BY <1>1, IdleCall, CallMoves DEF Idle
  <1> QED
    BY <1>1, <1>2, IdleCall, CallMoves DEF CallMoved, CallOK

LEMMA FinishMoves ==
  ASSUME Inv, NEW c \in Controllers, ~ At(c, "idle"),
         NEW s \in TERMINAL_RUN_STATES, Finish(c, s)
  PROVE  CallMoved(c)
  <1> DEFINE k == [calls[c] EXCEPT !.pc = "finalize", !.target = s]
  <1>1. calls[c] \in Call /\ calls[c].op \in Operations
    BY Unpacked DEF CallOK, At
  <1>2. k \in Call /\ k.op \in Operations /\ k.pc = "finalize" /\ k.target = s
    BY <1>1 DEF Call
  <1>3. calls' = [calls EXCEPT ![c] = k]
    BY DEF Finish
  <1> HIDE DEF k
  <1> QED
    BY <1>2, <1>3, CallMoves DEF CallMoved, CallOK

LEMMA GoMoves ==
  ASSUME Inv, NEW c \in Controllers, ~ At(c, "idle"),
         NEW pc \in {"advance", "block"}, GoTo(c, pc)
  PROVE  CallMoved(c)
  <1> DEFINE k == [calls[c] EXCEPT !.pc = pc]
  <1>1. calls[c] \in Call /\ calls[c].op \in Operations
    BY Unpacked DEF CallOK, At
  <1>2. k \in Call /\ k.op \in Operations /\ k.pc = pc
    BY <1>1 DEF Call
  <1>3. calls' = [calls EXCEPT ![c] = k]
    BY DEF GoTo
  <1> HIDE DEF k
  <1> QED
    BY <1>2, <1>3, CallMoves DEF CallMoved, CallOK

LEMMA QuietStep ==
  ASSUME Inv, NEW c \in Controllers, CallMoved(c),
         UNCHANGED <<run, published, invoked>>, crashes' \in 0 .. MaxCrashes
  PROVE  Inv'
  <1>1. Grows
    BY Unpacked, ListFacts DEF Grows, Counts
  <1>2. RecordInv'
    BY Unpacked DEF RecordInv, Exists, Terminal
  <1> QED
    BY <1>1, <1>2, Unpacked, StepInv DEF CallMoved

-----------------------------------------------------------------------------
(* The steps of a call under way                                           *)

LEMMA AdvanceInv ==
  ASSUME Inv, NEW c \in Controllers, Advance(c)
  PROVE  Inv'
  <1>1. ~ At(c, "idle") /\ UNCHANGED <<run, published, invoked, crashes>>
    BY DEF Advance, At
  <1>2. CASE Return(c)
    BY <1>1, <1>2, ReturnMoves, Unpacked, QuietStep
  <1>3. CASE Finish(c, "cancelled") \/ Finish(c, "completed")
    BY <1>1, <1>3, FinishMoves, Unpacked, QuietStep DEF TERMINAL_RUN_STATES
  <1>4. CASE GoTo(c, "block")
    BY <1>1, <1>4, GoMoves, Unpacked, QuietStep
  <1>5. CASE /\ Ordered(run.actions) /\ Len(run.actions) # Len(Plan)
             /\ calls' = [calls EXCEPT ![c].pc = "claim",
                                       ![c].seq = Len(run.actions) + 1]
    <2> DEFINE n == Len(run.actions) + 1
               k == [calls[c] EXCEPT !.pc = "claim", !.seq = n]
    <2>1. n \in 1 .. 2
      <3>1. /\ Len(run.actions) \in Nat
            /\ DOMAIN run.actions = 1 .. Len(run.actions)
        BY Unpacked, ListFacts
      <3>2. \A i \in 1 .. Len(run.actions) : i <= 2
        BY <1>5, <3>1, PlanFacts DEF Ordered
      <3>3. Len(run.actions) > 0 => Len(run.actions) \in 1 .. Len(run.actions)
        BY <3>1
      <3>4. Len(run.actions) <= 2 /\ Len(run.actions) # 2
        BY <1>5, <3>1, <3>2, <3>3, PlanFacts
      <3>5. ASSUME NEW m \in Nat, m <= 2, m # 2
            PROVE  m + 1 \in 1 .. 2
        BY <3>5
      <3> QED
        BY <3>1, <3>4, <3>5
    <2>2. calls' = [calls EXCEPT ![c] = k]
      BY <1>5
    <2>3. calls[c] \in Call /\ calls[c].op \in Operations
      BY <1>1, Unpacked DEF CallOK, At
    <2>4. n \in 0 .. Len(Plan) /\ n > 0 /\ n <= Len(run.actions) + 1
      BY <2>1, PlanFacts
    <2> HIDE DEF n
    <2>5. k \in Call /\ k.op \in Operations /\ k.pc = "claim" /\ k.seq = n
      BY <2>3, <2>4 DEF Call
    <2> HIDE DEF k
    <2>6. CallMoved(c)
      BY <1>1, <2>2, <2>4, <2>5, CallMoves DEF CallMoved, CallOK
    <2> QED
      BY <1>1, <2>6, Unpacked, QuietStep
  <1> QED
    BY <1>2, <1>3, <1>4, <1>5 DEF Advance

LEMMA FinalizeInv ==
  ASSUME Inv, NEW c \in Controllers, Finalize(c)
  PROVE  Inv'
  <1>1. At(c, "finalize") /\ UNCHANGED <<run, published, invoked, crashes>>
    BY DEF Finalize
  <1>2. CASE Return(c)
    BY <1>1, <1>2, ReturnMoves, Unpacked, QuietStep
  <1>3. CASE calls' = [calls EXCEPT ![c].pc = "publish",
                 ![c].review = BuildReview(run, calls[c].target, calls[c].op)]
    <2> DEFINE review == BuildReview(run, calls[c].target, calls[c].op)
               k == [calls[c] EXCEPT !.pc = "publish", !.review = review]
    <2>1. calls[c] \in Call /\ calls[c].op \in Operations
          /\ calls[c].target \in TERMINAL_RUN_STATES
      BY <1>1, Unpacked DEF CallOK, At
    <2>2. /\ review \in Review
          /\ Sound(review, invoked)
          /\ review.status = calls[c].target \/ review.satisfied
      BY <2>1, Unpacked, BuiltReview DEF RecordInv
    <2>3. calls' = [calls EXCEPT ![c] = k]
      BY <1>3
    <2> HIDE DEF review
    <2>4. /\ k \in Call /\ k.op = calls[c].op /\ k.pc = "publish"
          /\ k.review = review /\ k.target = calls[c].target
      BY <2>1, <2>2 DEF Call
    <2> HIDE DEF k
    <2>5. CallMoved(c)
      BY <1>1, <2>1, <2>2, <2>3, <2>4, CallMoves DEF CallMoved, CallOK
    <2> QED
      BY <1>1, <2>5, Unpacked, QuietStep
  <1> QED
    BY <1>2, <1>3 DEF Finalize

LEMMA CrashInv ==
  ASSUME Inv, NEW c \in Controllers, Crash(c)
  PROVE  Inv'
  <1>1. crashes' \in 0 .. MaxCrashes
    BY Unpacked, RunAssumption DEF Crash
  <1> QED
    BY <1>1, ReturnMoves, QuietStep DEF Crash

LEMMA ClaimInv ==
  ASSUME Inv, NEW c \in Controllers, Claim(c)
  PROVE  Inv'
  <1>1. At(c, "claim") /\ UNCHANGED <<published, invoked, crashes>>
    BY DEF Claim
  <1>2. CASE Return(c) /\ run' = run
    BY <1>1, <1>2, ReturnMoves, Unpacked, QuietStep
  <1>3. CASE /\ ~ Terminal(run)
             /\ run' = [run EXCEPT !.state = "running", !.active = calls[c].seq]
             /\ GoTo(c, "execute")
    <2> DEFINE k == [calls[c] EXCEPT !.pc = "execute"]
    <2>1. /\ calls[c] \in Call /\ calls[c].op \in Operations
          /\ calls[c].seq > 0 /\ calls[c].seq <= Len(run.actions) + 1
      BY <1>1, Unpacked DEF CallOK, At
    <2>2. /\ run' \in RunRecord /\ run'.actions = run.actions
          /\ run'.review = run.review /\ run'.satisfied = run.satisfied
          /\ run'.state = "running"
      BY <1>3, <2>1, Unpacked DEF RunRecord, Call
    <2>3. run.review = NoReview /\ ~ run.satisfied
      BY <1>3, Unpacked DEF RecordInv
    <2>4. Grows
      BY <1>1, <2>2, Unpacked, ListFacts DEF Grows, Counts
    <2>5. RecordInv'
      BY <1>1, <2>2, <2>3, <2>4, Unpacked, RecordStep DEF RecordInv
    <2>6. k \in Call /\ k.op = calls[c].op /\ k.pc = "execute" /\ k.seq = calls[c].seq
      BY <2>1 DEF Call
    <2>7. calls' = [calls EXCEPT ![c] = k]
      BY <1>3 DEF GoTo
    <2> HIDE DEF k
    <2>8. CallMoved(c)
      BY <2>1, <2>2, <2>6, <2>7, CallMoves DEF CallMoved, CallOK
    <2> QED
      BY <1>1, <2>2, <2>4, <2>5, <2>8, Unpacked, StepInv DEF CallMoved
  <1> QED
    BY <1>2, <1>3 DEF Claim

LEMMA InvokeInv ==
  ASSUME Inv, NEW c \in Controllers, Invoke(c)
  PROVE  Inv'
  <1> DEFINE w == Plan[calls[c].seq]
             k == [calls[c] EXCEPT !.pc = "invoked"]
  <1>1. /\ calls[c] \in Call /\ calls[c].op \in Operations
        /\ calls[c].seq > 0 /\ calls[c].seq <= Len(run.actions) + 1
    BY Unpacked DEF CallOK, At, Invoke
  <1>2. w \in Workflows
    <2>1. calls[c].seq \in 0 .. 2
      BY <1>1, PlanFacts DEF Call
    <2> QED
      BY <1>1, <2>1, PlanFacts
  <1>3. /\ invoked \in Counts /\ invoked' = [invoked EXCEPT ![w] = @ + 1]
        /\ UNCHANGED <<run, published, crashes>>
    BY Unpacked DEF Invoke
  <1>4. calls' = [calls EXCEPT ![c] = k]
    BY DEF Invoke, GoTo
  <1>5. k \in Call /\ k.op = calls[c].op /\ k.pc = "invoked" /\ k.seq = calls[c].seq
    BY <1>1 DEF Call
  <1>6. invoked' \in Counts /\ invoked'[w] > 0
        /\ \A v \in Workflows : invoked'[v] >= invoked[v]
    <2> HIDE DEF w
    <2> QED
      BY <1>2, <1>3 DEF Counts
  <1>7. Grows
    BY <1>3, <1>6, Unpacked, ListFacts DEF Grows
  <1>8. Earned(run.actions, invoked)'
    BY <1>3, <1>6, Unpacked, StillEarned DEF RecordInv
  <1>9. RecordInv'
    BY <1>3, <1>7, <1>8, Unpacked, RecordStep DEF RecordInv, Exists
  <1> HIDE DEF k
  <1>10. CallMoved(c)
    BY <1>1, <1>3, <1>4, <1>5, <1>6, CallMoves DEF CallMoved, CallOK
  <1> QED
    BY <1>3, <1>7, <1>9, <1>10, Unpacked, StepInv DEF CallMoved

\* A result is only ever recorded for the active action of a run with no review,
\* and a success only for a workflow that was invoked.
LEMMA ObservedRecord ==
  ASSUME Inv, NEW c \in Controllers, calls[c].pc \in {"execute", "invoked"},
         run.active = calls[c].seq, NEW ok \in BOOLEAN,
         ok => calls[c].pc = "invoked",
         run' = Observed(run, calls[c].seq, ok), UNCHANGED <<published, invoked>>
  PROVE  Grows /\ RecordInv' /\ run' \in RunRecord
  <1> DEFINE seq == calls[c].seq
             x == [workflow |-> Plan[seq], succeeded |-> ok]
             list == Append(run.actions, x)
             count == IF ok THEN run.findings ELSE run.findings + 1
  <1>1. /\ seq > 0 /\ seq <= Len(run.actions) + 1
        /\ ok => invoked[Plan[seq]] > 0
    BY Unpacked DEF CallOK
  <1>2. seq \in 1 .. 2
    <2>1. seq \in 0 .. 2
      BY Unpacked, PlanFacts DEF Call
    <2> QED
      BY <1>1, <2>1
  <1>3. x \in Action
    BY <1>2, PlanFacts DEF Action
  <1>4. list \in Actions /\ Len(list) = Len(run.actions) + 1
    BY <1>3, Unpacked, LongerList
  <1>5. Earned(list, invoked)
    <2> HIDE DEF seq
    <2> QED
      BY <1>1, <1>2, Unpacked, EarnedNext DEF RecordInv
  <1>6. run.review = NoReview /\ ~ run.satisfied
    BY <1>1, Unpacked DEF RecordInv
  <1>7. count \in Nat
    BY Unpacked DEF RunRecord
  <1>8. run' = [run EXCEPT !.actions = list, !.active = 0, !.findings = count,
                           !.state = "planned"]
    BY DEF Observed
  <1> HIDE DEF list, count
  <1>9. /\ run' \in RunRecord /\ run'.actions = list /\ run'.state = "planned"
        /\ run'.review = run.review /\ run'.satisfied = run.satisfied
    <2>1. 0 \in 0 .. Len(Plan) /\ run \in RunRecord
      BY Unpacked, PlanFacts
    <2>2. list \in Actions
      BY <1>4
    <2> DEFINE planned == [run EXCEPT !.actions = list, !.active = 0, !.findings = count,
                                      !.state = "planned"]
    <2>3. planned \in RunRecord
      BY <1>7, <2>1, <2>2 DEF RunRecord
    <2>4. /\ planned.actions = list /\ planned.state = "planned"
          /\ planned.review = run.review /\ planned.satisfied = run.satisfied
      BY <2>1 DEF RunRecord
    <2> QED
      BY <1>8, <2>3, <2>4
  <1>10. Grows
    BY <1>4, <1>9, Unpacked, ListFacts DEF Grows, Counts
  <1>11. RecordInv'
    BY <1>5, <1>6, <1>9, <1>10, RecordStep
  <1> QED
    BY <1>9, <1>10, <1>11

LEMMA ObserveInv ==
  ASSUME Inv, NEW c \in Controllers, NEW ok \in BOOLEAN, Observe(c, ok)
  PROVE  Inv'
  <1>1. At(c, "invoked") /\ ~ At(c, "idle") /\ UNCHANGED <<published, invoked, crashes>>
    BY DEF Observe, At
  <1>2. CASE Return(c) /\ run' = run
    BY <1>1, <1>2, ReturnMoves, Unpacked, QuietStep
  <1>3. CASE /\ run.active = calls[c].seq
             /\ run' = Observed(run, calls[c].seq, ok)
             /\ \/ Finish(c, "cancelled") \/ Finish(c, "failed")
                \/ GoTo(c, "advance")
    <2>1. Grows /\ RecordInv' /\ run' \in RunRecord
      BY <1>1, <1>3, ObservedRecord DEF At
    <2>2. CallMoved(c)
      BY <1>1, <1>3, FinishMoves, GoMoves DEF TERMINAL_RUN_STATES
    <2> QED
      BY <1>1, <2>1, <2>2, Unpacked, StepInv DEF CallMoved
  <1> QED
    BY <1>2, <1>3 DEF Observe

LEMMA GatewayRaisesInv ==
  ASSUME Inv, NEW c \in Controllers, GatewayRaises(c)
  PROVE  Inv'
  <1>1. /\ calls[c].pc \in {"execute", "invoked"} /\ ~ At(c, "idle")
        /\ UNCHANGED <<published, invoked, crashes>>
    BY DEF GatewayRaises, At
  <1>2. CASE Return(c) /\ run' = run
    BY <1>1, <1>2, ReturnMoves, Unpacked, QuietStep
  <1>3. CASE /\ run.active = calls[c].seq
             /\ run' = Observed(run, calls[c].seq, FALSE)
             /\ Finish(c, "blocked")
    <2>1. Grows /\ RecordInv' /\ run' \in RunRecord
      BY <1>1, <1>3, ObservedRecord
    <2>2. CallMoved(c)
      BY <1>1, <1>3, FinishMoves DEF TERMINAL_RUN_STATES
    <2> QED
      BY <1>1, <2>1, <2>2, Unpacked, StepInv DEF CallMoved
  <1> QED
    BY <1>2, <1>3 DEF GatewayRaises

LEMMA BlockInv ==
  ASSUME Inv, NEW c \in Controllers, Block(c)
  PROVE  Inv'
  <1>1. ~ At(c, "idle") /\ UNCHANGED <<published, invoked, crashes>>
    BY DEF Block, At
  <1>2. CallMoved(c)
    BY <1>1, FinishMoves DEF Block, TERMINAL_RUN_STATES
  <1> DEFINE count == run.findings + 1
  <1>3. count \in Nat /\ run' = [run EXCEPT !.findings = count, !.active = 0]
    BY Unpacked DEF Block, RunRecord
  <1> HIDE DEF count
  <1>4. /\ run' \in RunRecord /\ run'.actions = run.actions
        /\ run'.review = run.review /\ run'.satisfied = run.satisfied
        /\ run'.state = run.state /\ run'.active = 0
    <2>1. 0 \in 0 .. Len(Plan) /\ run \in RunRecord
      BY Unpacked, PlanFacts
    <2> QED
      BY <1>3, <2>1 DEF RunRecord
  <1>5. Grows
    BY <1>1, <1>4, Unpacked, ListFacts DEF Grows, Counts
  <1>6. RecordInv'
    BY <1>1, <1>4, <1>5, Unpacked, RecordStep DEF RecordInv, Exists
  <1> QED
    BY <1>1, <1>2, <1>4, <1>5, <1>6, Unpacked, StepInv DEF CallMoved

LEMMA PublishInv ==
  ASSUME Inv, NEW c \in Controllers, Publish(c)
  PROVE  Inv'
  <1>1. At(c, "publish") /\ UNCHANGED <<run, invoked, crashes>>
    BY DEF Publish
  <1>2. CASE Return(c) /\ published' = published
    BY <1>1, <1>2, ReturnMoves, Unpacked, QuietStep
  <1>3. CASE /\ published \in {NoReview, calls[c].review}
             /\ published' = calls[c].review
             /\ GoTo(c, "settle")
    <2> DEFINE k == [calls[c] EXCEPT !.pc = "settle"]
    <2>1. calls[c] \in Call /\ CallOK(calls[c])
      BY Unpacked
    <2>2. /\ calls[c].op \in Operations
          /\ calls[c].target \in TERMINAL_RUN_STATES
          /\ calls[c].review \in Review
          /\ Sound(calls[c].review, invoked)
          /\ calls[c].review.status = calls[c].target \/ calls[c].review.satisfied
      BY <1>1, <2>1 DEF CallOK, At
    <2>3. Grows
      BY <1>1, <1>3, Unpacked, ListFacts DEF Grows, Counts
    <2>4. RecordInv'
      BY <1>1, <2>3, Unpacked, RecordStep DEF RecordInv, Exists
    <2>5. /\ k \in Call /\ k.op = calls[c].op /\ k.pc = "settle"
          /\ k.target = calls[c].target /\ k.review = calls[c].review
      BY <2>1 DEF Call
    <2>6. calls' = [calls EXCEPT ![c] = k]
      BY <1>3 DEF GoTo
    <2> HIDE DEF k
    <2>7. CallMoved(c)
      BY <1>1, <1>3, <2>2, <2>5, <2>6, CallMoves DEF CallMoved, CallOK
    <2> QED
      BY <1>1, <1>3, <2>2, <2>3, <2>4, <2>7, Unpacked, StepInv DEF CallMoved
  <1> QED
    BY <1>2, <1>3 DEF Publish

LEMMA SettleInv ==
  ASSUME Inv, NEW c \in Controllers, Settle(c)
  PROVE  Inv'
  <1>1. At(c, "settle") /\ UNCHANGED <<published, invoked, crashes>> /\ Return(c)
    BY DEF Settle
  <1>2. CallMoved(c)
    BY <1>1, ReturnMoves
  <1>3. CASE run' = run
    BY <1>1, <1>2, <1>3, Unpacked, QuietStep
  <1>4. CASE /\ run.review = NoReview
             /\ run' = [run EXCEPT !.state = calls[c].target, !.active = 0,
                                   !.review = calls[c].review,
                                   !.satisfied = calls[c].review.satisfied]
    <2>1. calls[c] \in Call /\ CallOK(calls[c])
      BY Unpacked
    <2>2. /\ calls[c].target \in TERMINAL_RUN_STATES
          /\ calls[c].review \in Review
          /\ Sound(calls[c].review, invoked)
          /\ calls[c].review.status = calls[c].target \/ calls[c].review.satisfied
          /\ published = calls[c].review
      BY <1>1, <2>1 DEF CallOK, At
    <2>3. calls[c].review.satisfied \in BOOLEAN
      BY <2>2 DEF Review
    <2>4. /\ run'.actions = run.actions /\ run'.state = calls[c].target
          /\ run'.active = 0 /\ run'.review = calls[c].review
          /\ run'.satisfied = calls[c].review.satisfied
      BY <1>4, Unpacked DEF RunRecord
    <2>5. run' \in RunRecord
      <3>1. 0 \in 0 .. Len(Plan) /\ run \in RunRecord
        BY Unpacked, PlanFacts
      <3> QED
        BY <1>4, <2>2, <2>3, <3>1 DEF RunRecord
    <2>6. Grows
      BY <1>1, <2>4, Unpacked, ListFacts DEF Grows, Counts
    <2>7. RecordInv'
      <3>1. Earned(run'.actions, invoked')
        BY <1>1, <2>4, Unpacked DEF RecordInv
      <3>2. run'.state \in TERMINAL_RUN_STATES /\ run'.state # "absent"
        BY <2>2, <2>4 DEF TERMINAL_RUN_STATES
      <3>3. run'.review # NoReview
        BY <2>2, <2>4, RunAssumption
      <3>4. Sound(run'.review, invoked') /\ published' = run'.review
        BY <1>1, <2>2, <2>4
      <3> QED
        BY <2>2, <2>4, <3>1, <3>2, <3>3, <3>4 DEF RecordInv, Exists, Terminal
    <2> QED
      BY <1>1, <1>2, <2>5, <2>6, <2>7, Unpacked, StepInv DEF CallMoved
  <1> QED
    BY <1>3, <1>4 DEF Settle

-----------------------------------------------------------------------------
(* The invariant                                                           *)

LEMMA NextInv ==
  ASSUME Inv, [Next]_vars
  PROVE  Inv'
  <1>1. CASE UNCHANGED vars
    BY <1>1 DEF vars, Inv, TypeOK, IInv, RecordInv, CallOK, Exists, Terminal
  <1>2. ASSUME NEW c \in Controllers, Start(c) \/ Resume(c) \/ Cancel(c) \/ Crash(c)
        PROVE  Inv'
    BY <1>2, StartInv, ResumeInv, CancelInv, CrashInv
  <1>3. ASSUME NEW c \in Controllers, Step(c)
        PROVE  Inv'
    BY <1>3, AdvanceInv, ClaimInv, InvokeInv, GatewayRaisesInv, BlockInv,
       FinalizeInv, PublishInv, SettleInv, ObserveInv DEF Step
  <1> QED
    BY <1>1, <1>2, <1>3 DEF Next

\* Every state of any number of controllers is well typed, and satisfies the
\* inductive invariant: what the record owes to the invocations and to
\* review.json, and what each call under way knows.
THEOREM Invariance == Spec => [](TypeOK /\ IInv)
  <1>1. Init => TypeOK /\ IInv
    BY InitInv DEF Inv
  <1>2. (TypeOK /\ IInv) /\ [Next]_vars => (TypeOK /\ IInv)'
    BY NextInv DEF Inv
  <1> QED
    BY <1>1, <1>2, PTL DEF Spec

\* The record, the review file and the calls keep their shape (AgentRunStore).
THEOREM TypeCorrect == Spec => []TypeOK
  BY Invariance, PTL

-----------------------------------------------------------------------------
(* What follows from it                                                    *)

\* A review that is recorded is the one in review.json, however controllers
\* overlap and die between publish_review and the record of it.
THEOREM Published == Spec => []ReviewIsPublished
  <1>1. IInv => ReviewIsPublished
    BY DEF IInv, RecordInv, ReviewIsPublished
  <1> QED
    BY <1>1, Invariance, PTL

LEMMA EarnedAndSatisfied ==
  ASSUME NEW a \in Actions, NEW m \in Counts, Earned(a, m), Satisfied(a)
  PROVE  /\ a = [i \in DOMAIN Plan |-> [workflow |-> Plan[i], succeeded |-> TRUE]]
         /\ \A w \in Workflows : m[w] > 0
  <1>1. Len(a) = 2 /\ DOMAIN a = {1, 2}
    BY ListFacts, PlanFacts DEF Satisfied
  <1>2. a[1].workflow = "inspect"
    BY <1>1, PlanFacts DEF Earned
  <1>3. a[1] = [workflow |-> "inspect", succeeded |-> TRUE]
    <2>1. PICK i \in DOMAIN a :
            /\ a[i] = [workflow |-> "inspect", succeeded |-> TRUE]
            /\ \A j \in 1 .. i - 1 : a[j].workflow # "inspect"
      BY PlanFacts DEF Satisfied, Succeeded
    <2>2. CASE i = 2
      BY <1>2, <2>1, <2>2
    <2> QED
      BY <1>1, <2>1, <2>2
  <1>4. a[2] = [workflow |-> "verify", succeeded |-> TRUE]
    <2>1. PICK i \in DOMAIN a : a[i] = [workflow |-> "verify", succeeded |-> TRUE]
      BY PlanFacts DEF Satisfied, Succeeded
    <2> QED
      BY <1>1, <1>2, <2>1
  <1>5. a = [i \in DOMAIN a |-> a[i]]
    BY DEF Actions
  <1>6. \A i \in DOMAIN a : a[i] = [workflow |-> Plan[i], succeeded |-> TRUE]
    BY <1>1, <1>3, <1>4, PlanFacts
  <1>7. m["inspect"] > 0 /\ m["verify"] > 0
    BY <1>1, <1>3, <1>4 DEF Earned
  <1> QED
    BY <1>1, <1>5, <1>6, <1>7, PlanFacts

\* An accepted run did its whole plan, in order and with success, and every
\* workflow was invoked (action_succeeded, build_review).
THEOREM WorkWasDone == Spec => []AcceptedWorkWasDone
  <1>1. TypeOK /\ IInv => AcceptedWorkWasDone
    <2> SUFFICES ASSUME Inv, run.satisfied PROVE AcceptedWorkWasDone
      BY DEF Inv, AcceptedWorkWasDone
    <2>1. run.review \in Review /\ Sound(run.review, invoked) /\ run.review.satisfied
      BY Unpacked DEF RecordInv, RunRecord
    <2>2. run.review.actions \in Actions
      BY <2>1 DEF Review
    <2> QED
      BY <2>1, <2>2, Unpacked, EarnedAndSatisfied DEF Sound, AcceptedWorkWasDone
  <1> QED
    BY <1>1, Invariance, PTL

-----------------------------------------------------------------------------
(* What no step takes back                                                 *)

Frozen ==
  /\ published # NoReview => published' = published
  /\ run.review # NoReview =>
       /\ run'.review = run.review /\ run'.state = run.state
       /\ run'.satisfied = run.satisfied /\ run'.actions = run.actions
       /\ run'.active = run.active

LEMMA StepFreezes ==
  ASSUME Inv, [Next]_vars
  PROVE  Frozen
  <1>1. run.review # NoReview => Terminal(run) /\ run.active = 0
    BY Unpacked DEF RecordInv
  <1>2. CASE UNCHANGED <<run, published>>
    BY <1>2 DEF Frozen
  <1>3. ASSUME NEW c \in Controllers, Start(c)
        PROVE  Frozen
    BY <1>1, <1>3 DEF Start, Frozen
  <1>4. ASSUME NEW c \in Controllers, Cancel(c)
        PROVE  Frozen
    BY <1>1, <1>4, CancelledRecord DEF Cancel, Frozen
  <1>5. ASSUME NEW c \in Controllers, Claim(c)
        PROVE  Frozen
    BY <1>1, <1>5 DEF Claim, Frozen
  <1>6. ASSUME NEW c \in Controllers, GatewayRaises(c) \/ \E ok \in BOOLEAN : Observe(c, ok)
        PROVE  Frozen
    <2>1. calls[c].pc \in {"execute", "invoked"} /\ UNCHANGED published
      BY <1>6 DEF GatewayRaises, Observe, At
    <2>2. calls[c].seq > 0
      BY <2>1, Unpacked DEF CallOK
    <2>3. run.active = calls[c].seq => run.review = NoReview
      BY <1>1, <2>2
    <2> QED
      BY <1>6, <2>1, <2>3 DEF GatewayRaises, Observe, Frozen
  <1>7. ASSUME NEW c \in Controllers, Block(c)
        PROVE  Frozen
    BY <1>1, <1>7, Unpacked DEF Block, Frozen, RunRecord
  <1>8. ASSUME NEW c \in Controllers, Publish(c)
        PROVE  Frozen
    BY <1>8 DEF Publish, Frozen
  <1>9. ASSUME NEW c \in Controllers, Settle(c)
        PROVE  Frozen
    BY <1>9 DEF Settle, Frozen
  <1>10. ASSUME NEW c \in Controllers,
                \/ Resume(c) \/ Crash(c) \/ Advance(c) \/ Invoke(c) \/ Finalize(c)
         PROVE  Frozen
    BY <1>2, <1>10 DEF Resume, Crash, Advance, Invoke, Finalize
  <1> QED
    BY <1>2, <1>3, <1>4, <1>5, <1>6, <1>7, <1>8, <1>9, <1>10 DEF Next, Step, vars

\* Once it is reviewed a run keeps its outcome, its results and its review, and
\* review.json is never replaced, whichever controller steps (publish_review,
\* _finalize).
THEOREM Final == Spec => ReviewIsFinal
  <1>1. TypeOK /\ IInv /\ [Next]_vars => [Frozen]_vars
    BY StepFreezes DEF Inv
  <1> QED
    BY <1>1, Invariance, PTL DEF Spec, ReviewIsFinal, Frozen
=============================================================================
