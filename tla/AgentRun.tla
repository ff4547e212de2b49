------------------------------- MODULE AgentRun -------------------------------
(***************************************************************************)
(* One supervised agent run: its record in the AgentRunStore, its review   *)
(* file, and the controllers that start, resume and cancel it at the same  *)
(* time or after one another.  Source: pipeline/agentic.                   *)
(*                                                                         *)
(* Each store method holds the store's lock from load to append, so it is  *)
(* one atomic step; between two of them a controller holds nothing, and    *)
(* acts on what it read before.  A call is therefore a process with a      *)
(* program counter, and a crash forgets it.  Of the review the model keeps *)
(* what two reviews can differ in; of the findings, how many there are.    *)
(***************************************************************************)
EXTENDS Naturals, Sequences

CONSTANTS
  Controllers,  \* the calls that may be running
  MaxFindings,  \* bound: no call begins once this many findings are recorded
  MaxCrashes,   \* bound: how many controllers die
  NoReview      \* no review yet

\* AGENT_ACTIONS: the fixed plan of the profile.
Plan == <<"inspect", "verify">>

Workflows == {Plan[i] : i \in DOMAIN Plan}

TERMINAL_RUN_STATES == {"completed", "failed", "blocked", "cancelled"}

VARIABLES
  run,        \* the record of the last event of the run's journal
  published,  \* review.json
  calls,      \* where each controller stands, and what it remembers
  invoked,    \* history: how often each workflow was invoked
  crashes     \* history: controllers that died

vars == <<run, published, calls, invoked, crashes>>

-----------------------------------------------------------------------------
(* The record, the review and the calls                                    *)

Actions == Seq([workflow : Workflows, succeeded : BOOLEAN])

Operations == {"start", "resume", "cancel"}

\* build_review: `by' stands for the admission of the operation that builds it.
Review ==
  [status : TERMINAL_RUN_STATES, satisfied : BOOLEAN, actions : Actions,
   findings : Nat, by : Operations]

ASSUME RunAssumption ==
  /\ MaxFindings \in Nat /\ MaxCrashes \in Nat
  /\ NoReview \notin Review

RunRecord ==
  [state            : {"absent", "planned", "running", "cancellation_pending"}
                        \cup TERMINAL_RUN_STATES,
   active           : 0 .. Len(Plan),
   actions          : Actions,
   cancel_requested : BOOLEAN,
   findings         : Nat,
   review           : Review \cup {NoReview},
   satisfied        : BOOLEAN]

Fresh(state) ==
  [state |-> state, active |-> 0, actions |-> <<>>, cancel_requested |-> FALSE,
   findings |-> 0, review |-> NoReview, satisfied |-> FALSE]

Call ==
  [op     : Operations \cup {"none"},
   pc     : {"idle", "advance", "claim", "execute", "invoked", "block", "finalize",
             "publish", "settle"},
   seq    : 0 .. Len(Plan),
   target : TERMINAL_RUN_STATES \cup {"none"},
   review : Review \cup {NoReview}]

Idle ==
  [op |-> "none", pc |-> "idle", seq |-> 0, target |-> "none", review |-> NoReview]

Terminal(r) == r.state \in TERMINAL_RUN_STATES

Exists == run.state # "absent"

TypeOK ==
  /\ run \in RunRecord
  /\ published \in Review \cup {NoReview}
  /\ calls \in [Controllers -> Call]
  /\ invoked \in [Workflows -> Nat]
  /\ crashes \in 0 .. MaxCrashes

Init ==
  /\ run = Fresh("absent")
  /\ published = NoReview
  /\ calls = [c \in Controllers |-> Idle]
  /\ invoked = [w \in Workflows |-> 0]
  /\ crashes = 0

At(c, pc) == calls[c].pc = pc

GoTo(c, pc) == calls' = [calls EXCEPT ![c].pc = pc]

\* _finalize begins, with the terminal state it is to record.
Finish(c, state) == calls' = [calls EXCEPT ![c].pc = "finalize", ![c].target = state]

Return(c) == calls' = [calls EXCEPT ![c] = Idle]

Begin(c, op, pc, target) ==
  calls' = [calls EXCEPT ![c] = [Idle EXCEPT !.op = op, !.pc = pc, !.target = target]]

-----------------------------------------------------------------------------
(* start, resume, cancel                                                   *)

\* A run that is over, or in the middle of an action, is returned as it is.
Start(c) ==
  /\ At(c, "idle") /\ run.findings < MaxFindings
  /\ ~ Terminal(run) /\ run.active = 0
  /\ run' = IF Exists THEN run ELSE Fresh("planned")
  /\ Begin(c, "start", "advance", "none")
  /\ UNCHANGED <<published, invoked, crashes>>

Resume(c) ==
  /\ At(c, "idle") /\ run.findings < MaxFindings
  /\ Exists /\ ~ Terminal(run)
  /\ Begin(c, "resume", IF run.active # 0 THEN "block" ELSE "advance", "none")
  /\ UNCHANGED <<run, published, invoked, crashes>>

Cancelled(r) ==
  IF Terminal(r) THEN r
  ELSE [r EXCEPT !.cancel_requested = TRUE,
                 !.state = IF r.active # 0 THEN "cancellation_pending" ELSE "cancelled"]

\* Mutant: a cancellation leaves the review to whoever is running.
CancelUnreviewed(c) ==
  /\ At(c, "idle") /\ run.findings < MaxFindings
  /\ Exists
  /\ run' = Cancelled(run)
  /\ UNCHANGED <<published, calls, invoked, crashes>>

\* Cancelling again finishes a cancellation whose review was not recorded.
Cancel(c) ==
  /\ At(c, "idle") /\ run.findings < MaxFindings
  /\ Exists
  /\ run' = Cancelled(run)
  /\ IF run'.state = "cancelled" /\ run.review = NoReview
       THEN Begin(c, "cancel", "finalize", "cancelled")
       ELSE UNCHANGED calls
  /\ UNCHANGED <<published, invoked, crashes>>

-----------------------------------------------------------------------------
(* _advance                                                                *)

Ordered(actions) ==
  \A i \in DOMAIN actions : i <= Len(Plan) /\ actions[i].workflow = Plan[i]

\* One turn of the loop, up to next_action: the decision rests on the record
\* as it is now, and is acted on later.
Advance(c) ==
  /\ At(c, "advance")
  /\ \/ Terminal(run) /\ Return(c)
     \/ /\ ~ Terminal(run) /\ run.cancel_requested
        /\ Finish(c, "cancelled")
     \/ /\ ~ Terminal(run) /\ ~ run.cancel_requested
        /\ ~ Ordered(run.actions) \/ run.active # 0
        /\ GoTo(c, "block")
     \/ /\ ~ Terminal(run) /\ ~ run.cancel_requested
        /\ Ordered(run.actions) /\ run.active = 0
        /\ IF Len(run.actions) = Len(Plan)
             THEN Finish(c, "completed")
             ELSE calls' = [calls EXCEPT ![c].pc = "claim",
                                         ![c].seq = Len(run.actions) + 1]
  /\ UNCHANGED <<run, published, invoked, crashes>>

\* Mutant: an idle run can be claimed, whether or not it is over.
ClaimIdle(c) ==
  /\ At(c, "claim")
  /\ IF run.active # 0
       THEN Return(c) /\ UNCHANGED run
       ELSE /\ run' = [run EXCEPT !.state = "running", !.active = calls[c].seq]
            /\ GoTo(c, "execute")
  /\ UNCHANGED <<published, invoked, crashes>>

\* _claim_action: the intent is durable before the workflow runs.
Claim(c) ==
  /\ At(c, "claim")
  /\ IF run.active # 0 \/ Terminal(run)
       THEN Return(c) /\ UNCHANGED run
       ELSE /\ run' = [run EXCEPT !.state = "running", !.active = calls[c].seq]
            /\ GoTo(c, "execute")
  /\ UNCHANGED <<published, invoked, crashes>>

\* The gateway runs the workflow ...
Invoke(c) ==
  /\ At(c, "execute")
  /\ invoked' = [invoked EXCEPT ![Plan[calls[c].seq]] = @ + 1]
  /\ GoTo(c, "invoked")
  /\ UNCHANGED <<run, published, crashes>>

\* _record_observation for the active action.
Observed(r, seq, succeeded) ==
  [r EXCEPT !.actions = Append(@, [workflow |-> Plan[seq], succeeded |-> succeeded]),
            !.active = 0,
            !.findings = IF succeeded THEN @ ELSE @ + 1,
            !.state = "planned"]

\* ... and its result, good or bad, is recorded and followed, unless another
\* controller has taken the action over.
Observe(c, succeeded) ==
  /\ At(c, "invoked")
  /\ IF run.active # calls[c].seq
       THEN Return(c) /\ UNCHANGED run
       ELSE /\ run' = Observed(run, calls[c].seq, succeeded)
            /\ IF run'.cancel_requested THEN Finish(c, "cancelled")
               ELSE IF succeeded THEN GoTo(c, "advance")
               ELSE Finish(c, "failed")
  /\ UNCHANGED <<published, invoked, crashes>>

\* The gateway raises, before or after it ran the workflow (_record_failure).
GatewayRaises(c) ==
  /\ At(c, "execute") \/ At(c, "invoked")
  /\ IF run.active # calls[c].seq
       THEN Return(c) /\ UNCHANGED run
       ELSE run' = Observed(run, calls[c].seq, FALSE) /\ Finish(c, "blocked")
  /\ UNCHANGED <<published, invoked, crashes>>

\* _block: the outcome of the action is unknown, and is given up.
Block(c) ==
  /\ At(c, "block")
  /\ run' = [run EXCEPT !.findings = @ + 1, !.active = 0]
  /\ Finish(c, "blocked")
  /\ UNCHANGED <<published, invoked, crashes>>

-----------------------------------------------------------------------------
(* _finalize: read and build, publish, record                              *)

Succeeded(actions, workflow) ==
  \E i \in DOMAIN actions :
    /\ actions[i] = [workflow |-> workflow, succeeded |-> TRUE]
    /\ \A j \in 1 .. i - 1 : actions[j].workflow # workflow

\* Mutant: the verifier's success is enough.
SatisfiedByVerifier(actions) ==
  Len(actions) = Len(Plan) /\ Succeeded(actions, "verify")

Satisfied(actions) ==
  Len(actions) = Len(Plan) /\ \A w \in Workflows : Succeeded(actions, w)

BuildReview(r, target, op) ==
  [status |-> IF Satisfied(r.actions) THEN "completed" ELSE target,
   satisfied |-> Satisfied(r.actions), actions |-> r.actions,
   findings |-> r.findings, by |-> op]

Finalize(c) ==
  /\ At(c, "finalize")
  /\ IF run.review # NoReview THEN Return(c)
     ELSE calls' = [calls EXCEPT ![c].pc = "publish",
            ![c].review = BuildReview(run, calls[c].target, calls[c].op)]
  /\ UNCHANGED <<run, published, invoked, crashes>>

\* publish_review links the file without replacing one; other bytes in its
\* place raise REVIEW_ALREADY_PUBLISHED.
Publish(c) ==
  /\ At(c, "publish")
  /\ IF published \in {NoReview, calls[c].review}
       THEN published' = calls[c].review /\ GoTo(c, "settle")
       ELSE UNCHANGED published /\ Return(c)
  /\ UNCHANGED <<run, invoked, crashes>>

\* Mutant: an action that is still active stays so.
SettleActive(c) ==
  /\ At(c, "settle")
  /\ run' = IF run.review # NoReview THEN run
            ELSE [run EXCEPT !.state = calls[c].target,
                             !.review = calls[c].review,
                             !.satisfied = calls[c].review.satisfied]
  /\ Return(c)
  /\ UNCHANGED <<published, invoked, crashes>>

Settle(c) ==
  /\ At(c, "settle")
  /\ run' = IF run.review # NoReview THEN run
            ELSE [run EXCEPT !.state = calls[c].target, !.active = 0,
                             !.review = calls[c].review,
                             !.satisfied = calls[c].review.satisfied]
  /\ Return(c)
  /\ UNCHANGED <<published, invoked, crashes>>

Crash(c) ==
  /\ ~ At(c, "idle")
  /\ crashes < MaxCrashes
  /\ crashes' = crashes + 1
  /\ Return(c)
  /\ UNCHANGED <<run, published, invoked>>

\* The steps of a call under way.
Step(c) ==
  \/ Advance(c) \/ Claim(c) \/ Invoke(c) \/ GatewayRaises(c) \/ Block(c)
  \/ Finalize(c) \/ Publish(c) \/ Settle(c)
  \/ \E ok \in BOOLEAN : Observe(c, ok)

Next ==
  \E c \in Controllers :
    Start(c) \/ Resume(c) \/ Cancel(c) \/ Step(c) \/ Crash(c)

\* A call that is not dead goes on: the store answers and workflows end.
Fairness == \A c \in Controllers : WF_vars(Step(c))

Spec == Init /\ [][Next]_vars /\ Fairness

-----------------------------------------------------------------------------
(* Properties                                                              *)

\* Once the review is recorded the run is frozen, and the file was there first:
\* no controller that still acts on what it read earlier changes its outcome,
\* its results or its review, or starts another action.
ReviewIsFinal ==
  [][/\ published # NoReview => published' = published
     /\ run.review # NoReview =>
          /\ run'.review = run.review /\ run'.state = run.state
          /\ run'.satisfied = run.satisfied /\ run'.actions = run.actions
          /\ run'.active = run.active]_vars

\* The recorded review is the published one, and its verdict is the record's.
ReviewIsPublished ==
  run.review # NoReview =>
    /\ published = run.review
    /\ run.satisfied = run.review.satisfied
    /\ run.state = run.review.status \/ run.review.satisfied

\* An accepted review shows the plan done, each workflow once, in its order and
\* with success, and every workflow was invoked: whichever controllers overtook,
\* blocked or replayed one another.
AcceptedWorkWasDone ==
  run.satisfied =>
    /\ run.review.actions
         = [i \in DOMAIN Plan |-> [workflow |-> Plan[i], succeeded |-> TRUE]]
    /\ \A w \in Workflows : invoked[w] > 0

\* As long as no controller dies, every run gets its review: each way a call
\* can lose a race leaves another call that finishes.
EveryRunIsReviewed ==
  [](crashes = 0) => (Exists ~> run.review # NoReview)

\* What a list of results owes to what happened: the first is of the first
\* workflow, and each success is of one that was invoked.
Earned(actions, counts) ==
  /\ Len(actions) > 0 => actions[1].workflow = Plan[1]
  /\ \A i \in DOMAIN actions :
       actions[i].succeeded => counts[actions[i].workflow] > 0

Sound(review, counts) ==
  /\ review.satisfied = Satisfied(review.actions)
  /\ Earned(review.actions, counts)

\* A recorded review is the published one, of a run that is over.
RecordInv ==
  /\ Earned(run.actions, invoked)
  /\ ~ Exists => run.actions = <<>>
  /\ run.review = NoReview => ~ run.satisfied
  /\ run.review # NoReview =>
       /\ Sound(run.review, invoked)
       /\ published = run.review
       /\ run.satisfied = run.review.satisfied
       /\ run.state = run.review.status \/ run.review.satisfied
       /\ Terminal(run) /\ run.active = 0

\* What a call under way knows, by how far it is.
CallOK(k) ==
  /\ k.pc # "idle" => k.op \in Operations
  /\ k.pc \in {"claim", "execute", "invoked"} =>
       k.seq > 0 /\ k.seq <= Len(run.actions) + 1
  /\ k.pc = "invoked" => invoked[Plan[k.seq]] > 0
  /\ k.pc \in {"finalize", "publish", "settle"} => k.target \in TERMINAL_RUN_STATES
  /\ k.pc \in {"publish", "settle"} =>
       /\ k.review \in Review
       /\ Sound(k.review, invoked)
       /\ k.review.status = k.target \/ k.review.satisfied
  /\ k.pc = "settle" => published = k.review

\* The inductive invariant: with TypeOK it implies every invariant above.
IInv == RecordInv /\ \A c \in Controllers : CallOK(calls[c])

\* docs/AGENTIC_SUPERVISOR.md:55-56, a result can be COMPLETED only when the
\* requested check was satisfied and its evidence committed.
CompletedMeansSatisfied == run.state = "completed" => run.satisfied

=============================================================================
