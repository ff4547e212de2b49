----------------------------- MODULE A2ADispatch -----------------------------
(***************************************************************************)
(* One A2A work item: its coordination record in the TaskStore, and the    *)
(* API calls (submit, get, cancel) that several coordinators run on it at  *)
(* the same time.  Source: pipeline/a2a_coordination.py.                   *)
(*                                                                         *)
(* Every TaskStore method holds an exclusive flock from load to append, so *)
(* it is one atomic step here; an RPC to the worker is made with no lock   *)
(* held, so a call is a process that waits in `calls' between the step     *)
(* that started the RPC and the step that applies its outcome.  The worker *)
(* of this module is arbitrary: a reply may be any member of Replies, and  *)
(* any RPC may fail.  A2AService composes it with a worker that behaves.   *)
(*                                                                         *)
(* The record keeps the fields that steer control.  Left out are           *)
(* worker_outcome, acceptance, the timestamps and the diagnostics list     *)
(* (code or wording of what the other fields already say): an event that   *)
(* only appends a diagnostic leaves the record of this module unchanged.   *)
(***************************************************************************)
EXTENDS Naturals, FiniteSets

CONSTANTS
  Callers,    \* the API calls that may be running, each in its own coordinator
  RemoteIds,  \* identities a worker may give the remote task
  NoId,       \* remote_task_id is None
  Results,    \* results that pass _validate_result for this work item
  NoResult,   \* the observation carries no result
  Unfit,      \* a result _validate_result rejects (binding, digest or scope)
  Replies,    \* the observations this worker may answer an RPC with
  NoCaller    \* an owner field that is None

TERMINAL_STATES == {"completed", "failed", "cancelled", "rejected"}

\* The states _apply_observation accepts; a worker may still report another.
Supported ==
  TERMINAL_STATES \cup {"submitted", "working", "input_required", "auth_required"}

RemoteStates == Supported \cup {"unsupported"}

Observation ==
  [id : RemoteIds, state : RemoteStates, result : Results \cup {NoResult, Unfit}]

ASSUME ConstantsAssumption ==
  /\ NoId \notin RemoteIds
  /\ NoCaller \notin Callers
  /\ NoResult \notin Results
  /\ Unfit \notin Results
  /\ Unfit # NoResult
  /\ Replies \subseteq Observation

VARIABLES
  task,      \* the record of the last event of the task's journal
  lease,     \* the lease of the current dispatch or recovery owner
  calls,     \* what each API call is waiting for
  attempts,  \* dispatch attempts begun: the times the work item was sent
  heard,     \* history: the terminal replies that reached a coordinator
  lapsed     \* history: a lease ran out while its owner was still in its RPC

vars == <<task, lease, calls, attempts, heard, lapsed>>

-----------------------------------------------------------------------------
(* The record and the calls.                                               *)

LocalStates ==
  Supported \cup {"absent", "queued", "dispatching", "dispatch_uncertain",
                  "cancellation_pending"}

TaskRecord ==
  [state               : LocalStates,
   dispatch_state      : {"not_started", "in_flight", "recovering", "uncertain",
                          "confirmed"},
   attempt             : Nat,
   owner               : Callers \cup {NoCaller},
   recoverer           : Callers \cup {NoCaller},
   remote_task_id      : RemoteIds \cup {NoId},
   remote_state        : RemoteStates \cup {"none"},
   worker_result       : Results \cup {NoResult},
   cancel_requested    : BOOLEAN,
   cancellation_status : {"not_requested", "confirmed_local", "pending",
                          "uncertain", "remote_terminal"},
   coordination_status : {"consistent", "inconsistent"}]

\* The record submit() builds; "absent" stands for a task with no journal yet.
FreshRecord(state) ==
  [state |-> state, dispatch_state |-> "not_started", attempt |-> 0,
   owner |-> NoCaller, recoverer |-> NoCaller, remote_task_id |-> NoId,
   remote_state |-> "none", worker_result |-> NoResult,
   cancel_requested |-> FALSE, cancellation_status |-> "not_requested",
   coordination_status |-> "consistent"]

\* A call is idle, between create and begin_dispatch, or in one of four RPCs,
\* for which it remembers the attempt and the identity it read.
Idle == [pc |-> "idle", attempt |-> 0, id |-> NoId]

Rpcs == {"submit", "reconcile", "get", "cancel"}

Call ==
  [pc : {"idle", "created"} \cup Rpcs, attempt : Nat, id : RemoteIds \cup {NoId}]

Terminal(r) == r.state \in TERMINAL_STATES

Exists == task.state # "absent"

TypeOK ==
  /\ task \in TaskRecord
  /\ lease \in {"none", "live", "expired"}
  /\ calls \in [Callers -> Call]
  /\ attempts \in Nat
  /\ heard \subseteq {o \in Observation : o.state \in TERMINAL_STATES}
  /\ lapsed \in BOOLEAN

Init ==
  /\ task = FreshRecord("absent")
  /\ lease = "none"
  /\ calls = [c \in Callers |-> Idle]
  /\ attempts = 0
  /\ heard = {}
  /\ lapsed = FALSE

-----------------------------------------------------------------------------
(* transition_remote_event: what one event does to the record.             *)

\* Events are built by the three kinds of outcome an RPC has.
ObservationEvent(call, o) ==
  [kind |-> IF o.state \notin Supported \/ o.result = Unfit
              THEN "protocol_error" ELSE "observation",
   attempt |-> call.attempt, id |-> o.id, state |-> o.state,
   result |-> o.result, operation |-> call.pc]

TransportError(call) ==
  [kind |-> "transport_error", attempt |-> call.attempt,
   id |-> IF call.pc = "cancel" THEN call.id ELSE NoId,
   state |-> "none", result |-> NoResult, operation |-> call.pc]

IdConflict(r, e) ==
  /\ e.id # NoId
  /\ r.remote_task_id # NoId
  /\ e.id # r.remote_task_id

\* Mutants of LateEvent: the conflict is dropped; any late reply is one.
LateEventIgnored(r, e) == r

LateEventStrict(r, e) ==
  IF e.kind = "observation" /\ <<e.state, e.result>> # <<r.remote_state, r.worker_result>>
  THEN [r EXCEPT !.coordination_status = "inconsistent"]
  ELSE r

\* An event for a task whose outcome is recorded: only a different terminal
\* observation shows, and only as an inconsistency.
LateEvent(r, e) ==
  IF /\ e.kind = "observation"
     /\ e.state \in TERMINAL_STATES
     /\ <<e.state, e.result>> # <<r.remote_state, r.worker_result>>
  THEN [r EXCEPT !.coordination_status = "inconsistent"]
  ELSE r

ProtocolError(r, e) ==
  [r EXCEPT !.state = IF e.state \in TERMINAL_STATES
                        THEN "failed" ELSE "dispatch_uncertain",
            !.dispatch_state = "confirmed",
            !.remote_state = e.state,
            !.remote_task_id = e.id]

\* Mutant of RpcError: a lost response counts as a failed task.
RpcErrorAsFailure(r, e) == [r EXCEPT !.state = "failed", !.dispatch_state = "uncertain"]

RpcError(r, e) ==
  IF e.operation = "cancel"
  THEN [r EXCEPT !.state = "cancellation_pending",
                 !.cancellation_status = "uncertain"]
  ELSE [r EXCEPT !.state = IF r.cancel_requested
                             THEN "cancellation_pending" ELSE "dispatch_uncertain",
                 !.dispatch_state = "uncertain"]

\* Mutants of Observe: the dispatch stays open; the identity is not bound; a
\* cancellation recorded while the RPC was under way is overwritten.
ObserveStillInFlight(r, e) ==
  [r EXCEPT !.state = e.state, !.remote_state = e.state, !.remote_task_id = e.id,
            !.worker_result = e.result]

ObserveUnbound(r, e) ==
  [r EXCEPT !.state = e.state, !.dispatch_state = "confirmed",
            !.remote_state = e.state, !.worker_result = e.result]

ObserveOverCancellation(r, e) ==
  [r EXCEPT !.state = e.state, !.dispatch_state = "confirmed",
            !.remote_state = e.state, !.remote_task_id = e.id,
            !.worker_result = e.result, !.cancel_requested = FALSE,
            !.cancellation_status = "not_requested"]

Observe(r, e) ==
  [r EXCEPT !.state = IF r.cancel_requested /\ e.state \notin TERMINAL_STATES
                        THEN "cancellation_pending" ELSE e.state,
            !.dispatch_state = "confirmed",
            !.remote_state = e.state,
            !.remote_task_id = e.id,
            !.worker_result = e.result,
            !.cancellation_status =
               IF ~ r.cancel_requested THEN @
               ELSE IF e.state \in TERMINAL_STATES THEN "remote_terminal"
               ELSE "pending"]

TransitionRemoteEvent(r, e) ==
  IF r.attempt # e.attempt THEN r
  ELSE IF IdConflict(r, e) THEN [r EXCEPT !.coordination_status = "inconsistent"]
  ELSE IF Terminal(r) THEN LateEvent(r, e)
  ELSE IF e.kind = "protocol_error" THEN ProtocolError(r, e)
  ELSE IF e.kind = "transport_error" THEN RpcError(r, e)
  ELSE Observe(r, e)

-----------------------------------------------------------------------------
(* submit                                                                  *)

Start(c, rpc, r) ==
  calls' = [calls EXCEPT ![c] =
              [pc |-> rpc, attempt |-> r.attempt, id |-> r.remote_task_id]]

Return(c) == calls' = [calls EXCEPT ![c] = Idle]

\* The first submission stores the record.  Submitting an item that is already
\* stored returns the stored record and changes nothing.
Submit(c) ==
  /\ calls[c].pc = "idle"
  /\ ~ Exists
  /\ task' = FreshRecord("queued")
  /\ Start(c, "created", task')
  /\ UNCHANGED <<lease, attempts, heard, lapsed>>

Dispatchable(r) ==
  /\ ~ Terminal(r)
  /\ r.dispatch_state = "not_started"

\* begin_dispatch claims the task for one attempt before any network call.
BeginDispatch(c) ==
  /\ calls[c].pc = "created"
  /\ Dispatchable(task)
  /\ attempts' = attempts + 1
  /\ task' = [task EXCEPT !.state = "dispatching", !.dispatch_state = "in_flight",
                          !.attempt = attempts + 1, !.owner = c]
  /\ lease' = "live"
  /\ Start(c, "submit", task')
  /\ UNCHANGED <<heard, lapsed>>

\* The claim is refused: the task was cancelled after create.
DispatchRefused(c) ==
  /\ calls[c].pc = "created"
  /\ ~ Dispatchable(task)
  /\ Return(c)
  /\ UNCHANGED <<task, lease, attempts, heard, lapsed>>

-----------------------------------------------------------------------------
(* Leases.  Only what a lease decides is kept: whether its deadline has    *)
(* passed.  dispatch_lease_expires_at matters while in_flight and          *)
(* recovery_lease_expires_at while recovering, so one variable is enough.  *)

\* The heartbeat thread of a submit() in progress.
RenewLease(c) ==
  /\ calls[c].pc = "submit"
  /\ ~ Terminal(task)
  /\ task.dispatch_state = "in_flight"
  /\ task.attempt = calls[c].attempt
  /\ task.owner = c
  /\ lease' = "live"
  /\ UNCHANGED <<task, calls, attempts, heard, lapsed>>

Holder ==
  CASE task.dispatch_state = "in_flight" -> task.owner
    [] task.dispatch_state = "recovering" -> task.recoverer
    [] OTHER -> NoCaller

\* Time passes the deadline.  A stalled owner may still be in its RPC.
ExpireLease ==
  /\ lease = "live"
  /\ task.dispatch_state \in {"in_flight", "recovering"}
  /\ lease' = "expired"
  /\ lapsed' = (lapsed \/ (Holder \in Callers
                           /\ calls[Holder].pc \in {"submit", "reconcile"}))
  /\ UNCHANGED <<task, calls, attempts, heard>>

-----------------------------------------------------------------------------
(* get and cancel                                                          *)

\* Mutant of Claimable: a recovery is not taken over.
ClaimableOnce(r) ==
  /\ ~ Terminal(r)
  /\ r.remote_task_id = NoId
  /\ \/ r.dispatch_state = "in_flight" /\ lease = "expired"
     \/ r.dispatch_state = "uncertain"

Claimable(r) ==
  /\ ~ Terminal(r)
  /\ r.remote_task_id = NoId
  /\ \/ r.dispatch_state \in {"in_flight", "recovering"} /\ lease = "expired"
     \/ r.dispatch_state = "uncertain"

\* Mutant of ClaimReconciliation: recovery sends the work item again.
ClaimAndResend(c) ==
  /\ calls[c].pc = "idle"
  /\ Exists
  /\ Claimable(task)
  /\ attempts' = attempts + 1
  /\ task' = [task EXCEPT !.state = "dispatching", !.dispatch_state = "in_flight",
                          !.attempt = attempts + 1, !.owner = c]
  /\ lease' = "live"
  /\ Start(c, "submit", task')
  /\ UNCHANGED <<heard, lapsed>>

\* get() on a record without a remote identity: claim_reconciliation, then
\* the lookup by the request-bound context.
ClaimReconciliation(c) ==
  /\ calls[c].pc = "idle"
  /\ Exists
  /\ Claimable(task)
  /\ task' = [task EXCEPT !.state = IF task.cancel_requested
                                      THEN "cancellation_pending"
                                      ELSE "dispatch_uncertain",
                          !.dispatch_state = "recovering", !.recoverer = c]
  /\ lease' = "live"
  /\ Start(c, "reconcile", task')
  /\ UNCHANGED <<attempts, heard, lapsed>>

\* get() on a record with a remote identity asks the worker, or forwards the
\* pending cancellation.  The record read here may be stale at the reply.
Refresh(c) ==
  /\ calls[c].pc = "idle"
  /\ Exists
  /\ ~ Terminal(task)
  /\ task.remote_task_id # NoId
  /\ Start(c, IF task.cancel_requested THEN "cancel" ELSE "get", task)
  /\ UNCHANGED <<task, lease, attempts, heard, lapsed>>

\* Mutant of Cancelled: the cancellation is taken for confirmed.
CancelledAtOnce(r) ==
  [r EXCEPT !.cancel_requested = TRUE, !.state = "cancelled",
            !.cancellation_status = "remote_terminal"]

\* request_cancellation: a task that never started is over, another one waits.
Cancelled(r) ==
  IF r.dispatch_state = "not_started"
  THEN [r EXCEPT !.cancel_requested = TRUE, !.state = "cancelled",
                 !.cancellation_status = "confirmed_local"]
  ELSE [r EXCEPT !.cancel_requested = TRUE, !.state = "cancellation_pending",
                 !.cancellation_status = "pending"]

\* cancel(): the intent is durable first; only then is it sent.
Cancel(c) ==
  /\ calls[c].pc = "idle"
  /\ Exists
  /\ ~ Terminal(task)
  /\ task' = Cancelled(task)
  /\ IF Terminal(task') \/ task'.remote_task_id = NoId
       THEN UNCHANGED calls
       ELSE Start(c, "cancel", task')
  /\ UNCHANGED <<lease, attempts, heard, lapsed>>

-----------------------------------------------------------------------------
(* The outcome of an RPC                                                   *)

\* _apply_observation: record the reply, then forward a cancellation that
\* was requested meanwhile (never from the reply to a cancellation, and not
\* from a reply that breaks the protocol).
Receive(c, o) ==
  LET e == ObservationEvent(calls[c], o) IN
  /\ calls[c].pc \in Rpcs
  /\ task' = TransitionRemoteEvent(task, e)
  /\ heard' = heard \cup {x \in {o} : x.state \in TERMINAL_STATES}
  /\ IF /\ e.kind = "observation"
        /\ calls[c].pc # "cancel"
        /\ task'.cancel_requested
        /\ ~ Terminal(task')
        /\ task'.remote_task_id # NoId
       THEN Start(c, "cancel", task')
       ELSE Return(c)
  /\ UNCHANGED <<lease, attempts, lapsed>>

\* An RPC that raises, or a lookup that finds no task or several.  get()
\* lets the exception of client.get through without an event.
RpcFails(c) ==
  /\ calls[c].pc \in Rpcs
  /\ task' = IF calls[c].pc = "get" THEN task
             ELSE TransitionRemoteEvent(task, TransportError(calls[c]))
  /\ Return(c)
  /\ UNCHANGED <<lease, attempts, heard, lapsed>>

\* The coordinator process dies; its lease stops being renewed.
Crash(c) ==
  /\ calls[c].pc # "idle"
  /\ Return(c)
  /\ UNCHANGED <<task, lease, attempts, heard, lapsed>>

Next ==
  \/ ExpireLease
  \/ \E c \in Callers :
       \/ Submit(c) \/ BeginDispatch(c) \/ DispatchRefused(c) \/ RenewLease(c)
       \/ ClaimReconciliation(c) \/ Refresh(c) \/ Cancel(c)
       \/ RpcFails(c) \/ Crash(c)
       \/ \E o \in Replies : Receive(c, o)

Spec == Init /\ [][Next]_vars
-----------------------------------------------------------------------------
(* What the coordinator promises about one work item                       *)

\* However many coordinators submit, crash, retry and recover, the worker is
\* sent the work item at most once: begin_dispatch is the only sender, and
\* recovery looks the task up instead of sending it again.
SentAtMostOnce == attempts <= 1

\* A reply the coordinator may take over as the outcome it reports.
Fit(o) == o.state \in TERMINAL_STATES /\ o.result # Unfit

\* An outcome other than a local cancellation was reported by the worker for
\* the bound identity: the state and result are those of one fit reply, or the
\* state is "failed" because a terminal reply was unfit.
OutcomeWasReported ==
  Terminal(task) /\ task.cancellation_status # "confirmed_local" =>
    \E o \in heard :
      /\ o.id = task.remote_task_id
      /\ o.state = task.remote_state
      /\ \/ Fit(o) /\ task.state = o.state /\ task.worker_result = o.result
         \/ ~ Fit(o) /\ task.state = "failed"

\* Two different fit outcomes that both reached a coordinator are never passed
\* over: the record says so, whichever came first and whoever received it.
ConflictsAreFlagged ==
  \A o1, o2 \in heard :
    Fit(o1) /\ Fit(o2) /\ o1 # o2 => task.coordination_status = "inconsistent"

\* A task that was sent and has no outcome yet can still be followed: get()
\* either knows an identity to ask for, or a lease or an uncertainty to claim.
NeverStranded ==
  Exists /\ ~ Terminal(task) =>
    \/ task.dispatch_state = "not_started"
    \/ task.remote_task_id # NoId
    \/ task.dispatch_state \in {"in_flight", "recovering"} /\ lease # "none"
    \/ task.dispatch_state = "uncertain"

\* Until a lease runs out on a coordinator that is still waiting for the
\* worker, one coordinator at most is dispatching or recovering the task.
OneOwner ==
  ~ lapsed =>
    \A c, d \in Callers :
      /\ calls[c].pc \in {"submit", "reconcile"}
      /\ calls[d].pc \in {"submit", "reconcile"}
      => c = d

\* No step of any coordinator changes a recorded outcome, its result or its
\* remote state, nor takes back an inconsistency or a cancellation intent, nor
\* moves a bound task to another remote identity.
NothingIsUnsaid ==
  [][/\ Terminal(task) =>
          /\ task'.state = task.state
          /\ task'.remote_state = task.remote_state
          /\ task'.worker_result = task.worker_result
     /\ task.coordination_status = "inconsistent" =>
          task'.coordination_status = "inconsistent"
     /\ task.cancel_requested => task'.cancel_requested
     /\ task.remote_task_id # NoId =>
          task'.remote_task_id = task.remote_task_id]_vars

\* Seen from outside the coordinators are A2AOutcome: sent at most once, the
\* first verdict kept, and no cancellation without the worker's word unless
\* the item was not and will not be sent.
TerminalReports == {o \in Observation : o.state \in TERMINAL_STATES}

Outcome == INSTANCE A2AOutcome WITH
  Reports <- TerminalReports,
  Verdict <- [o \in TerminalReports |-> IF Fit(o) THEN o.state ELSE "failed"],
  sent    <- attempts,
  reports <- heard,
  outcome <- IF Terminal(task) THEN task.state ELSE "open"

ImplementsOutcome == Outcome!Spec

\* Where a task stands, by whether it was sent; and what a call in progress
\* knows.  Every RPC carries the attempt of the record, so the fence
\* STALE_DISPATCH_ATTEMPT never refuses the reply of a call in progress: late
\* replies are kept harmless by identity, terminality and leases.
DispatchInv ==
  /\ task.attempt = attempts
  /\ \/ /\ attempts = 0
        /\ heard = {}
        /\ task.dispatch_state = "not_started"
        /\ task.remote_task_id = NoId
        /\ task.coordination_status = "consistent"
        /\ \/ task.state \in {"absent", "queued"}
              /\ ~ task.cancel_requested
              /\ task.cancellation_status # "confirmed_local"
           \/ task.state = "cancelled" /\ task.cancellation_status = "confirmed_local"
     \/ /\ attempts = 1
        /\ task.dispatch_state # "not_started"
        /\ task.cancellation_status # "confirmed_local"
        /\ task.state \notin {"absent", "queued"}
  /\ task.dispatch_state \in {"in_flight", "recovering"} =>
       task.remote_task_id = NoId /\ lease # "none"
  /\ task.dispatch_state = "confirmed" => task.remote_task_id # NoId
  /\ \A c \in Callers :
       /\ calls[c].pc = "created" => Exists
       /\ calls[c].pc \in Rpcs => attempts = 1 /\ calls[c].attempt = attempts
       /\ calls[c].pc \in {"get", "cancel"} =>
            calls[c].id = task.remote_task_id /\ task.remote_task_id # NoId

\* Until a lease lapses, whoever waits on a submission or a lookup holds the
\* live lease for it.
LeaseInv ==
  ~ lapsed =>
    \A c \in Callers :
      /\ calls[c].pc = "submit" =>
           task.dispatch_state = "in_flight" /\ task.owner = c /\ lease = "live"
      /\ calls[c].pc = "reconcile" =>
           task.dispatch_state = "recovering" /\ task.recoverer = c /\ lease = "live"

\* As long as nothing is flagged, every fit reply is the recorded one.
FlagInv ==
  task.coordination_status = "consistent" =>
    \A o \in heard : Fit(o) =>
      /\ Terminal(task)
      /\ o.id = task.remote_task_id
      /\ o.state = task.remote_state
      /\ o.result = task.worker_result

\* The inductive invariant: with TypeOK it implies every invariant above.
IInv == DispatchInv /\ LeaseInv /\ FlagInv /\ OutcomeWasReported

=============================================================================
