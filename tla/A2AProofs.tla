-------------------------------- MODULE A2AProofs --------------------------------
(***************************************************************************)
(* Proofs about A2ADispatch, for any number of coordinators, any worker    *)
(* and any set of replies; and about A2AService, the coordinators together *)
(* with a worker that keeps its word, where what is shown of one step with *)
(* any reply is used for the replies that this worker can give.            *)
(***************************************************************************)
EXTENDS A2AService, TLAPS

-----------------------------------------------------------------------------
(* The coordinators, with any worker                                       *)


Event ==
  [kind      : {"observation", "protocol_error", "transport_error"},
   attempt   : Nat,
   id        : RemoteIds \cup {NoId},
   state     : RemoteStates \cup {"none"},
   result    : Results \cup {NoResult, Unfit},
   operation : Rpcs]

\* An event that ObservationEvent builds from reply o.
FromReply(e, o) ==
  /\ o \in Observation
  /\ e.id = o.id /\ e.state = o.state /\ e.result = o.result
  /\ e.kind = "observation" => o.state \in Supported /\ o.result # Unfit
  /\ e.kind = "protocol_error" => o.state \notin Supported \/ o.result = Unfit
  /\ e.kind # "transport_error"

LEMMA ReplyEvents ==
  ASSUME NEW call \in Call, call.pc \in Rpcs, NEW o \in Observation
  PROVE  /\ ObservationEvent(call, o) \in Event
         /\ FromReply(ObservationEvent(call, o), o)
         /\ ObservationEvent(call, o).attempt = call.attempt
  BY DEF ObservationEvent, Event, FromReply, Observation, Call

LEMMA ErrorEvents ==
  ASSUME NEW call \in Call, call.pc \in Rpcs
  PROVE  /\ TransportError(call) \in Event
         /\ TransportError(call).kind = "transport_error"
         /\ TransportError(call).attempt = call.attempt
         /\ TransportError(call).operation = call.pc
         /\ TransportError(call).id = IF call.pc = "cancel" THEN call.id ELSE NoId
  BY DEF TransportError, Event, Call, RemoteStates

\* An event leaves a record of the right shape, whatever the record and the
\* event.
LEMMA TransitionType ==
  ASSUME NEW r \in TaskRecord, NEW e \in Event,
         e.kind = "observation" =>
           e.state \in Supported /\ e.id \in RemoteIds /\ e.result # Unfit,
         e.kind = "protocol_error" => e.state \in RemoteStates /\ e.id \in RemoteIds
  PROVE  TransitionRemoteEvent(r, e) \in TaskRecord
  <1> DEFINE s == TransitionRemoteEvent(r, e)
         flagged == [r EXCEPT !.coordination_status = "inconsistent"]
  <1>2. flagged \in TaskRecord
    BY DEF TaskRecord
  <1>3. LateEvent(r, e) \in TaskRecord
    BY <1>2 DEF LateEvent
  <1>4. ASSUME e.kind = "protocol_error"
        PROVE  ProtocolError(r, e) \in TaskRecord
    <2> DEFINE new == IF e.state \in TERMINAL_STATES
                        THEN "failed" ELSE "dispatch_uncertain"
    <2>1. new \in LocalStates
      BY DEF LocalStates, Supported, TERMINAL_STATES
    <2>2. ProtocolError(r, e) =
            [r EXCEPT !.state = new, !.dispatch_state = "confirmed",
                      !.remote_state = e.state, !.remote_task_id = e.id]
      BY DEF ProtocolError
    <2> HIDE DEF new
    <2> QED
      BY <1>4, <2>1, <2>2 DEF TaskRecord
  <1>5. RpcError(r, e) \in TaskRecord
    <2> DEFINE new == IF r.cancel_requested
                        THEN "cancellation_pending" ELSE "dispatch_uncertain"
    <2>1. new \in LocalStates /\ "cancellation_pending" \in LocalStates
      BY DEF LocalStates
    <2>2. RpcError(r, e) =
            IF e.operation = "cancel"
            THEN [r EXCEPT !.state = "cancellation_pending",
                           !.cancellation_status = "uncertain"]
            ELSE [r EXCEPT !.state = new, !.dispatch_state = "uncertain"]
      BY DEF RpcError
    <2> HIDE DEF new
    <2>3. [r EXCEPT !.state = "cancellation_pending",
                    !.cancellation_status = "uncertain"] \in TaskRecord
      BY <2>1 DEF TaskRecord
    <2>4. [r EXCEPT !.state = new, !.dispatch_state = "uncertain"] \in TaskRecord
      BY <2>1 DEF TaskRecord
    <2> QED
      BY <2>2, <2>3, <2>4
  <1>6. ASSUME e.kind = "observation"
        PROVE  Observe(r, e) \in TaskRecord
    <2> DEFINE new == IF r.cancel_requested /\ e.state \notin TERMINAL_STATES
                        THEN "cancellation_pending" ELSE e.state
               status == IF ~ r.cancel_requested THEN r.cancellation_status
                         ELSE IF e.state \in TERMINAL_STATES THEN "remote_terminal"
                         ELSE "pending"
    <2>1. new \in LocalStates
      BY <1>6 DEF LocalStates
    <2>2. status \in {"not_requested", "confirmed_local", "pending", "uncertain",
                      "remote_terminal"}
      BY DEF TaskRecord
    <2>3. e.state \in RemoteStates /\ e.id \in RemoteIds
          /\ e.result \in Results \cup {NoResult}
      BY <1>6 DEF RemoteStates, Event
    <2>4. Observe(r, e) =
            [r EXCEPT !.state = new, !.dispatch_state = "confirmed",
                      !.remote_state = e.state, !.remote_task_id = e.id,
                      !.worker_result = e.result, !.cancellation_status = status]
      BY DEF Observe
    <2> HIDE DEF new, status
    <2> DEFINE moved == [r EXCEPT !.state = new, !.dispatch_state = "confirmed"]
               local == [moved EXCEPT !.cancellation_status = status]
               observed == [local EXCEPT !.remote_state = e.state, !.remote_task_id = e.id,
                                         !.worker_result = e.result]
    <2>5. local \in TaskRecord
      <3>1. moved \in TaskRecord
        BY <2>1 DEF TaskRecord
      <3> HIDE DEF moved
      <3> QED
        BY <2>2, <3>1 DEF TaskRecord
    <2>6. observed = Observe(r, e)
      BY <2>4
    <2> HIDE DEF local
    <2>7. observed \in TaskRecord
      BY <2>3, <2>5 DEF TaskRecord
    <2> QED
      BY <2>6, <2>7
  <1>7. e.kind \in {"observation", "protocol_error", "transport_error"}
    BY DEF Event
  <1>8. \/ s = r
        \/ s = flagged
        \/ s = LateEvent(r, e)
        \/ e.kind = "protocol_error" /\ s = ProtocolError(r, e)
        \/ s = RpcError(r, e)
        \/ e.kind = "observation" /\ s = Observe(r, e)
    <2> HIDE DEF flagged
    <2> QED
      BY <1>7 DEF TransitionRemoteEvent, flagged
  <1>9. s \in TaskRecord
    <2> HIDE DEF s, flagged
    <2> QED
      BY <1>2, <1>3, <1>4, <1>5, <1>6, <1>8
  <1> QED
    BY <1>9

\* What no event touches while it moves a task on.
Kept(s, r) ==
  /\ s.attempt = r.attempt
  /\ s.owner = r.owner
  /\ s.recoverer = r.recoverer
  /\ s.cancel_requested = r.cancel_requested
  /\ s.coordination_status = r.coordination_status

\* The five things an event of the current attempt can do, field by field.
Unmoved(s, r, e) ==
  /\ s = r
  /\ Terminal(r)
  /\ e.kind = "observation" /\ e.state \in TERMINAL_STATES =>
       e.state = r.remote_state /\ e.result = r.worker_result

Flagged(s, r) ==
  /\ s = [r EXCEPT !.coordination_status = "inconsistent"]

Erred(s, r, e) ==
  /\ ~ Terminal(r) /\ e.kind = "protocol_error" /\ Kept(s, r)
  /\ s.state = IF e.state \in TERMINAL_STATES THEN "failed" ELSE "dispatch_uncertain"
  /\ s.dispatch_state = "confirmed"
  /\ s.remote_state = e.state
  /\ s.remote_task_id = e.id
  /\ s.worker_result = r.worker_result
  /\ s.cancellation_status = r.cancellation_status

Lost(s, r, e) ==
  /\ ~ Terminal(r) /\ e.kind = "transport_error" /\ Kept(s, r)
  /\ s.state \in {"cancellation_pending", "dispatch_uncertain"}
  /\ s.dispatch_state = IF e.operation = "cancel" THEN r.dispatch_state ELSE "uncertain"
  /\ s.remote_state = r.remote_state
  /\ s.remote_task_id = r.remote_task_id
  /\ s.worker_result = r.worker_result
  /\ s.cancellation_status \in {r.cancellation_status, "uncertain"}

Observed(s, r, e) ==
  /\ ~ Terminal(r) /\ e.kind = "observation" /\ Kept(s, r)
  /\ s.state \in {e.state, "cancellation_pending"}
  /\ e.state \in TERMINAL_STATES => s.state = e.state
  /\ s.dispatch_state = "confirmed"
  /\ s.remote_state = e.state
  /\ s.remote_task_id = e.id
  /\ s.worker_result = e.result
  /\ s.cancellation_status \in {r.cancellation_status, "remote_terminal", "pending"}

\* transition_remote_event does one of these to the record, whatever its event.
LEMMA TransitionCases ==
  ASSUME NEW r \in TaskRecord, NEW e \in Event, r.attempt = e.attempt
  PROVE  LET s == TransitionRemoteEvent(r, e) IN
         \/ ~ IdConflict(r, e) /\ Unmoved(s, r, e)
         \/ (IdConflict(r, e) \/ Terminal(r)) /\ Flagged(s, r)
         \/ ~ IdConflict(r, e) /\ Erred(s, r, e)
         \/ ~ IdConflict(r, e) /\ Lost(s, r, e)
         \/ ~ IdConflict(r, e) /\ Observed(s, r, e)
  <1> DEFINE s == TransitionRemoteEvent(r, e)
  <1>1. CASE IdConflict(r, e)
    BY <1>1 DEF TransitionRemoteEvent, Flagged
  <1>2. CASE ~ IdConflict(r, e) /\ Terminal(r)
    <2>1. s = LateEvent(r, e)
      BY <1>2 DEF TransitionRemoteEvent
    <2> QED
      BY <1>2, <2>1 DEF LateEvent, Flagged, Unmoved
  <1>3. CASE ~ IdConflict(r, e) /\ ~ Terminal(r) /\ e.kind = "protocol_error"
    <2>1. s = ProtocolError(r, e)
      BY <1>3 DEF TransitionRemoteEvent
    <2>2. Erred(s, r, e)
      BY <1>3, <2>1 DEF ProtocolError, Erred, Kept, TaskRecord
    <2> QED
      BY <1>3, <2>2
  <1>4. CASE ~ IdConflict(r, e) /\ ~ Terminal(r) /\ e.kind = "transport_error"
    <2>1. s = RpcError(r, e)
      BY <1>4 DEF TransitionRemoteEvent
    <2>2. Lost(s, r, e)
      BY <1>4, <2>1 DEF RpcError, Lost, Kept, TaskRecord
    <2> QED
      BY <1>4, <2>2
  <1>5. CASE ~ IdConflict(r, e) /\ ~ Terminal(r) /\ e.kind = "observation"
    <2>1. s = Observe(r, e)
      BY <1>5 DEF TransitionRemoteEvent
    <2>2. Observed(s, r, e)
      BY <1>5, <2>1 DEF Observe, Observed, Kept, TaskRecord
    <2> QED
      BY <1>5, <2>2
  <1>6. e.kind \in {"observation", "protocol_error", "transport_error"}
    BY DEF Event
  <1> QED
    BY <1>1, <1>2, <1>3, <1>4, <1>5, <1>6

-----------------------------------------------------------------------------
(* Types                                                                   *)

LEMMA FreshType ==
  ASSUME NEW s \in LocalStates
  PROVE  FreshRecord(s) \in TaskRecord
  BY DEF FreshRecord, TaskRecord

LEMMA CallType ==
  /\ Idle \in Call
  /\ \A r \in TaskRecord, p \in {"created"} \cup Rpcs :
       [pc |-> p, attempt |-> r.attempt, id |-> r.remote_task_id] \in Call
  BY DEF Idle, Call, TaskRecord

\* The calls of one coordinator change; those of the others do not.
LEMMA StartType ==
  ASSUME calls \in [Callers -> Call], NEW c \in Callers, NEW r \in TaskRecord,
         NEW p \in {"created"} \cup Rpcs, Start(c, p, r)
  PROVE  /\ calls' \in [Callers -> Call]
         /\ calls'[c].pc = p
         /\ calls'[c].attempt = r.attempt
         /\ calls'[c].id = r.remote_task_id
         /\ \A d \in Callers : d # c => calls'[d] = calls[d]
  BY CallType DEF Start

LEMMA ReturnType ==
  ASSUME calls \in [Callers -> Call], NEW c \in Callers, Return(c)
  PROVE  /\ calls' \in [Callers -> Call]
         /\ calls'[c] = Idle
         /\ \A d \in Callers : d # c => calls'[d] = calls[d]
  BY CallType DEF Return

LEMMA InitType == Init => TypeOK
  <1> SUFFICES ASSUME Init PROVE TypeOK
    OBVIOUS
  <1>1. task \in TaskRecord
    BY FreshType DEF Init, LocalStates
  <1>2. calls \in [Callers -> Call]
    BY CallType DEF Init
  <1> QED
    BY <1>1, <1>2 DEF Init, TypeOK

\* The record after each step that is not an event.
LEMMA TaskType ==
  ASSUME TypeOK, NEW c \in Callers
  PROVE  /\ BeginDispatch(c) => task' \in TaskRecord
         /\ ClaimReconciliation(c) => task' \in TaskRecord
         /\ Cancel(c) => task' \in TaskRecord
  <1> USE DEF TypeOK
  <1>1. ASSUME BeginDispatch(c)
        PROVE  task' \in TaskRecord
    <2>1. "dispatching" \in LocalStates /\ attempts + 1 \in Nat
      BY DEF LocalStates
    <2>2. task' = [task EXCEPT !.state = "dispatching",
                               !.dispatch_state = "in_flight",
                               !.attempt = attempts + 1, !.owner = c]
      BY <1>1 DEF BeginDispatch
    <2> QED
      BY <2>1, <2>2 DEF TaskRecord
  <1>2. ASSUME ClaimReconciliation(c)
        PROVE  task' \in TaskRecord
    <2> DEFINE new == IF task.cancel_requested
                        THEN "cancellation_pending" ELSE "dispatch_uncertain"
    <2>1. new \in LocalStates
      BY DEF LocalStates
    <2>2. task' = [task EXCEPT !.state = new, !.dispatch_state = "recovering",
                               !.recoverer = c]
      BY <1>2 DEF ClaimReconciliation
    <2> HIDE DEF new
    <2> QED
      BY <2>1, <2>2 DEF TaskRecord
  <1>3. ASSUME Cancel(c)
        PROVE  task' \in TaskRecord
    <2>1. task' = Cancelled(task) /\ task \in TaskRecord
      BY <1>3 DEF Cancel
    <2>2. {"cancelled", "cancellation_pending"} \subseteq LocalStates
      BY DEF LocalStates, Supported, TERMINAL_STATES
    <2> DEFINE local == [task EXCEPT !.cancel_requested = TRUE, !.state = "cancelled",
                                     !.cancellation_status = "confirmed_local"]
               remote == [task EXCEPT !.cancel_requested = TRUE, !.state = "cancellation_pending",
                                      !.cancellation_status = "pending"]
    <2>3. local \in TaskRecord
      BY <2>1, <2>2 DEF TaskRecord
    <2>4. remote \in TaskRecord
      BY <2>1, <2>2 DEF TaskRecord
    <2>5. task' \in {local, remote}
      BY <2>1 DEF Cancelled
    <2> HIDE DEF local, remote
    <2> QED
      BY <2>3, <2>4, <2>5
  <1> QED
    BY <1>1, <1>2, <1>3

\* The record after an event, and the calls after the outcome of an RPC.
LEMMA ReceiveType ==
  ASSUME TypeOK, NEW c \in Callers, NEW o \in Observation, Receive(c, o)
  PROVE  task' \in TaskRecord /\ calls' \in [Callers -> Call]
  <1> DEFINE e == ObservationEvent(calls[c], o)
  <1>1. calls[c] \in Call /\ calls[c].pc \in Rpcs
    BY DEF TypeOK, Receive
  <1>2. e \in Event /\ FromReply(e, o)
    BY <1>1, ReplyEvents
  <1>3. task' = TransitionRemoteEvent(task, e)
    BY DEF Receive
  <1>4. task' \in TaskRecord
    <2>1. e.state \in RemoteStates /\ e.id \in RemoteIds
      BY <1>2 DEF FromReply, Observation
    <2>2. e.kind = "observation" => e.state \in Supported /\ e.result # Unfit
      BY <1>2 DEF FromReply
    <2> HIDE DEF e
    <2> QED
      BY <1>2, <1>3, <2>1, <2>2, TransitionType DEF TypeOK
  <1>5. Start(c, "cancel", task') \/ Return(c)
    BY DEF Receive
  <1>6. "cancel" \in {"created"} \cup Rpcs /\ calls \in [Callers -> Call]
    BY DEF Rpcs, TypeOK
  <1> QED
    BY <1>4, <1>5, <1>6, StartType, ReturnType

LEMMA FailType ==
  ASSUME TypeOK, NEW c \in Callers, RpcFails(c)
  PROVE  task' \in TaskRecord /\ calls' \in [Callers -> Call]
  <1> DEFINE e == TransportError(calls[c])
  <1>1. calls[c] \in Call /\ calls[c].pc \in Rpcs
    BY DEF TypeOK, RpcFails
  <1>2. e \in Event /\ e.kind = "transport_error"
    BY <1>1, ErrorEvents
  <1>3. TransitionRemoteEvent(task, e) \in TaskRecord
    <2> HIDE DEF e
    <2> QED
      BY <1>2, TransitionType DEF TypeOK
  <1> QED
    BY <1>3, ReturnType DEF RpcFails, TypeOK

LEMMA NextType == TypeOK /\ [Next]_vars => TypeOK'
  <1> SUFFICES ASSUME TypeOK, [Next]_vars PROVE TypeOK'
    OBVIOUS
  <1>1. CASE UNCHANGED vars
    BY <1>1 DEF vars, TypeOK
  <1>2. CASE ExpireLease
    BY <1>2 DEF ExpireLease, TypeOK
  <1>3. ASSUME NEW c \in Callers, NEW o \in Replies, Receive(c, o)
        PROVE  TypeOK'
    <2>1. o \in Observation
      BY ConstantsAssumption
    <2> QED
      BY <1>3, <2>1, ReceiveType DEF Receive, TypeOK
  <1>4. ASSUME NEW c \in Callers, RpcFails(c)
        PROVE  TypeOK'
    BY <1>4, FailType DEF RpcFails, TypeOK
  <1>5. ASSUME NEW c \in Callers, Submit(c)
        PROVE  TypeOK'
    <2>1. task' \in TaskRecord
      BY <1>5, FreshType DEF Submit, LocalStates
    <2> QED
      BY <1>5, <2>1, StartType DEF Submit, TypeOK
  <1>6. ASSUME NEW c \in Callers, BeginDispatch(c)
        PROVE  TypeOK'
    <2>1. task' \in TaskRecord
      BY <1>6, TaskType
    <2>2. calls' \in [Callers -> Call]
      BY <1>6, <2>1, StartType DEF BeginDispatch, TypeOK, Rpcs
    <2> QED
      BY <1>6, <2>1, <2>2 DEF BeginDispatch, TypeOK
  <1>7. ASSUME NEW c \in Callers, DispatchRefused(c) \/ Crash(c)
        PROVE  TypeOK'
    BY <1>7, ReturnType DEF DispatchRefused, Crash, TypeOK
  <1>8. ASSUME NEW c \in Callers, RenewLease(c)
        PROVE  TypeOK'
    BY <1>8 DEF RenewLease, TypeOK
  <1>9. ASSUME NEW c \in Callers, ClaimReconciliation(c)
        PROVE  TypeOK'
    <2>1. task' \in TaskRecord
      BY <1>9, TaskType
    <2> QED
      BY <1>9, <2>1, StartType DEF ClaimReconciliation, TypeOK, Rpcs
  <1>10. ASSUME NEW c \in Callers, Refresh(c)
         PROVE  TypeOK'
    <2>1. Start(c, "cancel", task) \/ Start(c, "get", task)
      BY <1>10 DEF Refresh
    <2> QED
      BY <1>10, <2>1, StartType DEF Refresh, TypeOK, Rpcs
  <1>11. ASSUME NEW c \in Callers, Cancel(c)
         PROVE  TypeOK'
    <2>1. task' \in TaskRecord
      BY <1>11, TaskType
    <2>2. UNCHANGED calls \/ Start(c, "cancel", task')
      BY <1>11 DEF Cancel
    <2> QED
      BY <1>11, <2>1, <2>2, StartType DEF Cancel, TypeOK, Rpcs
  <1> QED
    BY <1>1, <1>2, <1>3, <1>4, <1>5, <1>6, <1>7, <1>8, <1>9, <1>10, <1>11 DEF Next

\* Type correctness: no step of any coordinator, whatever the worker answers,
\* writes a record, a call or a lease outside its type.
THEOREM TypeCorrect == Spec => []TypeOK
  BY InitType, NextType, PTL DEF Spec

-----------------------------------------------------------------------------
(* The inductive invariant                                                 *)

LEMMA InitInv == Init => IInv
  BY DEF Init, IInv, DispatchInv, LeaseInv, FlagInv, OutcomeWasReported, FreshRecord,
         Idle, Terminal, TERMINAL_STATES, Rpcs

\* Submitting: the record appears unsent, and one call holds it.
LEMMA SubmitInv ==
  ASSUME TypeOK, IInv, NEW c \in Callers, Submit(c)
  PROVE  IInv'
  <1> USE DEF IInv, Submit
  <1>1. /\ calls'[c].pc = "created"
        /\ \A d \in Callers : d # c => calls'[d] = calls[d]
    <2>1. task' \in TaskRecord /\ Start(c, "created", task')
      BY FreshType DEF LocalStates
    <2>2. calls \in [Callers -> Call] /\ "created" \in {"created"} \cup Rpcs
      BY DEF TypeOK
    <2> QED
      BY <2>1, <2>2, StartType
  <1>2. attempts = 0 /\ heard = {} /\ task.state = "absent"
    BY DEF DispatchInv, Exists
  <1>3. \A d \in Callers : calls'[d].pc \notin Rpcs
    BY <1>1, <1>2 DEF DispatchInv, Rpcs
  <1>4. task' = FreshRecord("queued") /\ attempts' = 0 /\ heard' = {}
    BY <1>2
  <1>5. DispatchInv'
    BY <1>1, <1>3, <1>4 DEF DispatchInv, Exists, FreshRecord, Rpcs
  <1>6. LeaseInv' /\ FlagInv' /\ OutcomeWasReported'
    BY <1>3, <1>4
       DEF LeaseInv, FlagInv, OutcomeWasReported, FreshRecord, Terminal,
           TERMINAL_STATES, Rpcs
  <1> QED
    BY <1>5, <1>6

\* Dispatching: the one place where the item is sent.  The claim is free, so
\* the item was never sent, and no call is waiting for the worker.
LEMMA BeginDispatchInv ==
  ASSUME TypeOK, IInv, NEW c \in Callers, BeginDispatch(c)
  PROVE  IInv'
  <1> USE DEF IInv
  <1>1. task' \in TaskRecord
    BY TaskType DEF BeginDispatch
  <1>2. /\ calls'[c].pc = "submit" /\ calls'[c].attempt = task'.attempt
        /\ \A d \in Callers : d # c => calls'[d] = calls[d]
    <2>1. Start(c, "submit", task')
      BY DEF BeginDispatch
    <2>2. calls \in [Callers -> Call] /\ "submit" \in {"created"} \cup Rpcs
      BY DEF TypeOK, Rpcs
    <2> QED
      BY <1>1, <2>1, <2>2, StartType
  <1>3. /\ attempts = 0 /\ heard = {} /\ task.remote_task_id = NoId
        /\ task.state \in {"absent", "queued"}
        /\ task.cancellation_status # "confirmed_local"
    BY DEF BeginDispatch, Dispatchable, DispatchInv, Terminal, TERMINAL_STATES
  <1>4. \A d \in Callers : d # c => calls'[d].pc \notin Rpcs
    BY <1>2, <1>3 DEF DispatchInv
  <1>5. /\ task'.state = "dispatching" /\ task'.dispatch_state = "in_flight"
        /\ task'.attempt = 1 /\ task'.owner = c /\ attempts' = 1
        /\ task'.remote_task_id = task.remote_task_id
        /\ task'.cancellation_status = task.cancellation_status
        /\ lease' = "live" /\ heard' = {} /\ lapsed' = lapsed
    <2>1. task' = [task EXCEPT !.state = "dispatching",
                               !.dispatch_state = "in_flight",
                               !.attempt = attempts + 1, !.owner = c]
      BY DEF BeginDispatch
    <2>2. task \in TaskRecord
      BY DEF TypeOK
    <2>3. /\ task'.state = "dispatching" /\ task'.dispatch_state = "in_flight"
          /\ task'.attempt = attempts + 1 /\ task'.owner = c
          /\ task'.remote_task_id = task.remote_task_id
          /\ task'.cancellation_status = task.cancellation_status
      BY <2>1, <2>2 DEF TaskRecord
    <2> QED
      BY <1>3, <2>3 DEF BeginDispatch
  <1>6. DispatchInv'
    BY <1>2, <1>3, <1>4, <1>5 DEF DispatchInv, Exists, Rpcs
  <1>7. LeaseInv'
    BY <1>2, <1>4, <1>5 DEF LeaseInv, Rpcs
  <1>8. FlagInv' /\ OutcomeWasReported'
    BY <1>5 DEF FlagInv, OutcomeWasReported, Terminal, TERMINAL_STATES
  <1> QED
    BY <1>6, <1>7, <1>8

\* Steps that change neither the record nor the replies.
LEMMA QuietInv ==
  ASSUME TypeOK, IInv, UNCHANGED <<task, attempts, heard>>
  PROVE  FlagInv' /\ OutcomeWasReported'
  BY DEF IInv, FlagInv, OutcomeWasReported, Terminal, Fit

LEMMA ReturnInv ==
  ASSUME TypeOK, IInv, NEW c \in Callers, Return(c),
         UNCHANGED <<task, lease, attempts, heard, lapsed>>
  PROVE  IInv'
  <1>1. /\ calls'[c] = Idle
        /\ \A d \in Callers : d # c => calls'[d] = calls[d]
    BY ReturnType DEF TypeOK
  <1>2. DispatchInv'
    BY <1>1 DEF IInv, DispatchInv, Exists, Idle, Rpcs
  <1>3. LeaseInv'
    BY <1>1 DEF IInv, LeaseInv, Idle
  <1> QED
    BY <1>2, <1>3, QuietInv DEF IInv

LEMMA RenewInv ==
  ASSUME TypeOK, IInv, NEW c \in Callers, RenewLease(c)
  PROVE  IInv'
  <1>1. DispatchInv'
    BY DEF IInv, RenewLease, DispatchInv, Exists
  <1>2. LeaseInv'
    BY DEF IInv, RenewLease, LeaseInv
  <1> QED
    BY <1>1, <1>2, QuietInv DEF IInv, RenewLease

LEMMA ExpireInv ==
  ASSUME TypeOK, IInv, ExpireLease
  PROVE  IInv'
  <1>1. DispatchInv'
    BY DEF IInv, ExpireLease, DispatchInv, Exists
  <1>2. LeaseInv'
    <2> SUFFICES ASSUME ~ lapsed', NEW c \in Callers,
                        calls[c].pc \in {"submit", "reconcile"}
                 PROVE  FALSE
      BY DEF LeaseInv, ExpireLease
    <2>1. ~ lapsed /\ ~ (Holder \in Callers
                         /\ calls[Holder].pc \in {"submit", "reconcile"})
      BY DEF ExpireLease, TypeOK
    <2>2. Holder = c
      BY <2>1 DEF IInv, LeaseInv, Holder
    <2> QED
      BY <2>1, <2>2
  <1> QED
    BY <1>1, <1>2, QuietInv DEF IInv, ExpireLease

\* A claim finds no live owner, and makes its caller the only one.
LEMMA ClaimInv ==
  ASSUME TypeOK, IInv, NEW c \in Callers, ClaimReconciliation(c)
  PROVE  IInv'
  <1>1. /\ task'.state \in {"cancellation_pending", "dispatch_uncertain"}
        /\ task'.dispatch_state = "recovering" /\ task'.recoverer = c
        /\ task'.attempt = task.attempt
        /\ task'.remote_task_id = task.remote_task_id
        /\ task'.cancellation_status = task.cancellation_status
        /\ task'.coordination_status = task.coordination_status
    <2>1. task \in TaskRecord
      BY DEF TypeOK
    <2> QED
      BY <2>1 DEF ClaimReconciliation, TaskRecord
  <1>2. /\ calls'[c].pc = "reconcile" /\ calls'[c].attempt = task'.attempt
        /\ \A d \in Callers : d # c => calls'[d] = calls[d]
    <2>1. task' \in TaskRecord /\ Start(c, "reconcile", task')
      BY TaskType DEF ClaimReconciliation
    <2>2. calls \in [Callers -> Call] /\ "reconcile" \in {"created"} \cup Rpcs
      BY DEF TypeOK, Rpcs
    <2> QED
      BY <2>1, <2>2, StartType
  <1>3. /\ ~ Terminal(task) /\ task.remote_task_id = NoId
        /\ task.dispatch_state \in {"in_flight", "recovering"} => lease = "expired"
        /\ task.dispatch_state \in {"in_flight", "recovering", "uncertain"}
        /\ attempts = 1
        /\ task.cancellation_status # "confirmed_local"
    BY DEF ClaimReconciliation, Claimable, IInv, DispatchInv
  <1>4. lease' = "live" /\ attempts' = attempts /\ heard' = heard /\ lapsed' = lapsed
    BY DEF ClaimReconciliation
  <1>5. DispatchInv'
    BY <1>1, <1>2, <1>3, <1>4 DEF IInv, DispatchInv, Exists, Rpcs
  <1>6. LeaseInv'
    BY <1>1, <1>2, <1>3, <1>4 DEF IInv, LeaseInv
  <1>7. FlagInv' /\ OutcomeWasReported'
    BY <1>1, <1>3, <1>4
       DEF IInv, FlagInv, OutcomeWasReported, Terminal, TERMINAL_STATES, Fit
  <1> QED
    BY <1>5, <1>6, <1>7 DEF IInv

LEMMA RefreshInv ==
  ASSUME TypeOK, IInv, NEW c \in Callers, Refresh(c)
  PROVE  IInv'
  <1>1. /\ calls'[c].pc \in {"get", "cancel"}
        /\ calls'[c].attempt = task.attempt /\ calls'[c].id = task.remote_task_id
        /\ \A d \in Callers : d # c => calls'[d] = calls[d]
    <2>1. Start(c, "get", task) \/ Start(c, "cancel", task)
      BY DEF Refresh
    <2>2. calls \in [Callers -> Call] /\ {"get", "cancel"} \subseteq {"created"} \cup Rpcs
      BY DEF TypeOK, Rpcs
    <2>3. task \in TaskRecord
      BY DEF TypeOK
    <2> QED
      BY <2>1, <2>2, <2>3, StartType
  <1>2. /\ task.remote_task_id # NoId
        /\ UNCHANGED <<task, lease, attempts, heard, lapsed>>
    BY DEF Refresh
  <1>3. DispatchInv'
    BY <1>1, <1>2 DEF IInv, DispatchInv, Exists, Rpcs
  <1>4. LeaseInv'
    BY <1>1, <1>2 DEF IInv, LeaseInv
  <1> QED
    BY <1>2, <1>3, <1>4, QuietInv DEF IInv

\* Cancelling: the local outcome only for an item that was never sent.
LEMMA CancelInv ==
  ASSUME TypeOK, IInv, NEW c \in Callers, Cancel(c)
  PROVE  IInv'
  <1>1. /\ ~ Terminal(task) /\ task.state # "absent"
        /\ UNCHANGED <<lease, attempts, heard, lapsed>>
    BY DEF Cancel, Exists
  <1>2. /\ IF task.dispatch_state = "not_started"
             THEN task'.state = "cancelled"
                  /\ task'.cancellation_status = "confirmed_local"
             ELSE task'.state = "cancellation_pending"
                  /\ task'.cancellation_status = "pending"
        /\ task'.dispatch_state = task.dispatch_state
        /\ task'.owner = task.owner /\ task'.recoverer = task.recoverer
        /\ task'.attempt = task.attempt
        /\ task'.remote_task_id = task.remote_task_id
        /\ task'.coordination_status = task.coordination_status
    <2>1. task' = Cancelled(task) /\ task \in TaskRecord
      BY DEF Cancel, TypeOK
    <2> QED
      BY <2>1 DEF Cancelled, TaskRecord
  <1>3. /\ \A d \in Callers : d # c => calls'[d] = calls[d]
        /\ \/ calls'[c] = calls[c]
           \/ /\ calls'[c].pc = "cancel" /\ calls'[c].attempt = task'.attempt
              /\ calls'[c].id = task'.remote_task_id
              /\ task'.remote_task_id # NoId
    <2>1. \/ UNCHANGED calls
          \/ Start(c, "cancel", task') /\ task'.remote_task_id # NoId
      BY DEF Cancel
    <2>2. calls \in [Callers -> Call] /\ "cancel" \in {"created"} \cup Rpcs
      BY DEF TypeOK, Rpcs
    <2>3. task' \in TaskRecord
      BY TaskType
    <2> QED
      BY <2>1, <2>2, <2>3, StartType
  <1>4. DispatchInv'
    BY <1>1, <1>2, <1>3 DEF IInv, DispatchInv, Exists, Rpcs, Terminal, TERMINAL_STATES
  <1>5. LeaseInv'
    BY <1>1, <1>2, <1>3 DEF IInv, LeaseInv
  <1>6. FlagInv'
    BY <1>1, <1>2 DEF IInv, FlagInv, Terminal, Fit
  <1>7. OutcomeWasReported'
    BY <1>1, <1>2 DEF OutcomeWasReported, Terminal, TERMINAL_STATES
  <1> QED
    BY <1>4, <1>5, <1>6, <1>7 DEF IInv

\* The effect of the outcome of an RPC on the calls: its caller returns, or
\* goes on to forward a cancellation to the bound identity.
Resolved(c) ==
  /\ calls[c].pc \in Rpcs
  /\ \A d \in Callers : d # c => calls'[d] = calls[d]
  /\ \/ calls'[c].pc = "idle"
     \/ /\ calls'[c].pc = "cancel" /\ calls'[c].attempt = task'.attempt
        /\ calls'[c].id = task'.remote_task_id
        /\ task'.remote_task_id # NoId

LEMMA ReceiveResolves ==
  ASSUME TypeOK, NEW c \in Callers, NEW o \in Observation, Receive(c, o)
  PROVE  Resolved(c)
  <1>1. /\ calls[c].pc \in Rpcs
        /\ Return(c) \/ (Start(c, "cancel", task') /\ task'.remote_task_id # NoId)
    BY DEF Receive
  <1>2. task' \in TaskRecord
    BY ReceiveType
  <1>3. calls \in [Callers -> Call] /\ "cancel" \in {"created"} \cup Rpcs
    BY DEF TypeOK, Rpcs
  <1>4. CASE Return(c)
    BY <1>1, <1>3, <1>4, ReturnType DEF Resolved, Idle
  <1>5. CASE Start(c, "cancel", task') /\ task'.remote_task_id # NoId
    BY <1>1, <1>2, <1>3, <1>5, StartType DEF Resolved
  <1> QED
    BY <1>1, <1>4, <1>5

\* An event of a call in progress has the attempt of the record.
LEMMA EventAttempt ==
  ASSUME TypeOK, IInv, NEW c \in Callers, calls[c].pc \in Rpcs
  PROVE  /\ task.attempt = calls[c].attempt /\ attempts = 1
         /\ calls[c] \in Call
         /\ task.dispatch_state # "not_started"
         /\ task.cancellation_status # "confirmed_local"
         /\ task.state \notin {"absent", "queued"}
  BY DEF TypeOK, IInv, DispatchInv

\* What an event of call c does to the record, together with what LeaseInv and
\* the events' identities need to know of it.
Moved(c, e) ==
  /\ e \in Event
  /\ e.attempt = calls[c].attempt
  /\ e.operation = calls[c].pc
  /\ e.kind = "transport_error" => e.id \in {NoId, task.remote_task_id}
  /\ e.kind # "transport_error" => e.id \in RemoteIds
  /\ \/ ~ IdConflict(task, e) /\ Unmoved(task', task, e)
     \/ (IdConflict(task, e) \/ Terminal(task)) /\ Flagged(task', task)
     \/ ~ IdConflict(task, e) /\ Erred(task', task, e)
     \/ ~ IdConflict(task, e) /\ Lost(task', task, e)
     \/ ~ IdConflict(task, e) /\ Observed(task', task, e)

\* The invariant after an event of call c, from what the event did.
LEMMA EventDispatchInv ==
  ASSUME TypeOK, IInv, NEW c \in Callers, Resolved(c), attempts' = attempts,
         lease' = lease, NEW e, Moved(c, e)
  PROVE  DispatchInv'
  <1> e \in Event /\ (e.kind # "transport_error" => e.id \in RemoteIds)
    BY DEF Moved
  <1>0. \/ Unmoved(task', task, e)
        \/ Flagged(task', task)
        \/ ~ IdConflict(task, e) /\ Erred(task', task, e)
        \/ ~ IdConflict(task, e) /\ Lost(task', task, e)
        \/ ~ IdConflict(task, e) /\ Observed(task', task, e)
    BY DEF Moved
  <1>1. /\ attempts = 1 /\ calls[c] \in Call /\ task.attempt = attempts
        /\ task.dispatch_state # "not_started"
        /\ task.cancellation_status # "confirmed_local"
        /\ task.state \notin {"absent", "queued"}
    BY EventAttempt DEF Resolved, IInv, DispatchInv
  <1>2. /\ task'.attempt = task.attempt
        /\ task'.dispatch_state # "not_started"
        /\ task'.cancellation_status # "confirmed_local"
        /\ task'.state \notin {"absent", "queued"}
    <2>1. task \in TaskRecord /\ e.state \notin {"absent", "queued"}
      BY DEF TypeOK, Event, RemoteStates, Supported, TERMINAL_STATES
    <2> QED
      BY <1>0, <1>1, <2>1 DEF Unmoved, Flagged, Erred, Lost, Observed, Kept, TaskRecord
  <1>3. /\ task.remote_task_id # NoId => task'.remote_task_id = task.remote_task_id
        /\ task'.dispatch_state = "confirmed" => task'.remote_task_id # NoId
        /\ task'.dispatch_state \in {"in_flight", "recovering"} =>
             task'.remote_task_id = NoId /\ lease # "none"
    <2>1. /\ task \in TaskRecord
          /\ task.dispatch_state \in {"in_flight", "recovering"} =>
               task.remote_task_id = NoId /\ lease # "none"
          /\ task.dispatch_state = "confirmed" => task.remote_task_id # NoId
      BY DEF TypeOK, IInv, DispatchInv
    <2>2. CASE Unmoved(task', task, e)
      BY <2>1, <2>2 DEF Unmoved
    <2>3. CASE Flagged(task', task)
      BY <2>1, <2>3 DEF Flagged, TaskRecord
    <2>4. CASE ~ IdConflict(task, e) /\ Erred(task', task, e)
      BY <2>1, <2>4, ConstantsAssumption DEF Erred, IdConflict
    <2>5. CASE ~ IdConflict(task, e) /\ Lost(task', task, e)
      BY <2>1, <2>5 DEF Lost
    <2>6. CASE ~ IdConflict(task, e) /\ Observed(task', task, e)
      BY <2>1, <2>6, ConstantsAssumption DEF Observed, IdConflict
    <2> QED
      BY <1>0, <2>2, <2>3, <2>4, <2>5, <2>6
  <1>4. \A d \in Callers :
          /\ calls'[d].pc = "created" => task'.state # "absent"
          /\ calls'[d].pc \in Rpcs => calls'[d].attempt = attempts
          /\ calls'[d].pc \in {"get", "cancel"} =>
               calls'[d].id = task'.remote_task_id /\ task'.remote_task_id # NoId
    BY <1>1, <1>2, <1>3 DEF Resolved, IInv, DispatchInv, Rpcs
  <1> QED
    BY <1>1, <1>2, <1>3, <1>4 DEF DispatchInv, Exists

\* Until a lease lapses the only call that can be answered while the task is
\* dispatched or recovered is the owner's, and it leaves its RPC.
LEMMA EventLeaseInv ==
  ASSUME TypeOK, IInv, NEW c \in Callers, Resolved(c), NEW e, Moved(c, e),
         lease' = lease, lapsed' = lapsed
  PROVE  LeaseInv'
  <1> SUFFICES ASSUME ~ lapsed, NEW d \in Callers,
                      calls'[d].pc \in {"submit", "reconcile"}
               PROVE  /\ calls'[d].pc = "submit" =>
                           /\ task'.dispatch_state = "in_flight"
                           /\ task'.owner = d /\ lease = "live"
                      /\ calls'[d].pc = "reconcile" =>
                           /\ task'.dispatch_state = "recovering"
                           /\ task'.recoverer = d /\ lease = "live"
    BY DEF LeaseInv
  <1>1. d # c /\ calls'[d] = calls[d]
    BY DEF Resolved
  <1>2. /\ calls[d].pc = "submit" =>
             task.dispatch_state = "in_flight" /\ task.owner = d /\ lease = "live"
        /\ calls[d].pc = "reconcile" =>
             task.dispatch_state = "recovering" /\ task.recoverer = d /\ lease = "live"
    BY DEF IInv, LeaseInv
  <1>3. task.remote_task_id = NoId
    BY <1>1, <1>2 DEF IInv, DispatchInv
  <1>4. calls[c].pc \notin {"get", "cancel"}
    BY <1>3 DEF IInv, DispatchInv
  <1>5. calls[c].pc \in {"submit", "reconcile"}
    BY <1>4 DEF Resolved, Rpcs
  <1>6. FALSE
    BY <1>1, <1>2, <1>5 DEF IInv, LeaseInv
  <1> QED
    BY <1>6

\* A reply adds itself to what was heard, if it is terminal.
Heard(e) ==
  \/ heard' = heard
     /\ (e.kind = "transport_error" \/ e.state \notin TERMINAL_STATES)
  \/ \E o \in Observation :
       /\ o.state \in TERMINAL_STATES /\ FromReply(e, o)
       /\ heard' = heard \cup {o}

\* An unflagged record still agrees with every fit reply.
LEMMA EventFlagInv ==
  ASSUME TypeOK, IInv, NEW c \in Callers, NEW e, Moved(c, e), Heard(e)
  PROVE  FlagInv'
  <1> SUFFICES ASSUME task'.coordination_status = "consistent",
                      NEW o \in heard', Fit(o)
               PROVE  /\ Terminal(task')
                      /\ o.id = task'.remote_task_id
                      /\ o.state = task'.remote_state
                      /\ o.result = task'.worker_result
    BY DEF FlagInv, Fit
  <1>1. task \in TaskRecord
    BY DEF TypeOK
  <1>2. ~ Flagged(task', task)
    BY <1>1 DEF Flagged, TaskRecord
  <1>3. task.coordination_status = "consistent"
    BY <1>2 DEF Moved, Unmoved, Erred, Lost, Observed, Kept
  <1>4. ASSUME o \in heard
        PROVE  /\ Terminal(task) /\ o.id = task.remote_task_id
               /\ o.state = task.remote_state /\ o.result = task.worker_result
    BY <1>3, <1>4 DEF IInv, FlagInv
  <1>5. CASE o \in heard
    <2>1. task' = task
      BY <1>2, <1>4, <1>5 DEF Moved, Unmoved, Erred, Lost, Observed
    <2> QED
      BY <1>4, <1>5, <2>1
  <1>6. CASE o \notin heard
    <2>1. o.state \in TERMINAL_STATES /\ FromReply(e, o)
      BY <1>6 DEF Heard
    <2>2. e.kind = "observation" /\ e.state \in TERMINAL_STATES
      BY <2>1 DEF FromReply, Moved, Event, Fit, Supported
    <2>3. CASE Unmoved(task', task, e) /\ ~ IdConflict(task, e)
      <3>1. e.state = task.remote_state /\ e.result = task.worker_result
            /\ Terminal(task) /\ task' = task
        BY <2>2, <2>3 DEF Unmoved
      <3>2. task.remote_task_id # NoId
        <4>1. calls[c].pc \in Rpcs
          BY DEF Moved, Event
        <4>2. task.cancellation_status # "confirmed_local"
          BY <4>1, EventAttempt
        <4>3. PICK o1 \in heard : o1.id = task.remote_task_id
          BY <3>1, <4>2 DEF IInv, OutcomeWasReported
        <4>4. o1 \in Observation
          BY DEF TypeOK
        <4> QED
          BY <4>3, <4>4, ConstantsAssumption DEF Observation
      <3>3. e.id = task.remote_task_id
        BY <2>1, <2>3, <3>2, ConstantsAssumption
           DEF IdConflict, FromReply, Observation
      <3> QED
        BY <2>1, <3>1, <3>3 DEF FromReply
    <2>4. CASE Observed(task', task, e)
      BY <2>1, <2>2, <2>4 DEF Observed, FromReply, Terminal
    <2> QED
      BY <1>2, <2>2, <2>3, <2>4 DEF Moved, Erred, Lost
  <1> QED
    BY <1>5, <1>6

\* A recorded outcome keeps its witness among the replies heard, and a new one
\* is the reply just heard.
LEMMA EventOutcome ==
  ASSUME TypeOK, IInv, NEW c \in Callers, NEW e, Moved(c, e), Heard(e)
  PROVE  OutcomeWasReported'
  <1> SUFFICES ASSUME Terminal(task'), task'.cancellation_status # "confirmed_local"
               PROVE  \E o \in heard' :
                        /\ o.id = task'.remote_task_id
                        /\ o.state = task'.remote_state
                        /\ \/ /\ Fit(o) /\ task'.state = o.state
                              /\ task'.worker_result = o.result
                           \/ ~ Fit(o) /\ task'.state = "failed"
    BY DEF OutcomeWasReported, Fit
  <1>1. task \in TaskRecord /\ calls[c].pc \in Rpcs
    BY DEF TypeOK, Moved, Event
  <1>2. heard \subseteq heard'
    BY DEF Heard
  <1>3. CASE Terminal(task)
    <2>1. /\ task'.remote_task_id = task.remote_task_id
          /\ task'.remote_state = task.remote_state
          /\ task'.state = task.state
          /\ task'.worker_result = task.worker_result
      BY <1>1, <1>3 DEF Moved, Unmoved, Flagged, Erred, Lost, Observed, TaskRecord
    <2>2. task.cancellation_status # "confirmed_local"
      BY <1>1, EventAttempt
    <2> QED
      BY <1>2, <1>3, <2>1, <2>2 DEF IInv, OutcomeWasReported
  <1>4. CASE ~ Terminal(task)
    <2>1. \/ Flagged(task', task)
          \/ Erred(task', task, e)
          \/ Lost(task', task, e)
          \/ Observed(task', task, e)
      BY <1>4 DEF Moved, Unmoved
    <2>2. CASE Flagged(task', task)
      <3>1. task'.state = task.state
        BY <1>1, <2>2 DEF Flagged, TaskRecord
      <3> QED
        BY <1>4, <3>1 DEF Terminal
    <2>3. CASE Lost(task', task, e)
      BY <2>3 DEF Lost, Terminal, TERMINAL_STATES
    <2>4. CASE Erred(task', task, e)
      <3>1. e.state \in TERMINAL_STATES /\ task'.state = "failed"
            /\ e.kind = "protocol_error"
        BY <2>4 DEF Erred, Terminal, TERMINAL_STATES
      <3>2. PICK o \in heard' : FromReply(e, o)
        BY <3>1 DEF Heard
      <3>3. ~ Fit(o)
        BY <3>1, <3>2 DEF FromReply, Fit, Supported
      <3> QED
        BY <2>4, <3>1, <3>2, <3>3 DEF Erred, FromReply
    <2>5. CASE Observed(task', task, e)
      <3>1. e.state \in TERMINAL_STATES /\ task'.state = e.state
            /\ e.kind = "observation"
        BY <2>5 DEF Observed, Terminal, TERMINAL_STATES
      <3>2. PICK o \in heard' : FromReply(e, o)
        BY <3>1 DEF Heard
      <3>3. Fit(o)
        BY <3>1, <3>2 DEF FromReply, Fit
      <3> QED
        BY <2>5, <3>1, <3>2, <3>3 DEF Observed, FromReply
    <2> QED
      BY <2>1, <2>2, <2>3, <2>4, <2>5
  <1> QED
    BY <1>3, <1>4

\* All of it together, for an event of call c.
LEMMA EventInv ==
  ASSUME TypeOK, IInv, NEW c \in Callers, Resolved(c), NEW e, Moved(c, e), Heard(e),
         UNCHANGED <<lease, attempts, lapsed>>
  PROVE  IInv'
  <1>1. DispatchInv'
    BY EventDispatchInv
  <1>2. LeaseInv'
    BY EventLeaseInv
  <1>3. FlagInv' /\ OutcomeWasReported'
    BY EventFlagInv, EventOutcome
  <1> QED
    BY <1>1, <1>2, <1>3 DEF IInv

\* The outcome of an RPC moves the record by an event.
LEMMA ReceiveMoves ==
  ASSUME TypeOK, IInv, NEW c \in Callers, NEW o \in Observation, Receive(c, o)
  PROVE  Moved(c, ObservationEvent(calls[c], o))
  <1> DEFINE e == ObservationEvent(calls[c], o)
  <1>1. calls[c] \in Call /\ calls[c].pc \in Rpcs
        /\ task.attempt = calls[c].attempt /\ task \in TaskRecord
    BY EventAttempt DEF TypeOK, Receive
  <1>2. e \in Event /\ FromReply(e, o) /\ e.attempt = calls[c].attempt
    BY <1>1, ReplyEvents
  <1>3. task' = TransitionRemoteEvent(task, e) /\ e.operation = calls[c].pc
    BY DEF Receive, ObservationEvent
  <1> HIDE DEF e
  <1>4. Moved(c, e)
    BY <1>1, <1>2, <1>3, TransitionCases DEF Moved, FromReply, Observation
  <1> QED
    BY <1>4 DEF e

LEMMA FailMoves ==
  ASSUME TypeOK, IInv, NEW c \in Callers, RpcFails(c), calls[c].pc # "get"
  PROVE  Moved(c, TransportError(calls[c]))
  <1> DEFINE e == TransportError(calls[c])
  <1>1. calls[c] \in Call /\ calls[c].pc \in Rpcs
        /\ task.attempt = calls[c].attempt /\ task \in TaskRecord
    BY EventAttempt DEF TypeOK, RpcFails
  <1>2. /\ e \in Event /\ e.kind = "transport_error"
        /\ e.attempt = calls[c].attempt /\ e.operation = calls[c].pc
        /\ e.id = IF calls[c].pc = "cancel" THEN calls[c].id ELSE NoId
    BY <1>1, ErrorEvents
  <1>3. task' = TransitionRemoteEvent(task, e)
    BY DEF RpcFails
  <1> HIDE DEF e
  <1>4. e.id \in {NoId, task.remote_task_id}
    BY <1>1, <1>2 DEF IInv, DispatchInv
  <1>5. Moved(c, e)
    BY <1>1, <1>2, <1>3, <1>4, TransitionCases DEF Moved
  <1> QED
    BY <1>5 DEF e

LEMMA ReceiveInv ==
  ASSUME TypeOK, IInv, NEW c \in Callers, NEW o \in Observation, Receive(c, o)
  PROVE  IInv'
  <1> DEFINE e == ObservationEvent(calls[c], o)
  <1>1. calls[c] \in Call /\ calls[c].pc \in Rpcs
    BY DEF TypeOK, Receive
  <1>2. FromReply(e, o) /\ Moved(c, e)
    BY <1>1, ReplyEvents, ReceiveMoves
  <1>3. UNCHANGED <<lease, attempts, lapsed>>
        /\ heard' = heard \cup {x \in {o} : x.state \in TERMINAL_STATES}
    BY DEF Receive
  <1> HIDE DEF e
  <1>4. Heard(e)
    BY <1>2, <1>3 DEF Heard, FromReply
  <1> QED
    BY <1>2, <1>3, <1>4, ReceiveResolves, EventInv

LEMMA FailInv ==
  ASSUME TypeOK, IInv, NEW c \in Callers, RpcFails(c)
  PROVE  IInv'
  <1> DEFINE e == TransportError(calls[c])
  <1>1. calls[c] \in Call /\ calls[c].pc \in Rpcs
    BY DEF TypeOK, RpcFails
  <1>2. /\ Return(c)
        /\ UNCHANGED <<lease, attempts, heard, lapsed>>
    BY DEF RpcFails
  <1>3. CASE calls[c].pc = "get"
    <2>1. task' = task
      BY <1>3 DEF RpcFails
    <2> QED
      BY <1>2, <2>1, ReturnInv
  <1>4. CASE calls[c].pc # "get"
    <2>1. e.kind = "transport_error" /\ Moved(c, e)
      BY <1>1, <1>4, ErrorEvents, FailMoves
    <2> HIDE DEF e
    <2>2. Heard(e)
      BY <1>2, <2>1 DEF Heard
    <2>3. Resolved(c)
      BY <1>1, <1>2, ReturnType DEF Resolved, Idle, TypeOK
    <2> QED
      BY <1>2, <2>1, <2>2, <2>3, EventInv
  <1> QED
    BY <1>3, <1>4

LEMMA NextInv == TypeOK /\ IInv /\ [Next]_vars => IInv'
  <1> SUFFICES ASSUME TypeOK, IInv, [Next]_vars PROVE IInv'
    OBVIOUS
  <1>1. CASE UNCHANGED vars
    BY <1>1 DEF vars, IInv, DispatchInv, LeaseInv, FlagInv, OutcomeWasReported, Exists,
                Terminal
  <1>2. CASE ExpireLease
    BY <1>2, ExpireInv
  <1>3. ASSUME NEW c \in Callers, NEW o \in Replies, Receive(c, o)
        PROVE  IInv'
    BY <1>3, ReceiveInv, ConstantsAssumption
  <1>4. ASSUME NEW c \in Callers, RpcFails(c)
        PROVE  IInv'
    BY <1>4, FailInv
  <1>5. ASSUME NEW c \in Callers, Submit(c)
        PROVE  IInv'
    BY <1>5, SubmitInv
  <1>6. ASSUME NEW c \in Callers, BeginDispatch(c)
        PROVE  IInv'
    BY <1>6, BeginDispatchInv
  <1>7. ASSUME NEW c \in Callers, DispatchRefused(c) \/ Crash(c)
        PROVE  IInv'
    BY <1>7, ReturnInv DEF DispatchRefused, Crash
  <1>8. ASSUME NEW c \in Callers, RenewLease(c)
        PROVE  IInv'
    BY <1>8, RenewInv
  <1>9. ASSUME NEW c \in Callers, ClaimReconciliation(c)
        PROVE  IInv'
    BY <1>9, ClaimInv
  <1>10. ASSUME NEW c \in Callers, Refresh(c)
         PROVE  IInv'
    BY <1>10, RefreshInv
  <1>11. ASSUME NEW c \in Callers, Cancel(c)
         PROVE  IInv'
    BY <1>11, CancelInv
  <1> QED
    BY <1>1, <1>2, <1>3, <1>4, <1>5, <1>6, <1>7, <1>8, <1>9, <1>10, <1>11 DEF Next

THEOREM Invariance == Spec => [](TypeOK /\ IInv)
  BY InitType, NextType, InitInv, NextInv, PTL DEF Spec

-----------------------------------------------------------------------------
(* What follows from the invariant                                         *)

\* The worker is sent the work item at most once, however the coordinators
\* crash, retry and recover (begin_dispatch, claim_reconciliation).
THEOREM AtMostOnce == Spec => []SentAtMostOnce
  <1>1. TypeOK /\ IInv => SentAtMostOnce
    BY DEF TypeOK, IInv, DispatchInv, SentAtMostOnce
  <1> QED
    BY <1>1, Invariance, PTL

\* An outcome is always one the worker reported for the bound identity, or a
\* cancellation of an item that was never sent (transition_remote_event).
THEOREM OutcomesAreReported == Spec => []OutcomeWasReported
  <1>1. IInv => OutcomeWasReported
    BY DEF IInv
  <1> QED
    BY <1>1, Invariance, PTL

\* Two different fit outcomes are never both believed: as soon as both reached
\* a coordinator the record is inconsistent.
THEOREM ConflictsFlagged == Spec => []ConflictsAreFlagged
  <1>1. TypeOK /\ IInv => ConflictsAreFlagged
    <2> SUFFICES ASSUME TypeOK, IInv, NEW o1 \in heard, NEW o2 \in heard,
                        Fit(o1), Fit(o2), o1 # o2,
                        task.coordination_status = "consistent"
                 PROVE  FALSE
      BY DEF ConflictsAreFlagged, TypeOK, TaskRecord
    <2>1. o1 \in Observation /\ o2 \in Observation
      BY DEF TypeOK
    <2>2. o1.id = o2.id /\ o1.state = o2.state /\ o1.result = o2.result
      BY DEF IInv, FlagInv
    <2> QED
      BY <2>1, <2>2 DEF Observation
  <1> QED
    BY <1>1, Invariance, PTL

\* A task that was sent can always be followed to its end by get().
THEOREM Followed == Spec => []NeverStranded
  <1>1. TypeOK /\ IInv => NeverStranded
    BY DEF TypeOK, IInv, DispatchInv, NeverStranded, Exists, TaskRecord
  <1> QED
    BY <1>1, Invariance, PTL

\* Unless a lease lapsed under a coordinator that was still waiting, there is
\* one dispatching or recovering coordinator at most.
THEOREM SingleOwner == Spec => []OneOwner
  <1>1. IInv => OneOwner
    BY DEF IInv, LeaseInv, OneOwner
  <1> QED
    BY <1>1, Invariance, PTL

-----------------------------------------------------------------------------
(* What no step takes back                                                 *)

Unsaid ==
  /\ Terminal(task) =>
       /\ task'.state = task.state
       /\ task'.remote_state = task.remote_state
       /\ task'.worker_result = task.worker_result
  /\ task.coordination_status = "inconsistent" =>
       task'.coordination_status = "inconsistent"
  /\ task.cancel_requested => task'.cancel_requested
  /\ task.remote_task_id # NoId => task'.remote_task_id = task.remote_task_id

\* An event: it is late, or flags, or moves a task that has no outcome.
LEMMA EventKeeps ==
  ASSUME TypeOK, NEW c \in Callers, NEW e, Moved(c, e)
  PROVE  Unsaid
  <1>1. task \in TaskRecord /\ e \in Event
    BY DEF TypeOK, Moved
  <1>2. CASE Unmoved(task', task, e)
    BY <1>2 DEF Unmoved, Unsaid
  <1>3. CASE Flagged(task', task)
    BY <1>1, <1>3 DEF Flagged, Unsaid, TaskRecord
  <1>4. CASE ~ IdConflict(task, e) /\ Erred(task', task, e)
    BY <1>4, ConstantsAssumption DEF Moved, Erred, Kept, Unsaid, IdConflict
  <1>5. CASE ~ IdConflict(task, e) /\ Lost(task', task, e)
    BY <1>5 DEF Lost, Kept, Unsaid
  <1>6. CASE ~ IdConflict(task, e) /\ Observed(task', task, e)
    BY <1>6, ConstantsAssumption DEF Moved, Observed, Kept, Unsaid, IdConflict
  <1> QED
    BY <1>2, <1>3, <1>4, <1>5, <1>6 DEF Moved

LEMMA StepKeeps == TypeOK /\ IInv /\ [Next]_vars => [Unsaid]_vars
  <1> SUFFICES ASSUME TypeOK, IInv, Next PROVE Unsaid
    OBVIOUS
  <1>0. task \in TaskRecord
    BY DEF TypeOK
  <1>1. CASE task' = task
    BY <1>1 DEF Unsaid
  <1>2. ASSUME NEW c \in Callers, NEW o \in Replies, Receive(c, o)
        PROVE  Unsaid
    BY <1>2, ReceiveMoves, EventKeeps, ConstantsAssumption
  <1>3. ASSUME NEW c \in Callers, RpcFails(c)
        PROVE  Unsaid
    <2>1. CASE calls[c].pc = "get"
      BY <1>1, <1>3, <2>1 DEF RpcFails
    <2>2. CASE calls[c].pc # "get"
      BY <1>3, <2>2, FailMoves, EventKeeps
    <2> QED
      BY <2>1, <2>2
  <1>4. ASSUME NEW c \in Callers, Submit(c)
        PROVE  Unsaid
    <2>1. /\ task.state = "absent" /\ task.remote_task_id = NoId
          /\ task.coordination_status = "consistent" /\ ~ task.cancel_requested
      BY <1>4 DEF Submit, Exists, IInv, DispatchInv
    <2> QED
      BY <2>1 DEF Unsaid, Terminal, TERMINAL_STATES
  <1>5. ASSUME NEW c \in Callers, BeginDispatch(c)
        PROVE  Unsaid
    BY <1>0, <1>5 DEF BeginDispatch, Dispatchable, Terminal, Unsaid, TaskRecord
  <1>6. ASSUME NEW c \in Callers, ClaimReconciliation(c)
        PROVE  Unsaid
    BY <1>0, <1>6 DEF ClaimReconciliation, Claimable, Terminal, Unsaid, TaskRecord
  <1>7. ASSUME NEW c \in Callers, Cancel(c)
        PROVE  Unsaid
    <2>1. task' = Cancelled(task) /\ ~ Terminal(task)
      BY <1>7 DEF Cancel
    <2> QED
      BY <1>0, <2>1 DEF Cancelled, Unsaid, TaskRecord
  <1>8. ExpireLease \/ (\E c \in Callers : \/ DispatchRefused(c) \/ RenewLease(c)
                                           \/ Refresh(c) \/ Crash(c))
          => task' = task
    BY DEF ExpireLease, DispatchRefused, RenewLease, Refresh, Crash
  <1> QED
    BY <1>1, <1>2, <1>3, <1>4, <1>5, <1>6, <1>7, <1>8 DEF Next

\* No step of any coordinator changes a recorded outcome, withdraws an
\* inconsistency or a cancellation intent, or rebinds the task.
THEOREM NothingUnsaid == Spec => NothingIsUnsaid
  <1>1. TypeOK /\ IInv /\ [Next]_vars => [Unsaid]_vars
    BY StepKeeps
  <1> QED
    BY <1>1, Invariance, PTL DEF Spec, NothingIsUnsaid, Unsaid

-----------------------------------------------------------------------------
(* The refinement of A2AOutcome                                            *)

\* What the abstract outcome of the task is.
OutcomeNow == IF Terminal(task) THEN task.state ELSE "open"

LEMMA InitRefines == Init => Outcome!Init
  BY DEF Init, Outcome!Init, FreshRecord, Terminal, TERMINAL_STATES

\* A reply: terminal, it is a report, whose verdict the task may take.
LEMMA ReceiveRefines ==
  ASSUME TypeOK, IInv, NEW c \in Callers, NEW o \in Observation, Receive(c, o)
  PROVE  [Outcome!Next]_<<attempts, heard, OutcomeNow>>
  <1> DEFINE e == ObservationEvent(calls[c], o)
  <1>1. /\ calls[c] \in Call /\ calls[c].pc \in Rpcs /\ attempts = 1
        /\ task.cancellation_status # "confirmed_local" /\ task \in TaskRecord
    BY EventAttempt DEF TypeOK, Receive
  <1>2. FromReply(e, o) /\ Moved(c, e)
    BY <1>1, ReplyEvents, ReceiveMoves
  <1>3. attempts' = attempts
        /\ heard' = heard \cup {x \in {o} : x.state \in TERMINAL_STATES}
    BY DEF Receive
  <1> HIDE DEF e
  <1>4. \/ OutcomeNow' = OutcomeNow
        \/ /\ OutcomeNow = "open" /\ o \in TerminalReports
           /\ OutcomeNow' = IF Fit(o) THEN o.state ELSE "failed"
    <2>1. CASE Terminal(task)
      <3>1. task'.state = task.state
        BY <1>2, <2>1, EventKeeps DEF Unsaid
      <3> QED
        BY <2>1, <3>1 DEF OutcomeNow, Terminal
    <2>2. CASE ~ Terminal(task)
      <3>1. e.kind # "transport_error" /\ ~ Unmoved(task', task, e)
            /\ ~ Lost(task', task, e)
        BY <1>2, <2>2 DEF FromReply, Unmoved, Lost
      <3>2. CASE Flagged(task', task)
        <4>1. task'.state = task.state
          BY <1>1, <3>2 DEF Flagged, TaskRecord
        <4> QED
          BY <4>1 DEF OutcomeNow, Terminal
      <3>3. CASE Erred(task', task, e)
        <4>1. CASE o.state \in TERMINAL_STATES
          <5>1. task'.state = "failed" /\ ~ Fit(o)
            BY <1>2, <3>3, <4>1 DEF Erred, FromReply, Fit, Supported
          <5> QED
            BY <2>2, <4>1, <5>1
               DEF OutcomeNow, Terminal, TERMINAL_STATES, TerminalReports
        <4>2. CASE o.state \notin TERMINAL_STATES
          BY <1>2, <2>2, <3>3, <4>2
             DEF Erred, FromReply, OutcomeNow, Terminal, TERMINAL_STATES
        <4> QED
          BY <4>1, <4>2
      <3>4. CASE Observed(task', task, e)
        <4>1. o.result # Unfit
          BY <1>2, <3>4 DEF Observed, FromReply
        <4>2. CASE o.state \in TERMINAL_STATES
          <5>1. task'.state = o.state /\ Fit(o)
            BY <1>2, <3>4, <4>1, <4>2 DEF Observed, FromReply, Fit
          <5> QED
            BY <2>2, <4>2, <5>1 DEF OutcomeNow, Terminal, TerminalReports
        <4>3. CASE o.state \notin TERMINAL_STATES
          BY <1>2, <2>2, <3>4, <4>3
             DEF Observed, FromReply, OutcomeNow, Terminal, TERMINAL_STATES
        <4> QED
          BY <4>2, <4>3
      <3> QED
        BY <1>2, <3>1, <3>2, <3>3, <3>4 DEF Moved
    <2> QED
      BY <2>1, <2>2
  <1>5. CASE o.state \in TERMINAL_STATES
    <2>1. o \in TerminalReports /\ heard' = heard \cup {o}
      BY <1>3, <1>5 DEF TerminalReports
    <2>2. Outcome!Report(o)
      BY <1>1, <1>3, <1>4, <2>1 DEF Outcome!Report, OutcomeNow
    <2> QED
      BY <2>1, <2>2 DEF Outcome!Next
  <1>6. CASE o.state \notin TERMINAL_STATES
    <2>1. OutcomeNow' = OutcomeNow
      BY <1>4, <1>6 DEF TerminalReports
    <2>2. heard' = heard
      BY <1>3, <1>6
    <2> QED
      BY <1>3, <2>1, <2>2
  <1> QED
    BY <1>5, <1>6

\* Steps that end no task and start none.
LEMMA OpenSteps ==
  ASSUME TypeOK, IInv, NEW c \in Callers
  PROVE  /\ Submit(c) => ~ Terminal(task) /\ ~ Terminal(task')
         /\ BeginDispatch(c) => ~ Terminal(task) /\ ~ Terminal(task')
         /\ ClaimReconciliation(c) => ~ Terminal(task) /\ ~ Terminal(task')
         /\ RpcFails(c) => OutcomeNow' = OutcomeNow
  <1>0. task \in TaskRecord
    BY DEF TypeOK
  <1>1. Submit(c) => ~ Terminal(task) /\ ~ Terminal(task')
    BY DEF Submit, FreshRecord, Terminal, TERMINAL_STATES, Exists
  <1>2. BeginDispatch(c) => ~ Terminal(task) /\ ~ Terminal(task')
    BY <1>0 DEF BeginDispatch, Dispatchable, Terminal, TERMINAL_STATES, TaskRecord
  <1>3. ClaimReconciliation(c) => ~ Terminal(task) /\ ~ Terminal(task')
    BY <1>0 DEF ClaimReconciliation, Claimable, Terminal, TERMINAL_STATES, TaskRecord
  <1>4. ASSUME RpcFails(c)
        PROVE  OutcomeNow' = OutcomeNow
    <2>1. CASE calls[c].pc = "get"
      BY <1>4, <2>1 DEF RpcFails, OutcomeNow, Terminal
    <2>2. CASE calls[c].pc # "get"
      <3> DEFINE e == TransportError(calls[c])
      <3>1. Moved(c, e) /\ e.kind = "transport_error"
        BY <1>4, <2>2, FailMoves DEF TransportError
      <3> HIDE DEF e
      <3>2. Unmoved(task', task, e) \/ Flagged(task', task) \/ Lost(task', task, e)
        BY <3>1 DEF Moved, Erred, Observed
      <3>3. CASE Unmoved(task', task, e) \/ Flagged(task', task)
        <4>1. task'.state = task.state
          BY <1>0, <3>3 DEF Unmoved, Flagged, TaskRecord
        <4> QED
          BY <4>1 DEF OutcomeNow, Terminal
      <3>4. CASE Lost(task', task, e)
        BY <3>4 DEF Lost, OutcomeNow, Terminal, TERMINAL_STATES
      <3> QED
        BY <3>2, <3>3, <3>4
    <2> QED
      BY <2>1, <2>2
  <1> QED
    BY <1>1, <1>2, <1>3, <1>4

LEMMA NextRefines ==
  TypeOK /\ IInv /\ [Next]_vars => [Outcome!Next]_<<attempts, heard, OutcomeNow>>
  <1> SUFFICES ASSUME TypeOK, IInv, [Next]_vars
               PROVE  [Outcome!Next]_<<attempts, heard, OutcomeNow>>
    OBVIOUS
  <1>1. ASSUME NEW c \in Callers, NEW o \in Replies, Receive(c, o)
        PROVE  [Outcome!Next]_<<attempts, heard, OutcomeNow>>
    BY <1>1, ReceiveRefines, ConstantsAssumption
  <1>2. ASSUME NEW c \in Callers, BeginDispatch(c)
        PROVE  Outcome!Next
    <2>1. attempts = 0 /\ attempts' = 1 /\ heard' = heard
      BY <1>2 DEF BeginDispatch, Dispatchable, IInv, DispatchInv
    <2>2. OutcomeNow = "open" /\ OutcomeNow' = "open"
      BY <1>2, OpenSteps DEF OutcomeNow
    <2>3. Outcome!Send
      BY <2>1, <2>2 DEF Outcome!Send, OutcomeNow
    <2> QED
      BY <2>3 DEF Outcome!Next
  <1>3. ASSUME NEW c \in Callers, Cancel(c)
        PROVE  [Outcome!Next]_<<attempts, heard, OutcomeNow>>
    <2>1. /\ task \in TaskRecord /\ task' = Cancelled(task) /\ ~ Terminal(task)
          /\ UNCHANGED <<attempts, heard>>
      BY <1>3 DEF Cancel, TypeOK
    <2>2. CASE task.dispatch_state = "not_started"
      <3>1. task'.state = "cancelled" /\ attempts = 0
        BY <2>1, <2>2 DEF Cancelled, TaskRecord, IInv, DispatchInv
      <3>2. Outcome!CancelUnsent
        BY <2>1, <3>1
           DEF Outcome!CancelUnsent, OutcomeNow, Terminal, TERMINAL_STATES
      <3> QED
        BY <3>2 DEF Outcome!Next
    <2>3. CASE task.dispatch_state # "not_started"
      <3>1. task'.state = "cancellation_pending"
        BY <2>1, <2>3 DEF Cancelled, TaskRecord
      <3> QED
        BY <2>1, <3>1 DEF OutcomeNow, Terminal, TERMINAL_STATES
    <2> QED
      BY <2>2, <2>3
  <1>4. ASSUME NEW c \in Callers,
               Submit(c) \/ ClaimReconciliation(c) \/ RpcFails(c)
        PROVE  UNCHANGED <<attempts, heard, OutcomeNow>>
    <2>1. OutcomeNow' = OutcomeNow
      BY <1>4, OpenSteps DEF OutcomeNow
    <2> QED
      BY <1>4, <2>1 DEF Submit, ClaimReconciliation, RpcFails
  <1>5. CASE \/ UNCHANGED vars
             \/ ExpireLease
             \/ \E c \in Callers : \/ DispatchRefused(c) \/ RenewLease(c)
                                   \/ Refresh(c) \/ Crash(c)
    <2>1. UNCHANGED <<task, attempts, heard>>
      BY <1>5 DEF vars, ExpireLease, DispatchRefused, RenewLease, Refresh, Crash
    <2> QED
      BY <2>1 DEF OutcomeNow, Terminal
  <1> QED
    BY <1>1, <1>2, <1>3, <1>4, <1>5 DEF Next

\* The TaskStore, with any number of coordinators on one work item, implements
\* the abstract outcome: sent once, reports in any order, the first verdict
\* kept, and cancelled without the worker's word only while unsent.
THEOREM Refinement == Spec => ImplementsOutcome
  <1>1. TypeOK /\ IInv /\ [Next]_vars => [Outcome!Next]_<<attempts, heard, OutcomeNow>>
    BY NextRefines
  <1> QED
    BY <1>1, InitRefines, Invariance, PTL
       DEF Spec, ImplementsOutcome, Outcome!Spec, OutcomeNow

-----------------------------------------------------------------------------
(* The coordinators and a worker that keeps its word                       *)

ServiceInv == ServiceTypeOK /\ IInv /\ ServiceIInv

\* The worker's part of the invariant, without the coordinator's record.
Around == OneRemoteTask /\ WorkerInv

\* The coordinator's record, against the worker.
Record ==
  /\ task.remote_task_id \in Made \cup {NoId}
  /\ ~ Terminal(task) => task.worker_result = NoResult
  /\ HonestWorkerIsConsistent
  /\ OutcomeIsTheWorkers

LEMMA Parts == ServiceIInv <=> Around /\ Record
  BY DEF ServiceIInv, Around, Record

\* Nobody waits for an answer, or the answer to a call in progress is under way.
LEMMA ReplyFacts ==
  ASSUME ServiceInv, NEW c \in Callers
  PROVE  /\ calls \in [Callers -> Call] /\ reply \in [Callers -> {NoReply} \cup Observation]
         /\ reply[c] # NoReply =>
              /\ calls[c].pc \in Rpcs /\ reply[c] \in Observation
              /\ reply[c].id \in Made /\ attempts = 1
              /\ reply[c].state \in Supported
              /\ reply[c].state \in TERMINAL_STATES =>
                   /\ reply[c].state = worker[reply[c].id].state
                   /\ reply[c].result = worker[reply[c].id].result
              /\ reply[c].state \notin TERMINAL_STATES => reply[c].result = NoResult
  <1>1. /\ calls \in [Callers -> Call] /\ reply \in [Callers -> {NoReply} \cup Observation]
    BY DEF ServiceInv, ServiceTypeOK, TypeOK
  <1>2. ASSUME reply[c] # NoReply
        PROVE  /\ calls[c].pc \in Rpcs /\ reply[c] \in Observation
               /\ reply[c].id \in Made /\ attempts = 1
    BY <1>1, <1>2 DEF ServiceInv, ServiceIInv, WorkerInv, IInv, DispatchInv
  <1> QED
    BY <1>1, <1>2 DEF ServiceInv, ServiceIInv, WorkerInv, Supported

LEMMA WorkerFacts ==
  ASSUME ServiceInv, NEW i \in RemoteIds
  PROVE  /\ worker[i] \in {NoTask} \cup [state : Supported,
                                         result : Results \cup {NoResult, Unfit}]
         /\ i \in Made <=> worker[i] # NoTask
         /\ worker[i].result # NoResult => worker[i].state \in TERMINAL_STATES
  BY DEF ServiceInv, ServiceTypeOK, ServiceIInv, WorkerInv, Made, Done

-----------------------------------------------------------------------------
(* Steps of a coordinator                                                  *)

\* A step that moves one call leaves what surrounds the coordinators as it was.
LEMMA AroundStep ==
  ASSUME ServiceInv, NEW c \in Callers, UNCHANGED <<worker, net, attempts>>,
         \A d \in Callers : d # c => calls'[d] = calls[d],
         \/ Quiet(c)
         \/ reply' = reply /\ (calls'[c] = calls[c] \/ calls[c].pc \notin Rpcs)
  PROVE  Around' /\ reply' \in [Callers -> {NoReply} \cup Observation]
  <1>1. reply' \in [Callers -> {NoReply} \cup Observation]
    BY ReplyFacts DEF Quiet
  <1>2. OneRemoteTask' /\ Made' = Made
    BY DEF ServiceInv, ServiceIInv, OneRemoteTask, Made
  <1>3. ASSUME NEW d \in Callers, reply'[d] # NoReply
        PROVE  reply'[d] = reply[d] /\ calls'[d] = calls[d]
    BY <1>3, ReplyFacts DEF Quiet
  <1>4. WorkerInv'
    BY <1>2, <1>3 DEF ServiceInv, ServiceIInv, WorkerInv, Done
  <1> QED
    BY <1>1, <1>2, <1>4 DEF Around

\* The record is moved while it has no outcome, and gets none; or it is not sent.
LEMMA RecordStep ==
  ASSUME ServiceInv, UNCHANGED worker, attempts' = attempts,
         \/ task' = task
         \/ /\ task'.remote_task_id = task.remote_task_id
            /\ task'.worker_result = task.worker_result
            /\ task'.coordination_status = task.coordination_status
            /\ ~ Terminal(task)
            /\ ~ Terminal(task') \/ attempts = 0
  PROVE  Record'
  <1>1. Made' = Made /\ Record
    BY Parts DEF Made, ServiceInv
  <1>2. CASE task' = task
    BY <1>1, <1>2 DEF Record, HonestWorkerIsConsistent, OutcomeIsTheWorkers, Terminal
  <1>3. CASE task' # task
    BY <1>1, <1>3 DEF Record, HonestWorkerIsConsistent, OutcomeIsTheWorkers, TypeOK
  <1> QED
    BY <1>2, <1>3

\* One remote task at most: an answer never names another one.
LEMMA NoConflict ==
  ASSUME ServiceInv, NEW c \in Callers, reply[c] # NoReply
  PROVE  task.remote_task_id \in {NoId, reply[c].id}
  BY ReplyFacts DEF ServiceInv, ServiceIInv, OneRemoteTask

\* An answer that arrives after the outcome says what is recorded.
LEMMA LateIsKnown ==
  ASSUME ServiceInv, NEW c \in Callers, reply[c] # NoReply, Receive(c, reply[c]),
         Terminal(task)
  PROVE  task' = task
  <1> DEFINE o == reply[c]
             e == ObservationEvent(calls[c], o)
  <1>1. /\ o \in Observation /\ o.id \in Made /\ attempts = 1 /\ o.state \in Supported
        /\ calls[c] \in Call /\ calls[c].pc \in Rpcs
    BY ReplyFacts
  <1>2. e \in Event /\ FromReply(e, o) /\ e.attempt = calls[c].attempt
    BY <1>1, ReplyEvents
  <1>3. task' = TransitionRemoteEvent(task, e)
    BY DEF Receive
  <1>4. task.attempt = e.attempt
    BY <1>1, <1>2, EventAttempt DEF ServiceInv, ServiceTypeOK
  <1> HIDE DEF e
  <1>5. ~ IdConflict(task, e)
    BY <1>2, NoConflict DEF IdConflict, FromReply
  <1>6. task' = LateEvent(task, e)
    BY <1>3, <1>4, <1>5 DEF TransitionRemoteEvent
  <1>7. task.remote_task_id = o.id
    <2>1. task.remote_task_id \in Made
      BY <1>1 DEF ServiceInv, ServiceIInv, OutcomeIsTheWorkers
    <2> QED
      BY <1>1, <2>1 DEF ServiceInv, ServiceIInv, OneRemoteTask
  <1>8. ASSUME e.kind = "observation", e.state \in TERMINAL_STATES
        PROVE  e.state = task.remote_state /\ e.result = task.worker_result
    <2>1. e.state = o.state /\ e.result = o.result /\ o.result # Unfit
      BY <1>2, <1>8 DEF FromReply
    <2>2. o.state = worker[o.id].state /\ o.result = worker[o.id].result
      BY <1>8, <2>1, ReplyFacts
    <2> QED
      BY <1>1, <1>7, <2>1, <2>2 DEF ServiceInv, ServiceIInv, OutcomeIsTheWorkers
  <1> QED
    BY <1>6, <1>8 DEF LateEvent

LEMMA ReceiveRecord ==
  ASSUME ServiceInv, NEW c \in Callers, reply[c] # NoReply, Receive(c, reply[c]),
         UNCHANGED worker
  PROVE  Record'
  <1> DEFINE o == reply[c]
             e == ObservationEvent(calls[c], o)
  <1>1. /\ o \in Observation /\ o.id \in Made /\ attempts = 1 /\ o.state \in Supported
        /\ calls[c] \in Call /\ calls[c].pc \in Rpcs
    BY ReplyFacts
  <1>2. e \in Event /\ FromReply(e, o) /\ attempts' = attempts
    BY <1>1, ReplyEvents DEF Receive
  <1>3. Moved(c, e)
    BY <1>1, ReceiveMoves DEF ServiceInv, ServiceTypeOK
  <1> HIDE DEF e
  <1>4. CASE Terminal(task)
    BY <1>2, <1>4, LateIsKnown, RecordStep
  <1>5. CASE ~ Terminal(task)
    <2>1. ~ IdConflict(task, e)
      BY <1>2, NoConflict DEF IdConflict, FromReply
    <2>2. Erred(task', task, e) \/ Observed(task', task, e)
      BY <1>2, <1>3, <1>5, <2>1 DEF Moved, Unmoved, Lost, FromReply
    <2>3. /\ task'.remote_task_id = o.id /\ Made' = Made
          /\ task'.coordination_status = "consistent"
      BY <1>2, <2>2
      DEF Erred, Observed, Kept, FromReply, Made, ServiceInv, ServiceIInv,
          HonestWorkerIsConsistent
    <2>4. o.state \in TERMINAL_STATES =>
            o.state = worker[o.id].state /\ o.result = worker[o.id].result
      BY <1>1, ReplyFacts
    <2>5. o.state \notin TERMINAL_STATES => o.result = NoResult
      BY <1>1, ReplyFacts
    <2>6. CASE Erred(task', task, e)
      <3>1. o.result = Unfit /\ o.state \in TERMINAL_STATES
        BY <1>1, <1>2, <2>5, <2>6, ConstantsAssumption DEF Erred, FromReply
      <3>2. /\ task'.state = "failed" /\ task'.remote_state = o.state
            /\ task'.worker_result = NoResult
        BY <1>2, <1>5, <2>6, <3>1 DEF Erred, FromReply, ServiceInv, ServiceIInv
      <3>3. Terminal(task')
        BY <3>2 DEF Terminal, TERMINAL_STATES
      <3> QED
        BY <1>1, <2>3, <2>4, <3>1, <3>2, <3>3
        DEF Record, HonestWorkerIsConsistent, OutcomeIsTheWorkers
    <2>7. CASE Observed(task', task, e)
      <3>1. /\ o.result # Unfit /\ task'.remote_state = o.state
            /\ task'.worker_result = o.result
            /\ task'.state \in {o.state, "cancellation_pending"}
            /\ o.state \in TERMINAL_STATES => task'.state = o.state
        BY <1>2, <2>7 DEF Observed, FromReply
      <3>2. Terminal(task') => o.state \in TERMINAL_STATES
        BY <3>1 DEF Terminal, TERMINAL_STATES
      <3>3. ~ Terminal(task') => o.state \notin TERMINAL_STATES
        BY <3>1 DEF Terminal
      <3> QED
        BY <1>1, <2>3, <2>4, <2>5, <3>1, <3>2, <3>3
        DEF Record, HonestWorkerIsConsistent, OutcomeIsTheWorkers
    <2> QED
      BY <2>2, <2>6, <2>7
  <1> QED
    BY <1>4, <1>5

\* An RPC that fails tells nothing of the remote task.
LEMMA FailRecord ==
  ASSUME ServiceInv, NEW c \in Callers, RpcFails(c), UNCHANGED worker
  PROVE  Record'
  <1> DEFINE e == TransportError(calls[c])
  <1>1. calls[c].pc \in Rpcs /\ calls[c] \in Call /\ attempts' = attempts
    BY ReplyFacts DEF RpcFails
  <1>2. CASE calls[c].pc = "get"
    BY <1>1, <1>2, RecordStep DEF RpcFails
  <1>3. CASE calls[c].pc # "get"
    <2>1. /\ e.kind = "transport_error" /\ Moved(c, e) /\ e \in Event
          /\ task' = TransitionRemoteEvent(task, e) /\ task.attempt = e.attempt
      BY <1>1, <1>3, ErrorEvents, FailMoves, EventAttempt
      DEF RpcFails, ServiceInv, ServiceTypeOK
    <2> HIDE DEF e
    <2>2. ~ IdConflict(task, e)
      BY <2>1 DEF Moved, IdConflict
    <2>3. CASE Terminal(task)
      <3>1. task' = task
        BY <2>1, <2>2, <2>3 DEF TransitionRemoteEvent, LateEvent
      <3> QED
        BY <1>1, <3>1, RecordStep
    <2>4. CASE ~ Terminal(task)
      <3>1. Lost(task', task, e)
        BY <2>1, <2>2, <2>4 DEF Moved, Unmoved, Erred, Observed
      <3>2. ~ Terminal(task')
        BY <3>1 DEF Lost, Terminal, TERMINAL_STATES
      <3> QED
        BY <1>1, <2>4, <3>1, <3>2, RecordStep DEF Lost, Kept
    <2> QED
      BY <2>3, <2>4
  <1> QED
    BY <1>2, <1>3

LEMMA DeliverStep ==
  ASSUME ServiceInv, NEW c \in Callers, Deliver(c)
  PROVE  Around' /\ Record' /\ reply' \in [Callers -> {NoReply} \cup Observation]
  <1>1. /\ reply[c] # NoReply /\ Receive(c, reply[c]) /\ Quiet(c)
        /\ UNCHANGED <<worker, net, attempts>>
    BY DEF Deliver, Receive
  <1>2. \A d \in Callers : d # c => calls'[d] = calls[d]
    BY <1>1, ReplyFacts, ReceiveResolves DEF Resolved, ServiceInv, ServiceTypeOK
  <1> QED
    BY <1>1, <1>2, AroundStep, ReceiveRecord

LEMMA FailStep ==
  ASSUME ServiceInv, NEW c \in Callers, Fail(c) \/ Die(c)
  PROVE  Around' /\ Record' /\ reply' \in [Callers -> {NoReply} \cup Observation]
  <1>1. /\ Return(c) /\ Quiet(c) /\ UNCHANGED <<worker, net, attempts>>
        /\ RpcFails(c) \/ task' = task
    BY DEF Fail, RpcFails, Die, Crash
  <1>2. \A d \in Callers : d # c => calls'[d] = calls[d]
    BY <1>1, ReplyFacts, ReturnType
  <1> QED
    BY <1>1, <1>2, AroundStep, FailRecord, RecordStep

LEMMA PollStep ==
  ASSUME ServiceInv, NEW c \in Callers, Poll(c)
  PROVE  Around' /\ Record' /\ reply' \in [Callers -> {NoReply} \cup Observation]
  <1>1. UNCHANGED <<worker, net, reply, attempts>> /\ calls[c].pc \notin Rpcs
    BY DEF Poll, ClaimReconciliation, Refresh, Rpcs
  <1>2. CASE ClaimReconciliation(c)
    <2>1. /\ task'.state \in {"cancellation_pending", "dispatch_uncertain"}
          /\ task'.remote_task_id = task.remote_task_id
          /\ task'.worker_result = task.worker_result
          /\ task'.coordination_status = task.coordination_status
          /\ task' \in TaskRecord /\ Start(c, "reconcile", task') /\ ~ Terminal(task)
      <3>1. TypeOK /\ task \in TaskRecord
        BY DEF ServiceInv, ServiceTypeOK, TypeOK
      <3>2. task' \in TaskRecord
        BY <1>2, <3>1, TaskType
      <3>3. Start(c, "reconcile", task') /\ ~ Terminal(task)
        BY <1>2 DEF ClaimReconciliation, Claimable
      <3> DEFINE new == IF task.cancel_requested
                          THEN "cancellation_pending" ELSE "dispatch_uncertain"
      <3>4. task' = [task EXCEPT !.state = new, !.dispatch_state = "recovering",
                                 !.recoverer = c]
        BY <1>2 DEF ClaimReconciliation
      <3>5. new \in {"cancellation_pending", "dispatch_uncertain"}
        OBVIOUS
      <3> HIDE DEF new
      <3>6. /\ task'.state = new /\ task'.remote_task_id = task.remote_task_id
            /\ task'.worker_result = task.worker_result
            /\ task'.coordination_status = task.coordination_status
        BY <3>1, <3>4 DEF TaskRecord
      <3> QED
        BY <3>2, <3>3, <3>5, <3>6
    <2>2. ~ Terminal(task')
      BY <2>1 DEF Terminal, TERMINAL_STATES
    <2>3. \A d \in Callers : d # c => calls'[d] = calls[d]
      BY <2>1, ReplyFacts, StartType DEF Rpcs
    <2> QED
      BY <1>1, <2>1, <2>2, <2>3, AroundStep, RecordStep
  <1>3. CASE Refresh(c)
    <2>1. task' = task /\ (Start(c, "get", task) \/ Start(c, "cancel", task))
      BY <1>3 DEF Refresh
    <2>2. \A d \in Callers : d # c => calls'[d] = calls[d]
      BY <2>1, ReplyFacts, StartType DEF Rpcs, ServiceInv, ServiceTypeOK, TypeOK
    <2> QED
      BY <1>1, <2>1, <2>2, AroundStep, RecordStep
  <1> QED
    BY <1>2, <1>3 DEF Poll

LEMMA LocalStep ==
  ASSUME ServiceInv, NEW c \in Callers, Local(c)
  PROVE  Around' /\ Record' /\ reply' \in [Callers -> {NoReply} \cup Observation]
  <1>1. UNCHANGED <<worker, net, reply, attempts>> /\ task \in TaskRecord
    BY DEF Local, Submit, DispatchRefused, RenewLease, Cancel, ServiceInv, ServiceTypeOK,
       TypeOK
  <1>2. CASE Submit(c)
    <2>1. /\ attempts = 0 /\ calls[c].pc \notin Rpcs /\ task' = FreshRecord("queued")
          /\ Start(c, "created", task')
      BY <1>2 DEF Submit, Exists, Rpcs, ServiceInv, IInv, DispatchInv
    <2>2. task' \in TaskRecord
      BY <2>1, FreshType DEF LocalStates
    <2>3. \A d \in Callers : d # c => calls'[d] = calls[d]
      BY <2>1, <2>2, ReplyFacts, StartType
    <2>4. Record'
      BY <1>1, <2>1
      DEF Record, FreshRecord, HonestWorkerIsConsistent, OutcomeIsTheWorkers
    <2> QED
      BY <1>1, <2>1, <2>3, <2>4, AroundStep
  <1>3. CASE DispatchRefused(c)
    <2>1. task' = task /\ Return(c) /\ calls[c].pc \notin Rpcs
      BY <1>3 DEF DispatchRefused, Rpcs
    <2>2. \A d \in Callers : d # c => calls'[d] = calls[d]
      BY <2>1, ReplyFacts, ReturnType
    <2> QED
      BY <1>1, <2>1, <2>2, AroundStep, RecordStep
  <1>4. CASE RenewLease(c)
    <2>1. task' = task /\ calls' = calls
      BY <1>4 DEF RenewLease
    <2> QED
      BY <1>1, <2>1, AroundStep, RecordStep
  <1>5. CASE Cancel(c)
    <2>1. /\ ~ Terminal(task) /\ task' = Cancelled(task) /\ task' \in TaskRecord
          /\ calls[c].pc \notin Rpcs
          /\ calls' = calls \/ Start(c, "cancel", task')
      BY <1>5, TaskType DEF Cancel, Rpcs, ServiceInv, ServiceTypeOK
    <2>2. /\ task'.remote_task_id = task.remote_task_id
          /\ task'.worker_result = task.worker_result
          /\ task'.coordination_status = task.coordination_status
          /\ task.dispatch_state # "not_started" => task'.state = "cancellation_pending"
      BY <1>1, <2>1 DEF Cancelled, TaskRecord
    <2>3. ~ Terminal(task') \/ attempts = 0
      BY <2>2 DEF Terminal, TERMINAL_STATES, ServiceInv, IInv, DispatchInv
    <2>4. \A d \in Callers : d # c => calls'[d] = calls[d]
      BY <2>1, ReplyFacts, StartType DEF Rpcs
    <2> QED
      BY <1>1, <2>1, <2>2, <2>3, <2>4, AroundStep, RecordStep
  <1> QED
    BY <1>2, <1>3, <1>4, <1>5 DEF Local

LEMMA ExpireStep ==
  ASSUME ServiceInv, TimePasses
  PROVE  Around' /\ Record' /\ reply' \in [Callers -> {NoReply} \cup Observation]
  <1>1. UNCHANGED <<worker, net, reply, attempts, task, calls>>
    BY DEF TimePasses, ExpireLease
  <1>2. Around'
    BY <1>1 DEF ServiceInv, ServiceIInv, Around, OneRemoteTask, WorkerInv, Made, Done
  <1> QED
    BY <1>1, <1>2, RecordStep DEF ServiceInv, ServiceTypeOK

\* The only submission: nothing was sent before it.
LEMMA SendStep ==
  ASSUME ServiceInv, NEW c \in Callers, Send(c)
  PROVE  Around' /\ Record' /\ reply' \in [Callers -> {NoReply} \cup Observation]
  <1>1. /\ attempts = 0 /\ attempts' = attempts + 1 /\ calls[c].pc = "created"
        /\ net' = net + 1 /\ UNCHANGED <<worker, reply>>
        /\ task' = [task EXCEPT !.state = "dispatching", !.dispatch_state = "in_flight",
                                !.attempt = attempts + 1, !.owner = c]
        /\ Start(c, "submit", task')
    BY DEF Send, BeginDispatch, Dispatchable, ServiceInv, IInv, DispatchInv
  <1>2. net = 0 /\ Made = {} /\ Made' = Made /\ task \in TaskRecord
    BY <1>1 DEF ServiceInv, ServiceIInv, OneRemoteTask, Made, ServiceTypeOK, TypeOK
  <1>3. task' \in TaskRecord
    BY TaskType DEF Send, ServiceInv, ServiceTypeOK
  <1>4. \A d \in Callers : d # c => calls'[d] = calls[d]
    BY <1>1, <1>3, ReplyFacts, StartType DEF Rpcs
  <1>5. \A d \in Callers : reply[d] = NoReply
    BY <1>2, ReplyFacts
  <1>6. Around'
    BY <1>1, <1>2, <1>5
    DEF Around, OneRemoteTask, WorkerInv, ServiceInv, ServiceIInv, Made, Done
  <1>7. /\ ~ Terminal(task') /\ task'.remote_task_id = task.remote_task_id
        /\ task'.worker_result = task.worker_result
        /\ task'.coordination_status = task.coordination_status
    BY <1>1, <1>2 DEF Terminal, TERMINAL_STATES, TaskRecord
  <1>8. task.worker_result = NoResult
    <2>1. ~ Terminal(task)
      BY DEF Send, BeginDispatch, Dispatchable
    <2> QED
      BY <2>1 DEF ServiceInv, ServiceIInv
  <1>9. Record'
    BY <1>2, <1>7, <1>8
    DEF Record, HonestWorkerIsConsistent, OutcomeIsTheWorkers, ServiceInv, ServiceIInv
  <1> QED
    BY <1>1, <1>6, <1>9, ReplyFacts

-----------------------------------------------------------------------------
(* Steps of the worker                                                     *)

LEMMA AcceptStep ==
  ASSUME ServiceInv, NEW i \in RemoteIds, Accept(i)
  PROVE  ServiceIInv' /\ ServiceTypeOK'
  <1>1. /\ net > 0 /\ net' = net - 1 /\ i \notin Made
        /\ worker' = [worker EXCEPT ![i] = [state |-> "working", result |-> NoResult]]
        /\ UNCHANGED <<task, lease, calls, attempts, heard, lapsed, reply>>
    BY DEF Accept, vars
  <1>2. net = 1 /\ net' = 0 /\ attempts = 1 /\ Made = {}
    BY <1>1 DEF ServiceInv, ServiceIInv, OneRemoteTask
  <1>3. /\ ServiceTypeOK'
        /\ worker'[i] = [state |-> "working", result |-> NoResult]
        /\ \A j \in RemoteIds : j # i => worker'[j] = worker[j]
    BY <1>1, <1>2 DEF ServiceInv, ServiceTypeOK, TypeOK, Supported
  <1>4. Made' = {i}
    BY <1>2, <1>3 DEF Made, NoTask
  <1>5. \A c \in Callers : reply[c] = NoReply
    BY <1>2, ReplyFacts
  <1>6. OneRemoteTask' /\ WorkerInv'
    BY <1>1, <1>2, <1>3, <1>4, <1>5
    DEF OneRemoteTask, WorkerInv, ServiceInv, ServiceIInv, Done
  <1>7. Record'
    BY <1>1, <1>2
    DEF Record, HonestWorkerIsConsistent, OutcomeIsTheWorkers, ServiceInv, ServiceIInv, Terminal
  <1> QED
    BY <1>3, <1>6, <1>7 DEF ServiceIInv, Record

\* An unfinished remote task ends: whatever was said of it is still true.
LEMMA EndsStep ==
  ASSUME ServiceInv, NEW i \in Made, ~ Done(i), NEW w,
         w \in [state : TERMINAL_STATES, result : Results \cup {NoResult, Unfit}],
         worker' = [worker EXCEPT ![i] = w],
         UNCHANGED <<task, lease, calls, attempts, heard, lapsed, net>>
  PROVE  /\ Made' = Made /\ OneRemoteTask' /\ Record'
         /\ worker' \in [RemoteIds -> {NoTask} \cup
                            [state : Supported, result : Results \cup {NoResult, Unfit}]]
         /\ worker'[i] = w /\ \A j \in RemoteIds : worker'[j].result # NoResult => Done(j)'
         /\ \A c \in Callers : reply[c] # NoReply =>
              /\ reply[c].id = i /\ reply[c].state \notin TERMINAL_STATES
              /\ reply[c].result = NoResult
  <1>1. i \in RemoteIds /\ worker[i] # NoTask /\ w # NoTask
    BY DEF Made, NoTask, TERMINAL_STATES
  <1>2. /\ worker' \in [RemoteIds -> {NoTask} \cup
                           [state : Supported, result : Results \cup {NoResult, Unfit}]]
        /\ worker'[i] = w /\ \A j \in RemoteIds : j # i => worker'[j] = worker[j]
    BY <1>1 DEF ServiceInv, ServiceTypeOK, Supported
  <1>3. Made' = Made /\ OneRemoteTask'
    BY <1>1, <1>2 DEF Made, ServiceInv, ServiceIInv, OneRemoteTask
  <1>4. \A c \in Callers : reply[c] # NoReply =>
          /\ reply[c].id = i /\ reply[c].state \notin TERMINAL_STATES
          /\ reply[c].result = NoResult
    BY ReplyFacts DEF ServiceInv, ServiceIInv, OneRemoteTask, Done
  <1>5. \A j \in RemoteIds : worker'[j].result # NoResult => Done(j)'
    BY <1>1, <1>2 DEF ServiceInv, ServiceIInv, WorkerInv, Done
  <1>6. ~ (Terminal(task) /\ attempts > 0)
    <2> SUFFICES ASSUME Terminal(task), attempts > 0
                 PROVE  FALSE
      OBVIOUS
    <2>1. task.remote_task_id = i
      BY DEF ServiceInv, ServiceIInv, OutcomeIsTheWorkers, OneRemoteTask
    <2>2. worker[i].result # Unfit
      BY <1>1, WorkerFacts, ConstantsAssumption DEF Done
    <2>3. task.state = worker[i].state
      BY <2>1, <2>2 DEF ServiceInv, ServiceIInv, OutcomeIsTheWorkers
    <2> QED
      BY <2>3 DEF Terminal, Done
  <1>7. Record'
    BY <1>3, <1>6
    DEF Record, HonestWorkerIsConsistent, OutcomeIsTheWorkers, ServiceInv, ServiceIInv, Terminal
  <1> QED
    BY <1>2, <1>3, <1>4, <1>5, <1>7

LEMMA FinishStep ==
  ASSUME ServiceInv, NEW i \in RemoteIds, Finish(i)
  PROVE  ServiceIInv' /\ ServiceTypeOK'
  <1>1. PICK w \in [state : TERMINAL_STATES, result : Results \cup {NoResult, Unfit}] :
          worker' = [worker EXCEPT ![i] = w]
    <2>1. \A r \in Results \cup {NoResult, Unfit}, s \in TERMINAL_STATES :
            [state |-> s, result |-> r] \in
              [state : TERMINAL_STATES, result : Results \cup {NoResult, Unfit}]
      OBVIOUS
    <2> QED
      BY <2>1 DEF Finish, TERMINAL_STATES
  <1>2. /\ i \in Made /\ ~ Done(i)
        /\ UNCHANGED <<task, lease, calls, attempts, heard, lapsed, net, reply>>
    BY DEF Finish, Made, NoTask, Done, TERMINAL_STATES, vars
  <1>3. /\ Made' = Made /\ OneRemoteTask' /\ Record'
        /\ worker' \in [RemoteIds -> {NoTask} \cup
                           [state : Supported, result : Results \cup {NoResult, Unfit}]]
        /\ \A j \in RemoteIds : worker'[j].result # NoResult => Done(j)'
        /\ \A c \in Callers : reply[c] # NoReply =>
             /\ reply[c].id = i /\ reply[c].state \notin TERMINAL_STATES
             /\ reply[c].result = NoResult
    BY <1>1, <1>2, EndsStep
  <1>4. WorkerInv'
    BY <1>2, <1>3 DEF WorkerInv, ServiceInv, ServiceIInv
  <1>5. ServiceTypeOK'
    BY <1>2, <1>3 DEF ServiceInv, ServiceTypeOK, TypeOK
  <1> QED
    BY <1>3, <1>4, <1>5 DEF ServiceIInv, Record

\* An answer is the remote task as it stands.
LEMMA AnswerIsTrue ==
  ASSUME ServiceInv, NEW c \in Callers, calls[c].pc \in Rpcs, NEW i \in Made,
         Answer(c, i, worker), UNCHANGED <<task, lease, calls, attempts, heard, lapsed,
                                           worker, net>>
  PROVE  ServiceIInv' /\ ServiceTypeOK'
  <1> DEFINE o == [id |-> i, state |-> worker[i].state, result |-> worker[i].result]
  <1>1. /\ i \in RemoteIds
        /\ worker[i] \in [state : Supported, result : Results \cup {NoResult, Unfit}]
    BY WorkerFacts DEF Made
  <1>2. o \in Observation
    BY <1>1 DEF Observation, RemoteStates
  <1>3. /\ reply' \in [Callers -> {NoReply} \cup Observation]
        /\ reply'[c] = o /\ \A d \in Callers : d # c => reply'[d] = reply[d]
    BY <1>2, ReplyFacts DEF Answer
  <1>4. ServiceTypeOK'
    BY <1>3 DEF ServiceInv, ServiceTypeOK, TypeOK
  <1>5. OneRemoteTask' /\ Made' = Made
    BY DEF ServiceInv, ServiceIInv, OneRemoteTask, Made
  <1>6. /\ o.id \in Made
        /\ IF o.state \in TERMINAL_STATES
             THEN o.state = worker[o.id].state /\ o.result = worker[o.id].result
             ELSE o.state \in Supported /\ o.result = NoResult
    BY <1>1, WorkerFacts
  <1>7. WorkerInv'
    <2>1. \A j \in RemoteIds : worker'[j].result # NoResult => Done(j)'
      BY DEF ServiceInv, ServiceIInv, WorkerInv, Done
    <2> HIDE DEF o
    <2>2. ASSUME NEW d \in Callers, reply'[d] # NoReply
          PROVE  /\ calls[d].pc \in Rpcs /\ reply'[d].id \in Made
                 /\ IF reply'[d].state \in TERMINAL_STATES
                      THEN /\ reply'[d].state = worker[reply'[d].id].state
                           /\ reply'[d].result = worker[reply'[d].id].result
                      ELSE reply'[d].state \in Supported /\ reply'[d].result = NoResult
      BY <1>3, <1>6, <2>2, ReplyFacts
    <2> QED
      BY <1>5, <2>1, <2>2 DEF WorkerInv
  <1>8. Record'
    BY RecordStep DEF ServiceInv, ServiceTypeOK
  <1> QED
    BY <1>4, <1>5, <1>7, <1>8 DEF ServiceIInv, Record

LEMMA ServeStep ==
  ASSUME ServiceInv, NEW c \in Callers, Serve(c)
  PROVE  ServiceIInv' /\ ServiceTypeOK'
  BY AnswerIsTrue DEF Serve, vars, Rpcs

\* CancelTask ends an unfinished task and answers with it.
LEMMA ServeCancelStep ==
  ASSUME ServiceInv, NEW c \in Callers, ServeCancel(c)
  PROVE  ServiceIInv' /\ ServiceTypeOK'
  <1> DEFINE i == calls[c].id
             w == [worker[i] EXCEPT !.state = "cancelled"]
             o == [id |-> i, state |-> worker'[i].state, result |-> worker'[i].result]
  <1>1. /\ i \in Made /\ calls[c].pc \in Rpcs /\ reply[c] = NoReply
        /\ worker' = IF Done(i) THEN worker
                     ELSE [worker EXCEPT ![i].state = "cancelled"]
        /\ reply' = [reply EXCEPT ![c] = o]
        /\ UNCHANGED <<task, lease, calls, attempts, heard, lapsed, net>>
    BY DEF ServeCancel, Rpcs, vars, Answer
  <1>2. CASE Done(i)
    <2>1. Answer(c, i, worker)
      BY <1>1, <1>2 DEF Answer
    <2> QED
      BY <1>1, <1>2, <2>1, AnswerIsTrue
  <1>3. CASE ~ Done(i)
    <2>1. /\ i \in RemoteIds
          /\ worker[i] \in [state : Supported, result : Results \cup {NoResult, Unfit}]
          /\ worker[i].result = NoResult
      BY <1>1, <1>3, WorkerFacts DEF Made, Done
    <2>2. /\ w \in [state : TERMINAL_STATES, result : Results \cup {NoResult, Unfit}]
          /\ w.state = "cancelled" /\ w.result = NoResult
      BY <2>1 DEF TERMINAL_STATES
    <2>3. worker' = [worker EXCEPT ![i] = w]
      BY <1>1, <1>3
    <2> HIDE DEF w
    <2>4. /\ Made' = Made /\ OneRemoteTask' /\ Record'
          /\ worker' \in [RemoteIds -> {NoTask} \cup
                             [state : Supported, result : Results \cup {NoResult, Unfit}]]
          /\ worker'[i] = w /\ \A j \in RemoteIds : worker'[j].result # NoResult => Done(j)'
          /\ \A d \in Callers : reply[d] # NoReply =>
               /\ reply[d].id = i /\ reply[d].state \notin TERMINAL_STATES
               /\ reply[d].result = NoResult
      BY <1>1, <1>3, <2>2, <2>3, EndsStep
    <2>5. /\ o \in Observation /\ o.id = i /\ o.state = worker'[i].state
          /\ o.result = worker'[i].result /\ o.state \in TERMINAL_STATES
      BY <2>1, <2>2, <2>4 DEF Observation, RemoteStates, Supported, TERMINAL_STATES
    <2> HIDE DEF o
    <2>6. /\ reply' \in [Callers -> {NoReply} \cup Observation]
          /\ reply'[c] = o /\ \A d \in Callers : d # c => reply'[d] = reply[d]
      BY <1>1, <2>5, ReplyFacts
    <2>7. ASSUME NEW d \in Callers, reply'[d] # NoReply
          PROVE  /\ calls[d].pc \in Rpcs /\ reply'[d].id \in Made
                 /\ IF reply'[d].state \in TERMINAL_STATES
                      THEN /\ reply'[d].state = worker'[reply'[d].id].state
                           /\ reply'[d].result = worker'[reply'[d].id].result
                      ELSE reply'[d].state \in Supported /\ reply'[d].result = NoResult
      BY <1>1, <2>4, <2>5, <2>6, <2>7, ReplyFacts
    <2>8. WorkerInv'
      BY <1>1, <2>4, <2>7 DEF WorkerInv
    <2>9. ServiceTypeOK'
      BY <1>1, <2>4, <2>6 DEF ServiceInv, ServiceTypeOK, TypeOK
    <2> QED
      BY <2>4, <2>8, <2>9 DEF ServiceIInv, Record
  <1> QED
    BY <1>2, <1>3

-----------------------------------------------------------------------------
(* The inductive invariant                                                 *)

LEMMA ServiceInvInit == ServiceInit => ServiceInv
  <1> SUFFICES ASSUME ServiceInit
               PROVE  ServiceInv
    OBVIOUS
  <1>1. TypeOK /\ IInv
    BY InitType, InitInv DEF ServiceInit
  <1>2. Made = {} /\ ServiceTypeOK
    BY <1>1 DEF ServiceInit, ServiceTypeOK, Made
  <1>3. OneRemoteTask /\ WorkerInv
    BY <1>2 DEF ServiceInit, OneRemoteTask, WorkerInv, NoTask, Made
  <1>4. Record
    BY <1>2
    DEF ServiceInit, Init, FreshRecord, Record, HonestWorkerIsConsistent,
        OutcomeIsTheWorkers
  <1> QED
    BY <1>1, <1>2, <1>3, <1>4 DEF ServiceInv, ServiceIInv, Record

\* A coordinator's step is one of A2ADispatch, or takes an answer of the worker.
LEMMA DispatchKeeps ==
  ASSUME ServiceInv, ServiceNext
  PROVE  TypeOK' /\ IInv'
  <1>1. TypeOK /\ IInv
    BY DEF ServiceInv, ServiceTypeOK
  <1>2. ASSUME NEW c \in Callers, Deliver(c)
        PROVE  TypeOK' /\ IInv'
    <2>1. reply[c] \in Observation /\ Receive(c, reply[c])
      BY <1>2, ReplyFacts DEF Deliver
    <2>2. task' \in TaskRecord /\ calls' \in [Callers -> Call]
      BY <1>1, <2>1, ReceiveType
    <2>3. TypeOK'
      BY <1>1, <2>1, <2>2 DEF TypeOK, Receive
    <2> QED
      BY <1>1, <2>1, <2>3, ReceiveInv
  <1>3. CASE [Next]_vars
    BY <1>1, <1>3, NextType, NextInv
  <1>4. ASSUME NEW i \in RemoteIds, Accept(i) \/ Finish(i)
        PROVE  UNCHANGED vars
    BY <1>4 DEF Accept, Finish
  <1>5. ASSUME NEW c \in Callers, Serve(c) \/ ServeCancel(c)
        PROVE  UNCHANGED vars
    BY <1>5 DEF Serve, ServeCancel
  <1>6. ASSUME NEW c \in Callers, Send(c) \/ Fail(c) \/ Die(c) \/ Poll(c) \/ Local(c)
        PROVE  Next
    BY <1>6 DEF Send, Fail, Die, Poll, Local, Next
  <1>7. TimePasses => Next
    BY DEF TimePasses, Next
  <1> QED
    BY <1>2, <1>3, <1>4, <1>5, <1>6, <1>7 DEF ServiceNext

LEMMA ServiceInvNext ==
  ASSUME ServiceInv, [ServiceNext]_serviceVars
  PROVE  ServiceInv'
  <1>1. CASE UNCHANGED serviceVars
    BY <1>1
    DEF serviceVars, ServiceInv, ServiceTypeOK, TypeOK, IInv, DispatchInv, LeaseInv, FlagInv,
        OutcomeWasReported, Exists, Terminal, ServiceIInv, OneRemoteTask, WorkerInv, Made,
        Done, HonestWorkerIsConsistent, OutcomeIsTheWorkers
  <1>2. CASE ServiceNext
    <2>1. TypeOK' /\ IInv'
      BY <1>2, DispatchKeeps
    <2>2. ASSUME NEW i \in RemoteIds, Accept(i) \/ Finish(i)
          PROVE  ServiceIInv' /\ ServiceTypeOK'
      BY <2>2, AcceptStep, FinishStep
    <2>3. ASSUME NEW c \in Callers, Serve(c) \/ ServeCancel(c)
          PROVE  ServiceIInv' /\ ServiceTypeOK'
      BY <2>3, ServeStep, ServeCancelStep
    <2>4. ASSUME NEW c \in Callers, Send(c) \/ Deliver(c) \/ Fail(c) \/ Die(c) \/ Poll(c)
                                   \/ Local(c)
          PROVE  ServiceIInv' /\ ServiceTypeOK'
      <3>1. Around' /\ Record' /\ reply' \in [Callers -> {NoReply} \cup Observation]
        BY <2>4, SendStep, DeliverStep, FailStep, PollStep, LocalStep
      <3>2. worker' = worker /\ net' \in Nat
        BY <2>4, <3>1 DEF Send, Deliver, Fail, Die, Poll, Local, Around, OneRemoteTask
      <3>3. ServiceTypeOK'
        BY <2>1, <3>1, <3>2 DEF ServiceInv, ServiceTypeOK
      <3> QED
        BY <3>1, <3>3 DEF ServiceIInv, Around, Record
    <2>5. ASSUME TimePasses
          PROVE  ServiceIInv' /\ ServiceTypeOK'
      <3>1. Around' /\ Record' /\ reply' \in [Callers -> {NoReply} \cup Observation]
        BY <2>5, ExpireStep
      <3>2. worker' = worker /\ net' = net
        BY <2>5 DEF TimePasses
      <3>3. ServiceTypeOK'
        BY <2>1, <3>1, <3>2 DEF ServiceInv, ServiceTypeOK
      <3> QED
        BY <3>1, <3>3 DEF ServiceIInv, Around, Record
    <2>6. ServiceIInv' /\ ServiceTypeOK'
      BY <1>2, <2>2, <2>3, <2>4, <2>5 DEF ServiceNext
    <2> QED
      BY <2>1, <2>6 DEF ServiceInv
  <1> QED
    BY <1>1, <1>2

\* The coordinators, the worker and the answers under way agree on one remote
\* task, and every variable has its type.
THEOREM ServiceInvariance == ServiceSpec => [](ServiceTypeOK /\ ServiceIInv)
  <1>1. ServiceInv => ServiceTypeOK /\ ServiceIInv
    BY DEF ServiceInv
  <1> QED
    BY <1>1, ServiceInvInit, ServiceInvNext, PTL DEF ServiceSpec

\* _apply_observation: no order of late, lost and overtaken answers makes the
\* coordinators flag a worker that behaved as inconsistent.
THEOREM NeverAccused == ServiceSpec => []HonestWorkerIsConsistent
  <1>1. ServiceIInv => HonestWorkerIsConsistent
    BY DEF ServiceIInv
  <1> QED
    BY <1>1, ServiceInvariance, PTL

\* transition_remote_event: the recorded outcome is the final state of the remote
\* task, with its result when that is fit.
THEOREM RecordsTheWorker == ServiceSpec => []OutcomeIsTheWorkers
  <1>1. ServiceIInv => OutcomeIsTheWorkers
    BY DEF ServiceIInv
  <1> QED
    BY <1>1, ServiceInvariance, PTL

\* begin_dispatch: the worker makes one remote task at most, so the lookup of a
\* recovery is never answered with several.
THEOREM MadeOnce == ServiceSpec => [](\A i, j \in Made : i = j)
  <1>1. ServiceIInv => \A i, j \in Made : i = j
    BY DEF ServiceIInv, OneRemoteTask
  <1> QED
    BY <1>1, ServiceInvariance, PTL
=============================================================================
