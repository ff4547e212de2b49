------------------------------ MODULE A2AService ------------------------------
(***************************************************************************)
(* The coordinators of A2ADispatch with a worker that keeps its word: it   *)
(* makes one remote task of each submission that reaches it, answers with  *)
(* the task as it stands, and never leaves a terminal state.  The worker   *)
(* and the network are external; they are modelled from how                *)
(* OfficialA2AWorkerClient and the coordinator use them: a submission may  *)
(* arrive late or never, a reply may be lost, and a reply is a snapshot    *)
(* that other calls can overtake.                                          *)
(***************************************************************************)
EXTENDS A2ADispatch

CONSTANT
  AnswersLateCancel  \* the worker answers the cancellation of a finished task
                     \* with that task; otherwise it refuses it

VARIABLES
  worker,   \* remote tasks: identity -> state and result
  net,      \* submissions under way to the worker
  reply     \* reply[c]: the answer under way to call c, if any

serviceVars == <<task, lease, calls, attempts, heard, lapsed, worker, net, reply>>

NoTask  == [state |-> "none", result |-> NoResult]
NoReply == [id |-> NoId, state |-> "none", result |-> NoResult]

Made == {i \in RemoteIds : worker[i] # NoTask}

Done(i) == worker[i].state \in TERMINAL_STATES

ServiceTypeOK ==
  /\ TypeOK
  /\ worker \in [RemoteIds -> {NoTask} \cup
                   [state : Supported, result : Results \cup {NoResult, Unfit}]]
  /\ net \in Nat
  /\ reply \in [Callers -> {NoReply} \cup Observation]

ServiceInit ==
  /\ Init
  /\ worker = [i \in RemoteIds |-> NoTask]
  /\ net = 0
  /\ reply = [c \in Callers |-> NoReply]

-----------------------------------------------------------------------------
(* The worker                                                              *)

Accept(i) ==
  /\ net > 0
  /\ i \notin Made
  /\ net' = net - 1
  /\ worker' = [worker EXCEPT ![i] = [state |-> "working", result |-> NoResult]]
  /\ UNCHANGED <<vars, reply>>

Finish(i) ==
  /\ worker[i].state = "working"
  /\ \/ \E r \in Results \cup {Unfit} :
          worker' = [worker EXCEPT ![i] = [state |-> "completed", result |-> r]]
     \/ worker' = [worker EXCEPT ![i] = [state |-> "failed", result |-> NoResult]]
  /\ UNCHANGED <<vars, net, reply>>

Answer(c, i, w) ==
  reply' = [reply EXCEPT ![c] = [id |-> i, state |-> w[i].state,
                                 result |-> w[i].result]]

\* The worker answers submit, get, or the lookup by context; a lookup that
\* finds no task, or more than one, has no answer here: it fails.
Serve(c) ==
  /\ calls[c].pc \in {"submit", "get", "reconcile"}
  /\ reply[c] = NoReply
  /\ \E i \in Made :
       /\ calls[c].pc = "get" => i = calls[c].id
       /\ calls[c].pc = "reconcile" => Made = {i}
       /\ Answer(c, i, worker)
  /\ UNCHANGED <<vars, worker, net>>

\* CancelTask ends an unfinished task; of a finished one it answers or refuses.
ServeCancel(c) ==
  /\ calls[c].pc = "cancel"
  /\ reply[c] = NoReply
  /\ LET i == calls[c].id IN
     /\ i \in Made
     /\ Done(i) => AnswersLateCancel
     /\ worker' = IF Done(i) THEN worker
                  ELSE [worker EXCEPT ![i].state = "cancelled"]
     /\ Answer(c, i, worker')
  /\ UNCHANGED <<vars, net>>

-----------------------------------------------------------------------------
(* The coordinators' steps, with what they do to the messages              *)

Quiet(c) == reply' = [reply EXCEPT ![c] = NoReply]

Send(c) ==
  /\ BeginDispatch(c)
  /\ net' = net + 1
  /\ UNCHANGED <<worker, reply>>

Deliver(c) ==
  /\ reply[c] # NoReply
  /\ Receive(c, reply[c])
  /\ Quiet(c)
  /\ UNCHANGED <<worker, net>>

Fail(c) ==
  /\ RpcFails(c)
  /\ Quiet(c)
  /\ UNCHANGED <<worker, net>>

Die(c) ==
  /\ Crash(c)
  /\ Quiet(c)
  /\ UNCHANGED <<worker, net>>

Poll(c) ==
  /\ ClaimReconciliation(c) \/ Refresh(c)
  /\ UNCHANGED <<worker, net, reply>>

Local(c) ==
  /\ Submit(c) \/ DispatchRefused(c) \/ RenewLease(c) \/ Cancel(c)
  /\ UNCHANGED <<worker, net, reply>>

TimePasses ==
  /\ ExpireLease
  /\ UNCHANGED <<worker, net, reply>>

ServiceNext ==
  \/ TimePasses
  \/ \E i \in RemoteIds : Accept(i) \/ Finish(i)
  \/ \E c \in Callers :
       \/ Serve(c) \/ ServeCancel(c) \/ Send(c) \/ Deliver(c)
       \/ Fail(c) \/ Die(c) \/ Poll(c) \/ Local(c)

\* What is assumed of the environment: somebody keeps calling get, time
\* passes, every RPC ends (the client has a timeout), and a reply gets through
\* sooner or later.  Nothing makes the worker finish: it may work for ever, and
\* then only a cancellation that reaches it ends the task.
Fairness ==
  /\ WF_serviceVars(TimePasses)
  /\ \A c \in Callers :
       /\ SF_serviceVars(Poll(c))
       /\ SF_serviceVars(Serve(c) \/ ServeCancel(c))
       /\ SF_serviceVars(Deliver(c))
       /\ WF_serviceVars(Deliver(c) \/ Fail(c))

ServiceSpec == ServiceInit /\ [][ServiceNext]_serviceVars /\ Fairness

-----------------------------------------------------------------------------
(* What the coordinator promises when the worker keeps its word            *)

\* No interleaving of late, lost and overtaken replies makes the coordinator
\* accuse a worker that behaved of contradicting itself.
HonestWorkerIsConsistent == task.coordination_status = "consistent"

\* A recorded outcome is the final state of the remote task, with its result
\* when that is fit: the record never ends before the worker does.
OutcomeIsTheWorkers ==
  Terminal(task) /\ attempts > 0 =>
    LET w == worker[task.remote_task_id] IN
    /\ task.remote_task_id \in Made
    /\ task.remote_state = w.state
    /\ IF w.result = Unfit
         THEN task.state = "failed" /\ task.worker_result = NoResult
         ELSE task.state = w.state /\ task.worker_result = w.result

\* Once the worker has finished, the record reaches an outcome, and with it
\* the reservation is released: across lost replies, dead dispatchers, lease
\* takeovers and cancellations, as long as get keeps being called.
FinishedWorkIsRecorded ==
  (\E i \in RemoteIds : Done(i)) ~> Terminal(task)

\* A recorded cancellation is forwarded to a worker that has the task, and gets
\* its answer, whatever RPCs were under way when it was recorded, whether the
\* identity was known, and however many forwards are lost: nothing else ends a
\* task on which the worker goes on for ever.
CancellationSettles ==
  (task.cancel_requested /\ Made # {}) ~> Terminal(task)

\* The work item is sent once, so at most one remote task is made of it.
OneRemoteTask ==
  /\ net \in {0, 1}
  /\ net = 1 => attempts = 1 /\ Made = {}
  /\ attempts = 0 => Made = {}
  /\ \A i, j \in Made : i = j

\* A remote task, and an answer that is under way: it may have been overtaken
\* unless it is final.
WorkerInv ==
  /\ \A i \in RemoteIds : worker[i].result # NoResult => Done(i)
  /\ \A c \in Callers : reply[c] # NoReply =>
       LET o == reply[c] IN
       /\ calls[c].pc \in Rpcs
       /\ o.id \in Made
       /\ IF o.state \in TERMINAL_STATES
            THEN o.state = worker[o.id].state /\ o.result = worker[o.id].result
            ELSE o.state \in Supported /\ o.result = NoResult

\* The inductive invariant, with ServiceTypeOK and that of A2ADispatch: the task
\* is bound to the remote task or to none, and has no result before its outcome.
ServiceIInv ==
  /\ OneRemoteTask
  /\ WorkerInv
  /\ task.remote_task_id \in Made \cup {NoId}
  /\ ~ Terminal(task) => task.worker_result = NoResult
  /\ HonestWorkerIsConsistent
  /\ OutcomeIsTheWorkers
=============================================================================
