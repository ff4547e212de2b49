------------------------------ MODULE A2AOutcome ------------------------------
(***************************************************************************)
(* What the coordination of one work item amounts to, seen from outside:   *)
(* the item is sent at most once, the worker's terminal reports come in    *)
(* any number and order, and the task keeps the first verdict it takes     *)
(* from them.  Only a task that was never sent is cancelled without the    *)
(* worker's word.                                                          *)
(***************************************************************************)
EXTENDS Naturals

CONSTANTS
  Reports,  \* the terminal reports a worker can make
  Verdict   \* the outcome each report stands for

VARIABLES
  sent,     \* how often the work item was sent
  reports,  \* the reports that came in
  outcome   \* "open", or the outcome of the task

Init ==
  /\ sent = 0
  /\ reports = {}
  /\ outcome = "open"

Send ==
  /\ sent = 0
  /\ outcome = "open"
  /\ sent' = 1
  /\ UNCHANGED <<reports, outcome>>

CancelUnsent ==
  /\ sent = 0
  /\ outcome = "open"
  /\ outcome' = "cancelled"
  /\ UNCHANGED <<sent, reports>>

\* A report may also be set aside: it does not identify the task.
Report(o) ==
  /\ sent = 1
  /\ reports' = reports \cup {o}
  /\ \/ outcome' = outcome
     \/ outcome = "open" /\ outcome' = Verdict[o]
  /\ UNCHANGED sent

Next ==
  \/ Send
  \/ CancelUnsent
  \/ \E o \in Reports : Report(o)

Spec == Init /\ [][Next]_<<sent, reports, outcome>>
=============================================================================
