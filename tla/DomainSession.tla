---------------------------- MODULE DomainSession -----------------------------
(***************************************************************************)
(* An elicitation session: its append-only revisions, the clients that     *)
(* answer and finalise it, and the candidate it publishes in a workspace   *)
(* other people write.  Source: pipeline/workflow_sessions.py and          *)
(* pipeline/domain_sessions.py.                                            *)
(*                                                                         *)
(* A call holds the session's lock from its load to its return, and loses  *)
(* it only by dying.  Every revision copies the previous one, so the model *)
(* keeps the last; a torn file after it makes the whole history invalid.   *)
(***************************************************************************)
EXTENDS Naturals

CONSTANTS
  Clients,
  Candidates,   \* what the compiler may make of one set of answers
  None,         \* no candidate, no file, nobody
  Foreign,      \* bytes somebody else wrote
  MaxRevisions, \* MAX_REVISIONS
  MaxTampers,   \* bound: changes of the published file by others
  MaxCrashes    \* bound: calls that die

VARIABLES
  last,      \* the record of the last whole revision
  torn,      \* the next revision's file was created and not filled
  file,      \* the candidate's file under the output root
  expired,
  lock,
  calls,     \* where each client's call is, and the revision the client expects
  present,   \* history: contents the file ever had
  tampers, crashes

vars == <<last, torn, file, expired, lock, calls, present, tampers, crashes>>

Statuses == {"CLARIFYING", "READY", "PREPARED", "FINALIZED"}

Record ==
  [revision : 0 .. MaxRevisions - 1, status : Statuses,
   base : 0 .. MaxRevisions - 1, candidate : Candidates \cup {None}]

Call ==
  [pc : {"idle", "compile", "append", "fill", "publish", "finish"},
   expects : 0 .. MaxRevisions - 1, next : Record \cup {None}]

Init ==
  /\ last \in [revision : {0}, status : {"CLARIFYING", "READY"}, base : {0},
               candidate : {None}]
  /\ torn = FALSE /\ file = None /\ expired = FALSE /\ lock = None
  /\ calls = [c \in Clients |-> [pc |-> "idle", expects |-> 0, next |-> None]]
  /\ present = {} /\ tampers = 0 /\ crashes = 0

-----------------------------------------------------------------------------
\* load: the history is whole and the session has not expired.
Loads == lock = None /\ ~torn /\ ~expired

Return(c) ==
  /\ calls' = [calls EXCEPT ![c] = [@ EXCEPT !.pc = "idle", !.next = None]]
  /\ lock' = None

Continue(c, pc) ==
  /\ calls' = [calls EXCEPT ![c].pc = pc]
  /\ UNCHANGED lock

\* append, up to _write_once: the revision limit ends the call.
Append(c, record) ==
  IF last.revision + 1 >= MaxRevisions
    THEN Return(c)
    ELSE /\ calls' = [calls EXCEPT ![c] = [@ EXCEPT !.pc = "append", !.next = record]]
         /\ lock' = c

\* get
Get(c) ==
  /\ calls[c].pc = "idle" /\ Loads
  /\ calls' = [calls EXCEPT ![c].expects = last.revision]
  /\ UNCHANGED <<last, torn, file, expired, lock, present, tampers, crashes>>

\* continue_session: once every required question has an answer, it stays so.
Answer(c, status) ==
  /\ calls[c].pc = "idle" /\ Loads
  /\ calls[c].expects = last.revision
  /\ last.status \in {"CLARIFYING", "READY"}
  /\ last.status = "READY" => status = "READY"
  /\ Append(c, [last EXCEPT !.revision = @ + 1, !.status = status])
  /\ UNCHANGED <<last, torn, file, expired, present, tampers, crashes>>

\* Mutant: whatever is not final yet is compiled.
FinalizeAgain(c) ==
  /\ calls[c].pc = "idle" /\ Loads
  /\ calls[c].expects \in {last.revision, last.base}
  /\ last.status # "CLARIFYING"
  /\ calls' = [calls EXCEPT ![c].pc =
       IF last.status = "FINALIZED" THEN "publish" ELSE "compile"]
  /\ lock' = c
  /\ UNCHANGED <<last, torn, file, expired, present, tampers, crashes>>

\* finalize: a retry may name the revision it started from.
Finalize(c) ==
  /\ calls[c].pc = "idle" /\ Loads
  /\ \/ /\ last.status = "READY" /\ calls[c].expects = last.revision
        /\ calls' = [calls EXCEPT ![c].pc = "compile"]
     \/ /\ last.status \in {"PREPARED", "FINALIZED"}
        /\ calls[c].expects \in {last.revision, last.base}
        /\ calls' = [calls EXCEPT ![c].pc = "publish"]
  /\ lock' = c
  /\ UNCHANGED <<last, torn, file, expired, present, tampers, crashes>>

\* compile_domain_spec_v2: a provider answers, or fails.
Compile(c) ==
  /\ calls[c].pc = "compile"
  /\ \/ \E candidate \in Candidates :
          Append(c, [revision |-> last.revision + 1, status |-> "PREPARED",
                     base |-> calls[c].expects, candidate |-> candidate])
     \/ Return(c)
  /\ UNCHANGED <<last, torn, file, expired, present, tampers, crashes>>

\* _write_once: the name first, then the bytes.
CreateRevision(c) ==
  /\ calls[c].pc = "append"
  /\ torn' = TRUE
  /\ Continue(c, "fill")
  /\ UNCHANGED <<last, file, expired, present, tampers, crashes>>

\* Mutant: what is prepared is recorded as final before it is published.
FillThenFinish(c) ==
  /\ calls[c].pc = "fill"
  /\ torn' = FALSE /\ last' = calls[c].next
  /\ IF last'.status = "PREPARED" THEN Continue(c, "finish") ELSE Return(c)
  /\ UNCHANGED <<file, expired, present, tampers, crashes>>

FillRevision(c) ==
  /\ calls[c].pc = "fill"
  /\ torn' = FALSE /\ last' = calls[c].next
  /\ IF last'.status = "PREPARED" THEN Continue(c, "publish") ELSE Return(c)
  /\ UNCHANGED <<file, expired, present, tampers, crashes>>

\* publish_new_artifacts links one file, which replaces nothing.
Publish(c) ==
  /\ calls[c].pc = "publish"
  /\ IF file = last.candidate
       THEN /\ UNCHANGED <<file, present>>
            /\ IF last.status = "FINALIZED" THEN Return(c) ELSE Continue(c, "finish")
     ELSE IF file = None /\ last.status = "PREPARED"
       THEN /\ file' = last.candidate /\ present' = present \cup {file'}
            /\ Continue(c, "finish")
     ELSE Return(c) /\ UNCHANGED <<file, present>>
  /\ UNCHANGED <<last, torn, expired, tampers, crashes>>

Finish(c) ==
  /\ calls[c].pc = "finish"
  /\ Append(c, [last EXCEPT !.revision = @ + 1, !.status = "FINALIZED"])
  /\ UNCHANGED <<last, torn, file, expired, present, tampers, crashes>>

\* Somebody else deletes, writes or restores the file in the workspace.
Tamper ==
  /\ tampers < MaxTampers /\ tampers' = tampers + 1
  /\ file' \in (Candidates \cup {None, Foreign}) \ {file}
  /\ present' = present \cup ({file'} \ {None})
  /\ UNCHANGED <<last, torn, expired, lock, calls, crashes>>

Expire ==
  /\ ~expired /\ expired' = TRUE
  /\ UNCHANGED <<last, torn, file, lock, calls, present, tampers, crashes>>

Die(c) ==
  /\ calls[c].pc # "idle"
  /\ crashes < MaxCrashes /\ crashes' = crashes + 1
  /\ Return(c)
  /\ UNCHANGED <<last, torn, file, expired, present, tampers>>

Next ==
  \/ Tamper \/ Expire
  \/ \E c \in Clients :
       \/ Get(c) \/ Finalize(c) \/ Compile(c) \/ CreateRevision(c) \/ FillRevision(c)
       \/ Publish(c) \/ Finish(c) \/ Die(c)
       \/ \E status \in {"CLARIFYING", "READY"} : Answer(c, status)

Spec == Init /\ [][Next]_vars

-----------------------------------------------------------------------------
(* Properties                                                              *)

\* Every variable keeps its shape.
TypeOK ==
  /\ last \in Record
  /\ torn \in BOOLEAN /\ expired \in BOOLEAN
  /\ file \in Candidates \cup {None, Foreign}
  /\ lock \in Clients \cup {None}
  /\ calls \in [Clients -> Call]
  /\ present \subseteq Candidates \cup {Foreign}
  /\ tampers \in 0 .. MaxTampers /\ crashes \in 0 .. MaxCrashes

\* finalize "reuses the captured bytes rather than calling the provider again":
\* whoever retries after whatever failure, a prepared candidate and the
\* revision it was made from never change.
CandidateIsFrozen ==
  [][last.candidate # None =>
       last'.candidate = last.candidate /\ last'.base = last.base]_vars

\* finalize: a session that says FINALIZED had its candidate published, also
\* when a call died or ran out of revisions between the two.
FinalizedWasPublished == last.status = "FINALIZED" => last.candidate \in present

\* A revision that follows the last one: a candidate comes with PREPARED and
\* goes with nothing, and FINALIZED follows its publication.
Follows(record) ==
  /\ record \in Record
  /\ record.candidate # None <=> record.status \in {"PREPARED", "FINALIZED"}
  /\ last.candidate # None =>
       record.candidate = last.candidate /\ record.base = last.base
  /\ record.status = "FINALIZED" =>
       last.candidate # None /\ last.candidate \in present

\* What the call that holds the lock knows, by how far it is.
CallInv(c) ==
  /\ calls[c].pc # "idle" <=> lock = c
  /\ calls[c].pc = "compile" => last.candidate = None
  /\ calls[c].pc \in {"append", "fill"} => Follows(calls[c].next)
  /\ calls[c].pc = "publish" => last.candidate # None
  /\ calls[c].pc = "finish" => last.candidate # None /\ last.candidate \in present

\* The inductive invariant: with TypeOK it implies the invariant above.
IInv ==
  /\ last.candidate # None <=> last.status \in {"PREPARED", "FINALIZED"}
  /\ file # None => file \in present
  /\ \A c \in Clients : CallInv(c)
  /\ FinalizedWasPublished

=============================================================================
