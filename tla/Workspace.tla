------------------------------- MODULE Workspace -------------------------------
(***************************************************************************)
(* The components that write a workspace or a registry or run a tool in    *)
(* one: the promotion of a domain; and, each in its own instance, a domain *)
(* session, the publication of artifacts, the ledger of a run, and one     *)
(* sandboxed execution.  They share no state, so a behaviour follows one   *)
(* of them; which one is chosen at the start.                              *)
(***************************************************************************)
EXTENDS Promotion

CONSTANTS
  Clients, Candidates, None, Foreign, MaxRevisions,  \* of DomainSession
  Stagers, NameCount, Free,                          \* of ArtifactPublication
  States, MaxRecords,                                \* of RunLedger
  MaxOutput, MaxWritten,                             \* of SandboxExecutor
  MaxTampers                                         \* of the session and the ledger

ASSUME WorkspaceAssumption ==
  /\ MaxRevisions \in Nat \ {0} /\ NameCount \in Nat /\ MaxRecords \in Nat
  /\ MaxOutput \in Nat /\ MaxWritten \in Nat /\ MaxTampers \in Nat
  /\ None \notin Clients \cup Candidates \cup {Foreign}
  /\ Free \notin Stagers

VARIABLES
  part,
  last, torn, file, expired, appending, clients, present, tampers, deaths,
  owner, publishing,
  directory, listed, sequence, manifest, committed, step, disturbed, digests, changes,
  pc, tool, open, pipe, written, chunks, late, flags, limited, attached, cgroup, status

Session == INSTANCE DomainSession WITH
  lock <- appending, calls <- clients, crashes <- deaths

Artifacts == INSTANCE ArtifactPublication WITH
  Publishers <- Stagers, Names <- 1 .. NameCount, calls <- publishing

Ledger == INSTANCE RunLedger WITH tampers <- changes

Sandbox == INSTANCE SandboxExecutor

Parts == {"promotion", "session", "artifacts", "ledger", "sandbox"}

sessionVars ==
  <<last, torn, file, expired, appending, clients, present, tampers, deaths>>
artifactVars == <<owner, publishing>>
ledgerVars ==
  <<directory, listed, sequence, manifest, committed, step, disturbed, digests, changes>>
sandboxVars ==
  <<pc, tool, open, pipe, written, chunks, late, flags, limited, attached, cgroup, status>>
workspaceVars == <<part, vars, sessionVars, artifactVars, ledgerVars, sandboxVars>>

WorkspaceInit ==
  /\ part \in Parts
  /\ Init /\ Session!Init /\ Artifacts!Init /\ Ledger!Init /\ Sandbox!Init
  /\ part # "session" => last.status = "READY"   \* one value where it does not run

WorkspaceNext ==
  /\ UNCHANGED part
  /\ IF part = "promotion" THEN Next ELSE UNCHANGED vars
  /\ IF part = "session" THEN Session!Next ELSE UNCHANGED sessionVars
  /\ IF part = "artifacts" THEN Artifacts!Next ELSE UNCHANGED artifactVars
  /\ IF part = "ledger" THEN Ledger!Next ELSE UNCHANGED ledgerVars
  /\ IF part = "sandbox" THEN Sandbox!Next ELSE UNCHANGED sandboxVars

\* The fairness of SandboxExecutor and of Promotion, when it is the one that runs.
Fairness ==
  /\ \A p \in Publishers : WF_vars(part = "promotion" /\ Step(p))
  /\ \A r \in Requests : SF_vars(part = "promotion" /\ Retried(r))
  /\ WF_sandboxVars(part = "sandbox" /\ Sandbox!Execute)
  /\ WF_sandboxVars(part = "sandbox" /\ Sandbox!DeadlinePasses)
  /\ WF_sandboxVars(part = "sandbox" /\ Sandbox!DieOfSignal)

WorkspaceSpec == WorkspaceInit /\ [][WorkspaceNext]_workspaceVars /\ Fairness

\* A prepared candidate never changes, whoever retries its finalisation.
CandidateIsFrozen == Session!CandidateIsFrozen

\* A session that is final had its candidate published.
FinalizedWasPublished == Session!FinalizedWasPublished

\* A publication puts all of its files in place or, unless it dies, none.
AllOrNothing == Artifacts!AllOrNothing

\* A published manifest passes the validation of its consumers, unless a file was
\* changed between the look commit took and its link.
CommittedIsValid == Ledger!CommittedIsValid

\* A finished execution was contained: no process outlives it, and COMPLETED is
\* said only of one that its policy held for.
FinishedIsContained == Sandbox!NothingSurvives /\ Sandbox!CompletedWasEnforced

\* The deadline bounds every execution.
ExecutionEnds == Sandbox!ExecutionEnds

=============================================================================
