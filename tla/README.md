# Formal models of FormalSpecGen

FormalSpecGen turns requirements into contracts, code and evidence. Around its
translators lie two kinds of logic that tests hardly reach. One is a layer of services
that keep state over time, are called by several processes at once and survive crashes:
the A2A coordinator, the agentic supervisor, approval and promotion, sessions, the
evidence ledger, the sandbox. The other decides what is claimed: bounded explorers and
checkers, the claim policy, repair loops, the system orchestrator. The modules in this
directory model both, TLC checks them on small instances, and TLAPS proves their safety
for every instance.

All paths are relative to the repository; `tla/` stands beside it.

## The system: components, state, operations, hazards

**A2A coordination** (`pipeline/a2a_coordination.py`, `docs/A2A_COORDINATION.md`).
`TaskStore` keeps, per work item, an append-only hash-chained journal whose last event
holds the task record: local state, dispatch state, attempt, owner, leases, remote
identity, remote state, result, cancellation, and a consistency flag. Every store method
holds one exclusive file lock from load to append. `A2ACoordinator` offers `submit`,
`get`, `cancel` and `artifacts`; each is a sequence of store methods with a remote
procedure call to a worker in between, made with no lock held. Hard: a lost response, a
dead or slow dispatcher, a lease that expires under a live owner, replies in any order,
cancellation at any moment, budgets shared by concurrent submissions, delegation over
several levels, a crash inside an append. Correct means: the work is sent once, the
recorded outcome is what the worker said, contradictions are flagged, nothing recorded is
taken back, every task can still be followed, and ceilings hold for the sum of what is
active.

**Agentic supervisor** (`pipeline/agentic/`, `docs/AGENTIC_SUPERVISOR.md`). The
`AgentRunStore` keeps a run record and a no-replace `review.json`. `start`, `resume` and
`cancel` advance a fixed plan, *inspect* then *verify*: claim an action, run it with no
lock held, record what it said, and at the end build, publish and record a review in
separate steps. Hard: two controllers on one run, death between any two steps,
cancellation during an action or the finalisation. Correct means: the review is final and
is what was published, acceptance rests on work that was done, and every run is reviewed.

**Approval and signing** (`approval_service.py`, `protected_signer.py`). Request, human
decision, its signature, artifact signature and receipt are write-once files of one
request directory; `execute` holds a lock, the recording of a decision does not, and the
signer is a process of its own that outlives a killed caller. A decision becomes visible
when GPG writes its signature, before its recorder knows how GPG ended, and a recorder
whose GPG failed removes both files. Correct means: a signature exists only for the bytes
the request binds and the reviewer approved, a receipt tells the truth, a decision stands
once its recorder is done, and a request never stays locked.

**Domain promotion** (`domain_promotion_approval.py`, `domain_v2_publication.py`,
`domain_v2_promotion.py`). A publisher replaces a registry file under one lock: intent,
optional signature, rename, receipt. Correct means: the destination is a register that
changes once per approved request, from the content its reviewer saw, and what a dead
publisher left a retry finishes.

**Sessions** (`workflow_sessions.py`, `domain_sessions.py`). Revision-checked, bounded,
expiring histories of an elicitation; `finalize` prepares a candidate, publishes it in a
directory others write, and records it.

**Ledger and artifacts** (`lifecycle.py`, `mcp_artifacts.py`, `evidence_consumer.py`).
Evidence chained by digest with a terminal manifest; several files linked into place and
rolled back on failure.

**Strict executor** (`execution.py`). A run in a sandbox and a cgroup, with a deadline
and an output limit; one loop races the tool and decides the status.

**Domain models** (`domain_v2.py`, `domain_v2_model.py`). Typed expressions, guarded
operations, a three-valued static deadlock analysis, an estimate of the state space, and
a breadth-first exploration under three limits, which for guarded domains goes through a
lock protocol phase by phase.

**Checkers over domains** (`equivalence.py`, `distributed.py`). A bisimulation through a
reviewed mapping; safety under lost, duplicated and reordered messages by injected
operations.

**Claims** (`verification_policy.py`). One function decides status and claim of a tool
run from its observations, and is applied again by each layer a payload passes.

**Loops** (`implementation.py`, `polyglot_implementation.py`, `orchestrator.py`,
`strategy.py`, `behavior_correction.py`). Draft, check, repair, a bounded number of
times, with stall detection.

**System orchestrator** (`system_orchestrator.py`). A pool of workers verifies,
refactors or corrects components through files in one directory; then a composition gate.

**Everything else** -- parsers, serializers, renderers, verifier front ends, command
line, MCP request handling, site and examples -- is text to text or input and output.

The components interact through files. MCP tools call the coordinator and the
supervisor; the supervisor calls the admitted `inspect_code` and `verify_code`; approval
and promotion bind artifacts and evidence manifests that the ledger and the artifact
publisher wrote; promotion calls the protected signer; sessions publish through the
artifact publisher; the network checker injects its faults into a domain and evaluates it
as the explorer does; the loops' verdicts pass the claim policy. The supervisor does not
dispatch A2A work (its documentation says so), so those two share no state.

`PROJECT.json` lists each component with its status, and each hazard with its line and
the properties that would catch it.

## Modules

| Module | Models | State | Actions |
| --- | --- | --- | --- |
| `A2AOutcome` | what coordination promises about one item | times sent, reports heard, outcome | `Send`, `CancelUnsent`, `Report` |
| `A2ADispatch` | one task record and the calls on it | `task`, `lease`, `calls`, `attempts` | one per store method or RPC outcome |
| `A2AService` | `A2ADispatch` with a worker and a network | adds `worker`, `net`, `reply` | worker steps, and the coordinator's with their messages |
| `A2AAdmission` | `submit` and `TaskStore.create` over many items | `journal`, `record` | `Submit`, `CrashInAppend`, `End` |
| `AgentRun` | a supervised run and its controllers | `run`, `published`, `calls` | one per step of a call |
| `Approval` | one request, `execute`, its signers, the people who decide | the request's files, `lock`, `calls`, `signers` | one per file operation or process step |
| `DomainRegister` | what a protected registry promises | `value`, `seen`, `applied` | `Prepare`, `Apply` |
| `Promotion` | requests for one destination and their publishers | the files of each request, `destination`, `lock`, `calls` | one per step of `publish_approved` |
| `DomainSession` | one session, its clients, its candidate's file | last revision, `file`, `lock`, `calls` | `continue_session` and `finalize` step by step |
| `ArtifactPublication` | `publish_new_artifacts` in a race | `owner` of each name, `calls` | check, link, undo |
| `RunLedger` | a run's ledger | `directory`, `listed`, `manifest` | link, list, validate, publish the manifest, failures, tampering |
| `SandboxExecutor` | one execution and its tool | `tool`, pipe, deadline, cgroup, `pc` | the loop's branches, the tool, kernel and clock |
| `DomainExpressions` | the recursion over expressions: exact and three-valued evaluation, the fields they mention, their parts | recursive operators only | |
| `DomainMachine` | what is computed from an expression given its operands, effects, static analysis, estimate, validity of a domain | operators only, over any `Evaluate`, `EvaluatePartially`, `FieldsOf`, `PartsOf` | |
| `Machines` | finite machines and what they reach | operators only | |
| `DomainTraversal` | the bounded exploration | `queue`, `discovered`, counters, position of the loops (`state`, `outer`, `inner`) | `Begin`, `Pop`, `TryNone`, `TryEdge`, `OutOfWork`, `Finish` |
| `DomainEquivalence` | `prove_equivalence` | `left`, `right`, `mapping`, `proof` | `ProveEquivalence` |
| `NetworkFaults` | `verify_distributed` with its injected operations | `network`, `faults`, `slots`, `safety`, `seen`, `frontier` | `VerifyDistributed` (one level of the search), `Proved`; an exception is a start |
| `VerificationPolicy` | `decide_result` | a payload and its layers | `Normalize` |
| `RepairLoop` | the three bounded loops and `strategy.decide` | `history`, budgets used, `code`, `claim`, `final` | one per outcome of a call of the model, the stop, a draft's evidence |
| `BehaviorCorrection` | `correct_behavior` | phase, strengthened and corrected source | strengthening, proposal, proof |
| `SystemOrchestration` | the three pools and the gate | `worker`, `files`, `exit`, `verdict` | one per step of a worker |
| `Workspace` | promotion, session, artifacts, ledger and sandbox side by side | theirs, and `part` | theirs |
| `Claims` | policy, loops, correction and orchestrator side by side | theirs, and `part` | theirs |
| `*Proofs` | the proofs: `A2AProofs` (of `A2ADispatch` and `A2AService`), `DomainProofs` (of `DomainTraversal`, `DomainEquivalence` and `NetworkFaults`), and one module each for `A2AAdmission`, `AgentRun`, `Approval`, `Promotion`, `Workspace`, `Claims` | | |
| `MC*` | instances for TLC: `MCDomains` builds domains, `MCTraversal`, `MCEquivalence` and `MCNetwork` are the checkers' inputs, `MCPipeline` runs them beside `Claims` | | |

**How actions are cut.** A method that holds its lock throughout and cannot be observed
half-way is one step. Between two of them a call holds nothing, so it is a process with a
program counter that remembers what it read. An RPC, a workflow or a subprocess is two
steps: the one that starts it and the one that applies its result. A file that is written
under its final name is two steps, created (`Torn`) and filled; one that is linked or
renamed into place appears whole. A crash forgets a call, frees its locks and leaves the
files. Digests and signatures stand for the bytes they identify.

**`A2ADispatch`.** `BeginDispatch` is the only sender; `RenewLease` is the heartbeat;
`ExpireLease` is time passing a deadline; `ClaimReconciliation` and `Refresh` are the two
branches of `get`; `Receive` is `_apply_observation` with the cancellation it may
forward; `RpcFails` is every exception of the client, and a lookup that finds no task.
`TransitionRemoteEvent` is the store's method of that name, branch by branch. Of the
record the model keeps the fields that steer control. Leases are logical: only whether
the deadline has passed matters. The worker is arbitrary: `Receive` takes any reply of
`Replies`.

**`A2AService`.** The worker keeps its word: one remote task per submission that reaches
it, terminal states are kept, replies are snapshots. A submission waits in `net`; a reply
waits in `reply` and may be overtaken or lost. The worker need not finish: it may work on
a task for ever, so that only a cancellation that reaches it ends the task, which is what
`CancellationSettles` rests on. `AnswersLateCancel` chooses what the
worker does with the cancellation of a finished task; A2A 1.0 allows it to refuse.

**`A2AAdmission`.** `Verdict` is `submit` up to the append, with its checks in order.
Paths are abstract with a relation `Beneath`; `ScopeContains` and `Matches` keep the
difference between `_scope_contains` (a tree contains its root) and `fnmatchcase` (it
does not match it). A crash inside the append leaves an empty journal.

**`AgentRun`.** A call goes through `Advance` (one turn of the loop), `Claim`, `Invoke`,
then `Observe` or `GatewayRaises`; `Finalize`, `Publish` and `Settle` are `_finalize`'s
three parts. A review keeps what two reviews can differ in, `by` included: `start`,
`resume` and `cancel` embed different admissions.

**`Approval`.** `Enter` is `execute` up to the authenticated decision, `ValidateBound`
the comparison of the live files, `InvokeSigner` and `SignerReturned` the subprocess. The
signer authorises for itself, captures artifact and evidence, signs its capture and links
the signature. `Edit` changes and restores the live files at any moment. The reviewer and
a person with another key record decisions under no lock. Recording is cut at each thing
others can see: `BeginDecision` and `FillDecision` are `decision.json`, `SignDecision` is
GPG writing `decision.json.sig`, and only then does the recorder learn how GPG ended:
`RecordDecision`, or `AbandonDecision` and `RemoveDecision`, the two unlinks. A GPG whose
recorder died goes on by itself (`orphan`). Since `execute` takes no lock against a
recorder, it may authenticate a decision that `AbandonDecision` then takes back. The
properties are therefore stated with what cannot be taken back, `voted` (the verdicts the
reviewer's key has signed), and with the decision on file only where no authentic one was
`withdrawn`.

**`Promotion`.** The published bytes hold the request's identity, so a request stands for
them. The refinement maps `destination` to the register's value and `request.prior` to
what its reviewer saw; `Replace` is `Apply`, every other step a `Prepare` or a stutter.
A decision can be taken back by its recorder (`WithdrawDecision`) as long as that has not
ended, and a recorder can be arbitrarily slow, so at any time. That only publishers write the registry is the operator's obligation
(`docs/DOMAIN_PROMOTION_APPROVAL.md`).

**`DomainSession`, `ArtifactPublication`, `RunLedger`, `SandboxExecutor`.** Each
revision copies the one before, so the last one stands for the history; a torn file after
it makes the history invalid. Publishers race for the same names; a killed one leaves
what it linked, which `AllOrNothing` therefore excepts. The ledger's caller may go on
after any failure. Its `commit` looks at the files (`ValidateArtifacts`) and links the
manifest in a later step (`PublishManifest`), under no lock: what others change in between
goes unnoticed, which `CommittedIsValid` excepts by the history variable `disturbed`. The sandboxed tool is arbitrary.

**`DomainTraversal`.** The explorer is two nested loops over the state it has popped: for
a plain domain over operations and callers, for a lock protocol over actors and phases.
`outer` and `inner` say where they stand. Each iteration is charged before anything else,
may fail, and may append an edge, so it is a step of its own. The reference for
`VerdictIsExact` is the machine given by its edges (`Explored`), for `LockMakesAtomic` a
machine whose operations are one step each, without phases or lock (`FieldMachine`); both
compare with a least fixed point (`AllReachable`) that knows neither queue nor limits.
How an expression is evaluated is a parameter (`Evaluate`, `EvaluatePartially`,
`FieldsOf`, `PartsOf`): the recursion is out of the prover's reach, so `DomainMachine`
says what the code computes from an expression given the values of its operands, and
`EvaluatedAsWritten` that the parameters obey this on every part of the expressions of a
domain, of which there are finitely many. TLC uses the code's recursion, in
`DomainExpressions`, and checks that it does. Only domains the schema's validators admit
(`ValidSpec`) are explored.

**`DomainEquivalence`, `NetworkFaults`.** The code's checks in its order, against a
definition that does not use them: isomorphism of what the two machines reach; and a
network that loses, copies and exchanges slots by itself, without injected operations.
The search of `verify_distributed` has no check of the bounds of integers;
`VerdictIsTheNetworks` therefore speaks of networks whose exploration is bounded
(`ExplorationIsBounded`), and hazard `distributed.py:74` says what it leaves out. Three
more things are modelled as the code does them and not as its documents say: the
invariants are asked of what steps lead to and never of the initial state, so a proved
network is safe everywhere but, perhaps, there; duplication or reordering with a single
slot injects nothing and is not refused; a Boolean slot has no `bound`, so a fault that
lists its messages raises (`ListsABoolean`) and there is no verdict.

**`VerificationPolicy`.** A payload is a record of the fields the function looks at, each
possibly absent. Its text is reduced to whether it holds a dropped-condition marker.

**`RepairLoop`.** A candidate is what the tools make of it: whether it keeps the trusted
surface before and after the accepted passes, the provers' outcome, and the failing rows
a stall is recognised by. Provider and tools are external. `claim` and `final` are the two
fields of a result that say how it ended. A draft keeps the claim `STATIC_CHECK` of its
`SpecResult` however it ended, so for a draft only `final` tells; `PublishEvidence` is the
commit of its evidence, whose failure changes both. The refinement gate of the polyglot
loop is a choice between its two outcomes.

**`SystemOrchestration`.** A place stands for the path of a component's result; files of
an earlier run may be there, and two components may share one.

**Three modules compose by choice.** `Workspace`, `Claims` and `MCPipeline` put several
components side by side that share no state, and let a behaviour follow one of them,
chosen at the start. Their product would add interleavings of independent steps and no
behaviour of any component. `MCWorkspace` gives `Workspace` its constants. `MCPipeline`
gives `Claims` its constants and adds the explorer, the equivalence checker and the
network checker; `checker` says which of the four runs, the others stay at a start.

## Runs

| Run | Instance | Distinct states | Shows |
| --- | --- | --- | --- |
| `a2a_dispatch` | 3 calls, 2 remote identities, 6 replies | 10 k | all safety of one item under an arbitrary worker; the inductive invariant; `A2AOutcome` is implemented |
| `a2a_service` | 2 coordinators, 2 identities | 29 k | consistency with an honest worker; liveness |
| `a2a_late_cancel` | the same, late cancellation refused | | violation, below |
| `a2a_admission` | 3 items, 3 paths, 2 keys, 2 revisions, 2 workers | 22 k | ceilings, sibling budgets, delegation, idempotence |
| `a2a_retry_after_crash` | the same | | violation, below |
| `agent_run` | 2 controllers, 1 crash | 495 k | the inductive invariant, acceptance, the review, liveness |
| `agent_completed` | 1 controller, 1 crash | | violation, below |
| `approval` | 2 executors, 2 signers, 2 people, 1 edit, 2 crashes | 693 k | what is signed was approved; receipts, decisions, the lock |
| `approval_stopped` | the same | | violation, below |
| `workspace` | promotion, session, artifacts, ledger, sandbox | 486 k | one question of each, see below |
| `pipeline` | explorer, checkers, policy, loops, orchestrator | 551 k | one question of each, see below |
| `equivalence` | machines and mappings alone (`MCEquivalence`) | | violation, below |

`workspace` asks: does a `PROMOTED` receipt mean one approved publication; does a retry
finish what a dead publisher left, and where is it turned away; is the destination a
register; does a prepared candidate
stay what it is, and is a final one published; do racing publishers put all files in
place or none; does a published manifest pass its consumers' validation; does every
execution end with its tool dead, and is `COMPLETED` said only of one its policy held
for.

`pipeline` asks: does the explorer accept exactly the machines that fit its limits and
are safe, with exact counters; does the lock protocol reach exactly what atomic operations
reach; is a proved mapping of
the initial states an isomorphism; is the verdict on a bounded network the network's; does
normalising again never strengthen; is a claim about the source that is delivered; do
the loops stop; is a verified system one of verified components.

**Bounds, and why they are enough.** *Three calls* let a dispatcher, a recoverer and a
canceller overlap; the theorems hold for any number. *Two identities* are one more than a
correct coordinator binds. The *replies* have one of each class the code distinguishes.
*Three items* make a chain of two delegations, and two siblings under one parent.
`MaxFindings` closes the only loop of `AgentRun`; two rounds suffice for it. *Two
executors and two signers* let an orphaned signer meet that of the retry; *one edit*
falls before, between or after any two looks at the live files (the proof covers a file
that is changed back); *two crashes* kill an executor and fail a GPG that has written its
signature; `MaxSignings` 2 gives each signer a signature of its own.
*Two requests* may have the same or each other's destination as prior content; *two
crashes* let the retry die too; one request is voided for one reason (`MaxVoids` 1), which
leaves the other to be retried. The session has five revisions, which both a full history
and a complete finalisation fit in, two clients, two candidates of the compiler and two
changes by strangers. Three publishers of every subset of two names give a loser that has
linked something to undo. Four records with two failures and two changes reach every
order of them. `MaxWritten` 4 over `MaxOutput` 2 overruns the limit in the loop and in
the tail. The explorer sees eight domains, each about one of its branches, every pair of
five operations without and with a lock, under ample limits and under four that lower one
of the three each. The equivalence checker sees every machine of two states
against those of three (whose third state has at most one successor) and every mapping
of up to three pairs between them (one that is a function has two); the network checker 12 domains, every set of faults and six
slot lists (two slots in both orders, one, one declared twice, a Boolean one alone and
beside another);
the policy all payloads of the listed values twice; the loops nine candidates, one good
and one for each way to fail, under four budgets; the orchestrator two components over
two places.

**Type invariants.** Each module has one, and all of them are proved as part of the
inductive invariants' argument (in `ArtifactPublication` and `RunLedger` it is part of
`IInv`). The runs' properties are the ones that say something of the code.

**Deadlock** is not checked: each of these systems may come to rest, when its calls are
idle and its verdict given. That it does not rest too early is what the liveness
properties say.

**Fairness.** `A2AService`: weak for time passing a deadline; strong for somebody polling with `get`, for the worker answering and for
a reply getting through, because each of these is interrupted again and again by crashes
and lost messages; weak for every RPC ending, since the client has a timeout. Nothing is
assumed of `submit`, `cancel`, renewals or crashes, nor that the worker finishes.
`AgentRun`: weak for the steps of a
call under way, none for `start`, `resume`, `cancel` or crashes. `Approval`: weak for the
steps of a call that holds the lock and of a signer that runs -- processes are scheduled,
and GPG ends one way or the other; nobody has to decide, retry or die. `Promotion`: weak
for the steps of a publisher that runs, strong for its being asked again for a request
that is authorised and has no receipt, as the documentation tells the caller to do;
without that nobody owes the receipt of a publisher that died.
`SandboxExecutor`: weak for the supervisor, for the clock and for the kernel's carrying
out of a SIGKILL; the tool owes nothing.

**Mutants.** Each property of a passing run has a mutant in `PROJECT.json`: an operator
with a plausible bug, defined in the module before the operator it stands in for, that
makes TLC find the property violated. They are marked as mutants where they are defined
and nothing else uses them.

## What disagrees with the documentation

Five runs are expected to fail, each on one property that a document states (`findings`
in `PROJECT.json`, with the quotations):

1. `a2a_late_cancel`: once cancellation is requested, `get` only ever sends it again; a
   worker that refuses to cancel a finished task keeps the record pending for ever.
2. `a2a_retry_after_crash`: an interrupted append leaves an empty directory, after which
   no submission is admitted.
3. `agent_completed`: a crash between a negative observation and the finalisation ends
   in `completed` without `request_satisfied`.
4. `approval_stopped`: a stop inside the writing of `receipt.json` leaves a signature for
   which no retry can publish a receipt.
5. `equivalence`: the mapping need not relate the initial states, so machines that differ
   in their first step are proved equivalent.

Further differences met while modelling, of which no run is made:

- `a2a_coordination.py:703`: a malformed reply takes a cancelled task from
  `cancellation_pending` to `dispatch_uncertain` (`docs/A2A_COORDINATION.md:138-140`).
- `a2a_coordination.py:1038`: a budget key the worker does not limit is not in the shared
  ceiling of the authority (`docs/A2A_COORDINATION.md:109-111`).
- `agentic/supervisor.py:155`: `_block` clears the active action before the run is
  blocked; after a crash in between, `resume` runs the verifier a second time (the
  comment at lines 23-25 excludes that).
- `agentic/supervisor.py:95`: a cancellation during a successful verification is recorded
  as cancelled and accepted (`tests/test_agentic_supervisor.py:189`).
- `domain_promotion_approval.py`: after a later promotion of the same destination, asking
  for the receipt of an earlier one ends in `APPROVED_ARTIFACT_CHANGED`
  (`docs/DOMAIN_PROMOTION_APPROVAL.md`, "Retries return the same authenticated receipt");
  and a publisher that died after the rename cannot finish once the approval has expired
  or was revoked, the inputs were edited, a later request has replaced the file, or its
  receipt is torn (lines 87-92 of that document promise the retry, with the expiry only).
- `approval_service.py:611-618`: a recorder whose GPG failed removes `decision.json` and
  its signature even if the signature was in place, when `execute` may have acted on it: an
  artifact signature or a receipt then exists without the decision it rests on.
- `lifecycle.py:136` and `:147`: files changed between the validation and the link of the
  manifest are published in it, although `commit` says "after validating artifacts".
- `schemas.py:70`: a draft that ends in `COMPILE_FAILED`, `TOOL_MISSING` or `API_ERROR`
  is committed (`orchestrator.py:514`) and returned with the claim `STATIC_CHECK`.
- `execution.py:353-354`: what is read after the tool has exited is cut at the limit
  without `output_truncated`.
- `distributed.py`: the initial state's invariants are not checked (README.md:889 says that
  the reviewed invariants hold); one declared slot with duplication is proved, with no
  operation injected, though the docstring (lines 11-14) and README.md:902-903 call it
  refused; a Boolean slot, which the docstring admits, raises in line 48; a domain whose integer grows without a guard is explored without end, as in
  `equivalence.py`.
- `behavior_correction.py:541-572`: a repaired source is proved, but neither compared
  with the strengthened contract nor searched for the forbidden patterns again. The
  verdict rests on the exit code of the tool alone, so that a dropped condition counts as
  proved, while `verification_policy.py:3-6` says that it alone decides claims. Each
  round proves the same strengthened file once more.
- `polyglot_implementation.py` does not compare the trusted surface after the accepted
  passes, as the Java loop does.
- `system_orchestrator.py`: only `verify_system` requires unique names; in the other two
  modes components of the same name share a result file. A subprocess has no time limit.

## Proofs

Every safety and action property of the passing runs is proved for all values of the
constants. The bounds that TLC needs (crashes, edits,
revisions, layers, output) are arbitrary naturals in the proofs. Each proof has the same
shape: an inductive invariant that was first checked with TLC, a lemma per action that
preserves it, and short theorems that draw the properties from it.

| Module | Theorems |
| --- | --- |
| `A2AProofs` | all properties of `a2a_dispatch`, `OneOwner`, `NothingIsUnsaid`, the refinement of `A2AOutcome`; `HonestWorkerIsConsistent`, `OutcomeIsTheWorkers`, at most one remote task |
| `A2AAdmissionProofs` | `CeilingIsShared`, `ChildrenFitParent`, `ResubmissionIsIdempotent`, `DelegationOnlyNarrows` |
| `AgentRunProofs` | the safety and action properties of `agent_run`, `ReviewIsPublished` |
| `ApprovalProofs` | `SignatureIsApproved`, `ReceiptIsTrue`, `DecisionStands` |
| `PromotionProofs` | `ReceiptMeansPublished`, `RetryIsNotRefused`, the refinement of `DomainRegister` |
| `WorkspaceProofs` | `WorkspaceSpec => Spec` of `Promotion`, `FinalizedWasPublished`, `CandidateIsFrozen`, `AllOrNothing`, `CommittedIsValid`, `FinishedIsContained` |
| `ClaimsProofs` | `NeverStrengthened`, `ClaimIsTheCodes`, `LoopStops`, `SystemIsItsComponents` |
| `DomainProofs` | `VerdictIsExact`, `LockMakesAtomic`, `StaticAnalysisIsSound`, `ProvedIsIsomorphism`, `VerdictIsTheNetworks`, and the invariants of the three checkers |

**Assumptions.** Each module names what it assumes of its constants. Most say that a null
value is not data (`Absent` is no file, `NoDomain` no request, `Nobody` no process) and
that a bound is a natural number. Beyond that: `A2ADispatch` takes replies that are
observations; `Approval` a reviewer who is not among the other people; `A2AAdmission` a
finite set of identifiers, inputs of the shapes that the Pydantic models admit, and that
lying beneath a path is transitive; `Claims` payloads of the types the policy reads, and
outcomes that its tools have. `DomainEquivalence` takes finite machines whose successors
are states of theirs, and mappings that are sets of pairs. `DomainTraversal` takes lists
that are lists, at least one actor, bounds that are integers, positive limits
(`domain_v2.py` admits no others), and expressions that are evaluated by recursion over
finitely many parts (`EvaluatedAsWritten`); `NetworkFaults` takes lists, and the same of
the comparisons that the injected operations are guarded by. `DomainMachine` takes an
undecided value that is not a Boolean. TLC evaluates each of them in a run, those about
expressions with the code's recursion of `DomainExpressions`.

**`A2ADispatch`.** `SentAtMostOnce` is not inductive: one has to know that the record can
be claimed for dispatch only while nothing was sent. `DispatchInv` says where the task
stands by whether it was sent, and what a waiting call knows: its attempt is the record's,
its identity the bound one. `LeaseInv` says who holds the live lease as long as none has
lapsed, which gives `OneOwner`. `FlagInv` says that while nothing is flagged, every fit
reply heard is the recorded outcome, which gives `ConflictsAreFlagged`: of two different
ones at most one is recorded. `OutcomeWasReported` is inductive beside these, since a
reply enters `heard` in the step that records it. The action property `NothingIsUnsaid` is
proved of each step from `TypeOK` and `IInv`. For the refinement each step is shown to be
a `Send`, a `CancelUnsent`, a `Report` or a stutter.

**`A2AService`.** The coordinators' part of the argument is not repeated: the lemmas on
`A2ADispatch` hold for any reply, so for those of this worker, and `ServiceIInv`
adds what worker and network mean. Every reply
under way is a snapshot of the one remote task, and a terminal snapshot is its final
state (`WorkerInv`); at most one task was made, because the item is sent at most once and
a submission that waits was sent (`OneRemoteTask`). Then two terminal observations agree
however they overtake each other, so the honest worker is never flagged.

**`A2AAdmission`.** `Justified` says of each stored task which grant, worker and parent
admitted it; the two sums are inductive because `create` checks the sum with the new task
added and `End` only removes terms. The lemmas
about sums (one term more, one less, the same terms) are proved from the definition of the
fold by a smallest counterexample. `DelegationOnlyNarrows`
is about all ancestors and is drawn from `Justified`, which is about the parent, one
generation at a time: containment of scopes is transitive, and so is narrowing except at
the root of a tree, which the property excepts.

**`AgentRun`.** A controller acts on what it read before, so the invariant has to say what
such knowledge is worth (`CallOK`): the action a call is about to claim or to observe is
at most the next of the results recorded (results are only added); a workflow whose
result is awaited was invoked; a review that is about to be published was built from
results that were earned; and a call past `publish_review` built what is in
`review.json`. `RecordInv` says what the record owes: its first result is of the first
workflow, each success is of a workflow that was invoked (`Earned`), and a recorded
review is the published one, of a run that is over and idle. That `published` is never
replaced and results never shrink (`Grows`) keeps the knowledge of every call that does
not move (`OtherCall`). `AcceptedWorkWasDone` needs `Earned`: a satisfied review has two
results, the first of *inspect*, so its successful *verify* can only be the second.

**`Approval`.** The live files change under everybody, and a decision may be taken back, so
nothing lasting can be said of either. The invariant is about what cannot be replaced: the
request, the verdicts the reviewer's key has signed (`voted`), and what follows from them.
`DecisionInv` says that one person at most is recording, that a visible signature is of the
decision on file and of the key that made it, and that only the recorder whose GPG wrote it
can still be at work then; so an authentic decision goes only by that recorder's hand,
which sets `withdrawn`, and once the reviewer's recorder is done by nobody's
(`DecisionStands`, an action property). `SignerInv` says that a signer past its checks holds
the bytes the request binds, under an approval that was voted; a receipt is `Owed` to the
verdict and the signature it cites.

**`Promotion`.** `RegistryInv` says that a request is published at most once, and that the
content it replaced was published before. `CallInv` says what the holder of the lock
knows at each step; a dead publisher leaves an intent that is whole or nothing published.
`RetryIsNotRefused` follows step by step: a request that is in place has a whole intent and
the signature it wanted, so its retry recovers, skips the signing and the second comparison,
and writes. The refinement needs that a published request never saw its own content: `Replace` is
`Apply`, every other step a `Prepare` or a stutter.

**`Workspace`.** Five small invariants, each of one part: what a session's call remembers
of the revision it read under the lock; that a publisher's `created` is exactly what it
owns; that the ledger's list is the chain that the directory holds, and that the files are
intact between validation and publication unless others disturbed them; that a sandbox past
`collect` has no live tool. A workspace behaves as `Promotion` specifies, so its theorems
carry over.

**`Claims`.** For the policy the invariant is that a normalised payload is its own
decision; it rests on `DecisionStands`, that `Decide` is idempotent, which is proved field
by field. For the loops it is that statuses, history and the two counters agree while the
loop runs, that a success is the last candidate, and that a claim of a proof, or the status
`VERIFIED`, is only delivered after one. For the orchestrator it is that while
names are unique, what lies in a component's place once its worker has written is that
worker's.

**`DomainEquivalence`.** The invariant is plain (the verdict is that of the checks) and
the work is in the property: the breadth-first search is shown to be the least set that
holds the initial state and is closed under successors (`ReachableClosed` by counting: a
round that ends without closure adds a state, and there are no more rounds than states;
`ReachableLeast`), which also justifies the comment in the code that successors need no
guard of their own. Then the image of the mapping is closed and within reach, so it is
all the refactoring reaches, and an injective mapping between finite sets preserves their
number.

**`DomainTraversal`.** The invariant has three parts. What was done: the tries made are
those of the expanded states and, of the state in hand, those before the position of the
loops (`Made`); each has been charged once and has counted one edge if it appends any,
and the state it leads to was discovered. What was not: only what an edge leads to was
discovered, so everything found lies in each set that holds the initial states and is
closed. Why it ended: a refusal has a cause, a try that is invalid or a counter past its
limit. When the queue is empty the discovered states are closed, which makes them the
least fixed point; the counters are then the cardinalities of the machine's tries and
edges, by bijections between the tries and their numbering, which gives `VerdictIsExact`.

`LockMakesAtomic` compares this fixed point with that of another machine, so neither
follows step by step from the other. What the protocol keeps is proved of everything
found (`Protected`): the lock's value names the actor inside, and is the unlocked one
where nobody is. From whatever was found the protocol can be run to where the same
effects are committed and nobody has begun a call, so that state was found too
(`FreedFound`); from there an actor can make a whole call of any enabled operation
(`WholeCall`), so the fields found with the lock free are closed under atomic operations
(`FieldsClosed`). Conversely each phase commits one operation or none, so these fields
are all reached by atomic ones (`FieldsReached`). The validators forbid an operation to
mention the lock's field, so it does the same whoever holds the lock (`LockUnseen`):
an expression reads no field that it does not mention (`ReadsItsFields`), by induction
over its parts.

`StaticAnalysisIsSound` is a theorem only: it compares two pure functions with the
exploration, whatever happens, and no run asks it. It has two halves. What the three-valued evaluation decides from one
field is the value in every state that agrees on the field (`PartialIsSound`, by the same
induction), so a guard that it finds false disables its operation and a value without an
admitted operation is a deadlock. For the estimate, a discovered state is told by what
its fields hold, its results and what each actor is doing; each of these is a vector
whose components come from finite sets, and vectors are counted by the product of the
sizes of these sets (`Vectors`). That the estimate need not count every combination of a
phase, an operation and a result is an invariant of the exploration (`Tidy`): an actor
has an operation exactly when it is not idle, phases change only under a lock protocol
and results only where an operation may refuse.

**`NetworkFaults`.** The operations the code injects are shown to move a state exactly as
the network does: a loss empties an occupied slot, a copy fills an empty one from an
occupied one, an exchange swaps two occupied ones. The search invariant is that every
expanded state has its successors among those seen, that these keep the invariants, and
that nothing was seen but what such steps lead to; an empty frontier then means that
whatever the network reaches by a step is safe, and so is every state seen but the initial
one, by that closure. Of the initial state, as in the code, nothing is said. A slot declared
twice may exchange with itself, which moves nothing (`Attempts`).

**Induction.** The provers cannot instantiate the library's induction theorems, which take
an operator. Where a fact needs induction over naturals (the sums, the products, the rounds
of the search, the number of parts of an expression), the proof takes the least
counterexample (`Least`, from the well-foundedness of the naturals) and refutes it.

**Only model-checked.** Liveness and everything under fairness, which the prover has no
rules for: `FinishedWorkIsRecorded`, `CancellationSettles`, `EveryRunIsReviewed`,
`LockIsReleased`, `PublicationIsFinished`, `ExecutionEnds`. The operators of `DomainExpressions` are recursive and
only evaluated; what the proofs need of them is the assumption `EvaluatedAsWritten`.
The five properties that the code violates are not theorems, of course; their
counterexamples are in the runs.

## Not modelled, and the plan

Not modelled on purpose: hash chains and their verification (a record is what the last
event says), authorisation by principal, parsing and rendering of text, the HTTP policy
and the SDK transport, GPG's packets, the wrappers of external tools, and the front ends.
`lockfree.py`, `weak_memory.py`, `concurrent_composition.py`, `unbounded.py`,
`realtime.py` and `linearizability.py` decide by the text of a source or by an external
tool; their finite part is the explorer that is modelled. The share of the repository
that holds state or decides a claim is small: most lines are generation, rendering,
request handling and acceptance harnesses.

Left to do, in this order:

1. The hazards without a property: a result artifact that is not JSON, the stale
   `worker_result` of a malformed reply, the unsent task of a dead dispatcher, and the two
   crashes inside `AgentRun`'s block and review.
2. Modelling: the validation inside `promote_validated_candidate`, the consumer's capture
   of a published run, and the refactoring mode of the polyglot loop.
