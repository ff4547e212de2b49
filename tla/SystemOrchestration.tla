-------------------------- MODULE SystemOrchestration --------------------------
(***************************************************************************)
(* pipeline/system_orchestrator.py: the components of a system are         *)
(* verified, refactored or corrected by a pool of workers, each of which   *)
(* leaves its result in a file of its own directory; when all of them are  *)
(* good, the composition gate runs once.                                   *)
(*                                                                         *)
(* A place stands for the path a component's result goes to: the directory *)
(* of its name (verify_system, correct_system) or its file name            *)
(* (refactor_system).  A file holds [owner, good].                         *)
(***************************************************************************)
EXTENDS Naturals, FiniteSets

CONSTANTS
  Components, Places,
  MaxWorkers,
  Missing,       \* no file, or one that is not JSON
  Earlier        \* the owner of a file that an earlier run left in out_dir

VARIABLES
  mode,          \* verify, refactor or correct
  place,         \* where each component's result goes
  worker,        \* waiting, running, written, exited, done
  files,
  exit,          \* exit codes of the subprocesses
  verdict,       \* what the worker collected
  gated,         \* how often the composition gate ran
  system         \* start, working, invalid, failed, verified

systemVars == <<mode, place, worker, files, exit, verdict, gated, system>>

Distinct == \A c, d \in Components : place[c] = place[d] => c = d

Init ==
  /\ mode \in {"verify", "refactor", "correct"}
  /\ place \in [Components -> Places]
  /\ files \in [Places -> {Missing, [owner |-> Earlier, good |-> TRUE]}]
  /\ worker = [c \in Components |-> "waiting"]
  /\ exit = [c \in Components |-> 0]
  /\ verdict = [c \in Components |-> Missing]
  /\ gated = 0 /\ system = "start"

\* Only verify_system insists on unique component names.
Parse ==
  /\ system = "start"
  /\ system' = IF mode = "verify" /\ ~Distinct THEN "invalid" ELSE "working"
  /\ UNCHANGED <<mode, place, worker, files, exit, verdict, gated>>

Busy == {c \in Components : worker[c] \in {"running", "written", "exited"}}

Start(c) ==
  /\ system = "working" /\ worker[c] = "waiting"
  /\ Cardinality(Busy) < MaxWorkers
  /\ worker' = [worker EXCEPT ![c] = "running"]
  /\ UNCHANGED <<mode, place, files, exit, verdict, gated, system>>

\* The subprocess writes its verdict, the refactoring thread its destination.
Write(c) ==
  /\ worker[c] = "running"
  /\ \E good \in BOOLEAN :
       files' = [files EXCEPT ![place[c]] = [owner |-> c, good |-> good]]
  /\ worker' = [worker EXCEPT ![c] = "written"]
  /\ UNCHANGED <<mode, place, exit, verdict, gated, system>>

\* The command exits 0 exactly when its own verdict was good.
Exit(c) ==
  /\ mode # "refactor" /\ worker[c] = "written"
  /\ \E code \in {0, 1} :
       /\ files[place[c]] # Missing /\ files[place[c]].owner = c
            => code = IF files[place[c]].good THEN 0 ELSE 1
       /\ exit' = [exit EXCEPT ![c] = code]
  /\ worker' = [worker EXCEPT ![c] = "exited"]
  /\ UNCHANGED <<mode, place, files, verdict, gated, system>>

\* It is killed, before or after it has written, or cannot be started.
Die(c) ==
  /\ mode # "refactor" /\ worker[c] \in {"running", "written"}
  /\ exit' = [exit EXCEPT ![c] = 127]
  /\ worker' = [worker EXCEPT ![c] = "exited"]
  /\ UNCHANGED <<mode, place, files, verdict, gated, system>>

\* The worker reads the verdict file, whoever wrote it.
Collect(c) ==
  /\ worker[c] = "exited"
  /\ verdict' = [verdict EXCEPT ![c] = files[place[c]]]
  /\ worker' = [worker EXCEPT ![c] = "done"]
  /\ UNCHANGED <<mode, place, files, exit, gated, system>>

\* A refactoring is proved against its own source where it was written.
Prove(c) ==
  /\ mode = "refactor" /\ worker[c] = "written"
  /\ verdict' = [verdict EXCEPT ![c] =
                   [owner |-> c, good |-> files[place[c]] = [owner |-> c, good |-> TRUE]]]
  /\ worker' = [worker EXCEPT ![c] = "done"]
  /\ UNCHANGED <<mode, place, files, exit, gated, system>>

\* A mutant: the exit code is not looked at.
FailedVerdict(c) == verdict[c] = Missing \/ ~verdict[c].good

\* A component counts as failed.
Failed(c) == exit[c] # 0 \/ verdict[c] = Missing \/ ~verdict[c].good

\* All workers are done: the composition gate runs if none failed.  It is
\* optional except in verify_system.
Aggregate ==
  /\ system = "working"
  /\ \A c \in Components : worker[c] = "done"
  /\ IF \E c \in Components : Failed(c) THEN system' = "failed" /\ UNCHANGED gated
     ELSE \/ gated' = gated + 1 /\ system' \in {"verified", "failed"}
          \/ mode # "verify" /\ system' = "verified" /\ UNCHANGED gated
  /\ UNCHANGED <<mode, place, worker, files, exit, verdict>>

Next ==
  \/ Parse \/ Aggregate
  \/ \E c \in Components :
       Start(c) \/ Write(c) \/ Exit(c) \/ Die(c) \/ Collect(c) \/ Prove(c)

-----------------------------------------------------------------------------
(***************************************************************************)
(* A verified system: each component's verdict is its own, from this run,  *)
(* and good, and the file left for it is still that one; the composition   *)
(* gate ran at most once, and did in verify_system.  Names that are not    *)
(* unique are refused by verify_system and are the caller's to avoid in    *)
(* the other two.                                                          *)
(***************************************************************************)
SystemIsItsComponents ==
  system = "verified" /\ (mode # "verify" => Distinct) =>
    /\ \A c \in Components :
          /\ verdict[c] = [owner |-> c, good |-> TRUE]
          /\ files[place[c]] = verdict[c]
    /\ gated <= 1 /\ (mode = "verify" => gated = 1)

Verdicts(owners) == [owner : owners, good : BOOLEAN]

TypeOK ==
  /\ mode \in {"verify", "refactor", "correct"} /\ place \in [Components -> Places]
  /\ worker \in [Components -> {"waiting", "running", "written", "exited", "done"}]
  /\ files \in [Places -> {Missing} \cup Verdicts(Components \cup {Earlier})]
  /\ verdict \in [Components -> {Missing} \cup Verdicts(Components \cup {Earlier})]
  /\ exit \in [Components -> Nat] /\ gated \in Nat
  /\ system \in {"start", "working", "invalid", "failed", "verified"}

\* While names are unique, what lies in a component's place once its worker has
\* written is that worker's, unless the exit code says that it died.
OwnFile(c) ==
  /\ worker[c] = "written" \/ (worker[c] = "exited" /\ exit[c] = 0) =>
       files[place[c]] \in Verdicts({c})
  /\ worker[c] = "done" /\ ~Failed(c) =>
       verdict[c] = [owner |-> c, good |-> TRUE] /\ files[place[c]] = verdict[c]

\* The inductive invariant: with TypeOK it implies the property above.
IInv ==
  /\ system \in {"start", "working"} => gated = 0
  /\ system \notin {"start", "invalid"} /\ mode = "verify" => Distinct
  /\ Distinct => \A c \in Components : OwnFile(c)
  /\ system = "verified" =>
       /\ \A c \in Components : worker[c] = "done" /\ ~Failed(c)
       /\ gated <= 1 /\ (mode = "verify" => gated = 1)
=============================================================================
