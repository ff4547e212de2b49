---------------------------- MODULE SandboxExecutor ----------------------------
(***************************************************************************)
(* One execution in the strict sandbox: the tool, its output pipe, its     *)
(* cgroup and its deadline, and the read loop that races all of them.      *)
(* Source: pipeline/execution.py.                                          *)
(*                                                                         *)
(* Output is counted in chunks.  The tool is arbitrary: it writes, closes  *)
(* its output, runs into a limit, exits or hangs whenever it likes.        *)
(***************************************************************************)
EXTENDS Naturals

CONSTANTS
  MaxOutput,  \* max_output_bytes
  MaxWritten  \* bound: what the tool writes

VARIABLES
  pc,        \* where execute is
  tool,      \* the process, and its exit code once it has exited
  open,      \* the tool holds the writing end of the pipe
  pipe,      \* written and not read
  written,   \* history: written in all
  chunks,    \* read and kept
  late,      \* the deadline has passed
  flags,     \* timed_out and output_truncated
  limited,   \* the cgroup, prlimit or a tmpfs stopped the tool
  attached,  \* the tool is in its cgroup
  cgroup,    \* none, made, removed, or left behind
  status     \* of the observation

vars == <<pc, tool, open, pipe, written, chunks, late, flags, limited, attached,
          cgroup, status>>

process == <<tool, open, pipe, written, limited, attached>>

Least(a, b) == IF a < b THEN a ELSE b

Refusals == {"POLICY_INVALID", "SNAPSHOT_INTEGRITY_FAILED", "SANDBOX_UNAVAILABLE",
             "RESOURCE_CONTROL_UNAVAILABLE", "TOOL_ERROR"}

Init ==
  /\ pc = "prepare" /\ status = "none" /\ cgroup = "none"
  /\ tool = "none" /\ open = FALSE /\ pipe = 0 /\ written = 0 /\ chunks = 0
  /\ late = FALSE /\ limited = FALSE /\ attached = FALSE
  /\ flags = [timed_out |-> FALSE, truncated |-> FALSE]

-----------------------------------------------------------------------------
(* The tool, the kernel and the clock                                      *)

Alive == tool \in {"running", "dying"}

Write ==
  /\ tool = "running" /\ open /\ written < MaxWritten
  /\ pipe' = pipe + 1 /\ written' = written + 1
  /\ UNCHANGED <<pc, tool, open, chunks, late, flags, limited, attached, cgroup, status>>

CloseOutput ==
  /\ tool = "running" /\ open /\ open' = FALSE
  /\ UNCHANGED <<pc, tool, pipe, written, chunks, late, flags, limited, attached, cgroup,
                 status>>

\* A tool that could not join its cgroup never runs: its shell exits with 125.
Exit ==
  /\ tool = "running"
  /\ tool' \in IF attached THEN {"exit_0", "exit_1"} ELSE {"exit_1"}
  /\ limited' \in IF attached /\ tool' = "exit_1" THEN BOOLEAN ELSE {limited}
  /\ open' = FALSE
  /\ UNCHANGED <<pc, pipe, written, chunks, late, flags, attached, cgroup, status>>

\* The kernel carries out a SIGKILL.
DieOfSignal ==
  /\ tool = "dying" /\ tool' = "killed" /\ open' = FALSE
  /\ UNCHANGED <<pc, pipe, written, chunks, late, flags, limited, attached, cgroup, status>>

DeadlinePasses ==
  /\ tool # "none" /\ ~late /\ late' = TRUE
  /\ UNCHANGED <<pc, process, chunks, flags, cgroup, status>>

-----------------------------------------------------------------------------
(* execute and _run_bounded                                                *)

\* Validation, the snapshot's digests, the probe and the cgroup, in turn.
Prepare ==
  /\ pc = "prepare"
  /\ \/ pc' = "spawn" /\ cgroup' = "made" /\ UNCHANGED status
     \/ pc' = "done" /\ status' \in Refusals \ {"TOOL_ERROR"} /\ UNCHANGED cgroup
  /\ UNCHANGED <<process, chunks, late, flags>>

Spawn ==
  /\ pc = "spawn"
  /\ \/ /\ pc' = "loop" /\ tool' = "running" /\ open' = TRUE /\ attached' \in BOOLEAN
        /\ UNCHANGED <<cgroup, status>>
     \/ /\ pc' = "done" /\ status' = "TOOL_ERROR" /\ cgroup' \in {"removed", "left"}
        /\ UNCHANGED <<tool, open, attached>>
  /\ UNCHANGED <<pipe, written, limited, chunks, late, flags>>

\* _terminate_unit
Kill == tool' = IF tool = "running" THEN "dying" ELSE tool

\* Mutant: the loop relies on the tool to end.
NeverTimeOut ==
  /\ pc = "loop" /\ late /\ ~late
  /\ UNCHANGED vars

TimeOut ==
  /\ pc = "loop" /\ late
  /\ Kill
  /\ flags' = [flags EXCEPT !.timed_out = TRUE]
  /\ pc' = "wait"
  /\ UNCHANGED <<open, pipe, written, limited, attached, chunks, late, cgroup, status>>

\* select reports data: os.read takes what is there, or part of it.
Read ==
  /\ pc = "loop" /\ ~late /\ pipe > 0
  /\ \E n \in 1 .. pipe :
       /\ pipe' = pipe - n
       /\ chunks' = chunks + Least(n, MaxOutput - chunks)
       /\ IF n > MaxOutput - chunks
            THEN Kill /\ flags' = [flags EXCEPT !.truncated = TRUE] /\ pc' = "wait"
            ELSE UNCHANGED <<tool, flags, pc>>
  /\ UNCHANGED <<open, written, limited, attached, late, cgroup, status>>

\* select reports the end of the output.
EndOfOutput ==
  /\ pc = "loop" /\ ~late /\ pipe = 0 /\ ~open
  /\ pc' = "wait"
  /\ UNCHANGED <<process, chunks, late, flags, cgroup, status>>

\* select reports nothing for a tenth of a second; poll comes a moment later.
Nothing ==
  /\ pc = "loop" /\ ~late /\ pipe = 0 /\ open
  /\ pc' = "poll"
  /\ UNCHANGED <<process, chunks, late, flags, cgroup, status>>

\* The tool has exited: the rest is read, and kept as far as there is room.
Poll ==
  /\ pc = "poll"
  /\ IF Alive
       THEN pc' = "loop" /\ UNCHANGED <<pipe, chunks>>
       ELSE /\ pc' = "wait" /\ pipe' = 0
            /\ chunks' = chunks + Least(pipe, MaxOutput - chunks)
  /\ UNCHANGED <<tool, open, written, limited, attached, late, flags, cgroup, status>>

\* Mutant: a tool that does not exit within two seconds is left to itself.
WaitOnce ==
  /\ pc = "wait" /\ pc' = "collect"
  /\ UNCHANGED <<process, chunks, late, flags, cgroup, status>>

\* wait(timeout=2); a tool that is still there is killed.
Wait ==
  /\ pc = "wait"
  /\ \/ ~Alive /\ pc' = "collect" /\ UNCHANGED tool
     \/ Alive /\ Kill /\ pc' = "wait_again"
  /\ UNCHANGED <<open, pipe, written, limited, attached, chunks, late, flags, cgroup, status>>

\* The second wait raises if the kernel takes more than two seconds.
WaitAgain ==
  /\ pc = "wait_again"
  /\ pc' = IF Alive THEN "raised" ELSE "collect"
  /\ UNCHANGED <<process, chunks, late, flags, cgroup, status>>

\* Which of the things that went wrong names the observation.
Status(removed) ==
  IF flags.timed_out THEN "TIMEOUT"
  ELSE IF ~attached THEN "RESOURCE_CONTROL_UNAVAILABLE"
  ELSE IF ~removed THEN "RESOURCE_CLEANUP_FAILED"
  ELSE IF limited THEN "LIMIT_EXCEEDED"
  ELSE IF flags.truncated THEN "OUTPUT_LIMIT_EXCEEDED"
  ELSE IF tool = "exit_0" THEN "COMPLETED" ELSE "TOOL_FAILED"

\* cgroup.close kills the unit and removes its directory, or gives up.
Collect ==
  /\ pc = "collect" /\ pc' = "done"
  /\ \E removed \in BOOLEAN :
       /\ cgroup' = IF removed THEN "removed" ELSE "left"
       /\ status' = Status(removed)
  /\ UNCHANGED <<process, chunks, late, flags>>

Execute ==
  \/ Prepare \/ Spawn \/ TimeOut \/ Read \/ EndOfOutput \/ Nothing \/ Poll
  \/ Wait \/ WaitAgain \/ Collect

Next == Write \/ CloseOutput \/ Exit \/ DieOfSignal \/ DeadlinePasses \/ Execute

\* The supervisor runs, time passes and SIGKILL works; the tool owes nothing.
Fairness ==
  WF_vars(Execute) /\ WF_vars(DeadlinePasses) /\ WF_vars(DieOfSignal)

Spec == Init /\ [][Next]_vars

FairSpec == Spec /\ Fairness

-----------------------------------------------------------------------------
(* Properties                                                              *)

\* Every variable keeps its shape.
TypeOK ==
  /\ pc \in {"prepare", "spawn", "loop", "poll", "wait", "wait_again", "collect",
             "done", "raised"}
  /\ tool \in {"none", "running", "dying", "killed", "exit_0", "exit_1"}
  /\ open \in BOOLEAN /\ late \in BOOLEAN /\ limited \in BOOLEAN /\ attached \in BOOLEAN
  /\ pipe \in 0 .. MaxWritten /\ written \in 0 .. MaxWritten /\ chunks \in 0 .. MaxOutput
  /\ flags \in [timed_out : BOOLEAN, truncated : BOOLEAN]
  /\ cgroup \in {"none", "made", "removed", "left"}

\* _run_bounded: an observation whose policy was enforced leaves no process
\* and no cgroup behind, whichever of the races ended the loop.
NothingSurvives ==
  pc = "done" => ~Alive

\* COMPLETED is only said of a tool that exited with 0 by itself, in its
\* cgroup, in time, within every limit, and was cleaned up.
CompletedWasEnforced ==
  status = "COMPLETED" =>
    /\ tool = "exit_0" /\ attached /\ ~limited /\ cgroup = "removed"
    /\ ~flags.timed_out /\ ~flags.truncated

\* The deadline bounds every execution, also of a tool that hangs, writes
\* nothing, or closes its output and goes on.
ExecutionEnds == pc = "loop" ~> pc \in {"done", "raised"}

\* The inductive invariant: the tool has ended wherever its end is relied on,
\* and no more waits in the pipe than was written.
IInv ==
  /\ pipe <= written
  /\ pc \in {"prepare", "spawn"} => tool = "none"
  /\ tool = "none" => pc \in {"prepare", "spawn", "done"}
  /\ pc \in {"collect", "done"} => ~Alive
  /\ status = "COMPLETED" => pc = "done"
  /\ CompletedWasEnforced

=============================================================================
