------------------------------ MODULE HostJob ------------------------------
(***************************************************************************)
(* The host environment of one job: startHostEnvironment                   *)
(* (act/runner/run_context.go) and HostEnvironment                         *)
(* (act/container/host_environment.go): steps are processes of the runner's*)
(* machine, their files lie in a directory made for the job.               *)
(*                                                                         *)
(* A step's command runs in a process group of its own and may leave       *)
(* processes behind.  internal/pkg/process kills the group when the job is *)
(* cancelled, and bounds the wait for output a survivor keeps open.  The   *)
(* killer is that of unix, where closing the job's group does nothing.     *)
(***************************************************************************)
EXTENDS Integers

CONSTANTS
    Kids,           \* processes the command of a step may start and leave
    Escaped,        \* those that leave its process group
    Holding,        \* those that keep its output open
    MaxSteps,       \* bound on the steps of the job
    CleanWorkdir,   \* the workspace is removed with the job
    MaxFaults       \* bound on file operations that fail or stall

VARIABLES
    pc,         \* the stage of the start, the steps and the teardown
    ctx,        \* the context of the job
    armed,      \* rc.cleanUpJobContainer is set
    step,       \* steps begun
    at,         \* where exec stands with the current one
    captured,   \* TreeKill has the process group of the command
    sent,       \* what the end of the context has killed: "none", "process", "tree"
    cmd,        \* the command of the current step
    alive,      \* processes that steps have started: <<step, kid>>
    delayed,    \* WaitDelay has passed since the command ended
    verdict,    \* of the last step
    scratch,    \* the job's directory exists
    work,       \* the workspace exists
    late,       \* removals given up on that still run
    errs,       \* errors of the removals
    rmExpired,  \* the context of the removals has run out
    faults

start == <<pc, armed>>
exec == <<step, at, captured, sent, delayed, verdict>>
processes == <<cmd, alive>>
files == <<scratch, work, late, errs, rmExpired>>
vars == <<start, ctx, exec, processes, files, faults>>

Init ==
    /\ pc = "mkdirs"
    /\ ctx = "live"
    /\ armed = FALSE
    /\ step = 0
    /\ at = "idle"
    /\ captured = FALSE
    /\ sent = "none"
    /\ cmd = "none"
    /\ alive = {}
    /\ delayed = FALSE
    /\ verdict = "none"
    /\ scratch = FALSE
    /\ work = FALSE
    /\ late = {}
    /\ errs = {}
    /\ rmExpired = FALSE
    /\ faults = 0

Fault == faults < MaxFaults /\ faults' = faults + 1
NoFault == UNCHANGED faults

Goto(stage) == pc' = stage

-----------------------------------------------------------------------------
(* startHostEnvironment.                                                   *)

(* The directories under a random name; the teardown is armed only when    *)
(* all of them are there.                                                  *)
MakeDirs ==
    /\ pc = "mkdirs"
    /\ \/ NoFault /\ scratch' = TRUE /\ armed' = TRUE /\ Goto("copy")
       \/ Fault /\ scratch' \in BOOLEAN /\ UNCHANGED armed /\ Goto("failing")
    /\ UNCHANGED <<ctx, exec, processes, work, late, errs, rmExpired>>

CopyFiles ==
    /\ pc = "copy"
    /\ \/ NoFault /\ Goto("steps")
       \/ Fault /\ Goto("failing")
    /\ UNCHANGED <<ctx, armed, exec, processes, files>>

(* cleanupFailedStart.                                                     *)
StartFailed ==
    /\ pc = "failing"
    /\ Goto(IF armed THEN "cleanUp" ELSE "over")
    /\ UNCHANGED <<ctx, armed, exec, processes, files, faults>>

-----------------------------------------------------------------------------
(* The command of a step.                                                  *)

Mine == {p \in alive : p[1] = step}
Group == {p \in Mine : p[2] \notin Escaped}

(* Seeded defect: only the command is killed, and not what it started.     *)
CommandAlone == {}

(* What the cancel kills besides the command.                              *)
Reached == IF captured THEN Group ELSE {}
OutputOpen == cmd = "running" \/ \E p \in Mine : p[2] \in Holding

(* cmd.Start: not on an ended context, nor for a command that is not found.*)
ExecBegins ==
    /\ pc = "steps" /\ at = "idle" /\ step < MaxSteps
    /\ step' = step + 1
    /\ captured' = FALSE /\ sent' = "none" /\ delayed' = FALSE
    /\ \/ /\ ctx = "live"
          /\ at' = "started" /\ cmd' = "running" /\ verdict' = "none"
          /\ work' = TRUE
       \/ /\ verdict' = IF ctx = "live" THEN "failed" ELSE "interrupted"
          /\ at' = "idle" /\ cmd' = "none"
          /\ UNCHANGED work
    /\ UNCHANGED <<start, ctx, alive, scratch, late, errs, rmExpired, faults>>

(* TreeKill.Capture, after the start of the process.                       *)
Capture ==
    /\ at = "started"
    /\ at' = "waiting"
    /\ captured' = TRUE
    /\ UNCHANGED <<start, ctx, step, sent, delayed, verdict, processes, files, faults>>

(* cmd.Cancel, called once when the context ends before the command has    *)
(* been waited for: the process group if it was captured, else the process.*)
CancelFires ==
    /\ ctx # "live"
    /\ at \in {"started", "waiting"}
    /\ sent = "none"
    /\ sent' = IF captured THEN "tree" ELSE "process"
    /\ cmd' = IF cmd = "running" THEN "killed" ELSE cmd
    /\ alive' = alive \ Reached
    /\ UNCHANGED <<start, ctx, step, at, captured, delayed, verdict, files, faults>>

(* The command has ended; an end of the context is no longer looked at.    *)
Reaped ==
    /\ at = "waiting" /\ cmd # "running"
    /\ at' = "draining"
    /\ UNCHANGED <<start, ctx, step, captured, sent, delayed, verdict, processes, files,
                   faults>>

WaitDelayOver ==
    /\ at = "draining" /\ ~delayed
    /\ delayed' = TRUE
    /\ UNCHANGED <<start, ctx, step, at, captured, sent, verdict, processes, files, faults>>

(* cmd.Wait returns: the output is closed, or its descriptors are closed   *)
(* under the survivors, which is an error.                                 *)
ExecReturns ==
    /\ at = "draining"
    /\ ~OutputOpen \/ delayed
    /\ at' = "idle"
    /\ verdict' = IF cmd = "zero" /\ sent = "none" /\ ~delayed THEN "ok"
                  ELSE IF ctx = "live" THEN "failed" ELSE "interrupted"
    /\ UNCHANGED <<start, ctx, step, captured, sent, delayed, processes, files, faults>>

StepsOver ==
    /\ pc = "steps" /\ at = "idle"
    /\ Goto("cleanUp")
    /\ UNCHANGED <<ctx, armed, exec, processes, files, faults>>

-----------------------------------------------------------------------------
(* Remove.                                                                 *)

(* runWithTimeout(CleanUp): the removal of the job's directory, left to    *)
(* itself when it takes too long; its errors are not looked at.            *)
CleanUp ==
    /\ pc = "cleanUp"
    /\ \/ NoFault /\ scratch' = FALSE /\ UNCHANGED late
       \/ Fault /\ UNCHANGED scratch /\ late' \in {late, late \cup {"scratch"}}
    /\ Goto("rmPath")
    /\ UNCHANGED <<ctx, armed, exec, processes, work, errs, rmExpired>>

(* removePathWithRetry of a directory inside it, on a context that it      *)
(* shares with the next removal.                                           *)
RemovePath ==
    /\ pc = "rmPath"
    /\ \/ NoFault /\ UNCHANGED <<errs, rmExpired>>
       \/ Fault /\ errs' = errs \cup {"error"} /\ UNCHANGED rmExpired
       \/ Fault /\ errs' = errs \cup {"deadline"} /\ rmExpired' = TRUE
    /\ Goto("rmWorkdir")
    /\ UNCHANGED <<ctx, armed, exec, processes, scratch, work, late>>

(* The workspace, if it is to go: also begun on an expired context.        *)
RemoveWorkdir ==
    /\ pc = "rmWorkdir"
    /\ \/ ~CleanWorkdir /\ NoFault /\ UNCHANGED <<work, late, errs>>
       \/ CleanWorkdir /\ NoFault /\ work' = FALSE /\ UNCHANGED <<late, errs>>
       \/ /\ CleanWorkdir
          /\ IF rmExpired THEN NoFault ELSE Fault
          /\ errs' = errs \cup {"deadline"} /\ late' = late \cup {"work"}
          /\ UNCHANGED work
       \/ CleanWorkdir /\ Fault /\ errs' = errs \cup {"error"} /\ UNCHANGED <<work, late>>
    /\ Goto("over")
    /\ UNCHANGED <<ctx, armed, exec, processes, scratch, rmExpired>>

(* A removal that was given up on comes to its end.                        *)
LateRemoval ==
    /\ \E dir \in late :
        /\ late' = late \ {dir}
        /\ scratch' = (scratch /\ dir # "scratch")
        /\ work' = (work /\ dir # "work")
    /\ UNCHANGED <<start, ctx, exec, processes, errs, rmExpired, faults>>

-----------------------------------------------------------------------------
(* The surroundings.                                                       *)

(* The job is cancelled or its deadline passes.                            *)
EndContext ==
    /\ ctx = "live" /\ pc # "over"
    /\ ctx' = "ended"
    /\ UNCHANGED <<start, exec, processes, files, faults>>

CommandEnds ==
    /\ cmd = "running"
    /\ cmd' \in {"zero", "nonzero"}
    /\ UNCHANGED <<start, ctx, exec, alive, files, faults>>

CommandSpawns(k) ==
    /\ cmd = "running"
    /\ <<step, k>> \notin alive
    /\ alive' = alive \cup {<<step, k>>}
    /\ UNCHANGED <<start, ctx, exec, cmd, files, faults>>

SurvivorEnds ==
    /\ \E p \in alive : alive' = alive \ {p}
    /\ UNCHANGED <<start, ctx, exec, cmd, files, faults>>

Next ==
    \/ MakeDirs
    \/ CopyFiles
    \/ StartFailed
    \/ ExecBegins
    \/ Capture
    \/ CancelFires
    \/ Reaped
    \/ WaitDelayOver
    \/ ExecReturns
    \/ StepsOver
    \/ CleanUp
    \/ RemovePath
    \/ RemoveWorkdir
    \/ LateRemoval
    \/ EndContext
    \/ CommandEnds
    \/ \E k \in Kids : CommandSpawns(k)
    \/ SurvivorEnds

(* The runner's steps and its timers.  A command may run for ever, and so  *)
(* may what it leaves behind: only the deadline of the task is sure.       *)
Progress ==
    \/ MakeDirs \/ CopyFiles \/ StartFailed \/ Capture \/ CancelFires \/ Reaped
    \/ WaitDelayOver \/ ExecReturns \/ CleanUp \/ RemovePath \/ RemoveWorkdir

Fairness == WF_vars(Progress) /\ WF_vars(StepsOver) /\ WF_vars(EndContext)

Spec == Init /\ [][Next]_vars /\ Fairness

-----------------------------------------------------------------------------
(* Every variable keeps its type.                                          *)
TypeOK ==
    /\ pc \in {"mkdirs", "copy", "steps", "failing", "cleanUp", "rmPath", "rmWorkdir", "over"}
    /\ ctx \in {"live", "ended"}
    /\ armed \in BOOLEAN
    /\ step \in 0..MaxSteps
    /\ at \in {"idle", "started", "waiting", "draining"}
    /\ captured \in BOOLEAN
    /\ sent \in {"none", "process", "tree"}
    /\ cmd \in {"none", "running", "zero", "nonzero", "killed"}
    /\ alive \subseteq ((1..MaxSteps) \X Kids)
    /\ delayed \in BOOLEAN
    /\ verdict \in {"none", "ok", "failed", "interrupted"}
    /\ scratch \in BOOLEAN
    /\ work \in BOOLEAN
    /\ late \subseteq {"scratch", "work"}
    /\ errs \subseteq {"error", "deadline"}
    /\ rmExpired \in BOOLEAN
    /\ faults \in 0..MaxFaults

(* A job whose file operations worked leaves no directory, wherever it was *)
(* cancelled or failed.                                                    *)
ScratchGone ==
    (pc = "over" /\ faults = 0) => ~scratch /\ (CleanWorkdir => ~work)

(* A cancelled step is killed with its whole process group, and from then  *)
(* on none of that group is left.  A step that was cancelled while its     *)
(* command ran does not pass.                                              *)
CancelKillsTree ==
    /\ sent = "tree" => Group = {}
    /\ cmd = "killed" => verdict # "ok"
=============================================================================
