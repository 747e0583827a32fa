------------------------------ MODULE PodJob -------------------------------
(***************************************************************************)
(* The kubernetes environment of one job: startPodEnvironment              *)
(* (act/runner/run_context_kubernetes.go) over the operations of           *)
(* act/container/kubernetes: one Pod holds the job container and a sidecar *)
(* for each service, is waited for by polling, and is deleted at the end.  *)
(*                                                                         *)
(* The cluster acts on its own: it schedules, starts, rejects, evicts and  *)
(* finally removes Pods.  Its answers may be lost, refused or unavailable. *)
(* Pod names are deterministic, so a runner that died may have left a Pod  *)
(* under the name of this job.                                             *)
(***************************************************************************)
EXTENDS Integers, FiniteSets

CONSTANTS
    Services,       \* ids of the sidecars
    Probed,         \* the sidecars with a readiness probe
    MaxFaults       \* bound on refused or lost calls and on evictions

VARIABLES
    pc,         \* the stage of the start, the steps and the teardown
    cleanUp,    \* rc.cleanUpJobContainer is set
    ctx,        \* how the context of the job ended, "live" before; "cut" when it
                \* ended while a failed start was being cleaned up on it
    wait,       \* how the context of waitForRunning ended, "live" before
    reason,     \* why the start failed, "none" before
    ready,      \* sidecars that were found ready
    timedOut,   \* sidecars whose own deadline has passed
    verdict,    \* what the runner makes of the command of a step
    cmd,        \* that command inside the job container
    pod,        \* the cluster: the Pod under the name of the job
    mine,       \* the cluster: it was created by this job
    probe,      \* the cluster: sidecars whose readiness probe has succeeded
    faults

run == <<pc, cleanUp, ctx, wait, reason>>
services == <<ready, timedOut>>
exec == <<verdict, cmd>>
cluster == <<pod, mine, probe>>
vars == <<run, services, exec, cluster, faults>>

PodStates ==
    {"none",
     "pending",     \* accepted, not scheduled or its containers being created
     "stuck",       \* a container waits for a reason that will not resolve
     "sidecars",    \* Running, the state of the job container not published
     "running",     \* the job container runs
     "exited",      \* Running or Succeeded, the job container has terminated
     "failed",
     "terminating"} \* deleted, in its grace period

Init ==
    /\ pc = "check"
    /\ cleanUp = FALSE
    /\ ctx = "live"
    /\ wait = "live"
    /\ reason = "none"
    /\ ready = {}
    /\ timedOut = {}
    /\ verdict = "none"
    /\ cmd = "none"
    /\ pod \in {"none", "running", "terminating"}
    /\ mine = FALSE
    /\ probe = {}
    /\ faults = 0

Fault == faults < MaxFaults /\ faults' = faults + 1
NoFault == UNCHANGED faults

(* A call on the context of the job, and one on the teardown's own.        *)
Works == ctx = "live" /\ NoFault
Fails == (ctx # "live" /\ NoFault) \/ (ctx = "live" /\ Fault)

Goto(stage) == pc' = stage

(* Seeded defect: the start fails without an error.                        *)
FailSilently(why) == pc' = "failing" /\ reason' = "nil"

FailWith(why) == pc' = "failing" /\ reason' = why
Same == UNCHANGED <<cleanUp, ctx, wait>>

-----------------------------------------------------------------------------
(* startPodEnvironment.                                                    *)

(* checkUnsupportedCredentials and newPodEnvironment: a job that asks for  *)
(* registry credentials, or whose cluster cannot be configured, fails      *)
(* before there is anything to clean up; warnings are left out.            *)
Check ==
    /\ pc = "check"
    /\ \/ Goto("create") /\ cleanUp' = TRUE /\ UNCHANGED reason
       \/ FailWith("unsupported") /\ UNCHANGED cleanUp
    /\ UNCHANGED <<ctx, wait, services, exec, cluster, faults>>

(* Create: a name that is taken leads to removeNow and a second attempt.   *)
(* The cluster may have created the Pod although the call failed.          *)
Create ==
    /\ pc \in {"create", "recreate"}
    /\ \/ /\ Works /\ pod = "none"
          /\ pod' = "pending" /\ mine' = TRUE
          /\ Goto("wait") /\ UNCHANGED reason
       \/ /\ Works /\ pod # "none"
          /\ IF pc = "create" THEN Goto("replace") /\ UNCHANGED reason
                              ELSE FailWith("create")
          /\ UNCHANGED <<pod, mine>>
       \/ /\ Fails
          /\ FailWith("create")
          /\ \/ UNCHANGED <<pod, mine>>
             \/ pod = "none" /\ pod' = "pending" /\ mine' = TRUE
    /\ Same
    /\ UNCHANGED <<services, exec, probe>>

(* removeNow: a deletion without grace ...                                 *)
Replace ==
    /\ pc = "replace"
    /\ \/ /\ Works
          /\ pod' = IF pod = "none" THEN "none" ELSE "terminating"
          /\ Goto("replacing") /\ UNCHANGED reason
       \/ Fails /\ FailWith("replace") /\ UNCHANGED pod
    /\ Same
    /\ UNCHANGED <<services, exec, mine, probe>>

(* ... and polls until the name is free; any failed read is final here.    *)
Replacing ==
    /\ pc = "replacing"
    /\ \/ Works /\ pod = "none" /\ Goto("recreate") /\ UNCHANGED reason
       \/ Fails /\ FailWith("replace")
    /\ Same
    /\ UNCHANGED <<services, exec, cluster>>

(* waitForRunning, one poll.  A read that says what the Pod is like        *)
(* decides, or the wait goes on; so does one that failed without an answer *)
(* (ReadLater); a status the API server chose deliberately is final.       *)
Poll ==
    /\ pc = "wait"
    /\ \/ /\ pod = "running" /\ Works
          /\ Goto("services") /\ UNCHANGED reason
       \/ pod = "none" /\ Works /\ FailWith("disappeared")
       \/ pod = "exited" /\ Works /\ FailWith("exited")
       \/ pod = "failed" /\ Works /\ FailWith("failed")
       \/ pod = "stuck" /\ Works /\ FailWith("cannot start")
       \/ ctx = "live" /\ Fault /\ FailWith("refused")
    /\ Same
    /\ UNCHANGED <<services, exec, cluster>>

(* Seeded defect: every wait that ends has timed out.                      *)
TimedOut == "timed out"

(* The context of the wait has ended: a cancelled job is told from one     *)
(* whose Pod did not start in time.                                        *)
EndOfWait == IF wait = "cancelled" THEN "cancelled" ELSE "timed out"
WaitEnds ==
    /\ pc = "wait"
    /\ wait # "live"
    /\ FailWith(EndOfWait)
    /\ Same
    /\ UNCHANGED <<services, exec, cluster, faults>>

(* waitForServiceContainers over sidecarView.Inspect: ready without a      *)
(* probe, once it succeeded, or when the Pod is gone.                      *)
LookAtService(s) ==
    /\ pc = "services" /\ s \notin ready
    /\ \/ /\ Works
          /\ s \notin Probed \/ s \in probe \/ pod = "none"
          /\ ready' = ready \cup {s}
          /\ UNCHANGED <<pc, reason>>
       \/ Fails /\ FailWith("service") /\ UNCHANGED ready
    /\ Same
    /\ UNCHANGED <<timedOut, exec, cluster>>

ServiceTimesOut(s) ==
    /\ pc = "services" /\ s \notin ready
    /\ s \in timedOut
    /\ FailWith("service")
    /\ Same
    /\ UNCHANGED <<services, exec, cluster, faults>>

ServicesReady ==
    /\ pc = "services" /\ ready = Services
    /\ Goto("copy")
    /\ Same
    /\ UNCHANGED <<reason, services, exec, cluster, faults>>

(* copyContent runs tar in the job container, over exec.                   *)
Copy ==
    /\ pc = "copy"
    /\ \/ Works /\ pod = "running" /\ Goto("steps") /\ UNCHANGED reason
       \/ (Fails \/ (Works /\ pod # "running")) /\ FailWith("copy")
    /\ Same
    /\ UNCHANGED <<services, exec, cluster>>

-----------------------------------------------------------------------------
(* The command of a step (kubernetes/exec.go).                             *)

ExecBegins ==
    /\ pc = "steps" /\ verdict = "none"
    /\ \/ Works /\ pod = "running" /\ verdict' = "running" /\ cmd' = "running"
       \/ (Fails \/ (Works /\ pod # "running")) /\ verdict' = "failed" /\ UNCHANGED cmd
    /\ UNCHANGED <<run, services, cluster>>

CommandEnds ==
    /\ cmd = "running"
    /\ cmd' \in {"zero", "nonzero"}
    /\ UNCHANGED <<run, services, verdict, cluster, faults>>

(* The stream brings the exit code, breaks, or its context ends.           *)
ExecReturns ==
    /\ verdict = "running"
    /\ \/ cmd = "zero" /\ NoFault /\ verdict' = "ok"
       \/ cmd \in {"nonzero", "killed"} /\ NoFault /\ verdict' = "failed"
       \/ Fails /\ verdict' = IF ctx = "live" THEN "failed" ELSE "interrupted"
    /\ UNCHANGED <<run, services, cmd, cluster>>

StepsOver ==
    /\ pc = "steps" /\ verdict # "running"
    /\ Goto("remove")
    /\ Same
    /\ UNCHANGED <<reason, services, exec, cluster, faults>>

-----------------------------------------------------------------------------
(* Teardown.                                                               *)

(* cleanupFailedStart: on the context of the job while that is live, on    *)
(* one of its own otherwise, and only if there is something to clean up.   *)
StartFailed ==
    /\ pc = "failing"
    /\ Goto(IF ~cleanUp THEN "over" ELSE IF ctx = "live" THEN "removeOnJob" ELSE "remove")
    /\ Same
    /\ UNCHANGED <<reason, services, exec, cluster, faults>>

(* Remove: deletes the Pod, whose going is not waited for.                 *)
Remove ==
    /\ pc \in {"remove", "removeOnJob"}
    /\ \/ /\ NoFault /\ (pc = "removeOnJob" => ctx = "live")
          /\ pod' = IF pod = "none" THEN "none" ELSE "terminating"
          /\ cmd' = IF cmd = "running" THEN "killed" ELSE cmd
       \/ /\ IF pc = "removeOnJob" THEN Fails ELSE Fault
          /\ UNCHANGED <<pod, cmd>>
    /\ Goto("over")
    /\ Same
    /\ UNCHANGED <<reason, services, verdict, mine, probe>>

-----------------------------------------------------------------------------
(* The surroundings.                                                       *)

(* The job is cancelled, or its deadline passes.                           *)
JobEnds ==
    /\ ctx = "live"
    /\ pc # "over"
    /\ ctx' \in (IF pc = "removeOnJob" THEN {"cut"} ELSE {"cancelled", "deadline"})
    /\ wait' = IF wait = "live" /\ pc = "wait" THEN ctx' ELSE wait
    /\ UNCHANGED <<pc, cleanUp, reason, services, exec, cluster, faults>>

SchedulingTimeout ==
    /\ pc = "wait" /\ wait = "live"
    /\ wait' = "deadline"
    /\ UNCHANGED <<pc, cleanUp, ctx, reason, services, exec, cluster, faults>>

ServiceDeadline(s) ==
    /\ pc = "services" /\ s \notin ready /\ s \notin timedOut
    /\ timedOut' = timedOut \cup {s}
    /\ UNCHANGED <<run, ready, exec, cluster, faults>>

Kubelet ==
    /\ \/ pod = "pending" /\ pod' \in {"sidecars", "running", "stuck", "failed"}
       \/ pod = "sidecars" /\ pod' \in {"running", "exited", "failed"}
       \/ pod = "running" /\ pod' \in {"exited", "failed"}
       \/ pod = "terminating" /\ pod' = "none"
    /\ mine' = (mine /\ pod' # "none")
    /\ probe' = IF pod' = "none" THEN {} ELSE probe
    /\ cmd' = IF cmd = "running" /\ pod' # "running" THEN "killed" ELSE cmd
    /\ UNCHANGED <<run, services, verdict, faults>>

ProbeSucceeds(s) ==
    /\ pod \in {"sidecars", "running"} /\ mine
    /\ s \in Probed \ probe
    /\ probe' = probe \cup {s}
    /\ UNCHANGED <<run, services, exec, pod, mine, faults>>

Evict ==
    /\ pod \notin {"none", "terminating"}
    /\ Fault
    /\ pod' = "terminating"
    /\ cmd' = IF cmd = "running" THEN "killed" ELSE cmd
    /\ UNCHANGED <<run, services, verdict, mine, probe>>

Next ==
    \/ Check
    \/ Create
    \/ Replace
    \/ Replacing
    \/ Poll
    \/ WaitEnds
    \/ \E s \in Services : LookAtService(s)
    \/ \E s \in Services : ServiceTimesOut(s)
    \/ ServicesReady
    \/ Copy
    \/ ExecBegins
    \/ CommandEnds
    \/ ExecReturns
    \/ StepsOver
    \/ StartFailed
    \/ Remove
    \/ JobEnds
    \/ SchedulingTimeout
    \/ \E s \in Services : ServiceDeadline(s)
    \/ Kubelet
    \/ \E s \in Services : ProbeSucceeds(s)
    \/ Evict

(* The runner's own steps, the deadlines it sets, the command of a step    *)
(* (which may run for ever only until the task's deadline, JobEnds) and,   *)
(* for removeNow, which sets no deadline, the end of a Pod's termination.  *)
Progress ==
    \/ Check \/ Create \/ Replace \/ Replacing \/ Poll \/ WaitEnds \/ ServicesReady
    \/ Copy \/ ExecBegins \/ ExecReturns \/ StepsOver \/ StartFailed \/ Remove
    \/ \E s \in Services : LookAtService(s) \/ ServiceTimesOut(s)

Terminated == pod = "terminating" /\ Kubelet

Fairness ==
    /\ WF_vars(Progress)
    /\ WF_vars(CommandEnds)
    /\ WF_vars(SchedulingTimeout)
    /\ \A s \in Services : WF_vars(ServiceDeadline(s))
    /\ WF_vars(Terminated)

Spec == Init /\ [][Next]_vars /\ Fairness

-----------------------------------------------------------------------------
(* Every variable keeps its type.                                          *)
TypeOK ==
    /\ pc \in {"check", "create", "recreate", "replace", "replacing", "wait", "services",
               "copy", "steps", "failing", "remove", "removeOnJob", "over"}
    /\ cleanUp \in BOOLEAN
    /\ ctx \in {"live", "cancelled", "deadline", "cut"}
    /\ wait \in {"live", "cancelled", "deadline"}
    /\ reason \in {"none", "unsupported", "create", "replace", "disappeared", "exited",
                   "failed", "cannot start", "refused", "cancelled", "timed out",
                   "service", "copy"}
    /\ ready \subseteq Services
    /\ timedOut \subseteq Services
    /\ verdict \in {"none", "running", "ok", "failed", "interrupted"}
    /\ cmd \in {"none", "running", "zero", "nonzero", "killed"}
    /\ pod \in PodStates
    /\ mine \in BOOLEAN
    /\ probe \subseteq Probed
    /\ faults \in 0..MaxFaults

(* A job whose calls to the cluster all worked leaves no Pod of its own    *)
(* running, wherever its start failed or was cancelled: also when the call *)
(* that created the Pod had been on its way when the job was cancelled. The*)
(* one exception is a job cancelled during the clean-up of a start that    *)
(* had failed without it.                                                  *)
NoPodLeft == (pc = "over" /\ faults = 0 /\ ctx # "cut" /\ mine) => pod = "terminating"

(* Steps run in the Pod this job created, never in one an earlier runner   *)
(* left under its name, and only after every probed sidecar was ready.     *)
StepsInOwnPod ==
    (pc = "steps" /\ pod # "none") => mine /\ Probed \subseteq probe

(* Why the start failed is told truly: a cancelled wait is not reported as *)
(* one that timed out, nor a slow cluster as a cancel, and a Pod that can  *)
(* start is not given up for one failed read.                              *)
ReasonTrue ==
    (pc = "wait" /\ pc' = "failing") =>
        /\ reason' = "timed out" => wait = "deadline"
        /\ ctx = "cancelled" /\ wait # "deadline" => reason' = "cancelled"
        /\ (pod \in {"pending", "sidecars", "running"} /\ faults' = faults) =>
               reason' \in {"cancelled", "timed out"}
=============================================================================
