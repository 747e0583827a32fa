---------------------------- MODULE Environment ----------------------------
(***************************************************************************)
(* The environment one job runs in, whichever backend its runs-on label    *)
(* picks (execBackend, act/runner/run_context.go): containers of a docker  *)
(* daemon, a Pod of a cluster, or processes of the host; or the container  *)
(* of its own that a docker step of such a job runs in.  The job executor  *)
(* is the same for all; what it relies on is stated here once.             *)
(*                                                                         *)
(* The backends share the stage of the start and the teardown, the context *)
(* of the job and the command of a step; the rest of each one's state is   *)
(* its own, and unused in a job of another backend.                        *)
(***************************************************************************)
EXTENDS Integers, FiniteSets

CONSTANTS
    Services,       \* ids of the job's services
    Checked,        \* those that declare a health check
    Job,            \* stands for the job container
    ForcePull, OwnNetwork, WaitServices,        \* see DockerJob
    ForceRebuild,   \* see StepContainer
    Kids, Escaped, Holding, MaxSteps, CleanWorkdir,     \* see HostJob
    MaxFaults       \* bound on calls that fail, see each backend

ASSUME EnvironmentAssumption ==
    /\ Job \notin Services
    /\ Checked \subseteq Services
    /\ ForcePull \in BOOLEAN
    /\ OwnNetwork \in BOOLEAN
    /\ ForceRebuild \in BOOLEAN
    /\ WaitServices \in BOOLEAN
    /\ Escaped \subseteq Kids
    /\ Holding \subseteq Kids
    /\ MaxSteps \in Nat
    /\ CleanWorkdir \in BOOLEAN
    /\ MaxFaults \in Nat

VARIABLES
    backend,    \* what execBackend answers, or "step" for the container of a step
    pc, ctx, verdict, cmd, faults,
    part, failed, clean, expired, known, cont, fresh, health, net, vol, images,
    cleanUp, wait, reason, ready, timedOut, pod, mine, probe,
    armed, step, at, captured, sent, alive, delayed, scratch, work, late, errs,
    rmExpired,
    source, image, box, origin

Docker == INSTANCE DockerJob
Kubernetes == INSTANCE PodJob WITH Probed <- Checked
Host == INSTANCE HostJob
Own == INSTANCE StepContainer

ofDocker == <<part, failed, clean, expired, known, cont, fresh, health, net, vol, images>>
ofPod == <<cleanUp, wait, reason, ready, timedOut, pod, mine, probe>>
ofHost == <<armed, step, at, captured, sent, alive, delayed, scratch, work, late, errs,
            rmExpired>>
ofStep == <<source, image, box, origin>>
vars == <<backend, pc, ctx, verdict, cmd, faults, ofDocker, ofPod, ofHost, ofStep>>

None == "unused"
NoDocker ==
    /\ part = None /\ failed = None /\ clean = None /\ expired = None
    /\ known = None /\ cont = None /\ fresh = None /\ health = None
    /\ net = None /\ vol = None /\ images = None
NoPod ==
    /\ cleanUp = None /\ wait = None /\ reason = None /\ ready = None
    /\ timedOut = None /\ pod = None /\ mine = None /\ probe = None
NoHost ==
    /\ armed = None /\ step = None /\ at = None /\ captured = None /\ sent = None
    /\ alive = None /\ delayed = None /\ scratch = None /\ work = None
    /\ late = None /\ errs = None /\ rmExpired = None
NoStep == source = None /\ image = None /\ box = None /\ origin = None

Init ==
    \/ backend = "docker" /\ Docker!Init /\ NoPod /\ NoHost /\ NoStep
    \/ backend = "kubernetes" /\ Kubernetes!Init /\ NoDocker /\ NoHost /\ NoStep
    \/ backend = "host" /\ Host!Init /\ NoDocker /\ NoPod /\ NoStep
    \/ backend = "step" /\ Own!Init /\ NoDocker /\ NoPod /\ NoHost

(* Once the job is running, what it runs in does not change.               *)
InDocker(A) == backend = "docker" /\ A /\ UNCHANGED <<backend, ofPod, ofHost, ofStep>>
InPod(A) == backend = "kubernetes" /\ A /\ UNCHANGED <<backend, ofDocker, ofHost, ofStep>>
OnHost(A) == backend = "host" /\ A /\ UNCHANGED <<backend, ofDocker, ofPod, ofStep>>
InStep(A) == backend = "step" /\ A /\ UNCHANGED <<backend, ofDocker, ofPod, ofHost>>

Next == InDocker(Docker!Next) \/ InPod(Kubernetes!Next) \/ OnHost(Host!Next) \/ InStep(Own!Next)

(* The fairness of each backend, see there.                                *)
Fairness ==
    /\ WF_vars(InDocker(Docker!Progress))
    /\ WF_vars(InDocker(Docker!CommandEnds))
    /\ \A s \in Services : WF_vars(InDocker(Docker!ServiceProgress(s)))
    /\ WF_vars(InPod(Kubernetes!Progress))
    /\ WF_vars(InPod(Kubernetes!CommandEnds))
    /\ WF_vars(InPod(Kubernetes!SchedulingTimeout))
    /\ \A s \in Services : WF_vars(InPod(Kubernetes!ServiceDeadline(s)))
    /\ WF_vars(InPod(Kubernetes!Terminated))
    /\ WF_vars(OnHost(Host!Progress))
    /\ WF_vars(OnHost(Host!StepsOver))
    /\ WF_vars(OnHost(Host!EndContext))
    /\ WF_vars(InStep(Own!Progress))
    /\ WF_vars(InStep(Own!CommandEnds))

Spec == Init /\ [][Next]_vars /\ Fairness

-----------------------------------------------------------------------------
(* Every variable keeps its type.                                          *)
TypeOK ==
    /\ backend \in {"docker", "kubernetes", "host", "step"}
    /\ backend = "docker" => Docker!TypeOK
    /\ backend = "kubernetes" => Kubernetes!TypeOK
    /\ backend = "host" => Host!TypeOK
    /\ backend = "step" => Own!TypeOK

(* The teardown leaves nothing of a job whose calls all worked, wherever   *)
(* its start failed or was cancelled and whatever an earlier runner had    *)
(* left under its names (cleanupJobResources, PodEnvironment.Remove,       *)
(* HostEnvironment.Remove).                                                *)
NothingLeft ==
    /\ backend = "docker" => Docker!NothingLeftBehind
    /\ backend = "kubernetes" => Kubernetes!NoPodLeft
    /\ backend = "host" => Host!ScratchGone
    /\ backend = "step" => Own!NoStepContainerLeft

(* Steps begin in an environment of this job's own, with its services up   *)
(* (startJobContainer, startPodEnvironment, waitForServiceContainers).     *)
StepsInOwnEnvironment ==
    /\ backend = "docker" => Docker!StepsEnvironmentReady
    /\ backend = "kubernetes" => Kubernetes!StepsInOwnPod
    /\ backend = "step" => Own!RunsOwnImage

(* A step passes only if its command ran to its end and exited with zero   *)
(* (waitForCommand, PodEnvironment.Exec, HostEnvironment.exec): not when   *)
(* the container or the Pod ended under it, when it was killed or when the *)
(* wait for it was interrupted.                                            *)
VerdictTrue == verdict = "ok" => cmd = "zero"

(* What a step runs in, what is made of its command, and, on the host,     *)
(* what a cancelled one leaves running (TreeKill).                         *)
StepsSound ==
    /\ StepsInOwnEnvironment
    /\ VerdictTrue
    /\ backend = "host" => Host!CancelKillsTree

(* Why the start of a Pod failed is told truly (waitForRunning).           *)
ReasonTrue == [][backend = "kubernetes" => Kubernetes!ReasonTrue]_vars

(* The start and the teardown of every job come to an end.                 *)
JobEnds == <>(pc = "over")
=============================================================================
