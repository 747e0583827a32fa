----------------------------- MODULE DockerJob -----------------------------
(***************************************************************************)
(* The docker environment of one job: how startJobContainer brings it up   *)
(* and cleanupJobResources takes it down (act/runner/run_context.go), with *)
(* the operations on one container, network, volume and image they are     *)
(* made of (act/container/docker_*.go).                                    *)
(*                                                                         *)
(* The daemon is shared with the past: a runner that died can have left    *)
(* containers, a network and volumes under the names of this job.  It is   *)
(* also concurrent: containers end, report their health and are removed    *)
(* by the daemon while the runner works.  A call to it may fail, the job   *)
(* may be cancelled at any point and a context of the clean-up may expire. *)
(***************************************************************************)
EXTENDS Integers, FiniteSets

CONSTANTS
    Services,       \* ids of the service containers
    Job,            \* stands for the job container
    Checked,        \* the services that declare a health check
    ForcePull,      \* an image is fetched even when it is present
    OwnNetwork,     \* the job creates and deletes its network
    WaitServices,   \* service_ready_timeout is not negative
    MaxFaults       \* bound on failed calls and expired clean-up contexts

Containers == Services \cup {Job}

VARIABLES
    pc,         \* the stage of the pipeline
    part,       \* progress of each service in a parallel stage
    failed,     \* the pipeline of the start has an error
    ctx,        \* the context of the job: "live" or "ended", "cut" when it ended
                \* during the clean-up of a start that had failed without it
    clean,      \* on whose context a clean-up runs, "no" outside of one, "unarmed" when
                \* the start failed before there was anything to clean up
    expired,    \* the clean-up's own context has run out
    verdict,    \* what the runner makes of the command of a step
    cmd,        \* that command inside the job container
    known,      \* containers whose id the runner holds (containerReference.id)
    cont,       \* the daemon: state of each container name
    fresh,      \* the daemon: containers made by this job
    health,     \* the daemon: health of each service
    net,        \* the daemon: the network of the job exists
    vol,        \* the daemon: the volumes of the job exist
    images,     \* the daemon: whose image is present locally
    faults

vars == <<pc, part, failed, ctx, clean, expired, verdict, cmd, known, cont, fresh, health, net, vol,
          images, faults>>
exec == <<verdict, cmd>>
control == <<pc, part, failed, ctx, clean, expired>>
daemon == <<cont, fresh, health, net, vol, images>>

Stages == {"prepare", "pullServices", "pullJob", "tidy", "network", "services", "wait", "create",
           "start", "copy", "steps", "failing", "rmJob", "rmServices", "rmVolumes",
           "rmNetwork", "over"}

Init ==
    /\ pc = "prepare"
    /\ part = [s \in Services |-> "todo"]
    /\ failed = FALSE
    /\ ctx = "live"
    /\ clean = "no"
    /\ expired = FALSE
    /\ verdict = "none"
    /\ cmd = "none"
    /\ known = {}
    /\ cont \in [Containers -> {"none", "running", "exited"}]
    /\ fresh = {}
    /\ health \in [Services -> {"none", "starting", "healthy", "unhealthy"}]
    /\ \A s \in Services : health[s] = "none" <=> s \notin Checked \/ cont[s] # "running"
    /\ net \in (IF OwnNetwork THEN BOOLEAN ELSE {TRUE})
    /\ vol \in BOOLEAN
    /\ images \in {{}, Containers}
    /\ faults = 0

Fault == faults < MaxFaults /\ faults' = faults + 1
NoFault == UNCHANGED faults

(* A call made on the context of the job, or of the clean-up in progress,  *)
(* fails once that context has ended; otherwise it works or is a fault.    *)
Ended == IF clean # "own" THEN ctx # "live" ELSE expired
Fails == (Ended /\ NoFault) \/ (~Ended /\ Fault)
Works == ~Ended /\ NoFault

-----------------------------------------------------------------------------
(* Moving through the pipeline.                                            *)

Goto(stage) == pc' = stage /\ part' = [s \in Services |-> "todo"]

(* Then: the next stage; one that starts on an ended context fails.        *)
Then(stage) == Goto(stage) /\ UNCHANGED failed
Abort == Goto("failing") /\ failed' = TRUE
Quiet == UNCHANGED <<ctx, clean, expired, exec>>

(* One executor of a parallel stage has ended.                             *)
Part(s, how) == part' = [part EXCEPT ![s] = how] /\ UNCHANGED <<pc, failed>>

(* Seeded defect: a worker that failed is waited for like the others.      *)
AllDone == \A s \in Services : part[s] = "done"

AllEnded == \A s \in Services : part[s] \in {"done", "failed"}
AnyFailed == \E s \in Services : part[s] = "failed"

(* NewParallelExecutor: every worker is waited for, then the first error   *)
(* or that of the context is the result.                                   *)
Joined(stage, next) ==
    /\ pc = stage
    /\ AllEnded
    /\ IF AnyFailed \/ ctx # "live" THEN Abort ELSE Goto(next) /\ UNCHANGED failed
    /\ Quiet
    /\ UNCHANGED <<known, daemon, faults>>

-----------------------------------------------------------------------------
(* One container.                                                          *)

(* find: a known id is dropped only when the daemon says that it is gone,  *)
(* an unknown one is looked up by name.                                    *)
Found(c) == cont[c] # "none"
Find(c) == IF Found(c) THEN known \cup {c} ELSE known \ {c}

(* NewDockerPullExecutor: present and not forced, fetched now (with the    *)
(* credentials or, refused, without), or failed with a local copy there.   *)
Pull(c, Ok, Bad) ==
    \/ Works /\ images' = images \cup {c} /\ Ok
    \/ ForcePull /\ c \in images /\ ~Ended /\ Fault /\ UNCHANGED images /\ Ok
    \/ (ForcePull /\ c \in images => Ended) /\ Fails /\ UNCHANGED images /\ Bad

(* Create: what find came up with is taken as it is, otherwise a container *)
(* is created.  The daemon may have carried out a call whose answer is     *)
(* lost, or that was on its way when the context ended.                    *)
Create(c, Ok, Bad) ==
    \/ /\ Works
       /\ known' = known \cup {c}
       /\ IF Found(c)
            THEN UNCHANGED <<cont, fresh, vol>>
            ELSE /\ cont' = [cont EXCEPT ![c] = "created"]
                 /\ fresh' = fresh \cup {c}
                 /\ vol' = (vol \/ c = Job)
       /\ Ok
    \/ /\ Fails
       /\ \/ UNCHANGED <<known, cont, fresh, vol>>
          \/ /\ ~Found(c)
             /\ cont' = [cont EXCEPT ![c] = "created"]
             /\ fresh' = fresh \cup {c}
             /\ vol' = (vol \/ c = Job)
             /\ UNCHANGED known
       /\ Bad

(* Start: find, then ContainerStart, which needs a container.              *)
Start(c, Ok, Bad) ==
    \/ /\ Works
       /\ known' = Find(c)
       /\ IF cont[c] \in {"created", "running", "exited"}
            THEN /\ cont' = [cont EXCEPT ![c] = "running"]
                 /\ health' = IF c \in Checked /\ cont[c] # "running"
                                THEN [health EXCEPT ![c] = "starting"] ELSE health
                 /\ Ok
            ELSE UNCHANGED <<cont, health>> /\ Bad
    \/ Fails /\ UNCHANGED <<known, cont, health>> /\ Bad

(* Remove: find, kill, a forced removal.  A container the daemon is        *)
(* already removing is waited for, fifteen seconds at most; any other      *)
(* error is logged, keeps the id and is not returned.                      *)
Remove(c) ==
    \/ Works /\ cont' = [cont EXCEPT ![c] = "none"] /\ known' = known \ {c}
    \/ /\ Found(c)
       /\ Fails
       /\ \/ UNCHANGED <<known, cont>>
          \/ ~Ended /\ c = Job /\ cont[c] \in {"running", "removing"}
             /\ cont' = [cont EXCEPT ![c] = "removing"] /\ known' = known \ {c}
    \/ ~Found(c) /\ Ended /\ NoFault /\ UNCHANGED <<known, cont>>

-----------------------------------------------------------------------------
(* Bringing the job up.                                                    *)

(* Credentials, ports and volumes of the services are evaluated; an error  *)
(* in them ends the start before rc.cleanUpJobContainer is set.            *)
Prepare ==
    /\ pc = "prepare"
    /\ \/ Goto("pullServices") /\ UNCHANGED <<failed, clean>>
       \/ Goto("over") /\ failed' = TRUE /\ clean' = "unarmed"
    /\ UNCHANGED <<ctx, expired, exec, known, daemon, faults>>

PullService(s) ==
    /\ pc = "pullServices" /\ part[s] = "todo"
    /\ Pull(s, Part(s, "done"), Part(s, "failed"))
    /\ Quiet
    /\ UNCHANGED <<known, cont, fresh, health, net, vol>>

ServicesPulled == Joined("pullServices", "pullJob")

PullJob ==
    /\ pc = "pullJob"
    /\ Pull(Job, Then("tidy"), Abort)
    /\ Quiet
    /\ UNCHANGED <<known, cont, fresh, health, net, vol>>

(* stopJobContainer: first remove what an earlier runner may have left     *)
(* under the same names, on the context of the job.                        *)
Tidy ==
    /\ pc = "tidy"
    /\ Goto("rmJob")
    /\ clean' = "tidy"
    /\ UNCHANGED <<failed, ctx, expired, exec, known, daemon, faults>>

(* NewDockerNetworkCreateExecutor: an existing network is taken; an        *)
(* exhausted address pool is tried three times, other errors are final.    *)
CreateNetwork ==
    /\ pc = "network"
    /\ \/ (Works \/ (~OwnNetwork /\ NoFault)) /\ net' = TRUE /\ Then("services")
       \/ OwnNetwork /\ Fails /\ net' \in {net, TRUE} /\ Abort
    /\ Quiet
    /\ UNCHANGED <<known, cont, fresh, health, vol, images>>

(* startServiceContainers: pull, create and start of each, in parallel.    *)
CreateService(s) ==
    /\ pc = "services" /\ part[s] = "todo"
    /\ Create(s, Part(s, "created"), Part(s, "failed"))
    /\ Quiet
    /\ UNCHANGED <<health, net, images>>

StartService(s) ==
    /\ pc = "services" /\ part[s] = "created"
    /\ Start(s, Part(s, "done"), Part(s, "failed"))
    /\ Quiet
    /\ UNCHANGED <<fresh, net, vol, images>>

ServicesStarted == Joined("services", "wait")

(* waitUntilHealthy, one look: gone or without a health check is ready,    *)
(* unhealthy is an error, starting is looked at again until the timeout,   *)
(* which is an error too; the error of one service cancels the others.     *)
LookAtService(s) ==
    /\ pc = "wait" /\ part[s] = "todo"
    /\ \/ /\ Works /\ ~AnyFailed
          /\ \/ (~WaitServices \/ ~Found(s) \/ health[s] \in {"none", "healthy"})
                /\ Part(s, "done")
             \/ WaitServices /\ Found(s) /\ health[s] = "unhealthy" /\ Part(s, "failed")
       \/ Fails /\ Part(s, "failed")
       \/ AnyFailed /\ WaitServices /\ NoFault /\ Part(s, "failed")
    /\ Quiet
    /\ UNCHANGED <<known, daemon>>

ServiceTimesOut(s) ==
    /\ pc = "wait" /\ part[s] = "todo" /\ WaitServices
    /\ health[s] = "starting"
    /\ Part(s, "failed")
    /\ Quiet
    /\ UNCHANGED <<known, daemon, faults>>

ServicesReady == Joined("wait", "create")

CreateJob ==
    /\ pc = "create"
    /\ Create(Job, Then("start"), Abort)
    /\ Quiet
    /\ UNCHANGED <<health, net, images>>

StartJob ==
    /\ pc = "start"
    /\ Start(Job, Then("copy"), Abort)
    /\ Quiet
    /\ UNCHANGED <<fresh, net, vol, images>>

(* Copy of the event and the environment file: needs a known container.    *)
CopyFiles ==
    /\ pc = "copy"
    /\ known' = IF Ended THEN known ELSE Find(Job)
    /\ \/ Works /\ Found(Job) /\ Then("steps")
       \/ (Fails \/ (Works /\ ~Found(Job))) /\ Abort
    /\ Quiet
    /\ UNCHANGED daemon

-----------------------------------------------------------------------------
(* The command of a step.                                                  *)

(* exec: find, ExecCreate and ExecAttach, which need a running container.  *)
ExecBegins ==
    /\ pc = "steps" /\ verdict = "none"
    /\ known' = IF Ended THEN known ELSE Find(Job)
    /\ \/ Works /\ cont[Job] = "running" /\ verdict' = "running" /\ cmd' = "running"
       \/ (Fails \/ (Works /\ cont[Job] # "running")) /\ verdict' = "failed" /\ UNCHANGED cmd
    /\ UNCHANGED <<control, daemon>>

CommandEnds ==
    /\ cmd = "running"
    /\ cmd' \in {"zero", "nonzero"}
    /\ UNCHANGED <<control, verdict, known, daemon, faults>>

(* waitForCommand: the output ended, and ExecInspect has the exit code.    *)
ExecReturns ==
    /\ verdict = "running" /\ cmd # "running"
    /\ \/ Works /\ verdict' = IF cmd = "zero" THEN "ok" ELSE "failed"
       \/ Fails /\ verdict' = "failed"
    /\ UNCHANGED <<control, cmd, known, daemon>>

(* waitForCommand: the context ended; after a ctrl-C and two seconds for   *)
(* the output to drain the command is left to the teardown.                *)
ExecInterrupted ==
    /\ verdict = "running" /\ ctx # "live"
    /\ verdict' = "interrupted"
    /\ UNCHANGED <<control, cmd, known, daemon, faults>>

-----------------------------------------------------------------------------
(* Taking it down: cleanupJobResources.                                    *)

(* Seeded defect: the clean-up always runs on the context of the job.      *)
StartFailedOnJob ==
    /\ pc = "failing"
    /\ Goto("rmJob")
    /\ clean' = "failed"
    /\ UNCHANGED <<failed, ctx, expired, exec, known, daemon, faults>>

(* cleanupFailedStart: on the context of the job if that is still live, on *)
(* one of its own otherwise.                                               *)
StartFailed ==
    /\ pc = "failing"
    /\ Goto("rmJob")
    /\ clean' = IF ctx = "live" THEN "failed" ELSE "own"
    /\ UNCHANGED <<failed, ctx, expired, exec, known, daemon, faults>>

(* The steps are over, done or interrupted: the job executor tears down on *)
(* a context of its own.                                                   *)
StepsOver ==
    /\ pc = "steps" /\ verdict # "running"
    /\ Goto("rmJob")
    /\ clean' = "own"
    /\ UNCHANGED <<failed, ctx, expired, exec, known, daemon, faults>>

RemoveJob ==
    /\ pc = "rmJob"
    /\ Remove(Job)
    /\ Goto("rmServices")
    /\ Quiet
    /\ UNCHANGED <<failed, fresh, health, net, vol, images>>

RemoveService(s) ==
    /\ pc = "rmServices" /\ part[s] = "todo"
    /\ Remove(s)
    /\ Part(s, "done")
    /\ Quiet
    /\ UNCHANGED <<fresh, health, net, vol, images>>

ServicesRemoved ==
    /\ pc = "rmServices"
    /\ AllEnded
    /\ Goto("rmVolumes")
    /\ Quiet
    /\ UNCHANGED <<failed, known, daemon, faults>>

(* A volume in use is not removed, and that is an error, as a failed call. *)
VolumeInUse == Found(Job)
RemoveVolumes ==
    /\ pc = "rmVolumes"
    /\ \/ Works /\ vol' = (vol /\ VolumeInUse) /\ failed' = (failed \/ vol')
       \/ Fails /\ UNCHANGED vol /\ failed' = TRUE
    /\ pc' = "rmNetwork"
    /\ Quiet
    /\ UNCHANGED <<part, known, cont, fresh, health, net, images>>

(* NewDockerNetworkRemoveExecutor: refused while a container is attached,  *)
(* only logged when it fails.  Then the clean-up is over: back to the      *)
(* pipeline when it was the tidying, which stops it if it had an error.    *)
Endpoints == {c \in Containers : cont[c] \in {"running", "removing"}}
RemoveNetwork ==
    /\ pc = "rmNetwork"
    /\ IF ~OwnNetwork THEN UNCHANGED net /\ NoFault
       ELSE \/ Works /\ net' = (net /\ Endpoints # {})
            \/ Fails /\ UNCHANGED net
    /\ clean' = "no"
    /\ IF clean = "tidy"
         THEN Goto(IF failed \/ ctx # "live" THEN "failing" ELSE "network")
         ELSE Goto("over")
    /\ UNCHANGED <<failed, ctx, expired, exec, known, cont, fresh, health, vol, images>>

-----------------------------------------------------------------------------
(* The surroundings.                                                       *)

Cancel ==
    /\ ctx = "live"
    /\ pc # "over"
    /\ ctx' = IF clean = "failed" THEN "cut" ELSE "ended"
    /\ UNCHANGED <<pc, part, failed, clean, expired, exec, known, daemon, faults>>

(* The minute of a clean-up with its own context is over.                  *)
CleanupExpires ==
    /\ clean = "own" /\ ~expired
    /\ Fault
    /\ expired' = TRUE
    /\ UNCHANGED <<pc, part, failed, ctx, clean, exec, known, daemon>>

(* A container ends: the daemon removes the job's, which was created with  *)
(* AutoRemove, and keeps a service's so that its log survives.             *)
ContainerEnds(c) ==
    /\ cont[c] = "running"
    /\ cont' = [cont EXCEPT ![c] = IF c = Job THEN "removing" ELSE "exited"]
    /\ health' = IF c \in Services THEN [health EXCEPT ![c] = "none"] ELSE health
    /\ cmd' = IF c = Job /\ cmd = "running" THEN "killed" ELSE cmd
    /\ UNCHANGED <<control, verdict, known, fresh, net, vol, images, faults>>

RemovalEnds ==
    /\ cont[Job] = "removing"
    /\ cont' = [cont EXCEPT ![Job] = "none"]
    /\ UNCHANGED <<control, exec, known, fresh, health, net, vol, images, faults>>

HealthReported(s) ==
    /\ cont[s] = "running" /\ health[s] = "starting"
    /\ health' \in {[health EXCEPT ![s] = h] : h \in {"healthy", "unhealthy"}}
    /\ UNCHANGED <<control, exec, known, cont, fresh, net, vol, images, faults>>

Next ==
    \/ Prepare
    \/ \E s \in Services : PullService(s)
    \/ ServicesPulled
    \/ PullJob
    \/ Tidy
    \/ CreateNetwork
    \/ \E s \in Services : CreateService(s)
    \/ \E s \in Services : StartService(s)
    \/ ServicesStarted
    \/ \E s \in Services : LookAtService(s)
    \/ \E s \in Services : ServiceTimesOut(s)
    \/ ServicesReady
    \/ CreateJob
    \/ StartJob
    \/ CopyFiles
    \/ ExecBegins
    \/ CommandEnds
    \/ ExecReturns
    \/ ExecInterrupted
    \/ StartFailed
    \/ StepsOver
    \/ RemoveJob
    \/ \E s \in Services : RemoveService(s)
    \/ ServicesRemoved
    \/ RemoveVolumes
    \/ RemoveNetwork
    \/ Cancel
    \/ CleanupExpires
    \/ \E c \in Containers : ContainerEnds(c)
    \/ RemovalEnds
    \/ \E s \in Services : HealthReported(s)

(* The runner's own steps; every wait in them has a timeout.               *)
Progress ==
    \/ Prepare \/ ServicesPulled \/ PullJob \/ Tidy \/ CreateNetwork \/ ServicesStarted
    \/ ServicesReady \/ CreateJob \/ StartJob \/ CopyFiles \/ ExecReturns
    \/ ExecInterrupted \/ StartFailed \/ StepsOver
    \/ RemoveJob \/ ServicesRemoved \/ RemoveVolumes \/ RemoveNetwork

ServiceProgress(s) ==
    \/ PullService(s) \/ CreateService(s) \/ StartService(s) \/ LookAtService(s)
    \/ ServiceTimesOut(s) \/ RemoveService(s)

Fairness ==
    /\ WF_vars(Progress)
    /\ WF_vars(CommandEnds)
    /\ \A s \in Services : WF_vars(ServiceProgress(s))

Spec == Init /\ [][Next]_vars /\ Fairness

-----------------------------------------------------------------------------
(* Every variable keeps its type.                                          *)
TypeOK ==
    /\ pc \in Stages
    /\ part \in [Services -> {"todo", "created", "done", "failed"}]
    /\ failed \in BOOLEAN
    /\ ctx \in {"live", "ended", "cut"}
    /\ clean \in {"no", "tidy", "failed", "own", "unarmed"}
    /\ expired \in BOOLEAN
    /\ verdict \in {"none", "running", "ok", "failed", "interrupted"}
    /\ cmd \in {"none", "running", "zero", "nonzero", "killed"}
    /\ known \subseteq Containers
    /\ cont \in [Containers -> {"none", "created", "running", "exited", "removing"}]
    /\ fresh \subseteq Containers
    /\ health \in [Services -> {"none", "starting", "healthy", "unhealthy"}]
    /\ net \in BOOLEAN
    /\ vol \in BOOLEAN
    /\ images \subseteq Containers
    /\ faults \in 0..MaxFaults

(* A job whose calls to the daemon all worked leaves nothing: no container,*)
(* volume or network, wherever it failed or was cancelled and whatever an  *)
(* earlier runner had left under its names.  Two exceptions: a cancel      *)
(* during the clean-up of a start that had failed without it, and a start  *)
(* that failed before it touched the daemon, which leaves what it found.   *)
NothingLeftBehind ==
    (pc = "over" /\ faults = 0 /\ ctx # "cut" /\ clean # "unarmed") =>
        /\ \A c \in Containers : cont[c] = "none"
        /\ ~vol
        /\ OwnNetwork => ~net

(* Steps begin with what the job declares: its network is there, every     *)
(* container it runs in was made by this job, not found under its name,    *)
(* and no service is still starting.                                       *)
StepsEnvironmentReady ==
    pc = "steps" =>
        /\ net
        /\ Found(Job) => Job \in known
        /\ faults = 0 => \A c \in Containers : Found(c) => c \in fresh
        /\ WaitServices => \A s \in Services : health[s] # "starting"

=============================================================================
