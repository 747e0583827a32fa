------------------------- MODULE EnvironmentProofs -------------------------
(***************************************************************************)
(* Proofs about Environment: that every variable keeps its type, that a    *)
(* teardown whose calls all worked leaves nothing, that steps run in an    *)
(* environment of this job's own, with the verdict of their command, and   *)
(* that why a Pod failed to start is told truly; for any services,         *)
(* processes and number of steps, and any number of calls that fail.       *)
(*                                                                         *)
(* The invariant has a part for each backend: what a stage of the start    *)
(* has set up, and what one of the teardown has removed, stays so until    *)
(* the stage that undoes it, unless a call has failed.                     *)
(***************************************************************************)
EXTENDS Environment, TLAPS

-----------------------------------------------------------------------------
(* A docker job.                                                           *)

\* On which context the clean-up in progress runs, and that nothing but a fault
\* makes its own one run out.
DockerContexts ==
    /\ clean \in {"tidy", "failed", "own"} <=> pc \in {"rmJob", "rmServices", "rmVolumes", "rmNetwork"}
    /\ clean = "unarmed" => pc = "over"
    /\ clean = "failed" => ctx \in {"live", "cut"}
    /\ faults = 0 => ~expired

\* A clean-up whose calls have all worked, since neither they nor its context
\* have failed, has removed what its stage says.
Gone(S) == \A c \in S : cont[c] = "none"
Undisturbed == faults = 0 /\ (clean = "own" \/ ctx = "live")
DockerRemoves ==
    Undisturbed =>
        /\ pc \in {"rmServices", "rmVolumes", "rmNetwork"} => cont[Job] = "none"
        /\ pc = "rmServices" => \A s \in Services : part[s] = "done" => cont[s] = "none"
        /\ pc \in {"rmVolumes", "rmNetwork"} => Gone(Services)
        /\ pc = "rmNetwork" => ~vol
DockerWorkers == pc = "rmServices" => \A s \in Services : part[s] \in {"todo", "done"}

\* Once an earlier runner's leftovers are removed, what there is, is of this job.
Rising == {"network", "services", "wait", "create", "start", "copy", "steps"}
DockerOwns == pc \in Rising /\ faults = 0 => \A c \in Docker!Containers : cont[c] # "none" => c \in fresh

\* What has been set up stays so until the clean-up.
DockerUp ==
    /\ pc \in Rising \ {"network"} => net
    /\ pc = "steps" => (cont[Job] # "none" => Job \in known)
    /\ pc = "services" => \A s \in Services : part[s] = "done" => cont[s] \in {"running", "exited"}
    /\ pc = "wait" => \A s \in Services :
           /\ cont[s] \in {"running", "exited"}
           /\ part[s] = "done" /\ WaitServices => health[s] # "starting"
    /\ pc \in {"create", "start", "copy", "steps"} /\ WaitServices =>
           \A s \in Services : health[s] # "starting"

DockerInv ==
    /\ Docker!TypeOK /\ DockerContexts /\ DockerWorkers /\ DockerRemoves /\ DockerOwns /\ DockerUp
    /\ Docker!NothingLeftBehind /\ VerdictTrue

-----------------------------------------------------------------------------
(* A Pod.                                                                  *)

\* The clean-up is armed before the job can have a Pod, and begins on the
\* context of the job only while that is live.
PodArmed ==
    /\ pc \notin {"check", "failing", "over"} => cleanUp
    /\ mine => cleanUp /\ pod # "none"
    /\ pc = "removeOnJob" => ctx \in {"live", "cut"}

\* From the wait on the Pod under the job's name, if there is one, is its own;
\* and sidecars found ready are, as long as it is there.
PodOwn ==
    /\ pc \in {"wait", "services", "copy", "steps"} /\ pod # "none" => mine
    /\ pc \in {"check", "create", "recreate", "replace", "replacing", "wait"} => ready = {}
    /\ pc \in {"copy", "steps"} => ready = Services
    /\ pc \in {"services", "copy", "steps"} /\ pod # "none" => ready \cap Checked \subseteq probe

PodInv ==
    /\ Kubernetes!TypeOK /\ PodArmed /\ PodOwn
    /\ Kubernetes!NoPodLeft /\ VerdictTrue

-----------------------------------------------------------------------------
(* Processes of the host.                                                  *)

\* As long as file operations work, the stages find and leave what they should.
HostFiles ==
    faults = 0 =>
        /\ late = {} /\ ~rmExpired /\ pc # "failing"
        /\ pc \in {"rmPath", "rmWorkdir", "over"} => ~scratch
        /\ pc = "over" /\ CleanWorkdir => ~work

\* Once the command has been killed, or has ended, it starts nothing more; and
\* it has no verdict before it has been waited for.
HostCommand ==
    /\ cmd = "running" => at \in {"started", "waiting"} /\ sent = "none" /\ step > 0
    /\ at # "idle" => verdict = "none"
    /\ verdict = "ok" => cmd = "zero"

HostInv == Host!TypeOK /\ HostFiles /\ HostCommand /\ Host!CancelKillsTree

-----------------------------------------------------------------------------
(* The container of a step.                                                *)

\* The image from the pull on, and that it is the step's own where that is
\* forced.
ForcedImage == IF source = "file" THEN ForceRebuild ELSE ForcePull
StepImage ==
    /\ pc \in {"old", "create", "attach", "start", "wait", "waiting"} =>
           /\ image \in {"old", "mine"}
           /\ faults = 0 /\ ForcedImage => image = "mine"
    /\ pc = "pull" /\ faults = 0 /\ source = "file" /\ ForceRebuild => image = "mine"
    /\ origin # "other"

\* Whose container there is under the name of the step.
StepBox ==
    /\ box = "none" <=> origin = "none"
    /\ pc \in {"look", "drop", "args", "build", "pull", "old"} => origin \in {"none", "past"}
    /\ pc = "create" /\ faults = 0 => box = "none"
    /\ pc \in {"attach", "start", "wait", "waiting"} /\ faults = 0 => origin \in {"none", image}
    /\ pc \in {"wait", "waiting"} =>
           box \in {"none", "removing"} \/ (box = "running" /\ cmd = "running")
    /\ pc \in {"close", "over"} /\ faults = 0 /\ ctx = "live" =>
           box \in {"none", "removing"} \/ origin = "past"
    /\ verdict # "none" <=> pc \in {"close", "over"}

StepInv == Own!TypeOK /\ StepImage /\ StepBox /\ VerdictTrue

-----------------------------------------------------------------------------
(* All of them.                                                            *)

IInv ==
    /\ backend \in {"docker", "kubernetes", "host", "step"}
    /\ backend = "docker" => DockerInv
    /\ backend = "kubernetes" => PodInv
    /\ backend = "host" => HostInv
    /\ backend = "step" => StepInv

\* Faults are counted up to their bound.
Counted == faults \in 0..MaxFaults

-----------------------------------------------------------------------------
(* The proof for a docker job.                                             *)

\* The types, apart by the kind of reasoning they need.
DockerStages ==
    /\ pc \in Docker!Stages
    /\ ctx \in {"live", "ended", "cut"}
    /\ clean \in {"no", "tidy", "failed", "own", "unarmed"}
DockerParts == part \in [Services -> {"todo", "created", "done", "failed"}]
DockerCommand ==
    /\ verdict \in {"none", "running", "ok", "failed", "interrupted"}
    /\ cmd \in {"none", "running", "zero", "nonzero", "killed"}
DockerStates ==
    /\ cont \in [Docker!Containers -> {"none", "created", "running", "exited", "removing"}]
    /\ health \in [Services -> {"none", "starting", "healthy", "unhealthy"}]
DockerNames ==
    /\ known \subseteq Docker!Containers
    /\ fresh \subseteq Docker!Containers
    /\ images \subseteq Docker!Containers
DockerFlags == failed \in BOOLEAN /\ expired \in BOOLEAN /\ net \in BOOLEAN /\ vol \in BOOLEAN

LEMMA DockerTypes ==
    Docker!TypeOK <=>
        /\ DockerStages /\ DockerParts /\ DockerCommand /\ DockerStates /\ DockerNames
        /\ DockerFlags /\ Counted
BY Zenon DEF Docker!TypeOK, DockerStages, DockerParts, DockerCommand, DockerStates,
   DockerNames, DockerFlags, Counted

LEMMA DockerInit == Docker!Init => DockerInv
<1> SUFFICES ASSUME Docker!Init PROVE DockerInv
  OBVIOUS
<1>1. DockerStages /\ DockerCommand /\ DockerParts /\ Counted
  BY EnvironmentAssumption
     DEF Docker!Init, DockerStages, DockerCommand, DockerParts, Counted, Docker!Stages
<1>2. DockerStates /\ DockerNames
  BY DEF Docker!Init, DockerStates, DockerNames
<1>3. DockerFlags
  <2>1. failed \in BOOLEAN /\ expired \in BOOLEAN /\ vol \in BOOLEAN
    BY Zenon DEF Docker!Init
  <2>2. net \in BOOLEAN
    BY DEF Docker!Init
  <2> QED BY <2>1, <2>2, Zenon DEF DockerFlags
<1>4. DockerContexts /\ DockerWorkers /\ DockerRemoves
  BY DEF Docker!Init, DockerContexts, DockerWorkers, DockerRemoves
<1>5. DockerOwns /\ DockerUp
  BY DEF Docker!Init, DockerOwns, DockerUp, Rising
<1>6. Docker!NothingLeftBehind /\ VerdictTrue
  BY DEF Docker!Init, Docker!NothingLeftBehind, VerdictTrue
<1> QED BY <1>1, <1>2, <1>3, <1>4, <1>5, <1>6, DockerTypes DEF DockerInv

\* What becomes of the stages and the contexts.
LEMMA DockerStagesKept == ASSUME DockerStages, Docker!Next PROVE DockerStages'
<1> USE DEF DockerStages, Docker!Stages, Docker!Goto, Docker!Then, Docker!Abort,
        Docker!Quiet, Docker!Part
<1>1. CASE Docker!Prepare \/ Docker!Tidy
  BY <1>1 DEF Docker!Prepare, Docker!Tidy
<1>2. CASE Docker!ServicesPulled \/ Docker!ServicesStarted \/ Docker!ServicesReady
  BY <1>2 DEF Docker!ServicesPulled, Docker!ServicesStarted, Docker!ServicesReady,
     Docker!Joined
<1>3. CASE Docker!PullJob
  BY <1>3 DEF Docker!PullJob, Docker!Pull
<1>4. CASE Docker!CreateNetwork
  BY <1>4 DEF Docker!CreateNetwork
<1>5. CASE Docker!CreateJob
  BY <1>5 DEF Docker!CreateJob, Docker!Create
<1>6. CASE Docker!StartJob
  BY <1>6 DEF Docker!StartJob, Docker!Start
<1>7. CASE Docker!CopyFiles
  BY <1>7 DEF Docker!CopyFiles
<1>8. CASE Docker!StartFailed \/ Docker!StepsOver
  BY <1>8 DEF Docker!StartFailed, Docker!StepsOver
<1>9. CASE Docker!RemoveJob \/ Docker!ServicesRemoved \/ Docker!RemoveVolumes
  BY <1>9 DEF Docker!RemoveJob, Docker!ServicesRemoved, Docker!RemoveVolumes
<1>10. CASE Docker!RemoveNetwork
  BY <1>10 DEF Docker!RemoveNetwork
<1>11. CASE Docker!Cancel
  BY <1>11 DEF Docker!Cancel
<1>12. CASE UNCHANGED <<pc, ctx, clean>>
  BY <1>12
<1> QED BY <1>1, <1>2, <1>3, <1>4, <1>5, <1>6, <1>7, <1>8, <1>9, <1>10, <1>11, <1>12
   DEF Docker!Next, Docker!PullService, Docker!Pull, Docker!CreateService, Docker!Create,
       Docker!StartService, Docker!Start, Docker!LookAtService, Docker!ServiceTimesOut,
       Docker!ExecBegins, Docker!CommandEnds, Docker!ExecReturns, Docker!ExecInterrupted,
       Docker!RemoveService, Docker!CleanupExpires, Docker!ContainerEnds,
       Docker!RemovalEnds, Docker!HealthReported, Docker!control

\* What becomes of the workers of a parallel stage.
LEMMA DockerPartsKept == ASSUME DockerParts, Docker!Next PROVE DockerParts'
<1> USE DEF DockerParts
<1>1. CASE part' = [s \in Services |-> "todo"]
  BY <1>1
<1>2. ASSUME NEW s \in Services, NEW how \in {"created", "done", "failed"},
             part' = [part EXCEPT ![s] = how]
      PROVE  DockerParts'
  BY <1>2
<1>3. CASE UNCHANGED part
  BY <1>3
<1>4. ASSUME NEW s \in Services,
             \/ Docker!PullService(s) \/ Docker!CreateService(s) \/ Docker!StartService(s)
             \/ Docker!LookAtService(s) \/ Docker!ServiceTimesOut(s) \/ Docker!RemoveService(s)
      PROVE  \E how \in {"created", "done", "failed"} : part' = [part EXCEPT ![s] = how]
  BY <1>4 DEF Docker!PullService, Docker!Pull, Docker!CreateService, Docker!Create,
     Docker!StartService, Docker!Start, Docker!LookAtService, Docker!ServiceTimesOut,
     Docker!RemoveService, Docker!Part
<1>5. CASE \/ Docker!Prepare \/ Docker!ServicesPulled \/ Docker!PullJob \/ Docker!Tidy
           \/ Docker!CreateNetwork \/ Docker!ServicesStarted \/ Docker!ServicesReady
           \/ Docker!CreateJob \/ Docker!StartJob \/ Docker!CopyFiles \/ Docker!StartFailed
           \/ Docker!StepsOver \/ Docker!RemoveJob \/ Docker!ServicesRemoved
           \/ Docker!RemoveNetwork
  BY <1>1, <1>5 DEF Docker!Prepare, Docker!ServicesPulled, Docker!PullJob, Docker!Pull,
     Docker!Tidy, Docker!CreateNetwork, Docker!ServicesStarted, Docker!ServicesReady,
     Docker!CreateJob, Docker!Create, Docker!StartJob, Docker!Start, Docker!CopyFiles,
     Docker!StartFailed, Docker!StepsOver, Docker!RemoveJob, Docker!ServicesRemoved,
     Docker!RemoveNetwork, Docker!Joined, Docker!Then, Docker!Abort, Docker!Goto
<1> QED BY <1>2, <1>3, <1>4, <1>5
   DEF Docker!Next, Docker!ExecBegins, Docker!CommandEnds, Docker!ExecReturns,
       Docker!ExecInterrupted, Docker!RemoveVolumes, Docker!Cancel, Docker!CleanupExpires,
       Docker!ContainerEnds, Docker!RemovalEnds, Docker!HealthReported, Docker!control

\* What becomes of the command of a step.
LEMMA DockerCommandKept == ASSUME DockerCommand, Docker!Next PROVE DockerCommand'
<1> USE DEF DockerCommand
<1>1. CASE Docker!ExecBegins \/ Docker!CommandEnds \/ Docker!ExecReturns \/ Docker!ExecInterrupted
  BY <1>1 DEF Docker!ExecBegins, Docker!CommandEnds, Docker!ExecReturns,
     Docker!ExecInterrupted
<1>2. ASSUME NEW c \in Docker!Containers, Docker!ContainerEnds(c) PROVE DockerCommand'
  BY <1>2 DEF Docker!ContainerEnds
<1>3. CASE UNCHANGED <<verdict, cmd>>
  BY <1>3
<1> QED BY <1>1, <1>2, <1>3
   DEF Docker!Next, Docker!Prepare, Docker!PullService, Docker!ServicesPulled,
       Docker!PullJob, Docker!Tidy, Docker!CreateNetwork, Docker!CreateService,
       Docker!StartService, Docker!ServicesStarted, Docker!LookAtService,
       Docker!ServiceTimesOut, Docker!ServicesReady, Docker!CreateJob, Docker!StartJob,
       Docker!CopyFiles, Docker!StartFailed, Docker!StepsOver, Docker!RemoveJob,
       Docker!RemoveService, Docker!ServicesRemoved, Docker!RemoveVolumes,
       Docker!RemoveNetwork, Docker!Cancel, Docker!CleanupExpires, Docker!RemovalEnds,
       Docker!HealthReported, Docker!Joined, Docker!Quiet, Docker!exec

\* What becomes of the containers and the health of the services.
LEMMA DockerStatesKept == ASSUME DockerStates, Docker!Next PROVE DockerStates'
<1> DEFINE States == {"none", "created", "running", "exited", "removing"}
           Healths == {"none", "starting", "healthy", "unhealthy"}
<1> USE DEF DockerStates
<1> HIDE DEF States, Healths
<1>1. ASSUME NEW c \in Docker!Containers, NEW v \in States,
             cont' = [cont EXCEPT ![c] = v], UNCHANGED health
      PROVE  DockerStates'
  BY <1>1 DEF States
<1>2. ASSUME NEW c \in Docker!Containers, NEW v \in States, NEW h \in Healths,
             cont' = [cont EXCEPT ![c] = v], health' = [health EXCEPT ![c] = h]
      PROVE  DockerStates'
  BY <1>2 DEF States, Healths
<1>3. CASE UNCHANGED <<cont, health>>
  BY <1>3
<1>4. ASSUME NEW s \in Services, Docker!CreateService(s) PROVE DockerStates'
  BY <1>4, <1>1, <1>3 DEF Docker!CreateService, Docker!Create, States, Docker!Containers
<1>5. ASSUME NEW s \in Services, Docker!StartService(s) PROVE DockerStates'
  BY <1>5, <1>1, <1>2, <1>3
     DEF Docker!StartService, Docker!Start, States, Healths, Docker!Containers
<1>6. CASE Docker!CreateJob
  BY <1>6, <1>1, <1>3 DEF Docker!CreateJob, Docker!Create, States, Docker!Containers
<1>7. CASE Docker!StartJob
  <2>1. Job \notin Checked /\ Job \in Docker!Containers
    BY EnvironmentAssumption DEF Docker!Containers
  <2> QED BY <1>7, <1>1, <1>3, <2>1 DEF Docker!StartJob, Docker!Start, States
<1>8. CASE Docker!RemoveJob
  BY <1>8, <1>1, <1>3 DEF Docker!RemoveJob, Docker!Remove, States, Docker!Containers
<1>9. ASSUME NEW s \in Services, Docker!RemoveService(s) PROVE DockerStates'
  BY <1>9, <1>1, <1>3 DEF Docker!RemoveService, Docker!Remove, States, Docker!Containers
<1>10. ASSUME NEW c \in Docker!Containers, Docker!ContainerEnds(c) PROVE DockerStates'
  BY <1>10, <1>1, <1>2 DEF Docker!ContainerEnds, States, Healths
<1>11. CASE Docker!RemovalEnds
  BY <1>11, <1>1 DEF Docker!RemovalEnds, States, Docker!Containers
<1>12. ASSUME NEW s \in Services, Docker!HealthReported(s) PROVE DockerStates'
  BY <1>12 DEF Docker!HealthReported
<1> QED BY <1>3, <1>4, <1>5, <1>6, <1>7, <1>8, <1>9, <1>10, <1>11, <1>12
   DEF Docker!Next, Docker!Prepare, Docker!PullService, Docker!ServicesPulled,
       Docker!PullJob, Docker!Tidy, Docker!CreateNetwork, Docker!ServicesStarted,
       Docker!LookAtService, Docker!ServiceTimesOut, Docker!ServicesReady,
       Docker!CopyFiles, Docker!ExecBegins, Docker!CommandEnds, Docker!ExecReturns,
       Docker!ExecInterrupted, Docker!StartFailed, Docker!StepsOver,
       Docker!ServicesRemoved, Docker!RemoveVolumes, Docker!RemoveNetwork, Docker!Cancel,
       Docker!CleanupExpires, Docker!Joined, Docker!daemon

\* What becomes of the containers that are known, of this job, and the images.
LEMMA DockerNamesKept == ASSUME DockerNames, Docker!Next PROVE DockerNames'
<1> USE DEF DockerNames
<1>1. ASSUME NEW s \in Services, Docker!PullService(s) PROVE DockerNames'
  BY <1>1 DEF Docker!PullService, Docker!Pull, Docker!Containers
<1>2. CASE Docker!PullJob
  BY <1>2 DEF Docker!PullJob, Docker!Pull, Docker!Containers
<1>3. ASSUME NEW s \in Services, Docker!CreateService(s) PROVE DockerNames'
  BY <1>3 DEF Docker!CreateService, Docker!Create, Docker!Containers
<1>4. ASSUME NEW s \in Services, Docker!StartService(s) PROVE DockerNames'
  BY <1>4 DEF Docker!StartService, Docker!Start, Docker!Find, Docker!Containers
<1>5. CASE Docker!CreateJob
  BY <1>5 DEF Docker!CreateJob, Docker!Create, Docker!Containers
<1>6. CASE Docker!StartJob
  BY <1>6 DEF Docker!StartJob, Docker!Start, Docker!Find, Docker!Containers
<1>7. CASE Docker!CopyFiles
  BY <1>7 DEF Docker!CopyFiles, Docker!Find, Docker!Containers, Docker!daemon
<1>8. CASE Docker!ExecBegins
  BY <1>8 DEF Docker!ExecBegins, Docker!Find, Docker!Containers, Docker!daemon
<1>9. CASE Docker!RemoveJob
  BY <1>9 DEF Docker!RemoveJob, Docker!Remove
<1>10. ASSUME NEW s \in Services, Docker!RemoveService(s) PROVE DockerNames'
  BY <1>10 DEF Docker!RemoveService, Docker!Remove
<1>11. CASE UNCHANGED <<known, fresh, images>>
  BY <1>11
<1> QED BY <1>1, <1>2, <1>3, <1>4, <1>5, <1>6, <1>7, <1>8, <1>9, <1>10, <1>11
   DEF Docker!Next, Docker!Prepare, Docker!ServicesPulled, Docker!Tidy,
       Docker!CreateNetwork, Docker!ServicesStarted, Docker!LookAtService,
       Docker!ServiceTimesOut, Docker!ServicesReady, Docker!CommandEnds,
       Docker!ExecReturns, Docker!ExecInterrupted, Docker!StartFailed, Docker!StepsOver,
       Docker!ServicesRemoved, Docker!RemoveVolumes, Docker!RemoveNetwork, Docker!Cancel,
       Docker!CleanupExpires, Docker!ContainerEnds, Docker!RemovalEnds,
       Docker!HealthReported, Docker!Joined, Docker!daemon

\* What becomes of the flags.
LEMMA DockerFlagsKept == ASSUME DockerFlags, Docker!Next PROVE DockerFlags'
<1>1. failed' \in BOOLEAN
  BY Zenon DEF DockerFlags, Docker!Next, Docker!Prepare, Docker!PullService,
     Docker!ServicesPulled, Docker!PullJob, Docker!Tidy, Docker!CreateNetwork,
     Docker!CreateService, Docker!StartService, Docker!ServicesStarted,
     Docker!LookAtService, Docker!ServiceTimesOut, Docker!ServicesReady, Docker!CreateJob,
     Docker!StartJob, Docker!CopyFiles, Docker!ExecBegins, Docker!CommandEnds,
     Docker!ExecReturns, Docker!ExecInterrupted, Docker!StartFailed, Docker!StepsOver,
     Docker!RemoveJob, Docker!RemoveService, Docker!ServicesRemoved, Docker!RemoveVolumes,
     Docker!RemoveNetwork, Docker!Cancel, Docker!CleanupExpires, Docker!ContainerEnds,
     Docker!RemovalEnds, Docker!HealthReported, Docker!Joined, Docker!Pull, Docker!Create,
     Docker!Start, Docker!Then, Docker!Abort, Docker!Part, Docker!control
<1>2. expired' \in BOOLEAN
  BY Zenon DEF DockerFlags, Docker!Next, Docker!Prepare, Docker!PullService,
     Docker!ServicesPulled, Docker!PullJob, Docker!Tidy, Docker!CreateNetwork,
     Docker!CreateService, Docker!StartService, Docker!ServicesStarted,
     Docker!LookAtService, Docker!ServiceTimesOut, Docker!ServicesReady, Docker!CreateJob,
     Docker!StartJob, Docker!CopyFiles, Docker!ExecBegins, Docker!CommandEnds,
     Docker!ExecReturns, Docker!ExecInterrupted, Docker!StartFailed, Docker!StepsOver,
     Docker!RemoveJob, Docker!RemoveService, Docker!ServicesRemoved, Docker!RemoveVolumes,
     Docker!RemoveNetwork, Docker!Cancel, Docker!CleanupExpires, Docker!ContainerEnds,
     Docker!RemovalEnds, Docker!HealthReported, Docker!Joined, Docker!Quiet, Docker!control
<1>3. net' \in BOOLEAN
  <2>1. CASE Docker!CreateNetwork
    BY <2>1, Zenon DEF DockerFlags, Docker!CreateNetwork
  <2>2. CASE Docker!RemoveNetwork
    BY <2>2, Zenon DEF DockerFlags, Docker!RemoveNetwork
  <2>3. CASE UNCHANGED net
    BY <2>3, Zenon DEF DockerFlags
  <2> QED BY <2>1, <2>2, <2>3, Zenon
     DEF Docker!Next, Docker!Prepare, Docker!PullService, Docker!ServicesPulled,
     Docker!PullJob, Docker!Tidy, Docker!CreateService, Docker!StartService,
     Docker!ServicesStarted, Docker!LookAtService, Docker!ServiceTimesOut,
     Docker!ServicesReady, Docker!CreateJob, Docker!StartJob, Docker!CopyFiles,
     Docker!ExecBegins, Docker!CommandEnds, Docker!ExecReturns, Docker!ExecInterrupted,
     Docker!StartFailed, Docker!StepsOver, Docker!RemoveJob, Docker!RemoveService,
     Docker!ServicesRemoved, Docker!RemoveVolumes, Docker!Cancel, Docker!CleanupExpires,
     Docker!ContainerEnds, Docker!RemovalEnds, Docker!HealthReported, Docker!Joined,
     Docker!daemon
<1>4. vol' \in BOOLEAN
  <2>1. ASSUME NEW s \in Services, Docker!CreateService(s) PROVE vol' \in BOOLEAN
    BY <2>1, Zenon DEF DockerFlags, Docker!CreateService, Docker!Create
  <2>2. CASE Docker!CreateJob
    BY <2>2, Zenon DEF DockerFlags, Docker!CreateJob, Docker!Create
  <2>3. CASE Docker!RemoveVolumes
    BY <2>3, Zenon DEF DockerFlags, Docker!RemoveVolumes
  <2>4. CASE UNCHANGED vol
    BY <2>4, Zenon DEF DockerFlags
  <2> QED BY <2>1, <2>2, <2>3, <2>4, Zenon
     DEF Docker!Next, Docker!Prepare, Docker!PullService, Docker!ServicesPulled,
     Docker!PullJob, Docker!Tidy, Docker!CreateNetwork, Docker!StartService,
     Docker!ServicesStarted, Docker!LookAtService, Docker!ServiceTimesOut,
     Docker!ServicesReady, Docker!StartJob, Docker!CopyFiles, Docker!ExecBegins,
     Docker!CommandEnds, Docker!ExecReturns, Docker!ExecInterrupted, Docker!StartFailed,
     Docker!StepsOver, Docker!RemoveJob, Docker!RemoveService, Docker!ServicesRemoved,
     Docker!RemoveNetwork, Docker!Cancel, Docker!CleanupExpires, Docker!ContainerEnds,
     Docker!RemovalEnds, Docker!HealthReported, Docker!Joined, Docker!daemon
<1> QED BY <1>1, <1>2, <1>3, <1>4, Zenon DEF DockerFlags

\* A step counts at most one fault, within the bound.
LEMMA DockerCounts == ASSUME Docker!Next PROVE UNCHANGED faults \/ Docker!Fault
BY Zenon DEF Docker!Next, Docker!Prepare, Docker!PullService, Docker!ServicesPulled,
   Docker!PullJob, Docker!Tidy, Docker!CreateNetwork, Docker!CreateService,
   Docker!StartService, Docker!ServicesStarted, Docker!LookAtService,
   Docker!ServiceTimesOut, Docker!ServicesReady, Docker!CreateJob, Docker!StartJob,
   Docker!CopyFiles, Docker!ExecBegins, Docker!CommandEnds, Docker!ExecReturns,
   Docker!ExecInterrupted, Docker!StartFailed, Docker!StepsOver, Docker!RemoveJob,
   Docker!RemoveService, Docker!ServicesRemoved, Docker!RemoveVolumes,
   Docker!RemoveNetwork, Docker!Cancel, Docker!CleanupExpires, Docker!ContainerEnds,
   Docker!RemovalEnds, Docker!HealthReported, Docker!Joined, Docker!Pull, Docker!Create,
   Docker!Start, Docker!Remove, Docker!Works, Docker!Fails, Docker!NoFault
LEMMA DockerCounted ==
    ASSUME Counted, Docker!Next
    PROVE  Counted' /\ (faults' = 0 => faults = 0 /\ ~Docker!Fault)
BY DockerCounts, EnvironmentAssumption DEF Counted, Docker!Fault

\* On which context a clean-up runs.
LEMMA DockerContextsKept ==
    ASSUME DockerStages, Counted, DockerContexts, Docker!Next PROVE DockerContexts'
<1> USE DEF DockerContexts, Docker!Goto, Docker!Then, Docker!Abort, Docker!Quiet, Docker!Part
<1>0. faults' = 0 => faults = 0 /\ ~Docker!Fault
  BY DockerCounted
<1>1. CASE Docker!Prepare \/ Docker!Tidy
  BY <1>1, <1>0 DEF Docker!Prepare, Docker!Tidy
<1>2. CASE Docker!ServicesPulled \/ Docker!ServicesStarted \/ Docker!ServicesReady
  BY <1>2, <1>0 DEF Docker!ServicesPulled, Docker!ServicesStarted, Docker!ServicesReady,
     Docker!Joined
<1>3. CASE Docker!PullJob
  BY <1>3, <1>0 DEF Docker!PullJob, Docker!Pull
<1>4. CASE Docker!CreateNetwork
  BY <1>4, <1>0 DEF Docker!CreateNetwork
<1>5. CASE Docker!CreateJob
  BY <1>5, <1>0 DEF Docker!CreateJob, Docker!Create
<1>6. CASE Docker!StartJob
  BY <1>6, <1>0 DEF Docker!StartJob, Docker!Start
<1>7. CASE Docker!CopyFiles
  BY <1>7, <1>0 DEF Docker!CopyFiles
<1>8. CASE Docker!StartFailed \/ Docker!StepsOver
  BY <1>8, <1>0 DEF Docker!StartFailed, Docker!StepsOver
<1>9. CASE Docker!RemoveJob \/ Docker!ServicesRemoved \/ Docker!RemoveVolumes
  BY <1>9, <1>0 DEF Docker!RemoveJob, Docker!ServicesRemoved, Docker!RemoveVolumes
<1>10. CASE Docker!RemoveNetwork
  BY <1>10, <1>0 DEF Docker!RemoveNetwork
<1>11. CASE Docker!Cancel
  BY <1>11, <1>0 DEF Docker!Cancel, DockerStages
<1>12. CASE Docker!CleanupExpires
  BY <1>12, <1>0 DEF Docker!CleanupExpires
<1>13. CASE UNCHANGED <<pc, ctx, clean, expired>>
  BY <1>13, <1>0
<1> QED BY <1>1, <1>2, <1>3, <1>4, <1>5, <1>6, <1>7, <1>8, <1>9, <1>10, <1>11, <1>12, <1>13
   DEF Docker!Next, Docker!PullService, Docker!Pull, Docker!CreateService, Docker!Create,
       Docker!StartService, Docker!Start, Docker!LookAtService, Docker!ServiceTimesOut,
       Docker!ExecBegins, Docker!CommandEnds, Docker!ExecReturns, Docker!ExecInterrupted,
       Docker!RemoveService, Docker!ContainerEnds, Docker!RemovalEnds,
       Docker!HealthReported, Docker!control

\* What is done to the containers outside of the stages that create, start or
\* remove them: some end by themselves.
Fades ==
    \/ UNCHANGED cont
    \/ \E c \in Docker!Containers :
           cont[c] = "running" /\ cont' = [cont EXCEPT ![c] = IF c = Job THEN "removing" ELSE "exited"]
    \/ cont[Job] = "removing" /\ cont' = [cont EXCEPT ![Job] = "none"]
LEMMA DockerFades ==
    ASSUME Docker!Next, pc \notin {"services", "create", "start", "rmJob", "rmServices"}
    PROVE  Fades
BY DEF Fades, Docker!Next, Docker!Prepare, Docker!PullService, Docker!ServicesPulled,
   Docker!PullJob, Docker!Tidy, Docker!CreateNetwork, Docker!CreateService,
   Docker!StartService, Docker!ServicesStarted, Docker!LookAtService,
   Docker!ServiceTimesOut, Docker!ServicesReady, Docker!CreateJob, Docker!StartJob,
   Docker!CopyFiles, Docker!ExecBegins, Docker!CommandEnds, Docker!ExecReturns,
   Docker!ExecInterrupted, Docker!StartFailed, Docker!StepsOver, Docker!RemoveJob,
   Docker!RemoveService, Docker!ServicesRemoved, Docker!RemoveVolumes,
   Docker!RemoveNetwork, Docker!Cancel, Docker!CleanupExpires, Docker!ContainerEnds,
   Docker!RemovalEnds, Docker!HealthReported, Docker!Joined, Docker!daemon

\* What is gone then stays so.
LEMMA DockerGone ==
    ASSUME DockerStates, Fades, NEW c \in Docker!Containers, cont[c] = "none"
    PROVE  cont'[c] = "none"
BY DEF DockerStates, Fades, Docker!Containers

\* What the surroundings do, and a step's command, whatever the stage.
Aside ==
    /\ UNCHANGED <<pc, part, failed, clean, fresh, net, vol>>
    /\ Fades
    /\ \A s \in Services : health'[s] = "starting" => health[s] = "starting"
    /\ Job \in known => Job \in known' \/ cont[Job] = "none"

\* What a stage does until it is left.
LEMMA DockerStays ==
    ASSUME DockerStates, Docker!Next
    PROVE  /\ pc = "network" => Docker!CreateNetwork \/ Aside
           /\ pc = "services" => \/ Docker!ServicesStarted \/ Aside
                                 \/ \E s \in Services :
                                        Docker!CreateService(s) \/ Docker!StartService(s)
           /\ pc = "wait" => \/ Docker!ServicesReady \/ Aside
                             \/ \E s \in Services :
                                    Docker!LookAtService(s) \/ Docker!ServiceTimesOut(s)
           /\ pc = "create" => Docker!CreateJob \/ Aside
           /\ pc = "start" => Docker!StartJob \/ Aside
           /\ pc = "copy" => Docker!CopyFiles \/ Aside
           /\ pc = "steps" => Docker!StepsOver \/ Aside
           /\ pc = "rmJob" => Docker!RemoveJob \/ Aside
           /\ pc = "rmServices" => \/ Docker!ServicesRemoved \/ Aside
                                   \/ \E s \in Services : Docker!RemoveService(s)
           /\ pc = "rmVolumes" => Docker!RemoveVolumes \/ Aside
           /\ pc = "rmNetwork" => Docker!RemoveNetwork \/ Aside
           /\ pc = "over" => Aside
<1>1. CASE Docker!CommandEnds \/ Docker!ExecReturns \/ Docker!ExecInterrupted \/ Docker!Cancel
           \/ Docker!CleanupExpires
  <2> Aside
    BY <1>1 DEF Aside, Fades, Docker!CommandEnds, Docker!ExecReturns,
       Docker!ExecInterrupted, Docker!Cancel, Docker!CleanupExpires, Docker!control,
       Docker!daemon
  <2> QED OBVIOUS
<1>2. CASE Docker!ExecBegins
  <2> Aside
    BY <1>2 DEF Aside, Fades, Docker!ExecBegins, Docker!Find, Docker!Found,
       Docker!control, Docker!daemon
  <2> QED OBVIOUS
<1>3. CASE \/ \E c \in Docker!Containers : Docker!ContainerEnds(c)
           \/ Docker!RemovalEnds
           \/ \E s \in Services : Docker!HealthReported(s)
  <2>1. UNCHANGED <<pc, part, failed, clean, fresh, net, vol, known>>
    BY <1>3 DEF Docker!ContainerEnds, Docker!RemovalEnds, Docker!HealthReported,
       Docker!control
  <2>2. Fades
    BY <1>3 DEF Fades, Docker!ContainerEnds, Docker!RemovalEnds, Docker!HealthReported
  <2>3. ASSUME NEW s \in Services, health'[s] = "starting" PROVE health[s] = "starting"
    BY <1>3, <2>3 DEF DockerStates, Docker!ContainerEnds, Docker!RemovalEnds,
       Docker!HealthReported
  <2>4. Aside
    BY <2>1, <2>2, <2>3 DEF Aside
  <2> QED BY <2>4
<1>4. CASE ~(\/ Docker!CommandEnds \/ Docker!ExecReturns \/ Docker!ExecInterrupted
             \/ Docker!Cancel \/ Docker!CleanupExpires \/ Docker!ExecBegins
             \/ \E c \in Docker!Containers : Docker!ContainerEnds(c)
             \/ Docker!RemovalEnds
             \/ \E s \in Services : Docker!HealthReported(s))
  BY <1>4, Zenon DEF Docker!Next, Docker!Prepare, Docker!PullService, Docker!ServicesPulled,
     Docker!PullJob, Docker!Tidy, Docker!CreateNetwork, Docker!CreateService,
     Docker!StartService, Docker!ServicesStarted, Docker!LookAtService,
     Docker!ServiceTimesOut, Docker!ServicesReady, Docker!CreateJob, Docker!StartJob,
     Docker!CopyFiles, Docker!StartFailed, Docker!StepsOver, Docker!RemoveJob,
     Docker!RemoveService, Docker!ServicesRemoved, Docker!RemoveVolumes,
     Docker!RemoveNetwork, Docker!Joined
<1> QED BY <1>1, <1>2, <1>3, <1>4

\* How a stage is entered.
LEMMA DockerEnters ==
    ASSUME Docker!Next, pc' # pc
    PROVE  /\ pc' = "network" => Docker!RemoveNetwork
           /\ pc' = "services" => Docker!CreateNetwork
           /\ pc' = "wait" => Docker!ServicesStarted
           /\ pc' = "create" => Docker!ServicesReady
           /\ pc' = "start" => Docker!CreateJob
           /\ pc' = "copy" => Docker!StartJob
           /\ pc' = "steps" => Docker!CopyFiles
           /\ pc' = "rmServices" => Docker!RemoveJob
           /\ pc' = "rmVolumes" => Docker!ServicesRemoved
           /\ pc' = "rmNetwork" => Docker!RemoveVolumes
           /\ pc' = "over" => Docker!Prepare \/ Docker!RemoveNetwork
BY DEF Docker!Next, Docker!Prepare, Docker!PullService, Docker!ServicesPulled,
   Docker!PullJob, Docker!Tidy, Docker!CreateNetwork, Docker!CreateService,
   Docker!StartService, Docker!ServicesStarted, Docker!LookAtService,
   Docker!ServiceTimesOut, Docker!ServicesReady, Docker!CreateJob, Docker!StartJob,
   Docker!CopyFiles, Docker!ExecBegins, Docker!CommandEnds, Docker!ExecReturns,
   Docker!ExecInterrupted, Docker!StartFailed, Docker!StepsOver, Docker!RemoveJob,
   Docker!RemoveService, Docker!ServicesRemoved, Docker!RemoveVolumes,
   Docker!RemoveNetwork, Docker!Cancel, Docker!CleanupExpires, Docker!ContainerEnds,
   Docker!RemovalEnds, Docker!HealthReported, Docker!Joined, Docker!Pull, Docker!Create,
   Docker!Start, Docker!Goto, Docker!Then, Docker!Abort, Docker!Part, Docker!control

\* A clean-up that is not disturbed has not been, and its calls work.
LEMMA DockerCalm ==
    ASSUME DockerStages, Counted, DockerContexts, Docker!Next, Undisturbed',
           pc \in {"rmJob", "rmServices", "rmVolumes", "rmNetwork"}, clean' \in {clean, "no"}
    PROVE  Undisturbed /\ ~Docker!Ended /\ ~Docker!Fault
<1>1. faults = 0 /\ ~Docker!Fault
  BY DockerCounted DEF Undisturbed
<1>2. ctx' = "live" => ctx = "live"
  BY DEF Docker!Next, Docker!Prepare, Docker!PullService, Docker!ServicesPulled,
     Docker!PullJob, Docker!Tidy, Docker!CreateNetwork, Docker!CreateService,
     Docker!StartService, Docker!ServicesStarted, Docker!LookAtService,
     Docker!ServiceTimesOut, Docker!ServicesReady, Docker!CreateJob, Docker!StartJob,
     Docker!CopyFiles, Docker!ExecBegins, Docker!CommandEnds, Docker!ExecReturns,
     Docker!ExecInterrupted, Docker!StartFailed, Docker!StepsOver, Docker!RemoveJob,
     Docker!RemoveService, Docker!ServicesRemoved, Docker!RemoveVolumes,
     Docker!RemoveNetwork, Docker!Cancel, Docker!CleanupExpires, Docker!ContainerEnds,
     Docker!RemovalEnds, Docker!HealthReported, Docker!Joined, Docker!Quiet, Docker!control
<1>3. Undisturbed
  BY <1>1, <1>2 DEF Undisturbed, DockerContexts
<1>4. ~Docker!Ended
  BY <1>1, <1>3 DEF Undisturbed, Docker!Ended, DockerContexts
<1> QED BY <1>1, <1>3, <1>4

\* Services are being removed, or are.
LEMMA DockerWorkersKept ==
    ASSUME DockerParts, DockerStates, DockerWorkers, Docker!Next PROVE DockerWorkers'
<1> SUFFICES ASSUME pc' = "rmServices", NEW s \in Services PROVE part'[s] \in {"todo", "done"}
  BY DEF DockerWorkers
<1> USE DEF DockerWorkers
<1>1. CASE pc # "rmServices"
  BY <1>1, DockerEnters DEF Docker!RemoveJob, Docker!Goto
<1>2. CASE pc = "rmServices" /\ Aside
  BY <1>2 DEF Aside
<1>3. CASE pc = "rmServices" /\ \E t \in Services : Docker!RemoveService(t)
  BY <1>3 DEF DockerParts, Docker!RemoveService, Docker!Part
<1>4. CASE Docker!ServicesRemoved
  BY <1>4 DEF Docker!ServicesRemoved, Docker!Goto
<1> QED BY <1>1, <1>2, <1>3, <1>4, DockerStays

\* What has been removed stays so.
LEMMA DockerRemovesKept ==
    ASSUME DockerStages, Counted, DockerParts, DockerStates, DockerContexts, DockerWorkers,
           DockerRemoves, Docker!Next
    PROVE  DockerRemoves'
<1> SUFFICES ASSUME Undisturbed', pc' \in {"rmServices", "rmVolumes", "rmNetwork"}
             PROVE  DockerRemoves'
  BY DEF DockerRemoves
<1> Job \in Docker!Containers /\ Services \subseteq Docker!Containers /\ Job \notin Services
  BY EnvironmentAssumption DEF Docker!Containers
<1>1. CASE Docker!RemoveJob
  <2>1. Undisturbed /\ ~Docker!Ended /\ ~Docker!Fault
    BY <1>1, DockerCalm DEF Docker!RemoveJob, Docker!Quiet
  <2> QED BY <1>1, <2>1 DEF DockerRemoves, DockerStates, Docker!RemoveJob, Docker!Remove,
     Docker!Fails, Docker!Goto, Docker!Found
<1>2. ASSUME NEW s \in Services, Docker!RemoveService(s) PROVE DockerRemoves'
  <2>1. Undisturbed /\ ~Docker!Ended /\ ~Docker!Fault
    BY <1>2, DockerCalm DEF Docker!RemoveService, Docker!Quiet
  <2>2. cont' = [cont EXCEPT ![s] = "none"] /\ part' = [part EXCEPT ![s] = "done"] /\ pc = "rmServices"
        /\ pc' = pc
    BY <1>2, <2>1 DEF Docker!RemoveService, Docker!Remove, Docker!Fails, Docker!Part
  <2> QED BY <2>1, <2>2 DEF DockerRemoves, DockerStates, DockerParts
<1>3. CASE Docker!ServicesRemoved
  <2>1. Undisturbed
    BY <1>3, DockerCalm DEF Docker!ServicesRemoved, Docker!Quiet
  <2> QED BY <1>3, <2>1 DEF DockerRemoves, DockerWorkers, Docker!ServicesRemoved,
     Docker!AllEnded, Docker!Goto, Docker!daemon, Gone
<1>4. CASE Docker!RemoveVolumes
  <2>1. Undisturbed /\ ~Docker!Ended /\ ~Docker!Fault
    BY <1>4, DockerCalm DEF Docker!RemoveVolumes, Docker!Quiet
  <2>2. cont[Job] = "none" /\ Gone(Services)
    BY <1>4, <2>1 DEF DockerRemoves, Docker!RemoveVolumes
  <2>3. ~vol'
    BY <1>4, <2>1, <2>2
       DEF Docker!RemoveVolumes, Docker!VolumeInUse, Docker!Found, Docker!Fails
  <2> QED BY <1>4, <2>2, <2>3 DEF DockerRemoves, Gone, Docker!RemoveVolumes
<1>5. CASE Aside
  <2>1. Undisturbed
    BY <1>5, DockerCalm DEF Aside
  <2>2. ASSUME NEW c \in Docker!Containers, cont[c] = "none" PROVE cont'[c] = "none"
    BY <1>5, <2>2, DockerGone DEF Aside
  <2> QED BY <1>5, <2>1, <2>2 DEF Aside, DockerRemoves, Gone
<1> QED BY <1>1, <1>2, <1>3, <1>4, <1>5, DockerEnters, DockerStays DEF Docker!RemoveNetwork,
           Docker!Goto

\* A clean-up that was not disturbed has removed everything.
LEMMA DockerLeavesNothing ==
    ASSUME DockerStages, DockerFlags, Counted, DockerStates, DockerContexts, DockerRemoves, Docker!Next,
           faults' = 0, Docker!RemoveNetwork, clean = "own" \/ ctx = "live"
    PROVE  /\ \A c \in Docker!Containers : cont[c] = "none" /\ UNCHANGED cont
           /\ ~vol'
           /\ OwnNetwork => ~net'
<1>1. faults = 0 /\ ~Docker!Fault
  BY DockerCounted
<1>2. Undisturbed /\ ~Docker!Ended
  BY <1>1 DEF Undisturbed, Docker!Ended, Docker!RemoveNetwork, DockerContexts
<1>3. /\ \A c \in Docker!Containers : cont[c] = "none" /\ UNCHANGED cont
      /\ ~vol'
  BY <1>2 DEF DockerRemoves, Docker!RemoveNetwork, Gone, Docker!Containers
<1>4. Docker!Endpoints = {}
  BY <1>3 DEF Docker!Endpoints
<1>5. OwnNetwork => ~net'
  BY <1>1, <1>2, <1>4 DEF Docker!RemoveNetwork, Docker!Fails
<1> QED BY <1>3, <1>5

LEMMA DockerOver ==
    ASSUME DockerStages, DockerFlags, Counted, DockerStates, DockerContexts, DockerRemoves,
           Docker!NothingLeftBehind, Docker!Next
    PROVE  Docker!NothingLeftBehind'
<1> SUFFICES ASSUME pc' = "over", faults' = 0, ctx' # "cut", clean' # "unarmed"
             PROVE  Docker!NothingLeftBehind'
  BY DEF Docker!NothingLeftBehind
<1> USE DEF Docker!NothingLeftBehind
<1>1. CASE pc # "over" /\ Docker!Prepare
  BY <1>1 DEF Docker!Prepare, Docker!Goto
<1>2. CASE pc # "over" /\ Docker!RemoveNetwork
  <2>1. clean # "tidy" /\ ctx' = ctx
    BY <1>2 DEF Docker!RemoveNetwork, Docker!Goto
  <2>2. clean = "own" \/ ctx = "live"
    BY <1>2, <2>1 DEF Docker!RemoveNetwork, DockerContexts, DockerStages
  <2> QED BY <1>2, <2>2, DockerLeavesNothing
<1>3. CASE pc = "over" /\ Aside
  <2>1. faults = 0 /\ ctx # "cut"
    <3>1. faults = 0
      BY DockerCounted
    <3>2. UNCHANGED ctx
      BY <1>3 DEF Docker!Next, Docker!Prepare, Docker!PullService, Docker!ServicesPulled,
         Docker!PullJob, Docker!Tidy, Docker!CreateNetwork, Docker!CreateService,
         Docker!StartService, Docker!ServicesStarted, Docker!LookAtService,
         Docker!ServiceTimesOut, Docker!ServicesReady, Docker!CreateJob, Docker!StartJob,
         Docker!CopyFiles, Docker!ExecBegins, Docker!CommandEnds, Docker!ExecReturns,
         Docker!ExecInterrupted, Docker!StartFailed, Docker!StepsOver, Docker!RemoveJob,
         Docker!RemoveService, Docker!ServicesRemoved, Docker!RemoveVolumes,
         Docker!RemoveNetwork, Docker!Cancel, Docker!CleanupExpires,
         Docker!ContainerEnds, Docker!RemovalEnds, Docker!HealthReported, Docker!Joined,
         Docker!control
    <3> QED BY <3>1, <3>2
  <2>2. ASSUME NEW c \in Docker!Containers, cont[c] = "none" PROVE cont'[c] = "none"
    BY <1>3, <2>2, DockerGone DEF Aside
  <2> QED BY <1>3, <2>1, <2>2 DEF Aside
<1> QED BY <1>1, <1>2, <1>3, DockerEnters, DockerStays

\* What there is once earlier leftovers are gone is the job's own.
LEMMA DockerOwnsKept ==
    ASSUME DockerStages, DockerFlags, Counted, DockerStates, DockerContexts, DockerRemoves,
           DockerOwns, Docker!Next
    PROVE  DockerOwns'
<1> SUFFICES ASSUME pc' \in Rising, faults' = 0, NEW c \in Docker!Containers, cont'[c] # "none"
             PROVE  c \in fresh'
  BY DEF DockerOwns, Docker!Containers
<1>0. faults = 0 /\ ~Docker!Fault
  BY DockerCounted
<1>1. CASE pc' = "network" /\ pc # "network"
  <2>1. Docker!RemoveNetwork
    BY <1>1, DockerEnters
  <2>2. ctx = "live"
    BY <1>1, <2>1 DEF Docker!RemoveNetwork, Docker!Goto, DockerStages
  <2> QED BY <2>1, <2>2, DockerLeavesNothing
<1>2. CASE pc \in Rising
  <2> DEFINE Owned == \A x \in Docker!Containers : cont[x] # "none" => x \in fresh
  <2>1. Owned
    BY <1>0, <1>2 DEF DockerOwns, Docker!Containers
  <2> HIDE DEF Owned
  <2>2. CASE Aside
    BY <2>1, <2>2, DockerGone DEF Owned, Aside
  <2>3. CASE UNCHANGED <<cont, fresh>>
    BY <2>1, <2>3 DEF Owned
  <2>4. CASE \E x \in Docker!Containers :
                 /\ fresh' \in {fresh, fresh \cup {x}}
                 /\ cont' \in {cont, [cont EXCEPT ![x] = "created"]}
                 /\ cont' # cont => fresh' = fresh \cup {x}
    BY <2>1, <2>4 DEF Owned, DockerStates
  <2>5. CASE \E x \in Docker!Containers :
                 /\ fresh' = fresh
                 /\ cont' \in {cont, [cont EXCEPT ![x] = "running"]}
                 /\ cont' # cont => cont[x] # "none"
    BY <2>1, <2>5 DEF Owned, DockerStates
  <2>6. ASSUME NEW s \in Services, Docker!CreateService(s) PROVE c \in fresh'
    BY <2>4, <2>6 DEF Docker!CreateService, Docker!Create, Docker!Containers
  <2>7. ASSUME NEW s \in Services, Docker!StartService(s) PROVE c \in fresh'
    BY <2>5, <2>7 DEF Docker!StartService, Docker!Start, Docker!Containers
  <2>8. CASE Docker!CreateJob
    BY <2>4, <2>8 DEF Docker!CreateJob, Docker!Create, Docker!Containers
  <2>9. CASE Docker!StartJob
    BY <2>5, <2>9 DEF Docker!StartJob, Docker!Start, Docker!Containers
  <2>10. CASE \/ Docker!CreateNetwork \/ Docker!ServicesStarted \/ Docker!ServicesReady
              \/ Docker!CopyFiles \/ Docker!StepsOver
              \/ \E s \in Services : Docker!LookAtService(s) \/ Docker!ServiceTimesOut(s)
    BY <2>3, <2>10 DEF Docker!CreateNetwork, Docker!ServicesStarted, Docker!ServicesReady,
       Docker!CopyFiles, Docker!StepsOver, Docker!LookAtService, Docker!ServiceTimesOut,
       Docker!Joined, Docker!daemon
  <2> QED BY <1>2, <2>2, <2>6, <2>7, <2>8, <2>9, <2>10, DockerStays DEF Rising
<1>3. CASE pc \notin Rising /\ pc' # "network"
  BY <1>3, DockerEnters DEF Rising, Docker!CreateNetwork, Docker!ServicesStarted,
     Docker!ServicesReady, Docker!CreateJob, Docker!StartJob, Docker!CopyFiles, Docker!Joined
<1> QED BY <1>1, <1>2, <1>3 DEF Rising

\* A service that runs, or has ended, does so until it is removed.
LEMMA DockerServes ==
    ASSUME DockerStates, Fades, NEW s \in Services, cont[s] \in {"running", "exited"}
    PROVE  cont'[s] \in {"running", "exited"}
BY EnvironmentAssumption DEF DockerStates, Fades, Docker!Containers

\* What has been set up stays so.
LEMMA DockerUpKept ==
    ASSUME DockerStages, DockerParts, DockerStates, DockerUp, Docker!Next PROVE DockerUp'
<1> Job \notin Services /\ Job \notin Checked /\ Services \subseteq Docker!Containers
    /\ Job \in Docker!Containers
  BY EnvironmentAssumption DEF Docker!Containers
<1>1. ASSUME pc' \in Rising \ {"network"} PROVE net'
  <2>1. CASE pc # pc'
    BY <1>1, <2>1, DockerEnters DEF DockerUp, Rising, Docker!CreateNetwork, Docker!Goto,
       Docker!Abort, Docker!Then, Docker!ServicesStarted, Docker!ServicesReady,
       Docker!Joined, Docker!CreateJob, Docker!StartJob, Docker!CopyFiles, Docker!daemon
  <2>2. CASE pc = pc'
    BY <1>1, <2>2, DockerStays DEF DockerUp, Rising, Aside, Docker!ServicesStarted,
       Docker!ServicesReady, Docker!Joined, Docker!CreateJob, Docker!StartJob,
       Docker!CopyFiles, Docker!StepsOver, Docker!CreateService, Docker!StartService,
       Docker!LookAtService, Docker!ServiceTimesOut, Docker!daemon
  <2> QED BY <2>1, <2>2
<1>2. ASSUME pc' = "steps", cont'[Job] # "none" PROVE Job \in known'
  <2>1. CASE pc # "steps"
    BY <1>2, <2>1, DockerEnters DEF Docker!CopyFiles, Docker!Works, Docker!Find,
       Docker!Abort, Docker!Goto
  <2>2. CASE pc = "steps" /\ Aside
    BY <1>2, <2>2, DockerGone DEF DockerUp, Aside
  <2>3. CASE Docker!StepsOver
    BY <1>2, <2>3 DEF Docker!StepsOver, Docker!Goto
  <2> QED BY <2>1, <2>2, <2>3, DockerStays
<1>3. ASSUME pc' = "services", NEW s \in Services, part'[s] = "done"
      PROVE  cont'[s] \in {"running", "exited"}
  <2>1. CASE pc # "services"
    BY <1>3, <2>1, DockerEnters DEF Docker!CreateNetwork, Docker!Goto, Docker!Then,
       Docker!Abort
  <2>2. CASE pc = "services" /\ Aside
    BY <1>3, <2>2, DockerServes DEF DockerUp, Aside
  <2>3. CASE Docker!ServicesStarted
    BY <1>3, <2>3 DEF Docker!ServicesStarted, Docker!Joined, Docker!Goto, Docker!Abort
  <2>4. ASSUME NEW t \in Services, Docker!CreateService(t)
        PROVE  cont'[s] \in {"running", "exited"}
    <3>1. pc = "services" /\ part' \in {[part EXCEPT ![t] = "created"], [part EXCEPT ![t] = "failed"]}
          /\ cont' \in {cont, [cont EXCEPT ![t] = "created"]}
      BY <2>4 DEF Docker!CreateService, Docker!Create, Docker!Part
    <3> QED BY <1>3, <3>1 DEF DockerUp, DockerParts, DockerStates
  <2>5. ASSUME NEW t \in Services, Docker!StartService(t)
        PROVE  cont'[s] \in {"running", "exited"}
    BY <1>3, <2>5 DEF Docker!StartService, Docker!Start, Docker!Part, DockerUp, DockerParts,
       DockerStates
  <2> QED BY <2>1, <2>2, <2>3, <2>4, <2>5, DockerStays
<1>4. ASSUME pc' = "wait", NEW s \in Services
      PROVE  /\ cont'[s] \in {"running", "exited"}
             /\ part'[s] = "done" /\ WaitServices => health'[s] # "starting"
  <2>1. CASE pc # "wait"
    <3>1. Docker!ServicesStarted
      BY <1>4, <2>1, DockerEnters
    <3>2. part[s] = "done"
      BY <1>4, <3>1 DEF Docker!ServicesStarted, Docker!Joined, Docker!AllEnded,
         Docker!AnyFailed, Docker!Abort, Docker!Goto
    <3> QED BY <1>4, <3>1, <3>2 DEF DockerUp, Docker!ServicesStarted, Docker!Joined,
       Docker!Goto, Docker!Abort, Docker!daemon
  <2>2. CASE pc = "wait" /\ Aside
    BY <1>4, <2>2, DockerServes DEF DockerUp, Aside
  <2>3. CASE Docker!ServicesReady
    BY <1>4, <2>3 DEF Docker!ServicesReady, Docker!Joined, Docker!Goto, Docker!Abort
  <2>4. ASSUME NEW t \in Services, Docker!LookAtService(t)
        PROVE  /\ cont'[s] \in {"running", "exited"}
               /\ part'[s] = "done" /\ WaitServices => health'[s] # "starting"
    <3>1. pc = "wait" /\ UNCHANGED <<cont, health>>
      BY <2>4 DEF Docker!LookAtService, Docker!daemon
    <3>2. ASSUME part'[s] = "done", WaitServices, s = t PROVE health[s] # "starting"
      BY <2>4, <3>1, <3>2 DEF Docker!LookAtService, Docker!Part, Docker!Found, DockerParts,
         DockerUp
    <3>3. ASSUME part'[s] = "done", s # t PROVE part[s] = "done"
      BY <2>4, <3>3 DEF Docker!LookAtService, Docker!Part, DockerParts
    <3> QED BY <3>1, <3>2, <3>3 DEF DockerUp
  <2>5. ASSUME NEW t \in Services, Docker!ServiceTimesOut(t)
        PROVE  /\ cont'[s] \in {"running", "exited"}
               /\ part'[s] = "done" /\ WaitServices => health'[s] # "starting"
    BY <2>5 DEF Docker!ServiceTimesOut, Docker!Part, Docker!daemon, DockerParts, DockerUp
  <2> QED BY <2>1, <2>2, <2>3, <2>4, <2>5, DockerStays
<1>5. ASSUME pc' \in {"create", "start", "copy", "steps"}, WaitServices, NEW s \in Services
      PROVE  health'[s] # "starting"
  <2>1. CASE pc # pc' /\ pc' = "create"
    <3>1. Docker!ServicesReady
      BY <2>1, DockerEnters
    <3> QED BY <1>5, <2>1, <3>1 DEF DockerUp, Docker!ServicesReady, Docker!Joined,
       Docker!AllEnded, Docker!AnyFailed, Docker!Abort, Docker!Goto, Docker!daemon
  <2>2. CASE pc # pc' /\ pc' # "create"
    <3>1. Docker!CreateJob \/ Docker!StartJob \/ Docker!CopyFiles
      BY <1>5, <2>2, DockerEnters
    <3>2. UNCHANGED health /\ pc \in {"create", "start", "copy"}
      BY <3>1 DEF Docker!CreateJob, Docker!StartJob, Docker!CopyFiles, Docker!Start,
         Docker!daemon
    <3> QED BY <1>5, <3>2 DEF DockerUp
  <2>3. CASE pc = pc' /\ Aside
    BY <1>5, <2>3 DEF Aside, DockerUp
  <2>4. CASE pc = pc' /\ ~Aside
    BY <1>5, <2>4, DockerStays DEF Docker!CreateJob, Docker!Create, Docker!StartJob,
       Docker!Start, Docker!CopyFiles, Docker!StepsOver, Docker!Goto, Docker!Then,
       Docker!Abort
  <2> QED BY <2>1, <2>2, <2>3, <2>4
<1> QED BY <1>1, <1>2, <1>3, <1>4, <1>5 DEF DockerUp

\* A command that has ended stays so.
LEMMA DockerVerdict == ASSUME DockerCommand, VerdictTrue, Docker!Next PROVE VerdictTrue'
<1> USE DEF VerdictTrue
<1>1. CASE Docker!ExecBegins \/ Docker!CommandEnds \/ Docker!ExecReturns \/ Docker!ExecInterrupted
  BY <1>1 DEF Docker!ExecBegins, Docker!CommandEnds, Docker!ExecReturns,
     Docker!ExecInterrupted
<1>2. ASSUME NEW c \in Docker!Containers, Docker!ContainerEnds(c) PROVE VerdictTrue'
  BY <1>2 DEF Docker!ContainerEnds
<1>3. CASE UNCHANGED <<verdict, cmd>>
  BY <1>3
<1> QED BY <1>1, <1>2, <1>3
   DEF Docker!Next, Docker!Prepare, Docker!PullService, Docker!ServicesPulled,
       Docker!PullJob, Docker!Tidy, Docker!CreateNetwork, Docker!CreateService,
       Docker!StartService, Docker!ServicesStarted, Docker!LookAtService,
       Docker!ServiceTimesOut, Docker!ServicesReady, Docker!CreateJob, Docker!StartJob,
       Docker!CopyFiles, Docker!StartFailed, Docker!StepsOver, Docker!RemoveJob,
       Docker!RemoveService, Docker!ServicesRemoved, Docker!RemoveVolumes,
       Docker!RemoveNetwork, Docker!Cancel, Docker!CleanupExpires, Docker!RemovalEnds,
       Docker!HealthReported, Docker!Joined, Docker!Quiet, Docker!exec

LEMMA DockerStep == ASSUME DockerInv, Docker!Next PROVE DockerInv'
<1>1. /\ DockerStages /\ DockerParts /\ DockerCommand /\ DockerStates /\ DockerNames
      /\ DockerFlags /\ Counted
  BY DockerTypes DEF DockerInv
<1>2. Docker!TypeOK'
  <2>1. /\ DockerStages' /\ DockerParts' /\ DockerCommand' /\ DockerStates'
        /\ DockerNames' /\ DockerFlags' /\ Counted'
    BY <1>1, DockerStagesKept, DockerPartsKept, DockerCommandKept, DockerStatesKept,
       DockerNamesKept, DockerFlagsKept, DockerCounted
  <2> QED BY <2>1, Zenon DEF Docker!TypeOK, DockerStages, DockerParts, DockerCommand,
     DockerStates, DockerNames, DockerFlags, Counted
<1> QED BY <1>1, <1>2, DockerContextsKept, DockerWorkersKept, DockerRemovesKept,
           DockerOwnsKept, DockerUpKept, DockerOver, DockerVerdict
   DEF DockerInv
-----------------------------------------------------------------------------
(* The proof for a Pod.                                                    *)

\* The types, apart by the kind of reasoning they need.
PodStages ==
    /\ pc \in {"check", "create", "recreate", "replace", "replacing", "wait", "services",
               "copy", "steps", "failing", "remove", "removeOnJob", "over"}
    /\ reason \in {"none", "unsupported", "create", "replace", "disappeared", "exited",
                   "failed", "cannot start", "refused", "cancelled", "timed out",
                   "service", "copy"}
PodContexts ==
    /\ ctx \in {"live", "cancelled", "deadline", "cut"}
    /\ wait \in {"live", "cancelled", "deadline"}
PodStates ==
    /\ verdict \in {"none", "running", "ok", "failed", "interrupted"}
    /\ cmd \in {"none", "running", "zero", "nonzero", "killed"}
    /\ pod \in Kubernetes!PodStates
PodSidecars == ready \subseteq Services /\ timedOut \subseteq Services /\ probe \subseteq Checked
PodFlags == cleanUp \in BOOLEAN /\ mine \in BOOLEAN

LEMMA PodTypes ==
    Kubernetes!TypeOK <=> PodStages /\ PodContexts /\ PodStates /\ Counted /\ PodSidecars /\ PodFlags
BY Zenon DEF Kubernetes!TypeOK, PodStages, PodContexts, PodStates, Counted, PodSidecars, PodFlags

LEMMA PodInit == Kubernetes!Init => PodInv
<1> SUFFICES ASSUME Kubernetes!Init PROVE PodInv
  OBVIOUS
<1>1. PodStages /\ PodContexts /\ PodStates /\ Counted /\ PodSidecars
  BY EnvironmentAssumption
     DEF Kubernetes!Init, PodStages, PodContexts, PodStates, Counted, PodSidecars, Kubernetes!PodStates
<1>2. PodFlags /\ PodArmed
  BY Zenon DEF Kubernetes!Init, PodFlags, PodArmed
<1>3. PodOwn /\ Kubernetes!NoPodLeft /\ VerdictTrue
  BY DEF Kubernetes!Init, PodOwn, Kubernetes!NoPodLeft, VerdictTrue
<1> QED BY <1>1, <1>2, <1>3, PodTypes DEF PodInv

\* The steps of the start.
PodStarts ==
    \/ Kubernetes!Check \/ Kubernetes!Create \/ Kubernetes!Replace \/ Kubernetes!Replacing
    \/ Kubernetes!Poll \/ Kubernetes!WaitEnds \/ Kubernetes!ServicesReady \/ Kubernetes!Copy
    \/ \E s \in Services : Kubernetes!LookAtService(s) \/ Kubernetes!ServiceTimesOut(s)

\* What becomes of the stages and contexts.
LEMMA PodStagesKept == ASSUME PodStages, PodContexts, Kubernetes!Next PROVE PodStages'
<1> USE DEF PodStages, Kubernetes!Goto, Kubernetes!FailWith, Kubernetes!run
<1>1. CASE Kubernetes!Check \/ Kubernetes!Create
  BY <1>1 DEF Kubernetes!Check, Kubernetes!Create
<1>2. CASE Kubernetes!Replace \/ Kubernetes!Replacing
  BY <1>2 DEF Kubernetes!Replace, Kubernetes!Replacing
<1>3. CASE Kubernetes!Poll
  BY <1>3 DEF Kubernetes!Poll
<1>4. CASE Kubernetes!WaitEnds
  BY <1>4 DEF Kubernetes!WaitEnds, Kubernetes!EndOfWait
<1>5. ASSUME NEW s \in Services,
             Kubernetes!LookAtService(s) \/ Kubernetes!ServiceTimesOut(s)
      PROVE  PodStages'
  BY <1>5 DEF Kubernetes!LookAtService, Kubernetes!ServiceTimesOut
<1>6. CASE Kubernetes!ServicesReady \/ Kubernetes!Copy
  BY <1>6 DEF Kubernetes!ServicesReady, Kubernetes!Copy
<1>7. CASE Kubernetes!StepsOver \/ Kubernetes!StartFailed \/ Kubernetes!Remove
  BY <1>7 DEF Kubernetes!StepsOver, Kubernetes!StartFailed, Kubernetes!Remove
<1>8. CASE UNCHANGED <<pc, reason>>
  BY <1>8
<1> QED BY <1>1, <1>2, <1>3, <1>4, <1>5, <1>6, <1>7, <1>8
   DEF Kubernetes!Next, Kubernetes!ExecBegins, Kubernetes!CommandEnds,
       Kubernetes!ExecReturns, Kubernetes!JobEnds, Kubernetes!SchedulingTimeout,
       Kubernetes!ServiceDeadline, Kubernetes!Kubelet, Kubernetes!ProbeSucceeds,
       Kubernetes!Evict

LEMMA PodContextsKept == ASSUME PodContexts, Kubernetes!Next PROVE PodContexts'
<1> USE DEF PodContexts
<1>1. CASE Kubernetes!JobEnds
  <2>1. ctx' \in {"cut", "cancelled", "deadline"}
    BY <1>1 DEF Kubernetes!JobEnds
  <2>2. wait' \in {"live", "cancelled", "deadline"}
    <3>1. CASE pc = "wait" /\ wait = "live"
      BY <1>1, <3>1 DEF Kubernetes!JobEnds
    <3>2. CASE ~(pc = "wait" /\ wait = "live")
      BY <1>1, <3>2 DEF Kubernetes!JobEnds
    <3> QED BY <3>1, <3>2
  <2> QED BY <2>1, <2>2
<1>2. CASE Kubernetes!SchedulingTimeout
  BY <1>2 DEF Kubernetes!SchedulingTimeout
<1>3. CASE UNCHANGED <<ctx, wait>>
  BY <1>3
<1> QED BY <1>1, <1>2, <1>3
   DEF Kubernetes!Next, Kubernetes!Check, Kubernetes!Create, Kubernetes!Replace,
       Kubernetes!Replacing, Kubernetes!Poll, Kubernetes!WaitEnds, Kubernetes!LookAtService,
       Kubernetes!ServiceTimesOut, Kubernetes!ServicesReady, Kubernetes!Copy,
       Kubernetes!ExecBegins, Kubernetes!CommandEnds, Kubernetes!ExecReturns,
       Kubernetes!StepsOver, Kubernetes!StartFailed, Kubernetes!Remove,
       Kubernetes!ServiceDeadline, Kubernetes!Kubelet, Kubernetes!ProbeSucceeds,
       Kubernetes!Evict, Kubernetes!Same, Kubernetes!run

\* What becomes of the Pod and the command.
LEMMA PodStatesKept == ASSUME PodStates, Kubernetes!Next PROVE PodStates'
<1> USE DEF PodStates, Kubernetes!PodStates, Kubernetes!exec, Kubernetes!cluster
<1>1. CASE Kubernetes!Create \/ Kubernetes!Replace
  BY <1>1 DEF Kubernetes!Create, Kubernetes!Replace
<1>2. CASE Kubernetes!ExecBegins \/ Kubernetes!CommandEnds \/ Kubernetes!ExecReturns
  BY <1>2 DEF Kubernetes!ExecBegins, Kubernetes!CommandEnds, Kubernetes!ExecReturns
<1>3. CASE Kubernetes!Remove
  BY <1>3 DEF Kubernetes!Remove
<1>4. CASE Kubernetes!Kubelet
  BY <1>4 DEF Kubernetes!Kubelet
<1>5. CASE Kubernetes!Evict
  BY <1>5 DEF Kubernetes!Evict
<1>6. CASE UNCHANGED <<pod, verdict, cmd>>
  BY <1>6
<1> QED BY <1>1, <1>2, <1>3, <1>4, <1>5, <1>6
   DEF Kubernetes!Next, Kubernetes!Check, Kubernetes!Replacing, Kubernetes!Poll,
       Kubernetes!WaitEnds, Kubernetes!LookAtService, Kubernetes!ServiceTimesOut,
       Kubernetes!ServicesReady, Kubernetes!Copy, Kubernetes!StepsOver,
       Kubernetes!StartFailed, Kubernetes!JobEnds, Kubernetes!SchedulingTimeout,
       Kubernetes!ServiceDeadline, Kubernetes!ProbeSucceeds

\* A step counts at most one fault, within the bound.
LEMMA PodCounts == ASSUME Kubernetes!Next PROVE UNCHANGED faults \/ Kubernetes!Fault
BY Zenon DEF Kubernetes!Next, Kubernetes!Check, Kubernetes!Create, Kubernetes!Replace,
   Kubernetes!Replacing, Kubernetes!Poll, Kubernetes!WaitEnds, Kubernetes!LookAtService,
   Kubernetes!ServiceTimesOut, Kubernetes!ServicesReady, Kubernetes!Copy,
   Kubernetes!ExecBegins, Kubernetes!CommandEnds, Kubernetes!ExecReturns,
   Kubernetes!StepsOver, Kubernetes!StartFailed, Kubernetes!Remove, Kubernetes!JobEnds,
   Kubernetes!SchedulingTimeout, Kubernetes!ServiceDeadline, Kubernetes!Kubelet,
   Kubernetes!ProbeSucceeds, Kubernetes!Evict, Kubernetes!Works, Kubernetes!Fails,
   Kubernetes!NoFault
LEMMA PodCounted == ASSUME Counted, Kubernetes!Next PROVE Counted' /\ (faults' = 0 => faults = 0)
BY PodCounts, EnvironmentAssumption DEF Counted, Kubernetes!Fault

\* What becomes of the sidecars.
LEMMA PodSidecarsKept == ASSUME PodSidecars, Kubernetes!Next PROVE PodSidecars'
<1> USE DEF PodSidecars
<1>1. ASSUME NEW s \in Services, Kubernetes!LookAtService(s) PROVE PodSidecars'
  BY <1>1 DEF Kubernetes!LookAtService, Kubernetes!cluster
<1>2. ASSUME NEW s \in Services, Kubernetes!ServiceDeadline(s) PROVE PodSidecars'
  BY <1>2 DEF Kubernetes!ServiceDeadline, Kubernetes!cluster
<1>3. ASSUME NEW s \in Services, Kubernetes!ProbeSucceeds(s) PROVE PodSidecars'
  BY <1>3 DEF Kubernetes!ProbeSucceeds, Kubernetes!services
<1>4. CASE Kubernetes!Kubelet
  BY <1>4 DEF Kubernetes!Kubelet, Kubernetes!services
<1>5. CASE UNCHANGED <<ready, timedOut, probe>>
  BY <1>5
<1> QED BY <1>1, <1>2, <1>3, <1>4, <1>5 DEF Kubernetes!Next, Kubernetes!Check,
        Kubernetes!Create, Kubernetes!Replace, Kubernetes!Replacing, Kubernetes!Poll, Kubernetes!WaitEnds,
        Kubernetes!ServiceTimesOut, Kubernetes!ServicesReady, Kubernetes!Copy,
        Kubernetes!ExecBegins, Kubernetes!CommandEnds, Kubernetes!ExecReturns,
        Kubernetes!StepsOver, Kubernetes!StartFailed, Kubernetes!Remove, Kubernetes!JobEnds,
        Kubernetes!SchedulingTimeout, Kubernetes!Evict, Kubernetes!services,
        Kubernetes!cluster

\* What becomes of the flags.
LEMMA PodFlagsKept == ASSUME PodFlags, Kubernetes!Next PROVE PodFlags'
<1>1. CASE Kubernetes!Check
  BY <1>1, Zenon DEF PodFlags, Kubernetes!Check, Kubernetes!cluster
<1>2. CASE Kubernetes!Create
  BY <1>2, Zenon DEF PodFlags, Kubernetes!Create, Kubernetes!Same
<1>3. CASE Kubernetes!Kubelet
  BY <1>3, Zenon DEF PodFlags, Kubernetes!Kubelet, Kubernetes!run
<1>4. CASE UNCHANGED <<cleanUp, mine>>
  BY <1>4, Zenon DEF PodFlags
<1> QED BY <1>1, <1>2, <1>3, <1>4 DEF Kubernetes!Next, Kubernetes!Replace,
        Kubernetes!Replacing, Kubernetes!Poll, Kubernetes!WaitEnds, Kubernetes!LookAtService,
        Kubernetes!ServiceTimesOut, Kubernetes!ServicesReady, Kubernetes!Copy,
        Kubernetes!ExecBegins, Kubernetes!CommandEnds, Kubernetes!ExecReturns,
        Kubernetes!StepsOver, Kubernetes!StartFailed, Kubernetes!Remove, Kubernetes!JobEnds,
        Kubernetes!SchedulingTimeout, Kubernetes!ServiceDeadline, Kubernetes!ProbeSucceeds,
        Kubernetes!Evict, Kubernetes!Same, Kubernetes!run, Kubernetes!cluster

\* The clean-up stays armed.
LEMMA PodArmedKept == ASSUME PodStages, PodArmed, Kubernetes!Next PROVE PodArmed'
<1> USE DEF PodArmed, Kubernetes!Goto, Kubernetes!FailWith, Kubernetes!Same, Kubernetes!run,
        Kubernetes!cluster
<1>1. CASE Kubernetes!Check
  BY <1>1 DEF Kubernetes!Check
<1>2. CASE Kubernetes!Create
  BY <1>2 DEF Kubernetes!Create
<1>3. CASE Kubernetes!Replace \/ Kubernetes!Replacing
  BY <1>3 DEF Kubernetes!Replace, Kubernetes!Replacing
<1>4. CASE Kubernetes!Poll
  BY <1>4 DEF Kubernetes!Poll
<1>5. CASE Kubernetes!WaitEnds
  BY <1>5 DEF Kubernetes!WaitEnds
<1>6. ASSUME NEW s \in Services,
             Kubernetes!LookAtService(s) \/ Kubernetes!ServiceTimesOut(s)
      PROVE  PodArmed'
  BY <1>6 DEF Kubernetes!LookAtService, Kubernetes!ServiceTimesOut
<1>7. CASE Kubernetes!ServicesReady \/ Kubernetes!Copy \/ Kubernetes!StepsOver
  BY <1>7 DEF Kubernetes!ServicesReady, Kubernetes!Copy, Kubernetes!StepsOver
<1>8. CASE Kubernetes!StartFailed
  BY <1>8 DEF Kubernetes!StartFailed
<1>9. CASE Kubernetes!Remove
  BY <1>9 DEF Kubernetes!Remove
<1>10. CASE Kubernetes!JobEnds
  BY <1>10 DEF Kubernetes!JobEnds
<1>11. CASE Kubernetes!Kubelet
  BY <1>11 DEF Kubernetes!Kubelet
<1>12. CASE Kubernetes!Evict
  BY <1>12 DEF Kubernetes!Evict
<1>13. CASE UNCHANGED <<pc, cleanUp, ctx, mine, pod>>
  BY <1>13
<1> QED BY <1>1, <1>2, <1>3, <1>4, <1>5, <1>6, <1>7, <1>8, <1>9, <1>10, <1>11, <1>12, <1>13
   DEF Kubernetes!Next, Kubernetes!ExecBegins, Kubernetes!CommandEnds,
       Kubernetes!ExecReturns, Kubernetes!SchedulingTimeout, Kubernetes!ServiceDeadline,
       Kubernetes!ProbeSucceeds

\* Whose Pod there is, and which sidecars are ready.
LEMMA PodOwnKept == ASSUME PodStages, PodArmed, PodOwn, Kubernetes!Next PROVE PodOwn'
<1> USE DEF PodOwn, Kubernetes!Goto, Kubernetes!FailWith, Kubernetes!Same, Kubernetes!run,
        Kubernetes!services, Kubernetes!cluster
<1>1. CASE Kubernetes!Check
  BY <1>1 DEF Kubernetes!Check
<1>2. CASE Kubernetes!Create
  BY <1>2 DEF Kubernetes!Create
<1>3. CASE Kubernetes!Replace
  BY <1>3 DEF Kubernetes!Replace
<1>4. CASE Kubernetes!Replacing
  BY <1>4 DEF Kubernetes!Replacing
<1>5. CASE Kubernetes!Poll
  BY <1>5 DEF Kubernetes!Poll
<1>6. CASE Kubernetes!WaitEnds
  BY <1>6 DEF Kubernetes!WaitEnds
<1>7. ASSUME NEW s \in Services, Kubernetes!LookAtService(s) PROVE PodOwn'
  BY <1>7 DEF Kubernetes!LookAtService
<1>8. ASSUME NEW s \in Services, Kubernetes!ServiceTimesOut(s) PROVE PodOwn'
  BY <1>8 DEF Kubernetes!ServiceTimesOut
<1>9. CASE Kubernetes!ServicesReady \/ Kubernetes!Copy \/ Kubernetes!StepsOver
  BY <1>9 DEF Kubernetes!ServicesReady, Kubernetes!Copy, Kubernetes!StepsOver
<1>10. CASE Kubernetes!StartFailed \/ Kubernetes!Remove
  BY <1>10 DEF Kubernetes!StartFailed, Kubernetes!Remove
<1>11. CASE Kubernetes!Kubelet
  BY <1>11 DEF Kubernetes!Kubelet
<1>12. CASE Kubernetes!Evict
  BY <1>12 DEF Kubernetes!Evict
<1>13. ASSUME NEW s \in Services, Kubernetes!ProbeSucceeds(s) PROVE PodOwn'
  BY <1>13 DEF Kubernetes!ProbeSucceeds
<1>14. CASE UNCHANGED <<pc, ready, mine, pod, probe>>
  BY <1>14
<1> QED BY <1>1, <1>2, <1>3, <1>4, <1>5, <1>6, <1>7, <1>8, <1>9, <1>10, <1>11, <1>12,
           <1>13, <1>14
   DEF Kubernetes!Next, Kubernetes!ExecBegins, Kubernetes!CommandEnds,
       Kubernetes!ExecReturns, Kubernetes!SchedulingTimeout, Kubernetes!ServiceDeadline,
       Kubernetes!JobEnds

\* A clean-up without a fault deletes the Pod.
LEMMA PodRemoved ==
    ASSUME Counted, PodContexts, PodArmed, Kubernetes!NoPodLeft, Kubernetes!Next
    PROVE  Kubernetes!NoPodLeft'
<1> SUFFICES ASSUME faults' = 0 PROVE Kubernetes!NoPodLeft'
  BY DEF Kubernetes!NoPodLeft
<1> faults = 0 /\ ~Kubernetes!Fault
  BY PodCounted DEF Kubernetes!Fault, Counted
<1> USE DEF Kubernetes!NoPodLeft, Kubernetes!Goto, Kubernetes!FailWith, Kubernetes!Same,
        Kubernetes!Fails, Kubernetes!run, Kubernetes!cluster
<1>1. CASE pc' # "over"
  BY <1>1
<1>2. CASE Kubernetes!StartFailed
  BY <1>2 DEF Kubernetes!StartFailed, PodArmed
<1>3. CASE Kubernetes!Remove
  BY <1>3 DEF Kubernetes!Remove, PodArmed, PodContexts
<1>4. CASE pc = "over" /\ Kubernetes!Kubelet
  BY <1>4 DEF Kubernetes!Kubelet
<1>5. CASE pc = "over" /\ Kubernetes!Evict
  BY <1>5 DEF Kubernetes!Evict
<1>6. CASE pc = "over" /\ ~Kubernetes!Kubelet /\ ~Kubernetes!Evict
  <2>1. UNCHANGED <<pc, ctx, mine, pod>>
    BY <1>6 DEF Kubernetes!Next, Kubernetes!Check, Kubernetes!Create, Kubernetes!Replace,
       Kubernetes!Replacing, Kubernetes!Poll, Kubernetes!WaitEnds, Kubernetes!LookAtService,
       Kubernetes!ServiceTimesOut, Kubernetes!ServicesReady, Kubernetes!Copy,
       Kubernetes!ExecBegins, Kubernetes!CommandEnds, Kubernetes!ExecReturns,
       Kubernetes!StepsOver, Kubernetes!StartFailed, Kubernetes!Remove, Kubernetes!JobEnds,
       Kubernetes!SchedulingTimeout, Kubernetes!ServiceDeadline, Kubernetes!ProbeSucceeds
  <2> QED BY <1>6, <2>1
<1>7. CASE pc # "over"
  BY <1>1, <1>2, <1>3, <1>7
     DEF Kubernetes!Next, Kubernetes!Check, Kubernetes!Create, Kubernetes!Replace,
       Kubernetes!Replacing, Kubernetes!Poll, Kubernetes!WaitEnds, Kubernetes!LookAtService,
       Kubernetes!ServiceTimesOut, Kubernetes!ServicesReady, Kubernetes!Copy,
       Kubernetes!ExecBegins, Kubernetes!CommandEnds, Kubernetes!ExecReturns,
       Kubernetes!StepsOver, Kubernetes!JobEnds, Kubernetes!SchedulingTimeout,
       Kubernetes!ServiceDeadline, Kubernetes!Kubelet, Kubernetes!ProbeSucceeds,
       Kubernetes!Evict
<1> QED BY <1>4, <1>5, <1>6, <1>7

\* A command that has ended stays so.
LEMMA PodVerdict ==
    ASSUME PodStates, VerdictTrue, Kubernetes!Next PROVE VerdictTrue'
<1> USE DEF VerdictTrue
<1>1. CASE Kubernetes!ExecBegins \/ Kubernetes!CommandEnds \/ Kubernetes!ExecReturns
  BY <1>1 DEF Kubernetes!ExecBegins, Kubernetes!CommandEnds, Kubernetes!ExecReturns
<1>2. CASE Kubernetes!Remove \/ Kubernetes!Kubelet \/ Kubernetes!Evict
  BY <1>2 DEF Kubernetes!Remove, Kubernetes!Kubelet, Kubernetes!Evict
<1>3. CASE UNCHANGED <<verdict, cmd>>
  BY <1>3
<1> QED BY <1>1, <1>2, <1>3
   DEF Kubernetes!Next, Kubernetes!Check, Kubernetes!Create, Kubernetes!Replace,
       Kubernetes!Replacing, Kubernetes!Poll, Kubernetes!WaitEnds, Kubernetes!LookAtService,
       Kubernetes!ServiceTimesOut, Kubernetes!ServicesReady, Kubernetes!Copy,
       Kubernetes!StepsOver, Kubernetes!StartFailed, Kubernetes!JobEnds,
       Kubernetes!SchedulingTimeout, Kubernetes!ServiceDeadline, Kubernetes!ProbeSucceeds,
       Kubernetes!exec

LEMMA PodStep == ASSUME PodInv, Kubernetes!Next PROVE PodInv'
<1>1. Kubernetes!TypeOK'
  <2>1. PodStages /\ PodContexts /\ PodStates /\ Counted /\ PodSidecars /\ PodFlags
    BY PodTypes DEF PodInv
  <2>2. PodStages' /\ PodContexts' /\ PodStates' /\ Counted' /\ PodSidecars' /\ PodFlags'
    BY <2>1, PodStagesKept, PodContextsKept, PodStatesKept, PodCounted, PodSidecarsKept,
       PodFlagsKept
  <2> QED BY <2>2, Zenon
     DEF Kubernetes!TypeOK, PodStages, PodContexts, PodStates, Counted, PodSidecars, PodFlags
<1> QED BY <1>1, PodTypes, PodArmedKept, PodOwnKept, PodRemoved, PodVerdict DEF PodInv

\* Why the start failed is told truly.
LEMMA PodReason == ASSUME PodInv, Kubernetes!Next PROVE Kubernetes!ReasonTrue
<1> SUFFICES ASSUME pc = "wait", pc' = "failing" PROVE Kubernetes!ReasonTrue
  BY DEF Kubernetes!ReasonTrue
<1> USE DEF Kubernetes!ReasonTrue, Kubernetes!FailWith, Kubernetes!Goto
<1>1. CASE Kubernetes!Poll
  <2>1. CASE pod \in {"none", "exited", "failed", "stuck"} /\ Kubernetes!Works
    BY <1>1, <2>1 DEF Kubernetes!Poll, Kubernetes!Works
  <2>2. CASE ctx = "live" /\ Kubernetes!Fault /\ reason' = "refused"
    <3>1. faults' # faults
      BY <2>2, PodTypes DEF PodInv, Counted, Kubernetes!Fault
    <3> QED BY <2>2, <3>1
  <2> QED BY <1>1, <2>1, <2>2 DEF Kubernetes!Poll
<1>2. CASE Kubernetes!WaitEnds
  BY <1>2, PodTypes DEF Kubernetes!WaitEnds, Kubernetes!EndOfWait, PodInv, PodContexts
<1> QED BY <1>1, <1>2
   DEF Kubernetes!Next, Kubernetes!Check, Kubernetes!Create, Kubernetes!Replace,
       Kubernetes!Replacing, Kubernetes!LookAtService, Kubernetes!ServiceTimesOut,
       Kubernetes!ServicesReady, Kubernetes!Copy, Kubernetes!ExecBegins,
       Kubernetes!CommandEnds, Kubernetes!ExecReturns, Kubernetes!StepsOver,
       Kubernetes!StartFailed, Kubernetes!Remove, Kubernetes!JobEnds,
       Kubernetes!SchedulingTimeout, Kubernetes!ServiceDeadline, Kubernetes!Kubelet,
       Kubernetes!ProbeSucceeds, Kubernetes!Evict, Kubernetes!run
-----------------------------------------------------------------------------
(* The proof for a host job.                                               *)

\* The types, apart by the kind of reasoning they need.
HostStates ==
    /\ pc \in {"mkdirs", "copy", "steps", "failing", "cleanUp", "rmPath", "rmWorkdir", "over"}
    /\ ctx \in {"live", "ended"}
    /\ step \in 0..MaxSteps
    /\ at \in {"idle", "started", "waiting", "draining"}
    /\ sent \in {"none", "process", "tree"}
    /\ cmd \in {"none", "running", "zero", "nonzero", "killed"}
    /\ alive \subseteq ((1..MaxSteps) \X Kids)
    /\ verdict \in {"none", "ok", "failed", "interrupted"}
    /\ faults \in 0..MaxFaults
HostRemovals == late \subseteq {"scratch", "work"} /\ errs \subseteq {"error", "deadline"}
HostFlags ==
    /\ armed \in BOOLEAN /\ captured \in BOOLEAN /\ delayed \in BOOLEAN
    /\ scratch \in BOOLEAN /\ work \in BOOLEAN /\ rmExpired \in BOOLEAN

LEMMA HostTypes == Host!TypeOK <=> HostStates /\ HostRemovals /\ HostFlags
BY Zenon DEF Host!TypeOK, HostStates, HostRemovals, HostFlags

\* What a host job begins with.
LEMMA HostInit == Host!Init => HostInv
<1> SUFFICES ASSUME Host!Init PROVE HostInv
  OBVIOUS
<1>1. HostStates /\ HostRemovals
  BY EnvironmentAssumption DEF Host!Init, HostStates, HostRemovals
<1>2. HostFlags
  BY Zenon DEF Host!Init, HostFlags
<1>3. HostFiles /\ HostCommand /\ Host!CancelKillsTree
  BY Zenon DEF Host!Init, HostFiles, HostCommand, Host!CancelKillsTree
<1> QED BY <1>1, <1>2, <1>3, HostTypes DEF HostInv

\* What becomes of the stages, the processes and the count of the faults.
LEMMA HostStatesKept == ASSUME HostStates, HostCommand, Host!Next PROVE HostStates'
<1> USE EnvironmentAssumption DEF HostStates
<1>1. CASE Host!MakeDirs
  BY <1>1 DEF Host!MakeDirs, Host!Fault, Host!NoFault, Host!Goto, Host!exec, Host!processes
<1>2. CASE Host!CopyFiles
  BY <1>2 DEF Host!CopyFiles, Host!Fault, Host!NoFault, Host!Goto, Host!exec, Host!processes
<1>3. CASE Host!StartFailed \/ Host!StepsOver
  BY <1>3 DEF Host!StartFailed, Host!StepsOver, Host!Goto, Host!exec, Host!processes
<1>4. CASE Host!ExecBegins
  BY <1>4 DEF Host!ExecBegins, Host!start
<1>5. CASE Host!Capture \/ Host!Reaped \/ Host!WaitDelayOver \/ Host!ExecReturns
  BY <1>5 DEF Host!Capture, Host!Reaped, Host!WaitDelayOver, Host!ExecReturns, Host!start,
     Host!processes
<1>6. CASE Host!CancelFires
  BY <1>6 DEF Host!CancelFires, Host!start
<1>7. CASE Host!CleanUp
  BY <1>7 DEF Host!CleanUp, Host!Fault, Host!NoFault, Host!Goto, Host!exec, Host!processes
<1>8. CASE Host!RemovePath
  BY <1>8 DEF Host!RemovePath, Host!Fault, Host!NoFault, Host!Goto, Host!exec, Host!processes
<1>9. CASE Host!RemoveWorkdir
  BY <1>9 DEF Host!RemoveWorkdir, Host!Fault, Host!NoFault, Host!Goto, Host!exec,
     Host!processes
<1>10. CASE Host!LateRemoval
  BY <1>10 DEF Host!LateRemoval, Host!start, Host!exec, Host!processes
<1>11. CASE Host!EndContext \/ Host!CommandEnds
  BY <1>11 DEF Host!EndContext, Host!CommandEnds, Host!start, Host!exec, Host!processes
<1>12. CASE Host!SurvivorEnds
  BY <1>12 DEF Host!SurvivorEnds, Host!start, Host!exec
<1>13. CASE \E k \in Kids : Host!CommandSpawns(k)
  BY <1>13 DEF Host!CommandSpawns, HostCommand, Host!start, Host!exec
<1> QED BY <1>1, <1>2, <1>3, <1>4, <1>5, <1>6, <1>7, <1>8, <1>9, <1>10, <1>11, <1>12, <1>13
        DEF Host!Next

\* What becomes of the removals.
LEMMA HostRemovalsKept == ASSUME HostRemovals, Host!Next PROVE HostRemovals'
<1>1. CASE Host!CleanUp \/ Host!RemovePath \/ Host!RemoveWorkdir
  BY <1>1 DEF HostRemovals, Host!CleanUp, Host!RemovePath, Host!RemoveWorkdir
<1>2. CASE Host!LateRemoval
  BY <1>2 DEF HostRemovals, Host!LateRemoval
<1>3. CASE UNCHANGED <<late, errs>>
  BY <1>3 DEF HostRemovals
<1> QED BY <1>1, <1>2, <1>3 DEF Host!Next, Host!MakeDirs, Host!CopyFiles, Host!StartFailed,
        Host!ExecBegins, Host!Capture, Host!CancelFires, Host!Reaped, Host!WaitDelayOver,
        Host!ExecReturns, Host!StepsOver, Host!EndContext, Host!CommandEnds,
        Host!CommandSpawns, Host!SurvivorEnds, Host!files

\* What becomes of the flags.
LEMMA HostFlagsKept == ASSUME HostFlags, Host!Next PROVE HostFlags'
<1>1. CASE Host!MakeDirs
  BY <1>1, Zenon DEF HostFlags, Host!MakeDirs, Host!exec
<1>2. CASE Host!ExecBegins
  BY <1>2, Zenon DEF HostFlags, Host!ExecBegins, Host!start
<1>3. CASE Host!Capture \/ Host!WaitDelayOver
  BY <1>3, Zenon DEF HostFlags, Host!Capture, Host!WaitDelayOver, Host!start, Host!files
<1>4. CASE Host!CleanUp \/ Host!RemovePath \/ Host!RemoveWorkdir
  BY <1>4, Zenon DEF HostFlags, Host!CleanUp, Host!RemovePath, Host!RemoveWorkdir, Host!exec
<1>5. CASE Host!LateRemoval
  BY <1>5, Zenon DEF HostFlags, Host!LateRemoval, Host!start, Host!exec
<1>6. CASE UNCHANGED <<armed, captured, delayed, scratch, work, rmExpired>>
  BY <1>6, Zenon DEF HostFlags
<1> QED BY <1>1, <1>2, <1>3, <1>4, <1>5, <1>6 DEF Host!Next, Host!CopyFiles, Host!StartFailed,
        Host!CancelFires, Host!Reaped, Host!ExecReturns, Host!StepsOver, Host!EndContext,
        Host!CommandEnds, Host!CommandSpawns, Host!SurvivorEnds, Host!start, Host!exec,
        Host!files

\* No file operation has failed yet: then nothing is given up on, and each stage
\* of the teardown has removed its directory.
LEMMA HostFilesKept ==
  ASSUME HostStates, HostFlags, HostFiles, HostCommand, Host!Next
  PROVE  HostFiles'
<1> SUFFICES ASSUME faults' = 0
             PROVE  /\ late' = {} /\ ~rmExpired' /\ pc' # "failing"
                    /\ pc' \in {"rmPath", "rmWorkdir", "over"} => ~scratch'
                    /\ pc' = "over" /\ CleanWorkdir => ~work'
  BY DEF HostFiles
<1>1. ~Host!Fault
  BY EnvironmentAssumption DEF HostStates, Host!Fault
<1>2. CASE faults' = faults
  <2>1. /\ late = {} /\ ~rmExpired /\ pc # "failing"
        /\ pc \in {"rmPath", "rmWorkdir", "over"} => ~scratch
        /\ pc = "over" /\ CleanWorkdir => ~work
    BY <1>2, Zenon DEF HostFiles
  <2>2. CASE Host!MakeDirs \/ Host!CopyFiles \/ Host!StartFailed \/ Host!StepsOver
    <3>1. pc' \in {"copy", "steps", "cleanUp"}
      BY <1>1, <2>1, <2>2 DEF Host!MakeDirs, Host!CopyFiles, Host!StartFailed, Host!StepsOver,
         Host!Goto
    <3>2. UNCHANGED <<late, rmExpired>>
      BY <2>2 DEF Host!MakeDirs, Host!CopyFiles, Host!StartFailed, Host!StepsOver, Host!files
    <3> QED BY <2>1, <3>1, <3>2
  <2>4. CASE Host!ExecBegins
    BY <2>1, <2>4, Zenon DEF Host!ExecBegins, Host!start
  <2>5. CASE Host!CleanUp \/ Host!RemovePath \/ Host!RemoveWorkdir
    <3>1. late' = {} /\ ~rmExpired' /\ pc' \in {"rmPath", "rmWorkdir", "over"}
      BY <1>1, <2>1, <2>5 DEF Host!CleanUp, Host!RemovePath, Host!RemoveWorkdir, Host!Goto
    <3>2. ~scratch'
      BY <1>1, <2>1, <2>5 DEF Host!CleanUp, Host!RemovePath, Host!RemoveWorkdir
    <3>3. pc' = "over" /\ CleanWorkdir => ~work'
      BY <1>1, <2>1, <2>5 DEF Host!CleanUp, Host!RemovePath, Host!RemoveWorkdir, Host!Goto
    <3> QED BY <3>1, <3>2, <3>3
  <2>6. CASE Host!LateRemoval
    BY <2>1, <2>6, Zenon DEF Host!LateRemoval
  <2>7. CASE UNCHANGED <<pc, late, rmExpired, scratch, work>>
    BY <2>1, <2>7, Zenon
  <2> QED BY <2>2, <2>4, <2>5, <2>6, <2>7 DEF Host!Next, Host!Capture,
          Host!CancelFires, Host!Reaped, Host!WaitDelayOver, Host!ExecReturns,
          Host!EndContext, Host!CommandEnds, Host!CommandSpawns, Host!SurvivorEnds,
          Host!start, Host!files
<1>3. faults' = faults
  BY <1>1 DEF Host!Next, Host!MakeDirs, Host!CopyFiles, Host!StartFailed, Host!StepsOver,
     Host!ExecBegins, Host!Capture, Host!CancelFires, Host!Reaped, Host!WaitDelayOver,
     Host!ExecReturns, Host!CleanUp, Host!RemovePath, Host!RemoveWorkdir, Host!LateRemoval,
     Host!EndContext, Host!CommandEnds, Host!CommandSpawns, Host!SurvivorEnds, Host!NoFault
<1> QED BY <1>2, <1>3

\* The command, its verdict, and what a cancel leaves of its group.
LEMMA HostCommandKept ==
  ASSUME HostStates, HostCommand, Host!CancelKillsTree, Host!Next
  PROVE  HostCommand' /\ Host!CancelKillsTree'
<1> USE EnvironmentAssumption DEF HostCommand, Host!CancelKillsTree
<1>1. CASE Host!ExecBegins
  BY <1>1 DEF Host!ExecBegins, HostStates
<1>2. CASE Host!Capture \/ Host!Reaped \/ Host!WaitDelayOver
  BY <1>2 DEF Host!Capture, Host!Reaped, Host!WaitDelayOver, Host!processes, Host!Group,
     Host!Mine
<1>3. CASE Host!ExecReturns
  BY <1>3 DEF Host!ExecReturns, Host!processes, Host!Group, Host!Mine
<1>4. CASE Host!CancelFires
  BY <1>4 DEF Host!CancelFires, Host!Reached, Host!Group, Host!Mine
<1>5. CASE Host!CommandEnds \/ \E k \in Kids : Host!CommandSpawns(k)
  BY <1>5 DEF Host!CommandEnds, Host!CommandSpawns, Host!exec, Host!Group, Host!Mine
<1>6. CASE Host!SurvivorEnds
  BY <1>6 DEF Host!SurvivorEnds, Host!exec, Host!Group, Host!Mine
<1>7. CASE UNCHANGED <<step, at, sent, cmd, alive, verdict>>
  BY <1>7 DEF Host!Group, Host!Mine
<1> QED BY <1>1, <1>2, <1>3, <1>4, <1>5, <1>6, <1>7 DEF Host!Next, Host!MakeDirs,
        Host!CopyFiles, Host!StartFailed, Host!StepsOver, Host!CleanUp, Host!RemovePath,
        Host!RemoveWorkdir, Host!LateRemoval, Host!EndContext, Host!exec, Host!processes

\* A step of a host job keeps its invariant.
LEMMA HostStep == ASSUME HostInv, Host!Next PROVE HostInv'
<1>1. HostStates /\ HostRemovals /\ HostFlags
  BY HostTypes DEF HostInv
<1>2. HostStates' /\ HostRemovals' /\ HostFlags'
  BY <1>1, HostStatesKept, HostRemovalsKept, HostFlagsKept DEF HostInv
<1>3. Host!TypeOK'
  BY <1>2, Zenon DEF Host!TypeOK, HostStates, HostRemovals, HostFlags
<1> QED BY <1>1, <1>3, HostFilesKept, HostCommandKept DEF HostInv
-----------------------------------------------------------------------------
(* The proof for the container of a step.                                  *)

LEMMA StepInit == Own!Init => StepInv
BY EnvironmentAssumption DEF Own!Init, StepInv, Own!TypeOK, Own!Images, StepImage, StepBox,
   VerdictTrue

\* A step of the runner: what it does to each part of the invariant.
LEMMA StepProgress == ASSUME StepInv, Own!Progress PROVE StepInv'
<1> USE EnvironmentAssumption
    DEF StepInv, Own!TypeOK, Own!Images, StepImage, StepBox, VerdictTrue, ForcedImage, Own!own,
        Own!Works, Own!Fails, Own!Fault, Own!NoFault, Own!Then, Own!Fail, Own!Return
<1>1. CASE Own!Look
  BY <1>1 DEF Own!Look
<1>2. CASE Own!Drop
  BY <1>2 DEF Own!Drop
<1>3. CASE Own!Arguments
  BY <1>3 DEF Own!Arguments, Own!Present
<1>4. CASE Own!Build
  BY <1>4 DEF Own!Build, Own!Heard
<1>5. CASE Own!Pull
  BY <1>5 DEF Own!Pull, Own!Present, Own!Forced
<1>6. CASE Own!RemoveOld
  BY <1>6 DEF Own!RemoveOld
<1>7. CASE Own!Create
  BY <1>7 DEF Own!Create
<1>8. CASE Own!Attach
  BY <1>8 DEF Own!Attach
<1>9. CASE Own!StartBox
  BY <1>9 DEF Own!StartBox
<1>10. CASE Own!CallWait
  BY <1>10 DEF Own!CallWait
<1>11. CASE Own!WaitReturns
  BY <1>11 DEF Own!WaitReturns
<1>12. CASE Own!Close
  BY <1>12 DEF Own!Close
<1> QED BY <1>1, <1>2, <1>3, <1>4, <1>5, <1>6, <1>7, <1>8, <1>9, <1>10, <1>11, <1>12
        DEF Own!Progress

\* A step of the surroundings.
LEMMA StepStep == ASSUME StepInv, Own!Next PROVE StepInv'
<1> USE DEF StepInv, Own!TypeOK, Own!Images, StepImage, StepBox, VerdictTrue, ForcedImage,
            Own!own
<1>1. CASE Own!Cancel
  BY <1>1 DEF Own!Cancel
<1>2. CASE Own!CommandEnds
  BY <1>2 DEF Own!CommandEnds
<1>3. CASE Own!RemovalEnds
  BY <1>3 DEF Own!RemovalEnds
<1> QED BY <1>1, <1>2, <1>3, StepProgress DEF Own!Next
-----------------------------------------------------------------------------
(* Whichever backend a job has.                                            *)

LEMMA InitIInv == Init => IInv
<1> SUFFICES ASSUME Init PROVE IInv
  OBVIOUS
<1> QED BY DockerInit, PodInit, HostInit, StepInit DEF Init, IInv

\* A step of nobody's.
LEMMA Stutters == ASSUME IInv, UNCHANGED vars PROVE IInv'
<1>0. /\ UNCHANGED <<backend, pc, ctx, verdict, cmd, faults>>
      /\ UNCHANGED <<part, failed, clean, expired, known, cont, fresh, health, net, vol, images>>
      /\ UNCHANGED <<cleanUp, wait, reason, ready, timedOut, pod, mine, probe>>
      /\ UNCHANGED <<armed, step, at, captured, sent, alive, delayed, scratch, work, late, errs,
                     rmExpired>>
      /\ UNCHANGED <<source, image, box, origin>>
  BY DEF vars, ofDocker, ofPod, ofHost, ofStep
<1>1. ASSUME DockerInv PROVE DockerInv'
  <2>1. Docker!TypeOK' /\ VerdictTrue'
    <3>1. DockerStages' /\ DockerCommand' /\ VerdictTrue'
      BY <1>0, <1>1, DockerTypes DEF DockerInv, DockerStages, DockerCommand, VerdictTrue
    <3>2. DockerParts' /\ DockerStates' /\ DockerNames' /\ Counted'
      BY <1>0, <1>1, DockerTypes DEF DockerInv, DockerParts, DockerStates, DockerNames,
         Counted
    <3>3. DockerFlags'
      BY <1>0, <1>1, DockerTypes, Zenon DEF DockerInv, DockerFlags
    <3> QED BY <3>1, <3>2, <3>3, Zenon DEF Docker!TypeOK, DockerStages, DockerParts,
       DockerCommand, DockerStates, DockerNames, DockerFlags, Counted
  <2>2. DockerContexts' /\ DockerWorkers' /\ DockerRemoves'
    BY <1>0, <1>1, Zenon DEF DockerInv, DockerContexts, DockerWorkers, DockerRemoves,
       Undisturbed, Gone
  <2>3. DockerOwns' /\ DockerUp' /\ Docker!NothingLeftBehind'
    BY <1>0, <1>1, Zenon DEF DockerInv, DockerOwns, DockerUp, Docker!NothingLeftBehind
  <2> QED BY <2>1, <2>2, <2>3 DEF DockerInv
<1>2. ASSUME PodInv PROVE PodInv'
  <2>1. Kubernetes!TypeOK' /\ VerdictTrue'
    <3>1. PodStages' /\ PodContexts'
      BY <1>0, <1>2, PodTypes DEF PodInv, PodStages, PodContexts
    <3>2. PodStates' /\ VerdictTrue'
      BY <1>0, <1>2, PodTypes DEF PodInv, PodStates, VerdictTrue
    <3>3. PodSidecars' /\ Counted'
      BY <1>0, <1>2, PodTypes DEF PodInv, PodSidecars, Counted
    <3>4. PodFlags'
      BY <1>0, <1>2, PodTypes, Zenon DEF PodInv, PodFlags
    <3> QED BY <3>1, <3>2, <3>3, <3>4, Zenon DEF Kubernetes!TypeOK, PodStages, PodContexts,
       PodStates, PodSidecars, PodFlags, Counted
  <2>2. PodArmed' /\ PodOwn' /\ Kubernetes!NoPodLeft'
    BY <1>0, <1>2, Zenon DEF PodInv, PodArmed, PodOwn, Kubernetes!NoPodLeft
  <2> QED BY <2>1, <2>2 DEF PodInv
<1>3. ASSUME HostInv PROVE HostInv'
  <2>1. Host!TypeOK'
    <3>1. HostStates' /\ HostRemovals'
      BY <1>0, <1>3, HostTypes DEF HostInv, HostStates, HostRemovals
    <3>2. HostFlags'
      BY <1>0, <1>3, HostTypes, Zenon DEF HostInv, HostFlags
    <3> QED BY <3>1, <3>2, Zenon DEF Host!TypeOK, HostStates, HostRemovals, HostFlags
  <2>2. HostFiles' /\ HostCommand'
    BY <1>0, <1>3, Zenon DEF HostInv, HostFiles, HostCommand
  <2>3. Host!CancelKillsTree'
    BY <1>0, <1>3 DEF HostInv, Host!CancelKillsTree, Host!Group, Host!Mine
  <2> QED BY <2>1, <2>2, <2>3 DEF HostInv
<1>4. ASSUME StepInv PROVE StepInv'
  <2>1. Own!TypeOK'
    BY <1>0, <1>4 DEF StepInv, Own!TypeOK
  <2>2. VerdictTrue'
    BY <1>0, <1>4 DEF StepInv, VerdictTrue
  <2>3. StepImage'
    BY <1>0, <1>4, Zenon DEF StepInv, StepImage, ForcedImage
  <2>4. StepBox'
    BY <1>0, <1>4 DEF StepInv, StepBox
  <2> QED BY <2>1, <2>2, <2>3, <2>4 DEF StepInv
<1> QED BY <1>0, <1>1, <1>2, <1>3, <1>4 DEF IInv

LEMMA NextIInv == IInv /\ [Next]_vars => IInv'
<1> SUFFICES ASSUME IInv, [Next]_vars PROVE IInv'
  OBVIOUS
<1>1. CASE InDocker(Docker!Next)
  BY <1>1, DockerStep DEF InDocker, IInv
<1>2. CASE InPod(Kubernetes!Next)
  BY <1>2, PodStep DEF InPod, IInv
<1>3. CASE OnHost(Host!Next)
  BY <1>3, HostStep DEF OnHost, IInv
<1>4. CASE InStep(Own!Next)
  BY <1>4, StepStep DEF InStep, IInv
<1>5. CASE UNCHANGED vars
  BY <1>5, Stutters
<1> QED BY <1>1, <1>2, <1>3, <1>4, <1>5 DEF Next

\* The invariant holds in every state; what follows from it is stated below.
THEOREM Inductive == Spec => []IInv
<1>1. Init => IInv
  BY InitIInv
<1>2. IInv /\ [Next]_vars => IInv'
  BY NextIInv
<1> QED BY <1>1, <1>2, PTL DEF Spec

\* Every variable keeps its type, in a job of any backend and in the container
\* of a step, with any number of services, processes, steps and failing calls.
THEOREM Typed == Spec => []TypeOK
<1>1. IInv => TypeOK
  BY DEF IInv, TypeOK, DockerInv, PodInv, HostInv, StepInv
<1> QED BY <1>1, Inductive, PTL

\* The teardown leaves nothing of a job whose calls all worked
\* (cleanupJobResources, PodEnvironment.Remove, HostEnvironment.Remove, and
\* Remove of the container of a step).
THEOREM NothingIsLeft == Spec => []NothingLeft
<1>1. IInv => NothingLeft
  <2> SUFFICES ASSUME IInv PROVE NothingLeft
    OBVIOUS
  <2>1. backend = "docker" => Docker!NothingLeftBehind
    BY DEF IInv, DockerInv
  <2>2. backend = "kubernetes" => Kubernetes!NoPodLeft
    BY DEF IInv, PodInv
  <2>3. backend = "host" => Host!ScratchGone
    BY DEF IInv, HostInv, HostFiles, Host!ScratchGone
  <2>4. backend = "step" => Own!NoStepContainerLeft
    BY DEF IInv, StepInv, StepBox, Own!NoStepContainerLeft
  <2> QED BY <2>1, <2>2, <2>3, <2>4 DEF NothingLeft
<1> QED BY <1>1, Inductive, PTL

\* Steps run in an environment of this job's own, with its services up; one
\* passes only if its command exited with zero; and on the host a cancelled one
\* leaves nothing running that the kill of its process tree reaches.
THEOREM StepsAreSound == Spec => []StepsSound
<1>1. IInv => StepsSound
  <2> SUFFICES ASSUME IInv PROVE StepsSound
    OBVIOUS
  <2>1. backend = "docker" => Docker!StepsEnvironmentReady
    BY DEF IInv, DockerInv, DockerUp, DockerOwns, Rising, Docker!StepsEnvironmentReady,
       Docker!Found
  <2>2. backend = "kubernetes" => Kubernetes!StepsInOwnPod
    BY EnvironmentAssumption DEF IInv, PodInv, PodOwn, Kubernetes!StepsInOwnPod
  <2>3. backend = "step" => Own!RunsOwnImage
    BY DEF IInv, StepInv, StepImage, StepBox, ForcedImage, Own!RunsOwnImage
  <2>4. VerdictTrue
    BY DEF IInv, DockerInv, PodInv, HostInv, HostCommand, StepInv, VerdictTrue
  <2>5. backend = "host" => Host!CancelKillsTree
    BY DEF IInv, HostInv
  <2> QED BY <2>1, <2>2, <2>3, <2>4, <2>5 DEF StepsSound, StepsInOwnEnvironment
<1> QED BY <1>1, Inductive, PTL

\* Why the start of a Pod failed is told truly (waitForRunning): a cancel is not
\* reported as a timeout, nor a timeout as a cancel, and no single failed read
\* gives up a Pod that can start.
THEOREM ReasonsAreTrue == Spec => ReasonTrue
<1>1. IInv /\ [Next]_vars => [backend = "kubernetes" => Kubernetes!ReasonTrue]_vars
  BY PodReason DEF IInv, Next, InDocker, InPod, OnHost, InStep
<1> QED BY <1>1, Inductive, PTL DEF Spec, ReasonTrue
=============================================================================
