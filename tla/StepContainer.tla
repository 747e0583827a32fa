---------------------------- MODULE StepContainer ----------------------------
(***************************************************************************)
(* The container of one step, next to that of its job: a step that `uses:  *)
(* docker://` (act/runner/step_docker.go) and a stage of an action with    *)
(* `using: docker` (execAsDocker, act/runner/action.go).  The image is     *)
(* found, built or pulled, what stands under the step's name is removed,   *)
(* the container is created, attached to, started and waited for.          *)
(*                                                                         *)
(* The runner always sets AutoRemove and never ReuseContainers, so that    *)
(* the daemon removes the container when its process ends and the runner   *)
(* does not.  Calls fail, the process ends at any moment and the step may  *)
(* be cancelled or time out.                                               *)
(***************************************************************************)
EXTENDS Integers

CONSTANTS
    ForcePull,      \* an image of a registry is fetched even when it is present
    ForceRebuild,   \* an image of a Dockerfile is built even when it is present
    MaxFaults       \* bound on failed calls

VARIABLES
    pc,         \* the stage of the pipeline
    ctx,        \* the context of the step
    verdict,    \* what the runner makes of the step
    cmd,        \* the process of the container, once this step has started it
    source,     \* the image comes from a registry or from a Dockerfile
    image,      \* the daemon: the image under the step's tag, of another architecture,
                \* of an earlier build or pull, or of this one
    box,        \* the daemon: the container under the step's name
    origin,     \* the image that container was made from, "past" if not by this step
    faults

own == <<source, image, box, origin>>
vars == <<pc, ctx, verdict, cmd, own, faults>>

Images == {"none", "other", "old", "mine"}

Init ==
    /\ source \in {"registry", "file"}
    /\ pc = IF source = "file" THEN "look" ELSE "args"
    /\ ctx = "live"
    /\ verdict = "none"
    /\ cmd = "none"
    /\ image \in {"none", "other", "old"}
    /\ box \in {"none", "created", "running"}
    /\ origin = IF box = "none" THEN "none" ELSE "past"
    /\ faults = 0

Fault == faults < MaxFaults /\ faults' = faults + 1
NoFault == UNCHANGED faults
Works == ctx = "live" /\ NoFault
Fails == (ctx # "live" /\ NoFault) \/ (ctx = "live" /\ Fault)

(* The next executor of the pipeline, unless the context has ended.        *)
Then(stage) ==
    IF ctx = "live" THEN pc' = stage /\ UNCHANGED verdict ELSE pc' = "close" /\ verdict' = "failed"

Fail == pc' = "close" /\ verdict' = "failed"

(* An error before there is a pipeline: nothing is closed or removed.      *)
Return == pc' = "over" /\ verdict' = "failed"

-----------------------------------------------------------------------------
(* The image.                                                              *)

(* ImageExistsLocally, for any architecture and for the right one.         *)
Present == image \in {"old", "mine"}

Look ==
    /\ pc = "look"
    /\ \/ Works /\ pc' = (IF image = "other" THEN "drop" ELSE "args") /\ UNCHANGED verdict
       \/ Fails /\ Return
    /\ UNCHANGED <<ctx, cmd, own>>

(* RemoveImage: one of another architecture makes way.                     *)
Drop ==
    /\ pc = "drop"
    /\ \/ Works /\ image' = "none" /\ pc' = "args" /\ UNCHANGED verdict
       \/ Fails /\ Return /\ UNCHANGED image
    /\ UNCHANGED <<ctx, cmd, source, box, origin>>

(* Arguments and entrypoint are evaluated and split, which may fail; then  *)
(* the container is described, not yet created.                            *)
Arguments ==
    /\ pc = "args"
    /\ \/ /\ pc' = IF source = "file" /\ (~Present \/ ForceRebuild) THEN "build" ELSE "pull"
          /\ UNCHANGED verdict
       \/ Return
    /\ UNCHANGED <<ctx, cmd, own, faults>>

(* logDockerResponse: an error is heard of when a response carries it.     *)
Heard(answered, failed) == answered /\ failed

(* NewDockerBuildExecutor: the error of the call itself has no response,   *)
(* and is not returned.                                                    *)
Build ==
    /\ pc = "build"
    /\ \E answered, failed \in BOOLEAN :
          /\ IF answered THEN Works ELSE failed /\ Fails
          /\ image' = IF failed THEN image ELSE "mine"
          /\ IF Heard(answered, failed) THEN Fail ELSE Then("pull")
    /\ UNCHANGED <<ctx, cmd, source, box, origin>>

(* Pull: an image that was built is never forced, and no registry has it;  *)
(* a forced pull that fails is content with what is there.                 *)
Forced == source = "registry" /\ ForcePull
Pull ==
    /\ pc = "pull"
    /\ \/ Works /\ Present /\ ~Forced /\ Then("old") /\ UNCHANGED image
       \/ Works /\ (Forced \/ ~Present) /\ source = "registry" /\ image' = "mine" /\ Then("old")
       \/ Works /\ ~Present /\ source = "file" /\ Fail /\ UNCHANGED image
       \/ ctx = "live" /\ Fault /\ Forced /\ Present /\ Then("old") /\ UNCHANGED image
       \/ (ctx = "live" => ~(Forced /\ Present)) /\ Fails /\ Fail /\ UNCHANGED image
    /\ UNCHANGED <<ctx, cmd, source, box, origin>>

-----------------------------------------------------------------------------
(* The container.                                                          *)

(* Remove, of what an earlier run left under the name: a list that fails   *)
(* is an error, a removal that fails is only logged.                       *)
RemoveOld ==
    /\ pc = "old"
    /\ \/ Works /\ box' = "none" /\ origin' = "none" /\ Then("create")
       \/ Fails /\ Fail /\ UNCHANGED <<box, origin>>
       \/ ctx = "live" /\ box # "none" /\ Fault /\ Then("create") /\ UNCHANGED <<box, origin>>
    /\ UNCHANGED <<ctx, cmd, source, image>>

(* Create: what find comes up with is taken; options that do not parse or  *)
(* merge are an error; a call without an answer may have been carried out. *)
Create ==
    /\ pc = "create"
    /\ \/ Works /\ box # "none" /\ Then("attach") /\ UNCHANGED <<box, origin>>
       \/ box = "none" /\ NoFault /\ Fail /\ UNCHANGED <<box, origin>>
       \/ Works /\ box = "none" /\ box' = "created" /\ origin' = image /\ Then("attach")
       \/ /\ Fails /\ Fail
          /\ \/ UNCHANGED <<box, origin>>
             \/ box = "none" /\ box' = "created" /\ origin' = image
    /\ UNCHANGED <<ctx, cmd, source, image>>

(* find and attach, before the start, so that no output is missed.         *)
Attach ==
    /\ pc = "attach"
    /\ \/ Works /\ box # "none" /\ Then("start")
       \/ (Fails \/ (Works /\ box = "none")) /\ Fail
    /\ UNCHANGED <<ctx, cmd, own>>

(* ContainerStart; one that cannot run what it was told to is removed.     *)
StartBox ==
    /\ pc = "start"
    /\ \/ /\ Works /\ box \in {"created", "running"}
          /\ box' = "running" /\ cmd' = "running"
          /\ Then("wait")
          /\ UNCHANGED origin
       \/ /\ Works /\ box \in {"created", "none", "removing"}
          /\ box' = (IF box = "created" THEN "none" ELSE box)
          /\ origin' = (IF box = "created" THEN "none" ELSE origin)
          /\ Fail /\ UNCHANGED cmd
       \/ Fails /\ Fail /\ UNCHANGED <<box, origin, cmd>>
    /\ UNCHANGED <<ctx, source, image>>

(* ContainerWait, called once the container runs: one that has ended and   *)
(* gone by then cannot be waited for.                                      *)
CallWait ==
    /\ pc = "wait"
    /\ \/ Works /\ box # "none" /\ Then("waiting")
       \/ (Fails \/ (Works /\ box = "none")) /\ Fail
    /\ UNCHANGED <<ctx, cmd, own>>

(* The status code is that of the process; an error of the wait, or the    *)
(* end of the context, fails the step and leaves the container.            *)
WaitReturns ==
    /\ pc = "waiting"
    /\ \/ NoFault /\ cmd # "running" /\ IF cmd = "zero" /\ ctx = "live"
                                           THEN pc' = "close" /\ verdict' = "ok" ELSE Fail
       \/ Fails /\ Fail
    /\ UNCHANGED <<ctx, cmd, own>>

(* Close, the last executor of the pipeline, whatever came before.         *)
Close ==
    /\ pc = "close"
    /\ pc' = "over"
    /\ UNCHANGED <<ctx, verdict, cmd, own, faults>>

-----------------------------------------------------------------------------
(* The surroundings.                                                       *)

(* The job is cancelled, or it or the step times out.                      *)
Cancel ==
    /\ ctx = "live" /\ pc # "over"
    /\ ctx' = "ended"
    /\ UNCHANGED <<pc, verdict, cmd, own, faults>>

(* The process ends by itself or with the job's container, whose network   *)
(* it shares, and the daemon removes the container.                        *)
CommandEnds ==
    /\ box = "running"
    /\ box' = "removing"
    /\ IF cmd = "running" THEN cmd' \in {"zero", "nonzero", "killed"} ELSE UNCHANGED cmd
    /\ UNCHANGED <<pc, ctx, verdict, source, image, origin, faults>>

RemovalEnds ==
    /\ box = "removing"
    /\ box' = "none" /\ origin' = "none"
    /\ UNCHANGED <<pc, ctx, verdict, cmd, source, image, faults>>

(* The runner's own steps.                                                 *)
Progress ==
    \/ Look \/ Drop \/ Arguments \/ Build \/ Pull
    \/ RemoveOld \/ Create \/ Attach \/ StartBox \/ CallWait \/ WaitReturns \/ Close

Next == Progress \/ Cancel \/ CommandEnds \/ RemovalEnds

-----------------------------------------------------------------------------
(* Every variable keeps its type.                                          *)
TypeOK ==
    /\ pc \in {"look", "drop", "args", "build", "pull", "old", "create", "attach", "start",
               "wait", "waiting", "close", "over"}
    /\ ctx \in {"live", "ended"}
    /\ verdict \in {"none", "ok", "failed"}
    /\ cmd \in {"none", "running", "zero", "nonzero", "killed"}
    /\ source \in {"registry", "file"}
    /\ image \in Images
    /\ box \in {"none", "created", "running", "removing"}
    /\ origin \in Images \cup {"past"}
    /\ faults \in 0..MaxFaults

(* A step that was neither cancelled nor met a failing call leaves no      *)
(* container of its own that the daemon is not already removing: the       *)
(* runner counts on AutoRemove (execAsDocker, runUsesContainer).  The      *)
(* container of a cancelled step stays, created or running.                *)
NoStepContainerLeft ==
    pc = "over" /\ faults = 0 /\ ctx = "live" =>
        box \in {"none", "removing"} \/ origin = "past"

(* What a step runs is never of another architecture, and, no call having  *)
(* failed, it is a container this step created, of an image it built or    *)
(* pulled itself where that is forced.                                     *)
RunsOwnImage ==
    (pc \in {"wait", "waiting"} /\ box # "none") =>
        /\ origin # "other"
        /\ faults = 0 => origin \in {"old", "mine"}
        /\ faults = 0 /\ (IF source = "file" THEN ForceRebuild ELSE ForcePull) => origin = "mine"
=============================================================================
