------------------------------- MODULE JobRun -------------------------------
(***************************************************************************)
(* One job, at two levels: JobExecutor decides which stage of which step   *)
(* runs and what its end makes of the job, whatever the stages do;         *)
(* StepTree is what the stages do and set, whatever the job's context does.*)
(* Each leaves open what the other one says, so that a behaviour is one of *)
(* the one or one of the other.                                            *)
(***************************************************************************)
EXTENDS JobExecutor

CONSTANTS StepIds, Trees, MaxFaults     \* see StepTree

ASSUME TreesAssumption ==
    /\ "job" \notin StepIds /\ "nil" \notin StepIds /\ "none" \notin StepIds
    /\ \A t \in Trees :
        /\ t.child \in [StepIds \cup {"job"} -> Seq(StepIds)]
        /\ \A s, u \in DOMAIN t.child : \A i \in DOMAIN t.child[s], k \in DOMAIN t.child[u] :
              t.child[s][i] = t.child[u][k] => s = u /\ i = k     \* a step is in one place
        /\ t.kind \in [StepIds -> {"script", "action", "composite"}]
        /\ t.cond \in [StepIds -> {"success", "always"}]
        /\ \A s \in {t.local, t.lenient, t.limited, t.talks} : s \subseteq StepIds
    /\ MaxFaults \in Nat

VARIABLES
    level,      \* which of the two the behaviour is about
    tree, stage, stack, next, ret, expired, action, made, conclusion, rc, global,
    handler, saved, file, state, out, broken, hist, faulty

Inside == INSTANCE StepTree WITH Steps <- StepIds

inside == <<tree, stage, stack, next, ret, expired, action, made, conclusion, rc, global,
            handler, saved, file, state, out, broken, hist, faulty>>
everything == <<level, vars, inside>>

\* The variables of the other level are not used.
None == "unused"
NoJob ==
    /\ job = None /\ pc = None /\ step = None /\ inBody = None /\ ctxErr = None
    /\ cur = None /\ jobError = None /\ jobFailed = None /\ jobCancelled = None
    /\ concl = None /\ container = None /\ result = None /\ returned = None
    /\ started = None /\ failures = None /\ posts = None
NoSteps ==
    /\ tree = None /\ stage = None /\ stack = None /\ next = None /\ ret = None
    /\ expired = None /\ action = None /\ made = None /\ conclusion = None
    /\ rc = None /\ global = None /\ handler = None /\ saved = None /\ file = None
    /\ state = None /\ out = None /\ broken = None /\ hist = None /\ faulty = None

JobInit ==
    \/ level = "job" /\ Init /\ NoSteps
    \/ level = "steps" /\ Inside!Init /\ NoJob

OfJob(A) == level = "job" /\ A /\ UNCHANGED <<level, inside>>
OfSteps(A) == level = "steps" /\ A /\ UNCHANGED <<level, vars>>

JobNext == OfJob(Next) \/ OfSteps(Inside!Next)

(* The executor keeps running, the start of the container ends, and a      *)
(* stage ends when its context has ended; before that it may hang.         *)
JobSpec ==
    /\ JobInit /\ [][JobNext]_everything
    /\ WF_everything(OfJob(StartContainer \/ ControlStep))
    /\ WF_everything(OfJob(CurErr # "nil" /\ StageStep))
    /\ WF_everything(OfJob(GraceOver))

-----------------------------------------------------------------------------
(* Every variable keeps its type.                                          *)
JobTypeOK ==
    /\ level \in {"job", "steps"}
    /\ level = "job" => TypeOK
    /\ level = "steps" => Inside!TypeOK

(* The stages that run, and their order: see StagesRespected of JobExecutor*)
(* and PostsMirrorMains of StepTree (newMainStepsExecutor,                 *)
(* compositeExecutor, shouldRunPostStep).                                  *)
StagesSound ==
    /\ level = "job" => StagesRespected
    /\ level = "steps" => Inside!PostsMirrorMains

(* No failure is lost: see FailuresReported of JobExecutor and             *)
(* FailuresSurface of StepTree (reportStepError, SetJobError).             *)
FailuresHeard ==
    /\ level = "job" => FailuresReported
    /\ level = "steps" => Inside!FailuresSurface

(* What is left of the job's container: see ContainerReleased.             *)
ContainerGone == level = "job" => ContainerReleased

(* What a step writes reaches those it is for: see StepTree.               *)
CommandsArrive == level = "steps" => Inside!CommandsArrive

(* A cancelled or timed-out job ends, although any stage may hang: each    *)
(* runs under a context that ends (applyJobTimeout, tryUploadJobSummary).   *)
InterruptedJobEnds == (level = "job" /\ ctxErr.job # "nil") ~> pc = "end"
=============================================================================
