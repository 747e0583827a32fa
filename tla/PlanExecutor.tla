---------------------------- MODULE PlanExecutor ----------------------------
(***************************************************************************)
(* NewPlanExecutor of act/runner/runner.go with the workers of             *)
(* act/common/executor.go, the job results of setJobResult, and the plans  *)
(* of reusable workflows (act/runner/reusable_workflow.go).                *)
(*                                                                         *)
(* A plan runs its stages one after the other; the combinations of a job's *)
(* matrix run in parallel and share one result.  A combination of a job    *)
(* with `uses` runs a plan of its own, whose jobs are its own too.  What a *)
(* job does inside is JobExecutor: here it ends with or without a result   *)
(* and with or without an error.  The value of an `if` is any value.       *)
(* Job names differ, and no action cache is configured: the program never  *)
(* sets one, and its executor would not write the caller's result.         *)
(***************************************************************************)
EXTENDS Naturals, FiniteSets

CONSTANTS
    Plans, Root,    \* the plan the runner is given, and those of called workflows
    Jobs,           \* the jobs of all plans, numbered in the order of their stage
    PlanOf, StageOf, NStages,
    Combos,         \* of each job, the number of its combinations
    MaxParallel,    \* of each job, its strategy's max-parallel
    StageParallel,  \* the jobs of a stage that run at once
    Callee          \* of the combinations of calling jobs, the plan they run

Combinations == UNION {{<<j, i>> : i \in 1..Combos[j]} : j \in Jobs}

ASSUME ConstantsAssumption ==
    /\ Jobs \subseteq Nat /\ IsFiniteSet(Jobs)
    /\ Root \in Plans
    /\ PlanOf \in [Jobs -> Plans]
    /\ NStages \in [Plans -> Nat \ {0}]
    /\ StageOf \in [Jobs -> Nat \ {0}]
    /\ \A j \in Jobs : StageOf[j] <= NStages[PlanOf[j]]
    /\ Combos \in [Jobs -> Nat] /\ MaxParallel \in [Jobs -> Nat]
    /\ StageParallel \in Nat \ {0}
    /\ \E D \in SUBSET Combinations : Callee \in [D -> Plans \ {Root}]
    /\ \A c, d \in DOMAIN Callee : Callee[c] = Callee[d] => c = d
    /\ \A c \in DOMAIN Callee : \A d \in Combinations : c[1] = d[1] => d \in DOMAIN Callee

VARIABLES
    plan,     \* of each plan: where it is, its stage, whether it ended with an error
    combo,    \* of each combination: where it is and its local variables
    result,   \* Job.Result
    latch,    \* what SetContinueOnError left: "unset", "tolerated" or "firm"
    holder,   \* who holds the job's mutex: a combination's number or 0
    told,     \* reusedWorkflowJobResults, by job name
    ended     \* the context has ended

vars == <<plan, combo, result, latch, holder, told, ended>>

Fresh == [at |-> "none", ok |-> FALSE, tolerated |-> FALSE, value |-> "", err |-> FALSE]

Init ==
    /\ plan = [p \in Plans |-> [at |-> IF p = Root THEN "next" ELSE "none", stage |-> 0,
                                err |-> FALSE]]
    /\ combo = [c \in Combinations |-> Fresh]
    /\ result = [j \in Jobs |-> ""] /\ latch = [j \in Jobs |-> "unset"]
    /\ holder = [j \in Jobs |-> 0]
    /\ told = [j \in Jobs |-> "absent"]
    /\ ended = FALSE

JobsOf(p, s) == {j \in Jobs : PlanOf[j] = p /\ StageOf[j] = s}
CombosOf(J) == {c \in Combinations : c[1] \in J}
Calling(c) == c \in DOMAIN Callee
Called(j) == PlanOf[j] # Root

-----------------------------------------------------------------------------
(* Stages and workers.                                                     *)

\* Seeded defect: a stage too many.
OneMoreStage(p) == plan[p].stage <= NStages[p]

MoreStages(p) == plan[p].stage < NStages[p]

\* A stage begins: the combinations of its jobs are handed to the workers, and
\* the jobs of a called workflow are noted as pending.
BeginStage(p) ==
    /\ plan[p].at = "next" /\ MoreStages(p)
    /\ LET J == JobsOf(p, plan[p].stage + 1) IN
       /\ combo' = [c \in Combinations |->
                       IF c[1] \in J THEN [combo[c] EXCEPT !.at = "queued"] ELSE combo[c]]
       /\ told' = [j \in Jobs |-> IF j \in J /\ Called(j) /\ Combos[j] > 0 THEN "pending"
                                                                      ELSE told[j]]
    /\ plan' = [plan EXCEPT ![p].at = "stage", ![p].stage = @ + 1]
    /\ UNCHANGED <<result, latch, holder, ended>>

Waiting(c) == combo[c].at \in {"none", "queued"}
Active(c) == ~Waiting(c) /\ combo[c].at # "over"

\* A worker of the stage has taken the job and has not finished with it.
Taken(j) == \E c \in CombosOf({j}) : ~Waiting(c)
Open(j) == Taken(j) /\ \E c \in CombosOf({j}) : combo[c].at # "over"

Workers(j) == IF MaxParallel[j] < 1 THEN 1 ELSE MaxParallel[j]

\* A worker takes the next combination of a job, whose job a worker of the
\* stage has taken before, or takes now.
Take(c) ==
    /\ combo[c].at = "queued"
    /\ \A d \in CombosOf({c[1]}) : d[2] < c[2] => ~Waiting(d)
    /\ Cardinality({d \in CombosOf({c[1]}) : Active(d)}) < Workers(c[1])
    /\ LET Stage == JobsOf(PlanOf[c[1]], StageOf[c[1]]) IN
       Taken(c[1]) \/ /\ Cardinality({j \in Stage : Open(j)}) < StageParallel
                      /\ \A j \in Stage : j < c[1] /\ Combos[j] > 0 => Taken(j)
    /\ combo' = [combo EXCEPT ![c].at = "decide"]
    /\ UNCHANGED <<plan, result, latch, holder, told, ended>>

\* The combination's executor has returned, or has panicked, which is an error.
Over(c, err) ==
    combo' = [combo EXCEPT ![c].at = "over", ![c].err = err]

\* Seeded defect: the stage is over with the first executor.
FirstOver(C) == C = {} \/ \E c \in C : combo[c].at = "over"

AllOver(C) == \A c \in C : combo[c].at = "over"

\* A stage ends when every executor has ended: the plan goes on without an
\* error and under a live context.
EndStage(p) ==
    LET C == CombosOf(JobsOf(p, plan[p].stage)) IN
    /\ plan[p].at = "stage" /\ AllOver(C)
    /\ plan' = IF ended \/ \E c \in C : combo[c].err
               THEN [plan EXCEPT ![p].at = "done", ![p].err = TRUE]
               ELSE [plan EXCEPT ![p].at = "next"]
    /\ UNCHANGED <<combo, result, latch, holder, told, ended>>

\* Seeded defect: any tolerated failure excuses the job.
ExcusesJob(j) == \E c \in CombosOf({j}) : combo[c].tolerated

ContinueOnError(j) == latch[j] = "tolerated"

\* handleFailure, after the last stage.
Conclude(p) ==
    /\ plan[p].at = "next" /\ ~MoreStages(p)
    /\ plan' = [plan EXCEPT ![p].at = "done",
        ![p].err = \E j \in Jobs : PlanOf[j] = p /\ result[j] = "failure" /\ ~ContinueOnError(j)]
    /\ UNCHANGED <<combo, result, latch, holder, told, ended>>

-----------------------------------------------------------------------------
(* A combination: its `if`, its job and the result.                        *)

Goes(c, to) ==
    /\ combo' = [combo EXCEPT ![c].at = to]
    /\ UNCHANGED <<plan, result, latch, holder, told, ended>>

\* The `if` is true: the job is run, or the plan of the workflow it calls.
Enabled(c) == combo[c].at = "decide" /\ Goes(c, IF Calling(c) THEN "call" ELSE "body")

\* The `if` is false.
Skipped(c) ==
    /\ combo[c].at = "decide"
    /\ Over(c, FALSE)
    /\ told' = IF Called(c[1]) THEN [told EXCEPT ![c[1]] = "skipped"] ELSE told
    /\ UNCHANGED <<plan, result, latch, holder, ended>>

\* No platform for runs-on: a job with steps is skipped without a word.
Unsupported(c) ==
    /\ combo[c].at = "decide" /\ ~Calling(c)
    /\ Over(c, FALSE)
    /\ UNCHANGED <<plan, result, latch, holder, told, ended>>

\* The `if` cannot be evaluated: the job's result is written without its mutex.
Undecidable(c) ==
    /\ combo[c].at = "decide"
    /\ result' = [result EXCEPT ![c[1]] = "failure"]
    /\ combo' = [combo EXCEPT ![c].at = "tellBroken"]
    /\ UNCHANGED <<plan, latch, holder, told, ended>>

\* The caller of a called job hears of it, and the error is returned.
TellBroken(c) ==
    /\ combo[c].at = "tellBroken"
    /\ Over(c, TRUE)
    /\ told' = IF Called(c[1]) THEN [told EXCEPT ![c[1]] = "failure"] ELSE told
    /\ UNCHANGED <<plan, result, latch, holder, ended>>

\* Seeded defect: a panic ends the worker, which then reports nothing.
Unrecovered(c) == combo[c].at \in {"decide", "body"} /\ Goes(c, "none")

\* The combination ends before setJobResult: the job's type is invalid, an early
\* error or a panic.
BodyFails(c) ==
    /\ combo[c].at \in {"decide", "body"}
    /\ Over(c, TRUE)
    /\ UNCHANGED <<plan, result, latch, holder, told, ended>>

\* The job has reached setJobResult: ok is its success, and a failure may be
\* tolerated by continue-on-error.
BodyEnds(c, ok, tolerated) ==
    /\ combo[c].at = "body" /\ (ok => ~tolerated)
    /\ combo' = [combo EXCEPT ![c].at = "lock", ![c].ok = ok, ![c].tolerated = tolerated]
    /\ UNCHANGED <<plan, result, latch, holder, told, ended>>

\* Seeded defect: combinations do not exclude each other.
NobodyExcluded(j) == TRUE

LockFree(j) == holder[j] = 0

\* lockJob, and the result as it is found.
LockJob(c) ==
    LET j == c[1] IN
    /\ combo[c].at = "lock" /\ LockFree(j)
    /\ holder' = [holder EXCEPT ![j] = c[2]]
    /\ combo' = [combo EXCEPT ![c].at = "store",
                    ![c].value = IF ~combo[c].ok THEN "failure"
                                 ELSE IF Combos[j] > 1 /\ result[j] # "" THEN result[j]
                                 ELSE "success"]
    /\ UNCHANGED <<plan, result, latch, told, ended>>

\* SetContinueOnError: one firm failure makes the job firm.
Latched(j, tolerated) == IF tolerated /\ latch[j] # "firm" THEN "tolerated" ELSE "firm"

\* The result is written, the mutex given back.
Store(c) ==
    LET j == c[1] IN
    /\ combo[c].at = "store"
    /\ result' = [result EXCEPT ![j] = combo[c].value]
    /\ latch' = IF combo[c].ok THEN latch
                ELSE [latch EXCEPT ![j] = Latched(j, combo[c].tolerated)]
    /\ holder' = [holder EXCEPT ![j] = 0]
    /\ combo' = [combo EXCEPT ![c].at = "tell"]
    /\ UNCHANGED <<plan, told, ended>>

\* The caller hears of the value, after the mutex; the job executor returns,
\* with an error if it was interrupted.
Tell(c, err) ==
    /\ combo[c].at = "tell"
    /\ Over(c, err)
    /\ told' = IF Called(c[1]) THEN [told EXCEPT ![c[1]] = combo[c].value] ELSE told
    /\ UNCHANGED <<plan, result, latch, holder, ended>>

-----------------------------------------------------------------------------
(* The plan of a called workflow.                                          *)

\* The workflow cannot be fetched or read.
CallFails(c) ==
    /\ combo[c].at = "call" /\ plan[Callee[c]].at = "none"
    /\ Over(c, TRUE)
    /\ UNCHANGED <<plan, result, latch, holder, told, ended>>

Call(c) ==
    /\ combo[c].at = "call" /\ plan[Callee[c]].at = "none"
    /\ plan' = [plan EXCEPT ![Callee[c]].at = "next"]
    /\ UNCHANGED <<combo, result, latch, holder, told, ended>>

AllJobDone(p) == \A j \in Jobs : PlanOf[j] = p => told[j] # "pending"

\* What the caller heard of the jobs of plan p.
Heard(p) == {told[j] : j \in {i \in Jobs : PlanOf[i] = p}}

\* setReusedWorkflowCallerResult: nothing is written while a job is pending.
CallerResult(c) ==
    LET p == Callee[c]
        value == IF "failure" \in Heard(p) THEN "failure" ELSE "success" IN
    IF ~AllJobDone(p) THEN UNCHANGED <<result, told>>
    ELSE IF Called(c[1]) THEN told' = [told EXCEPT ![c[1]] = value] /\ UNCHANGED result
    ELSE /\ LockFree(c[1])
         /\ result' = [result EXCEPT ![c[1]] = value] /\ UNCHANGED told

\* The called plan has ended: an error or the end of the context is passed on.
Return(c) ==
    LET p == Callee[c] IN
    /\ combo[c].at = "call" /\ plan[p].at = "done"
    /\ Over(c, plan[p].err \/ ended)
    /\ IF plan[p].err \/ ended THEN UNCHANGED <<result, told>> ELSE CallerResult(c)
    /\ UNCHANGED <<plan, latch, holder, ended>>

\* The task is cancelled or times out.
CtxEnds == ~ended /\ ended' = TRUE /\ UNCHANGED <<plan, combo, result, latch, holder, told>>

PlanStep(p) == BeginStage(p) \/ EndStage(p) \/ Conclude(p)

ComboStep(c) ==
    \/ Take(c)
    \/ Enabled(c) \/ Skipped(c) \/ Unsupported(c) \/ Undecidable(c) \/ TellBroken(c)
    \/ BodyFails(c) \/ \E ok, tolerated \in BOOLEAN : BodyEnds(c, ok, tolerated)
    \/ LockJob(c) \/ Store(c) \/ \E err \in BOOLEAN : Tell(c, err)
    \/ CallFails(c) \/ Call(c) \/ Return(c)

Next ==
    \/ \E p \in Plans : PlanStep(p)
    \/ \E c \in Combinations : ComboStep(c)
    \/ CtxEnds

Spec == Init /\ [][Next]_vars

\* Every job ends, as JobExecutor shows under an interrupt; workers go on.
FairSpec ==
    /\ Spec
    /\ \A p \in Plans : WF_vars(PlanStep(p))
    /\ \A c \in Combinations : WF_vars(ComboStep(c))

-----------------------------------------------------------------------------
(* Properties.                                                             *)

Places == {"none", "queued", "decide", "body", "lock", "store", "tell", "tellBroken", "call", "over"}
Values == {"", "success", "failure"}

TypeOK ==
    /\ plan \in [Plans -> [at : {"none", "next", "stage", "done"}, stage : Nat, err : BOOLEAN]]
    /\ \A p \in Plans : plan[p].stage <= NStages[p]
    /\ combo \in [Combinations -> [at : Places, ok : BOOLEAN, tolerated : BOOLEAN,
                                   value : Values, err : BOOLEAN]]
    /\ result \in [Jobs -> Values]
    /\ latch \in [Jobs -> {"unset", "tolerated", "firm"}]
    /\ holder \in [Jobs -> Nat]
    /\ \A j \in Jobs : holder[j] <= Combos[j]
    /\ told \in [Jobs -> {"absent", "pending", "skipped", "success", "failure"}]
    /\ ended \in BOOLEAN

\* The combination's job failed and setJobResult has recorded it.
Failed(c) == combo[c].at \in {"tell", "over"} /\ combo[c].value # "" /\ ~combo[c].ok

\* "a failing combination is not lost-updated by a concurrent succeeding one"
\* (setJobResult): once a combination has recorded its failure, the result of
\* the job stays a failure, whatever the others do.
FailureKept == \A c \in Combinations : Failed(c) => result[c[1]] = "failure"

\* A stage begins only when every executor of the earlier ones has ended
\* without an error (NewPipelineExecutor, NewParallelExecutor).
StagesInOrder == \A c \in Combinations :
    LET p == PlanOf[c[1]] s == StageOf[c[1]] IN
    /\ s > plan[p].stage => combo[c].at = "none"
    /\ s < plan[p].stage => combo[c].at = "over" /\ ~combo[c].err

\* "Executor waits all executors to cleanup these resources": when the plan of
\* the task is done nothing runs any more, in it or in a plan it called.
DoneMeansQuiet ==
    plan[Root].at = "done" =>
        /\ \A p \in Plans : plan[p].at \in {"none", "done"}
        /\ \A c \in Combinations : combo[c].at \in {"none", "over"}

\* A plan ends without an error only if no executor returned one and every
\* recorded failure was tolerated; it ends with one only for a reason: the end
\* of the context, an executor's error, a failure that was not tolerated, or
\* the failure of a called workflow (handleFailure, SetContinueOnError).
VerdictSound == \A p \in Plans : plan[p].at = "done" =>
    LET C == {c \in Combinations : PlanOf[c[1]] = p} IN
    /\ ~plan[p].err => \A c \in C : ~combo[c].err /\ (Failed(c) => combo[c].tolerated)
    /\ plan[p].err => \/ ended
                      \/ \E c \in C : combo[c].err \/ (Failed(c) /\ ~combo[c].tolerated)
                      \/ \E c \in C : Calling(c) /\ result[c[1]] = "failure"

\* What is known of a job that calls a workflow once its call is over: its
\* result, or what its own caller heard of it.
Outcome(j) == IF Called(j) THEN told[j] ELSE result[j]

\* A combination has failed, or it calls a workflow and its job has.
FailedWithin(c) == Failed(c) \/ (Calling(c) /\ told[c[1]] = "failure")

\* The outcome of a job that calls a workflow, one whose plan ended without an
\* error: a failure only if a called job recorded one or called a workflow that
\* failed, and a success only if each called job was heard of
\* (setReusedWorkflowCallerResult).
CallerResultSound == \A c \in DOMAIN Callee :
    LET p == Callee[c] IN
    Combos[c[1]] = 1 /\ combo[c].at = "over" /\ plan[p].at = "done" =>
        /\ Outcome(c[1]) = "failure" =>
              \E d \in Combinations : PlanOf[d[1]] = p /\ FailedWithin(d)
        /\ Outcome(c[1]) = "success" => ~plan[p].err /\ "pending" \notin Heard(p)

\* What the end of a plan says of its jobs is so.
EndSound == DoneMeansQuiet /\ VerdictSound /\ CallerResultSound

\* The plan of the task ends, even if jobs panic.
PlanEnds == <>(plan[Root].at = "done")

=============================================================================
