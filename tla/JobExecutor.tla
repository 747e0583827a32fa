---------------------------- MODULE JobExecutor ----------------------------
(***************************************************************************)
(* act/runner/job_executor.go with step.go and the status bookkeeping of   *)
(* run_context.go: one job, from the start of its container over the       *)
(* pre, main and post stage of its steps to its result and its teardown,   *)
(* while the job's context may be cancelled or time out at any moment.     *)
(*                                                                         *)
(* The code runs in one goroutine; what interleaves with it is the end of  *)
(* its context.  An error that wraps context.Canceled is returned only by  *)
(* a stage whose context was cancelled.                                    *)
(***************************************************************************)
EXTENDS Integers, Sequences

CONSTANTS
    N,           \* number of steps
    Jobs,        \* the jobs to run: each step's `if`, and the steps with pre and post
    Interrupts,  \* how the job's context may end: "canceled", "expired"
    AutoRemove   \* rc.Config.AutoRemove

Steps == 1..N
Conditions == {"success", "failure", "cancelled", "always"}

ASSUME ConstantsAssumption ==
    /\ N \in Nat \ {0}
    /\ Jobs \subseteq [cond : [Steps -> Conditions], pre : SUBSET Steps, post : SUBSET Steps]
    /\ Interrupts \subseteq {"canceled", "expired"}
    /\ AutoRemove \in BOOLEAN

VARIABLES
    job,
    pc,            \* the stage the job is in
    step,          \* the step whose stage is next or under way
    inBody,        \* a stage of that step is under way
    ctxErr,        \* Err() of the job's context, of the detached main context and
                   \* of the post context
    cur,           \* the context in use
    jobError,      \* the error container of the job's and of the post context
    jobFailed, jobCancelled,
    concl,         \* StepResults[step].Conclusion
    container,     \* "none", "up", "gone", or "stuck" when its removal failed
    result,        \* job.Result
    returned,      \* the error the executor returns
    started,       \* history: steps whose main stage began, with Err() at that time
    failures,      \* history: stages that reported an error other than a cancellation
    posts          \* history: the post stages that ran, in order

ctlVars    == <<pc, step, inBody>>
statusVars == <<jobError, jobFailed, jobCancelled>>
histVars   == <<started, failures, posts>>
vars == <<job, ctlVars, ctxErr, cur, statusVars, concl, container, result, returned, histVars>>

Init ==
    /\ job \in Jobs
    /\ pc = "start" /\ step = 1 /\ inBody = FALSE
    /\ ctxErr = [job |-> "nil", fresh |-> "nil", post |-> "nil"] /\ cur = "job"
    /\ jobError = [job |-> FALSE, post |-> FALSE]
    /\ jobFailed = FALSE /\ jobCancelled = FALSE
    /\ concl = [s \in Steps |-> "none"]
    /\ container = "none" /\ result = "none" /\ returned = FALSE
    /\ started = [s \in Steps |-> "no"] /\ failures = {} /\ posts = <<>>

-----------------------------------------------------------------------------
(* Contexts and errors.                                                    *)

\* The job's context is cancelled (server, shutdown) or its timeout passes.
Interrupt(e) ==
    /\ pc # "end" /\ ctxErr.job = "nil" /\ e \in Interrupts
    /\ ctxErr' = [ctxErr EXCEPT !.job = e]
    /\ UNCHANGED <<job, ctlVars, cur, statusVars, concl, container, result, returned, histVars>>

\* Seeded defect: the detached main context has no deadline.
BoundedPost == {"post"}

Bounded == {"fresh", "post"}

\* The five minutes of the detached main context, or of the post context, pass.
GraceOver ==
    /\ cur \in Bounded /\ pc \in {"main", "post", "completed"}
    /\ ctxErr[cur] = "nil"
    /\ ctxErr' = [ctxErr EXCEPT ![cur] = "expired"]
    /\ UNCHANGED <<job, ctlVars, cur, statusVars, concl, container, result, returned, histVars>>

CurErr == ctxErr[cur]

\* The error container a context carries: a cancelled job's post context has
\* one of its own, every other context shares the job's.
Box == IF cur = "post" /\ ctxErr.job = "canceled" THEN "post" ELSE "job"

\* markInterrupted
Mark(e) ==
    /\ jobCancelled' = (jobCancelled \/ e = "canceled")
    /\ jobFailed' = (jobFailed \/ e = "expired")

\* reportStepError: a cancellation only marks the job, any other error fails it.
ReportStepError(stage, e) ==
    IF e = "canceled"
    THEN Mark(CurErr) /\ UNCHANGED <<jobError, failures>>
    ELSE /\ jobError' = [jobError EXCEPT ![Box] = TRUE]
         /\ jobFailed' = TRUE
         /\ failures' = failures \cup {stage}
         /\ UNCHANGED jobCancelled

\* The wrapper of every stage reports its error or, failing that, Err().
Report(stage, e) ==
    IF e = "nil" /\ CurErr = "nil" THEN UNCHANGED <<statusVars, failures>>
    ELSE ReportStepError(stage, IF e = "nil" THEN CurErr ELSE e)

\* The errors code can return under the context in use.
Errors == {"nil", "failed", CurErr}

\* getJobContext
JobStatus ==
    IF jobCancelled THEN "cancelled"
    ELSE IF jobFailed \/ \E s \in Steps : concl[s] = "failure" THEN "failure"
    ELSE "success"

\* isStepEnabled
Enabled(s) == job.cond[s] \in {"always", JobStatus}

-----------------------------------------------------------------------------
(* Start and pre stages.                                                   *)

Goto(p, s) == pc' = p /\ step' = s /\ inBody' = FALSE

\* startContainer; a start that fails cleans up after itself.
StartContainer ==
    /\ pc = "start" /\ Goto("started", 1)
    /\ container' = "up"
    /\ UNCHANGED <<job, ctxErr, cur, statusVars, concl, result, returned, histVars>>

StartFails ==
    /\ pc = "start" /\ Goto("end", 1)
    /\ container' = "gone" /\ returned' = TRUE
    /\ UNCHANGED <<job, ctxErr, cur, statusVars, concl, result, histVars>>

\* The pipeline goes on to the steps unless the context has ended.
AfterStart ==
    /\ pc = "started"
    /\ IF CurErr = "nil" THEN Goto("hook", 1) /\ UNCHANGED returned
                         ELSE Goto("end", 1) /\ returned' = TRUE
    /\ UNCHANGED <<job, ctxErr, cur, statusVars, concl, container, result, histVars>>

\* Seeded defect: the pre stages do not end with the last step.
AfterPreEndless(p, s) == <<"pre", IF p = "pre" THEN s + 1 ELSE 1>>

AfterPre(p, s) == CASE p = "hook" -> <<"prepare", 1>>
                    [] p = "prepare" -> <<"pre", 1>>
                    [] p = "pre" /\ s < N -> <<"pre", s + 1>>
                    [] OTHER -> <<"main", 1>>

\* The started hook, the download of the actions, or the pre stage of a step
\* is over with error e; the pipeline stops at an error and at the end of its
\* context.  A pre stage that does not exist has no error of its own.
PreStage(e) ==
    /\ pc \in {"hook", "prepare", "pre"}
    /\ e \in IF pc = "pre" /\ step \notin job.pre THEN {"nil"} ELSE Errors
    /\ IF pc = "pre" \/ e # "nil"
       THEN Report(<<pc, step>>, e) ELSE UNCHANGED <<statusVars, failures>>
    /\ LET next == IF e = "nil" /\ CurErr = "nil" THEN AfterPre(pc, step) ELSE <<"main", 1>>
       IN  Goto(next[1], next[2])
    /\ returned' = (e # "nil" \/ CurErr # "nil")
    /\ UNCHANGED <<job, ctxErr, cur, concl, container, result, started, posts>>

-----------------------------------------------------------------------------
(* Main stages.                                                            *)

DetachMarked == Mark(CurErr)

\* runMainStepsAfterInterrupt: the remaining steps run under a fresh context.
Detach ==
    /\ pc = "main" /\ ~inBody /\ step \in Steps
    /\ cur = "job" /\ CurErr # "nil"
    /\ DetachMarked
    /\ cur' = "fresh"
    /\ returned' = TRUE
    /\ UNCHANGED <<job, ctlVars, ctxErr, jobError, concl, container, result, histVars>>

\* The loop has seen no interrupt and calls the step's wrapper.
MainBegin ==
    /\ pc = "main" /\ ~inBody /\ step \in Steps
    /\ cur = "fresh" \/ CurErr = "nil"
    /\ inBody' = TRUE
    /\ started' = [started EXCEPT ![step] = ctxErr.job]
    /\ UNCHANGED <<job, pc, step, ctxErr, cur, statusVars, concl, container, result,
                   returned, failures, posts>>

\* The step is over: its conclusion is c, and the wrapper reports e.
MainIs(c, e) ==
    /\ concl' = [concl EXCEPT ![step] = c]
    /\ Report(<<"main", step>>, e)
    /\ Goto("main", step + 1)
    /\ UNCHANGED <<job, ctxErr, cur, container, result, returned, posts>>

MainSkipped == ~Enabled(step) /\ MainIs("skipped", "nil") /\ UNCHANGED started

\* Its action cannot be prepared, so that runStepExecutor is never reached.
MainUnprepared(e) == MainIs("none", e) /\ UNCHANGED started

\* Its `if` cannot be evaluated.
MainInvalid == MainIs("failure", "failed") /\ started' = [started EXCEPT ![step] = "no"]

\* It succeeds, or fails with continue-on-error.
MainSucceeds == Enabled(step) /\ MainIs("success", "nil") /\ UNCHANGED started

MainFails(e) == Enabled(step) /\ MainIs("failure", e) /\ UNCHANGED started

\* It succeeds but a file command it wrote cannot be processed.
MainFileCommand(e) == Enabled(step) /\ MainIs("success", e) /\ UNCHANGED started

MainStage ==
    /\ pc = "main" /\ inBody
    /\ \/ MainSkipped \/ MainInvalid \/ MainSucceeds
       \/ \E e \in Errors \ {"nil"} : MainUnprepared(e) \/ MainFails(e) \/ MainFileCommand(e)

\* The loop is over; an interrupt that landed in the last step is marked.
MainOver ==
    /\ pc = "main" /\ ~inBody /\ step = N + 1
    /\ Mark(ctxErr.job)
    /\ Goto("finally", 1)
    /\ UNCHANGED <<job, ctxErr, cur, jobError, concl, container, result, returned, histVars>>

\* postStepsContext
PostContext ==
    /\ pc = "finally" /\ Goto("post", N)
    /\ cur' = IF ctxErr.job = "nil" THEN "job" ELSE "post"
    /\ UNCHANGED <<job, ctxErr, statusVars, concl, container, result, returned, histVars>>

-----------------------------------------------------------------------------
(* Post stages, result and teardown.                                       *)

\* shouldRunPostStep and hasPostStep
HasPost(s) == s \in job.post /\ concl[s] \notin {"none", "skipped"}

PostReverse == step

\* The post stage of a step, if it has one; all of them run, errors or not.
PostStage(e) ==
    LET s == PostReverse IN
    /\ pc = "post" /\ step \in Steps
    /\ e \in IF HasPost(s) THEN Errors ELSE {"nil"}
    /\ posts' = IF HasPost(s) THEN Append(posts, s) ELSE posts
    /\ Report(<<"post", s>>, e)
    /\ returned' = (returned \/ e # "nil")
    /\ IF step = 1 THEN Goto("completed", 1) ELSE Goto("post", step - 1)
    /\ UNCHANGED <<job, ctxErr, cur, concl, container, result, started>>

\* runJobCompletedHook
CompletedHook(e) ==
    /\ pc = "completed" /\ Goto("teardown", 1)
    /\ e \in Errors
    /\ IF e = "nil" THEN UNCHANGED <<statusVars, failures>>
                    ELSE ReportStepError(<<"completed", 1>>, e)
    /\ returned' = (returned \/ e # "nil")
    /\ UNCHANGED <<job, ctxErr, cur, concl, container, result, started, posts>>

\* Seeded defect: a job that was cancelled is kept like a failed one.
RemovesUnlessFailed == AutoRemove \/ ~jobError[Box]

Removes == AutoRemove \/ ~jobError[Box] \/ jobCancelled

\* setJobResult
JobResult == IF jobError[Box] THEN "failure" ELSE "success"

\* The teardown function; the removal may fail.
Teardown ==
    /\ pc = "teardown" /\ Goto("outputs", 1)
    /\ \/ ~Removes /\ UNCHANGED <<container, returned>>
       \/ Removes /\ container' = "gone" /\ UNCHANGED returned
       \/ Removes /\ container' = "stuck" /\ returned' = TRUE
    /\ result' = JobResult
    /\ UNCHANGED <<job, ctxErr, cur, statusVars, concl, histVars>>

\* interpolateOutputs and closeContainer
Close ==
    /\ pc = "outputs" /\ Goto("end", 1)
    /\ UNCHANGED <<job, ctxErr, cur, statusVars, concl, container, result, returned, histVars>>


-----------------------------------------------------------------------------
\* What the executor does by itself, and the code it calls, which may hang.
ControlStep ==
    \/ StartFails \/ AfterStart \/ Detach \/ MainBegin \/ MainOver \/ PostContext
    \/ Teardown \/ Close

StageStep ==
    \/ \E e \in Errors : PreStage(e) \/ PostStage(e) \/ CompletedHook(e)
    \/ MainStage

Done == pc = "end" /\ UNCHANGED vars

Next ==
    \/ \E e \in {"canceled", "expired"} : Interrupt(e)
    \/ GraceOver \/ StartContainer \/ ControlStep \/ StageStep \/ Done

Spec == Init /\ [][Next]_vars

-----------------------------------------------------------------------------
\* Every variable keeps its type.
TypeOK ==
    /\ job \in Jobs
    /\ pc \in {"start", "started", "hook", "prepare", "pre", "main", "finally", "post",
               "completed", "teardown", "outputs", "end"}
    /\ step \in 1..(N + 1) /\ inBody \in BOOLEAN
    /\ ctxErr \in [job : {"nil", "canceled", "expired"}, fresh : {"nil", "expired"},
                   post : {"nil", "expired"}]
    /\ cur \in {"job", "fresh", "post"}
    /\ jobError \in [job : BOOLEAN, post : BOOLEAN]
    /\ jobFailed \in BOOLEAN /\ jobCancelled \in BOOLEAN
    /\ concl \in [Steps -> {"none", "success", "failure", "skipped"}]
    /\ container \in {"none", "up", "gone", "stuck"}
    /\ result \in {"none", "success", "failure"}
    /\ returned \in BOOLEAN
    /\ started \in [Steps -> {"no", "nil", "canceled", "expired"}]
    /\ failures \subseteq {"hook", "prepare", "pre", "main", "post", "completed"} \X Steps
    /\ posts \in Seq(Steps)

\* The steps whose main stage really ran.
Ran == {s \in Steps : started[s] # "no" /\ concl[s] \in {"success", "failure"}}

\* Once the loop has met the end of the job's context only always() and
\* cancelled() steps run after a cancellation, and only always() and failure()
\* steps after a timeout (newMainStepsExecutor); a success() step runs only if
\* nothing before it failed, be it a hook, a download, a pre stage or a step.
ConditionsRespected == \A s \in Ran :
    /\ started[s] = "canceled" => job.cond[s] \in {"always", "cancelled"}
    /\ started[s] = "expired" => job.cond[s] \in {"always", "failure"}
    /\ job.cond[s] = "success" =>
         /\ \A t \in 1..(s - 1) : concl[t] # "failure" /\ <<"main", t>> \notin failures
         /\ \A t \in Steps : {<<"hook", t>>, <<"prepare", t>>, <<"pre", t>>} \cap failures = {}

\* Every step whose main stage was not skipped gets its post stage, exactly
\* once and in the reverse order, whatever failed or was interrupted before.
PostsFollowMains ==
    pc \in {"completed", "teardown", "outputs", "end"} =>
        /\ {posts[i] : i \in DOMAIN posts} = {s \in job.post : concl[s] \in {"success", "failure"}}
        /\ \A i \in 1..(Len(posts) - 1) : posts[i] > posts[i + 1]

\* Which stages of which steps run, and in which order.
StagesRespected == ConditionsRespected /\ PostsFollowMains

\* A job that is reported as a success had no failure in any stage, except
\* that a cancellation forgets what failed before the post stages.
FailuresReported ==
    result = "success" =>
        \A f \in failures : ctxErr.job = "canceled" /\ cur = "post" /\ f[1] \notin {"post", "completed"}

\* The job container of a job that got past its start is removed, or its
\* removal has failed; without AutoRemove a failed job's is kept, but never a
\* cancelled job's.
ContainerReleased ==
    pc = "end" /\ result # "none" /\ (AutoRemove \/ jobCancelled \/ result = "success")
        => container # "up"

\* "OR in rc.jobCancelled so cancellation still always tears the container
\* down" (job_executor.go): the container never outlives a cancelled job.
CancelTearsDown == pc = "end" /\ ctxErr.job = "canceled" => container # "up"

\* "markInterrupted records the job's interruption status from a context error
\* so later step `if` evaluations and the job result observe it": no job that
\* was marked cancelled, or that met its deadline between two steps, reports
\* success.
InterruptInResult ==
    jobCancelled \/ (\E s \in Steps : started[s] = "expired") => result # "success"

=============================================================================
