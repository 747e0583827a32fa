---------------------------- MODULE JobRunProofs ----------------------------
(***************************************************************************)
(* Theorems about JobRun, for any number of steps, any conditions, any     *)
(* tree of composite actions and any number of faults: the executor of a   *)
(* job, whatever the stages do, and the stages, whatever the executor's    *)
(* context does.                                                           *)
(***************************************************************************)
EXTENDS JobRun, SequenceTheorems, TLAPS

-----------------------------------------------------------------------------
(* The executor: every stage a step may run, what failures do to the       *)
(* result, and what is left of the container.                              *)

(* The executor's invariant.                                               *)

\* The places before the main stages, and after them.
Early == {"start", "started", "hook", "prepare", "pre"}
Late == {"finally", "post", "completed", "teardown", "outputs", "end"}

\* Where the executor is: a stage is under way, or next, at a step that exists.
Places ==
    /\ inBody => pc = "main" /\ step \in Steps
    /\ pc \in Early \cup {"post"} => step \in Steps
    /\ pc \in {"completed", "start", "end"} => step = 1
    /\ cur = "post" => pc \in Late \ {"finally"}

\* A step that has begun, or has a conclusion, is behind the loop or under way.
Reached ==
    \A s \in Steps :
        /\ concl[s] # "none" => pc \in Late \/ (pc = "main" /\ s < step)
        /\ started[s] # "no" => \/ pc \in Late
                                \/ pc = "main" /\ (s < step \/ (s = step /\ inBody))

\* What the job's marks say of its context and of its failures.
Marked ==
    /\ jobCancelled => ctxErr.job = "canceled"
    /\ cur = "fresh" => IF ctxErr.job = "canceled" THEN jobCancelled
                                                   ELSE ctxErr.job = "expired" /\ jobFailed
    /\ cur = "post" => ctxErr.job # "nil"
    /\ failures # {} => jobFailed
    /\ \A s \in Steps :
          /\ started[s] \notin {"no", "nil"} => started[s] = ctxErr.job
          /\ started[s] \notin {"no", "nil"} /\ s = step /\ inBody => cur = "fresh"

\* A failure is in the error container of the stages it belongs to.
Boxed ==
    \A f \in failures :
        IF f[1] \in {"post", "completed"} THEN jobError[Box] /\ pc \in Late \ {"finally"}
                                          ELSE jobError.job

\* The post stages that have run are those of the steps that have had their turn.
PostsSoFar ==
    /\ pc \in Early \cup {"main", "finally"} => posts = <<>>
    /\ pc = "post" => {posts[i] : i \in DOMAIN posts}
                        = {s \in job.post : s > step /\ concl[s] \in {"success", "failure"}}
    /\ \A i \in 1..(Len(posts) - 1) : posts[i] > posts[i + 1]

\* The teardown gives the job its result.
TornDown ==
    /\ result # "none" => pc \in {"outputs", "end"}
    /\ result # "none" /\ (AutoRemove \/ jobCancelled \/ result = "success") => container # "up"

Rest ==
    /\ Places /\ Reached /\ Marked /\ Boxed /\ PostsSoFar /\ TornDown
    /\ ConditionsRespected /\ PostsFollowMains /\ FailuresReported

\* The inductive invariant.
IInv == TypeOK /\ Rest

-----------------------------------------------------------------------------
(* Contexts and reports.                                                   *)

StageNames == {"hook", "prepare", "pre", "main", "post", "completed"}

\* Only the job's own context is ever cancelled.
LEMMA OnlyJobCanceled ==
  ASSUME TypeOK
  PROVE  /\ CurErr \in {"nil", "canceled", "expired"}
         /\ CurErr = "canceled" => cur = "job" /\ ctxErr.job = "canceled"
         /\ Box \in {"job", "post"}
<1>1. CASE cur = "job"
  BY <1>1 DEF TypeOK, CurErr, Box
<1>2. CASE cur = "fresh"
  BY <1>2 DEF TypeOK, CurErr, Box
<1>3. CASE cur = "post"
  BY <1>3 DEF TypeOK, CurErr, Box
<1> QED BY <1>1, <1>2, <1>3 DEF TypeOK

\* What a report does to the job's status: a failure fails the job and the
\* error container in use, and a cancellation marks the job.
Reports(f) ==
    /\ jobFailed' \in BOOLEAN /\ jobCancelled' \in BOOLEAN
    /\ jobError' \in [job : BOOLEAN, post : BOOLEAN]
    /\ failures' = failures \/ (failures' = failures \cup {f} /\ jobFailed' /\ jobError'[Box])
    /\ jobFailed => jobFailed'
    /\ jobCancelled => jobCancelled'
    /\ jobCancelled' => jobCancelled \/ ctxErr.job = "canceled"
    /\ jobError.job => jobError'.job
    /\ jobError.post => jobError'.post

LEMMA ReportStepErrorReports ==
  ASSUME TypeOK, NEW f, NEW e \in Errors \ {"nil"}, ReportStepError(f, e)
  PROVE  Reports(f)
<1>1. CASE e = "canceled"
  <2>1. CurErr = "canceled" /\ ctxErr.job = "canceled"
    BY <1>1, OnlyJobCanceled DEF Errors
  <2>2. jobCancelled' = TRUE /\ jobFailed' = jobFailed /\ UNCHANGED <<jobError, failures>>
    BY <1>1, <2>1 DEF ReportStepError, Mark, TypeOK
  <2> QED BY <2>1, <2>2 DEF Reports, TypeOK
<1>2. CASE e # "canceled"
  <2>1. /\ jobError' = [jobError EXCEPT ![Box] = TRUE] /\ jobFailed' = TRUE
        /\ failures' = failures \cup {f} /\ jobCancelled' = jobCancelled
    BY <1>2 DEF ReportStepError
  <2>2. CASE Box = "job"
    BY <2>1, <2>2 DEF Reports, TypeOK
  <2>3. CASE Box = "post"
    BY <2>1, <2>3 DEF Reports, TypeOK
  <2> QED BY <2>2, <2>3, OnlyJobCanceled
<1> QED BY <1>1, <1>2

LEMMA ReportReports ==
  ASSUME TypeOK, NEW f, NEW e \in Errors, Report(f, e)
  PROVE  Reports(f)
<1>1. CASE e = "nil" /\ CurErr = "nil"
  BY <1>1 DEF Report, Reports, TypeOK, statusVars
<1>2. CASE ~(e = "nil" /\ CurErr = "nil")
  <2>1. CASE e = "nil"
    <3>1. CurErr \in Errors \ {"nil"} /\ ReportStepError(f, CurErr)
      BY <1>2, <2>1 DEF Report, Errors
    <3> QED BY <3>1, ReportStepErrorReports
  <2>2. CASE e # "nil"
    <3>1. ReportStepError(f, e)
      BY <1>2, <2>2 DEF Report
    <3> QED BY <2>2, <3>1, ReportStepErrorReports
  <2> QED BY <2>1, <2>2
<1> QED BY <1>1, <1>2

-----------------------------------------------------------------------------
(* Types.                                                                  *)

\* Each step goes to a place that exists, or stays where it is.
LEMMA NextType ==
  ASSUME TypeOK, Places, Next \/ UNCHANGED vars
  PROVE  TypeOK'
<1>0. N \in Nat \ {0} /\ 1 \in 1..(N + 1) /\ N \in 1..(N + 1)
  BY ConstantsAssumption
<1>1. CASE UNCHANGED vars
  BY <1>1 DEF TypeOK, vars, ctlVars, statusVars, histVars
<1>2. CASE \E e \in {"canceled", "expired"} : Interrupt(e)
  BY <1>2 DEF Interrupt, TypeOK, ctlVars, statusVars, histVars
<1>3. CASE GraceOver
  BY <1>3 DEF GraceOver, Bounded, TypeOK, ctlVars, statusVars, histVars
<1>4. CASE StartContainer \/ StartFails \/ AfterStart \/ PostContext \/ Close
  <2>1. UNCHANGED <<job, ctxErr, jobError, jobFailed, jobCancelled, concl, result, started,
                    failures, posts>>
    BY <1>4 DEF StartContainer, StartFails, AfterStart, PostContext, Close, ctlVars,
                statusVars, histVars
  <2>2. /\ cur' \in {"job", "fresh", "post"}
        /\ pc' \in {"started", "end", "hook", "post"}
        /\ container' \in {"none", "up", "gone", "stuck"} /\ returned' \in BOOLEAN
    BY <1>0, <1>4 DEF StartContainer, StartFails, AfterStart, PostContext, Close, Goto, TypeOK
  <2>3. PICK n \in 1..(N + 1), b \in BOOLEAN : step' = n /\ inBody' = b
    BY <1>0, <1>4, Zenon DEF StartContainer, StartFails, AfterStart, PostContext, Close, Goto
  <2> QED BY <2>1, <2>2, <2>3 DEF TypeOK
<1>5. CASE Teardown
  <2>1. UNCHANGED <<job, ctxErr, cur, jobError, jobFailed, jobCancelled, concl, started,
                    failures, posts>>
    BY <1>5 DEF Teardown, statusVars, histVars
  <2>2. /\ pc' = "outputs" /\ step' = 1
        /\ container' \in {"none", "up", "gone", "stuck"}
        /\ result' \in {"success", "failure"}
    BY <1>5 DEF Teardown, Goto, JobResult, TypeOK
  <2>3. returned' \in BOOLEAN
    BY <1>5, Zenon DEF Teardown, TypeOK
  <2>4. PICK b \in BOOLEAN, r \in BOOLEAN : inBody' = b /\ returned' = r
    BY <1>5, <2>3, Zenon DEF Teardown, Goto
  <2> QED BY <1>0, <2>1, <2>2, <2>4 DEF TypeOK
<1>6. CASE Detach
  <2>1. UNCHANGED <<job, ctxErr, pc, step, inBody, jobError, concl, container, result, started,
                    failures, posts>>
    BY <1>6 DEF Detach, ctlVars, statusVars, histVars
  <2>2. cur' = "fresh" /\ returned' = TRUE
    BY <1>6 DEF Detach
  <2>3. PICK f \in BOOLEAN, c \in BOOLEAN : jobFailed' = f /\ jobCancelled' = c
    BY <1>6, Zenon DEF Detach, DetachMarked, Mark
  <2> QED BY <2>1, <2>2, <2>3 DEF TypeOK
<1>7. CASE MainOver
  <2>1. UNCHANGED <<job, ctxErr, cur, jobError, concl, container, result, returned, started,
                    failures, posts>>
    BY <1>7 DEF MainOver, statusVars, histVars
  <2>2. pc' = "finally"
    BY <1>7 DEF MainOver, Goto
  <2>3. PICK f \in BOOLEAN, c \in BOOLEAN : jobFailed' = f /\ jobCancelled' = c
    BY <1>7, Zenon DEF MainOver, Mark
  <2>4. PICK n \in 1..(N + 1), b \in BOOLEAN : step' = n /\ inBody' = b
    BY <1>0, <1>7, Zenon DEF MainOver, Goto
  <2> QED BY <2>1, <2>2, <2>3, <2>4 DEF TypeOK
<1>8. CASE MainBegin
  BY <1>8 DEF MainBegin, TypeOK, statusVars
<1>9. ASSUME NEW e \in Errors, PreStage(e)
      PROVE  TypeOK'
  <2>1. UNCHANGED <<job, ctxErr, cur, concl, container, result, started, posts>>
    BY <1>9 DEF PreStage
  <2>2. returned' \in BOOLEAN
    BY <1>9 DEF PreStage
  <2>3. pc' \in {"prepare", "pre", "main"}
    BY <1>0, <1>9 DEF PreStage, AfterPre, Goto, TypeOK
  <2>4. Reports(<<pc, step>>)
    <3>1. CASE Report(<<pc, step>>, e)
      BY <3>1, ReportReports
    <3>2. CASE UNCHANGED <<statusVars, failures>>
      BY <3>2 DEF Reports, TypeOK, statusVars
    <3> QED BY <1>9, <3>1, <3>2 DEF PreStage
  <2>5. <<pc, step>> \in {"hook", "prepare", "pre"} \X Steps
    BY <1>9 DEF PreStage, Places, Early
  <2>6. PICK f \in BOOLEAN, c \in BOOLEAN, r \in BOOLEAN :
              jobFailed' = f /\ jobCancelled' = c /\ returned' = r
    BY <2>2, <2>4, Zenon DEF Reports
  <2>7. jobError' \in [job : BOOLEAN, post : BOOLEAN]
    BY <2>4 DEF Reports
  <2>8. failures' \subseteq {"hook", "prepare", "pre", "main", "post", "completed"} \X Steps
    BY <2>4, <2>5 DEF Reports, TypeOK
  <2>9. PICK n \in 1..(N + 1), b \in BOOLEAN : step' = n /\ inBody' = b
    <3>1. step' \in 1..(N + 1)
      BY <1>0, <1>9 DEF PreStage, AfterPre, Goto, TypeOK
    <3>2. inBody' = FALSE
      BY <1>9 DEF PreStage, Goto
    <3> QED BY <3>1, <3>2, Zenon
  <2> QED BY <2>1, <2>3, <2>6, <2>7, <2>8, <2>9 DEF TypeOK
<1>10. CASE MainStage
  <2>1. PICK c \in {"none", "success", "failure", "skipped"}, e \in Errors : MainIs(c, e)
    BY <1>10 DEF MainStage, MainSkipped, MainUnprepared, MainInvalid, MainSucceeds, MainFails,
                 MainFileCommand, Errors
  <2>2. UNCHANGED <<job, ctxErr, cur, container, result, returned, posts>>
    BY <2>1 DEF MainIs
  <2>3. pc = "main" /\ step \in Steps
    BY <1>10 DEF MainStage, Places
  <2>4. pc' = "main"
    BY <1>0, <2>1, <2>3 DEF MainIs, Goto, Steps
  <2>5. concl' \in [Steps -> {"none", "success", "failure", "skipped"}]
    BY <2>1 DEF MainIs, TypeOK
  <2>6. started' \in [Steps -> {"no", "nil", "canceled", "expired"}]
    BY <1>10 DEF MainStage, MainSkipped, MainUnprepared, MainInvalid, MainSucceeds, MainFails,
                 MainFileCommand, TypeOK
  <2>7. Reports(<<"main", step>>)
    BY <2>1, ReportReports DEF MainIs
  <2>8. PICK f \in BOOLEAN, g \in BOOLEAN : jobFailed' = f /\ jobCancelled' = g
    BY <2>7, Zenon DEF Reports
  <2>9. <<"main", step>> \in {"main"} \X Steps
    BY <2>3
  <2>10. jobError' \in [job : BOOLEAN, post : BOOLEAN]
    BY <2>7 DEF Reports
  <2>11. failures' \subseteq {"hook", "prepare", "pre", "main", "post", "completed"} \X Steps
    BY <2>7, <2>9 DEF Reports, TypeOK
  <2>12. PICK n \in 1..(N + 1), b \in BOOLEAN : step' = n /\ inBody' = b
    <3>1. step' \in 1..(N + 1)
      BY <1>0, <2>1, <2>3 DEF MainIs, Goto, Steps
    <3>2. inBody' = FALSE
      BY <2>1 DEF MainIs, Goto
    <3> QED BY <3>1, <3>2, Zenon
  <2> QED BY <2>2, <2>4, <2>5, <2>6, <2>8, <2>10, <2>11, <2>12 DEF TypeOK
<1>11. ASSUME NEW e \in Errors, PostStage(e)
       PROVE  TypeOK'
  <2>1. UNCHANGED <<job, ctxErr, cur, concl, container, result, started>>
    BY <1>11 DEF PostStage
  <2>2. returned' \in BOOLEAN /\ step \in Steps
    BY <1>11 DEF PostStage
  <2>3. pc' \in {"completed", "post"}
    BY <1>0, <1>11 DEF PostStage, Goto, Steps
  <2>4. Reports(<<"post", step>>)
    BY <1>11, ReportReports DEF PostStage, PostReverse
  <2>5. posts' \in Seq(Steps)
    BY <1>11 DEF PostStage, PostReverse, TypeOK
  <2>6. PICK f \in BOOLEAN, c \in BOOLEAN, r \in BOOLEAN :
              jobFailed' = f /\ jobCancelled' = c /\ returned' = r
    BY <2>2, <2>4, Zenon DEF Reports
  <2>7. jobError' \in [job : BOOLEAN, post : BOOLEAN]
    BY <2>4 DEF Reports
  <2>8. failures' \subseteq {"hook", "prepare", "pre", "main", "post", "completed"} \X Steps
    BY <2>2, <2>4 DEF Reports, TypeOK
  <2>9. PICK n \in 1..(N + 1), b \in BOOLEAN : step' = n /\ inBody' = b
    <3>1. step' \in 1..(N + 1)
      BY <1>0, <1>11 DEF PostStage, Goto, Steps
    <3>2. inBody' = FALSE
      BY <1>11 DEF PostStage, Goto
    <3> QED BY <3>1, <3>2, Zenon
  <2> QED BY <2>1, <2>3, <2>5, <2>6, <2>7, <2>8, <2>9 DEF TypeOK
<1>12. ASSUME NEW e \in Errors, CompletedHook(e)
       PROVE  TypeOK'
  <2>1. UNCHANGED <<job, ctxErr, cur, concl, container, result, started, posts>>
    BY <1>12 DEF CompletedHook
  <2>2. pc' = "teardown" /\ step' = 1
    BY <1>12 DEF CompletedHook, Goto
  <2>3. Reports(<<"completed", 1>>)
    <3>1. CASE e = "nil"
      BY <1>12, <3>1 DEF CompletedHook, Reports, TypeOK, statusVars
    <3>2. CASE e # "nil"
      BY <1>12, <3>2, ReportStepErrorReports DEF CompletedHook
    <3> QED BY <3>1, <3>2
  <2>4. <<"completed", 1>> \in {"completed"} \X Steps
    BY <1>0 DEF Steps
  <2>5. PICK f \in BOOLEAN, c \in BOOLEAN, r \in BOOLEAN, b \in BOOLEAN :
              jobFailed' = f /\ jobCancelled' = c /\ returned' = r /\ inBody' = b
    BY <1>12, <2>3, Zenon DEF Reports, CompletedHook, Goto
  <2>6. jobError' \in [job : BOOLEAN, post : BOOLEAN]
    BY <2>3 DEF Reports
  <2>7. failures' \subseteq {"hook", "prepare", "pre", "main", "post", "completed"} \X Steps
    BY <2>3, <2>4 DEF Reports, TypeOK
  <2> QED BY <1>0, <2>1, <2>2, <2>5, <2>6, <2>7 DEF TypeOK
<1>13. CASE Done
  BY <1>13, <1>1 DEF Done
<1> QED
  BY <1>1, <1>2, <1>3, <1>4, <1>5, <1>6, <1>7, <1>8, <1>9, <1>10, <1>11, <1>12, <1>13
     DEF Next, ControlStep, StageStep

-----------------------------------------------------------------------------
(* The steps that report nothing.                                          *)

\* The jobs of the executor: their steps with a post stage are steps.
LEMMA JobShape == TypeOK => job.cond \in [Steps -> Conditions] /\ job.post \subseteq Steps
BY ConstantsAssumption DEF TypeOK

\* The start of a job: nothing has run yet.
LEMMA StartStep ==
  ASSUME IInv, StartContainer \/ StartFails \/ AfterStart
  PROVE  Rest'
<1>0. TypeOK /\ N \in Nat \ {0} /\ job.post \subseteq Steps
  BY ConstantsAssumption, JobShape DEF IInv
<1> USE DEF IInv, Rest, StartContainer, StartFails, AfterStart, CurErr, Goto, ctlVars, statusVars,
            histVars
<1>1. Places' /\ Reached'
  BY <1>0 DEF Places, Reached, Early, Late, Steps
<1>2. Marked' /\ Boxed'
  BY <1>0 DEF Marked, Boxed, Box, Places, Early, Late, TypeOK
<1>3. PostsSoFar' /\ TornDown'
  BY <1>0 DEF PostsSoFar, TornDown, Early, Late, Places, TypeOK
<1>4. ConditionsRespected' /\ FailuresReported'
  BY <1>0 DEF ConditionsRespected, Ran, FailuresReported, TornDown
<1>5. PostsFollowMains'
  <2>1. posts' = <<>> /\ \A s \in Steps : concl'[s] = "none"
    BY DEF PostsSoFar, Reached, Early, Late
  <2>2. job' = job
    OBVIOUS
  <2> QED BY <1>0, <2>1, <2>2 DEF PostsFollowMains
<1> QED BY <1>1, <1>2, <1>3, <1>4, <1>5 DEF Rest

\* The end of a context changes what it stands for nowhere.
LEMMA ClockStep ==
  ASSUME IInv, GraceOver \/ \E e \in {"canceled", "expired"} : Interrupt(e)
  PROVE  Rest'
<1>1. UNCHANGED <<job, pc, step, inBody, cur, jobError, jobFailed, jobCancelled, concl, container,
                  result, returned, started, failures, posts>>
  BY DEF GraceOver, Interrupt, ctlVars, statusVars, histVars
<1>2. ctxErr'.job = ctxErr.job \/ ctxErr.job = "nil"
  BY DEF GraceOver, Interrupt, Bounded, IInv, TypeOK
<1>3. ctxErr'.job \in {"nil", "canceled", "expired"}
  BY DEF GraceOver, Interrupt, Bounded, IInv, TypeOK
<1>4. Places' /\ Reached' /\ PostsSoFar' /\ TornDown' /\ PostsFollowMains'
  BY <1>1 DEF IInv, Rest, Places, Reached, PostsSoFar, TornDown, PostsFollowMains
<1>5. ConditionsRespected'
  BY <1>1 DEF IInv, Rest, ConditionsRespected, Ran
<1>6. Marked'
  BY <1>1, <1>2 DEF IInv, Rest, Marked
<1>7. Box' = Box
  BY <1>1, <1>2 DEF Box, IInv, Rest, Marked
<1>8. Boxed'
  BY <1>1, <1>7 DEF IInv, Rest, Boxed
<1>9. FailuresReported'
  BY <1>1, <1>2 DEF IInv, Rest, FailuresReported
<1> QED BY <1>4, <1>5, <1>6, <1>8, <1>9 DEF Rest

\* A main stage begins under the job's own, live context or under the detached
\* one.
LEMMA MainBeginStep ==
  ASSUME IInv, MainBegin
  PROVE  Rest'
<1>1. UNCHANGED <<job, pc, step, ctxErr, cur, jobError, jobFailed, jobCancelled, concl, container,
                  result, failures, posts>>
  BY DEF MainBegin, statusVars
<1>2. pc = "main" /\ step \in Steps /\ inBody' = TRUE /\ step \in Int
  BY DEF MainBegin, Steps
<1>3. started' = [started EXCEPT ![step] = ctxErr.job]
  BY DEF MainBegin
<1>4. concl[step] = "none"
  BY <1>2 DEF IInv, Rest, Reached, Late
<1>5. Places' /\ Reached'
  BY <1>1, <1>2, <1>3 DEF IInv, Rest, TypeOK, Places, Reached
<1>6. (cur = "job" /\ ctxErr.job = "nil") \/ cur = "fresh"
  BY <1>2 DEF MainBegin, CurErr, IInv, Rest, TypeOK, Places, Late
<1>7. Marked'
  BY <1>1, <1>2, <1>3, <1>6 DEF IInv, Rest, TypeOK, Marked
<1>8. Boxed' /\ PostsSoFar' /\ TornDown' /\ PostsFollowMains' /\ FailuresReported'
  BY <1>1 DEF IInv, Rest, Boxed, Box, PostsSoFar, TornDown, PostsFollowMains, FailuresReported
<1>9. ConditionsRespected'
  <2>1. \A s \in Steps : s \in Ran' => s \in Ran /\ started'[s] = started[s]
    BY <1>1, <1>3, <1>4 DEF Ran, IInv, TypeOK
  <2> QED BY <1>1, <2>1 DEF IInv, Rest, ConditionsRespected, Ran
<1> QED BY <1>5, <1>7, <1>8, <1>9 DEF Rest

\* The loop meets the end of the job's context, or its own end.
LEMMA MarkStep ==
  ASSUME IInv, Detach \/ MainOver
  PROVE  Rest'
<1>1. UNCHANGED <<job, ctxErr, jobError, concl, container, result, started, failures, posts>>
  BY DEF Detach, MainOver, ctlVars, histVars
<1>2. /\ pc = "main" /\ ~inBody /\ ~inBody'
      /\ \/ pc' = "main" /\ step' = step
         \/ pc' = "finally" /\ step' = 1
      /\ \/ cur' = cur
         \/ cur = "job" /\ cur' = "fresh" /\ pc' = "main" /\ ctxErr.job # "nil"
  <2>1. CASE Detach
    BY <2>1 DEF Detach, ctlVars, CurErr
  <2>2. CASE MainOver
    BY <2>2 DEF MainOver, Goto
  <2> QED BY <2>1, <2>2
<1>3. /\ jobCancelled' <=> jobCancelled \/ ctxErr.job = "canceled"
      /\ jobFailed' <=> jobFailed \/ ctxErr.job = "expired"
  BY DEF Detach, DetachMarked, MainOver, Mark, CurErr
<1>4. Places' /\ Reached'
  BY <1>1, <1>2 DEF IInv, Rest, Places, Reached, Early, Late
<1>5. Marked'
  BY <1>1, <1>2, <1>3 DEF IInv, Rest, TypeOK, Marked
<1>6. cur # "post" /\ cur' # "post"
  BY <1>2 DEF IInv, Rest, Places, Late
<1>7. Boxed' /\ PostsSoFar' /\ FailuresReported' /\ PostsFollowMains'
  BY <1>1, <1>2, <1>6
     DEF IInv, Rest, Boxed, Box, PostsSoFar, Early, Late, FailuresReported, PostsFollowMains
<1>8. TornDown'
  BY <1>1, <1>2 DEF IInv, Rest, TornDown
<1>9. ConditionsRespected'
  BY <1>1 DEF IInv, Rest, ConditionsRespected, Ran
<1> QED BY <1>4, <1>5, <1>7, <1>8, <1>9 DEF Rest

\* The post stages get their context, or the job is over.
LEMMA PostContextStep ==
  ASSUME IInv, PostContext \/ Close
  PROVE  Rest'
<1>1. UNCHANGED <<job, ctxErr, jobError, jobFailed, jobCancelled, concl, container, result,
                  started, failures, posts>>
  BY DEF PostContext, Close, statusVars, histVars
<1>2. \/ /\ pc = "finally" /\ pc' = "post" /\ step' = N /\ cur # "post"
         /\ cur' = IF ctxErr.job = "nil" THEN "job" ELSE "post"
      \/ pc = "outputs" /\ pc' = "end" /\ step' = 1 /\ cur' = cur
  BY DEF PostContext, Close, Goto, IInv, Rest, Places, Late
<1>3. inBody' = FALSE /\ N \in Nat \ {0} /\ job.post \subseteq Steps
  BY JobShape, ConstantsAssumption DEF PostContext, Close, Goto, IInv
<1>4. Places' /\ Reached'
  BY <1>1, <1>2, <1>3 DEF IInv, Rest, Places, Reached, Early, Late, Steps
<1>5. Marked'
  BY <1>1, <1>2, <1>3 DEF IInv, Rest, Marked
<1>6. Boxed' /\ FailuresReported' /\ TornDown'
  BY <1>1, <1>2 DEF IInv, Rest, Boxed, Box, Late, FailuresReported, TornDown
<1>7. PostsSoFar' /\ PostsFollowMains'
  <2>1. CASE pc = "outputs"
    BY <1>1, <1>2, <2>1 DEF IInv, Rest, PostsSoFar, PostsFollowMains, Early
  <2>2. CASE pc = "finally"
    <3>1. posts = <<>> /\ pc' = "post" /\ step' = N
      BY <1>2, <2>2 DEF IInv, Rest, PostsSoFar
    <3>2. {s \in job.post : s > N /\ concl[s] \in {"success", "failure"}} = {}
      BY <1>3 DEF Steps
    <3> QED BY <1>1, <3>1, <3>2 DEF PostsSoFar, PostsFollowMains, Early
  <2> QED BY <1>2, <2>1, <2>2
<1>8. ConditionsRespected'
  BY <1>1 DEF IInv, Rest, ConditionsRespected, Ran
<1> QED BY <1>4, <1>5, <1>6, <1>7, <1>8 DEF Rest

\* The teardown gives the job its result, and removes the container.
LEMMA TeardownStep ==
  ASSUME IInv, Teardown
  PROVE  Rest'
<1>1. UNCHANGED <<job, ctxErr, cur, jobError, jobFailed, jobCancelled, concl, started, failures,
                  posts>>
  BY DEF Teardown, statusVars, histVars
<1>2. pc = "teardown" /\ pc' = "outputs" /\ step' = 1 /\ inBody' = FALSE
  BY DEF Teardown, Goto
<1>3. Places' /\ Reached' /\ Marked'
  BY <1>1, <1>2 DEF IInv, Rest, Places, Reached, Marked, Early, Late
<1>4. Boxed' /\ PostsSoFar' /\ PostsFollowMains'
  BY <1>1, <1>2 DEF IInv, Rest, Boxed, Box, Late, Early, PostsSoFar, PostsFollowMains
<1>5. FailuresReported'
  BY <1>1 DEF Teardown, JobResult, FailuresReported, IInv, Rest, Boxed, Box
<1>6. TornDown'
  BY <1>1, <1>2 DEF Teardown, Removes, JobResult, TornDown
<1>7. ConditionsRespected'
  BY <1>1 DEF IInv, Rest, ConditionsRespected, Ran
<1> QED BY <1>3, <1>4, <1>5, <1>6, <1>7 DEF Rest

-----------------------------------------------------------------------------
(* The steps that report.                                                  *)

\* What a stage's report keeps, whatever the stage.
LEMMA ReportKeeps ==
  ASSUME IInv, NEW f, Reports(f), UNCHANGED <<job, ctxErr, cur, result, container>>,
         result = "none", inBody' = FALSE,
         \A s \in Steps : started'[s] = started[s] \/ started'[s] = "no",
         \A g \in failures : g[1] \in {"post", "completed"} => pc' \in Late \ {"finally"},
         f[1] \in {"post", "completed"} => pc' \in Late \ {"finally"},
         f[1] \notin {"post", "completed"} => Box = "job"
  PROVE  Marked' /\ Boxed' /\ TornDown' /\ FailuresReported'
<1>1. /\ jobCancelled' => ctxErr.job = "canceled"
      /\ cur = "fresh" => IF ctxErr.job = "canceled" THEN jobCancelled'
                                                     ELSE ctxErr.job = "expired" /\ jobFailed'
      /\ cur = "post" => ctxErr.job # "nil"
      /\ failures' # {} => jobFailed'
  BY DEF IInv, Rest, Marked, Reports
<1>2. \A s \in Steps : started'[s] \notin {"no", "nil"} => started'[s] = ctxErr.job
  BY DEF IInv, Rest, Marked
<1>3. Marked'
  BY <1>1, <1>2 DEF Marked
<1>4. Box' = Box
  BY DEF Box
<1>5. Box \in {"job", "post"} /\ (jobError[Box] => jobError'[Box])
  BY OnlyJobCanceled DEF IInv, Reports
<1>6. \A g \in failures : IF g[1] \in {"post", "completed"} THEN jobError'[Box]
                                                            ELSE jobError'.job
  BY <1>5 DEF IInv, Rest, Boxed, Reports
<1>7. \A g \in failures' : g \notin failures => g = f /\ jobError'[Box]
  BY DEF Reports
<1>8. Boxed'
  BY <1>4, <1>6, <1>7 DEF Boxed
<1>9. TornDown' /\ FailuresReported'
  BY DEF TornDown, FailuresReported
<1> QED BY <1>3, <1>8, <1>9

\* Before the main stages nothing has begun, and nothing has a conclusion.
LEMMA PreStageStep ==
  ASSUME IInv, NEW e \in Errors, PreStage(e)
  PROVE  Rest'
<1>1. UNCHANGED <<job, ctxErr, cur, concl, container, result, started, posts>> /\ inBody' = FALSE
  BY DEF PreStage, Goto
<1>2. pc \in {"hook", "prepare", "pre"} /\ step \in Steps /\ N \in Nat \ {0}
  BY ConstantsAssumption DEF PreStage, IInv, Rest, Places, Early
<1>3. pc' \in {"prepare", "pre", "main"} /\ (pc' # "main" => step' \in Steps)
  BY <1>2 DEF PreStage, AfterPre, Goto, Steps
<1>4. Reports(<<pc, step>>)
  <2>1. CASE Report(<<pc, step>>, e)
    BY <2>1, ReportReports DEF IInv
  <2>2. CASE UNCHANGED <<statusVars, failures>>
    BY <2>2 DEF Reports, statusVars, IInv, TypeOK
  <2> QED BY <2>1, <2>2 DEF PreStage
<1>5. /\ \A s \in Steps : concl[s] = "none" /\ started[s] = "no"
      /\ posts = <<>> /\ result = "none" /\ cur # "post"
  BY <1>2 DEF IInv, Rest, Reached, PostsSoFar, TornDown, Places, Early, Late
<1>6. Places' /\ Reached'
  BY <1>1, <1>3, <1>5 DEF Places, Reached, Late, Early
<1>7. Marked' /\ Boxed' /\ TornDown' /\ FailuresReported'
  <2>1. \A g \in failures : g[1] \notin {"post", "completed"}
    BY <1>2 DEF IInv, Rest, Boxed, Late
  <2>2. Box = "job"
    BY <1>5 DEF Box
  <2> QED BY <1>1, <1>2, <1>4, <1>5, <2>1, <2>2, ReportKeeps
<1>8. PostsSoFar' /\ PostsFollowMains'
  BY <1>1, <1>3, <1>5 DEF PostsSoFar, PostsFollowMains, Early
<1>9. ConditionsRespected'
  BY <1>1, <1>5 DEF ConditionsRespected, Ran
<1> QED BY <1>6, <1>7, <1>8, <1>9 DEF Rest

\* A step that really runs has the condition for it: its job is cancelled or
\* failed if the loop has met the end of its context, and nothing has failed
\* before a step that runs on success.
LEMMA EnabledRespects ==
  ASSUME IInv, inBody, Enabled(step), step \in Steps
  PROVE  /\ started[step] = "canceled" => job.cond[step] \in {"always", "cancelled"}
         /\ started[step] = "expired" => job.cond[step] \in {"always", "failure"}
         /\ job.cond[step] = "success" => failures = {} /\ \A t \in Steps : concl[t] # "failure"
<1>1. job.cond[step] \in {"always", JobStatus}
  BY DEF Enabled
<1>2. ASSUME started[step] = "canceled"
      PROVE  JobStatus = "cancelled"
  BY <1>2 DEF IInv, Rest, Marked, JobStatus
<1>3. ASSUME started[step] = "expired"
      PROVE  JobStatus = "failure"
  BY <1>3 DEF IInv, Rest, Marked, JobStatus
<1>4. ASSUME JobStatus = "success"
      PROVE  failures = {} /\ \A t \in Steps : concl[t] # "failure"
  BY <1>4 DEF IInv, Rest, Marked, JobStatus
<1> QED BY <1>1, <1>2, <1>3, <1>4

\* A main stage is over.
LEMMA MainStageStep ==
  ASSUME IInv, MainStage
  PROVE  Rest'
<1>1. PICK c \in {"none", "success", "failure", "skipped"}, e \in Errors :
        /\ MainIs(c, e)
        /\ \/ UNCHANGED started /\ (c \in {"success", "failure"} => Enabled(step))
           \/ started' = [started EXCEPT ![step] = "no"]
  BY DEF MainStage, MainSkipped, MainUnprepared, MainInvalid, MainSucceeds, MainFails,
         MainFileCommand, Errors
<1>2. UNCHANGED <<job, ctxErr, cur, container, result, returned, posts>>
  BY <1>1 DEF MainIs
<1>3. /\ pc = "main" /\ inBody /\ step \in Steps /\ step \in Int
      /\ pc' = "main" /\ step' = step + 1 /\ inBody' = FALSE
      /\ concl' = [concl EXCEPT ![step] = c]
  BY <1>1 DEF MainStage, MainIs, Goto, IInv, Rest, Places, Steps
<1>4. Reports(<<"main", step>>)
  BY <1>1, ReportReports DEF MainIs, IInv
<1>5. failures' \subseteq failures \cup {<<"main", step>>}
  BY <1>4 DEF Reports
<1>6. Places' /\ Reached'
  <2>1. \A s \in Steps : s \in Int /\ (s < step \/ s = step => s < step + 1)
    BY <1>3 DEF Steps
  <2>2. Places'
    BY <1>2, <1>3 DEF Places, Early, IInv, Rest, Late
  <2>3. \A s \in Steps : s # step => concl'[s] = concl[s]
    BY <1>3 DEF IInv, TypeOK
  <2>4. \A s \in Steps : started'[s] # "no" => started[s] # "no"
    BY <1>1 DEF IInv, TypeOK
  <2> QED BY <1>3, <2>1, <2>2, <2>3, <2>4 DEF Reached, IInv, Rest, Late
<1>7. Marked' /\ Boxed' /\ TornDown' /\ FailuresReported'
  <2>1. \A s \in Steps : started'[s] = started[s] \/ started'[s] = "no"
    BY <1>1 DEF IInv, TypeOK
  <2>2. \A g \in failures : g[1] \notin {"post", "completed"}
    BY <1>3 DEF IInv, Rest, Boxed, Late
  <2>3. Box = "job" /\ result = "none"
    BY <1>3 DEF Box, IInv, Rest, Places, TornDown, Late
  <2> QED BY <1>2, <1>3, <1>4, <2>1, <2>2, <2>3, ReportKeeps
<1>8. PostsSoFar' /\ PostsFollowMains'
  BY <1>2, <1>3 DEF PostsSoFar, PostsFollowMains, IInv, Rest, Early
<1>9. ASSUME NEW s \in Steps, s \in Ran'
      PROVE  /\ started'[s] = "canceled" => job'.cond[s] \in {"always", "cancelled"}
             /\ started'[s] = "expired" => job'.cond[s] \in {"always", "failure"}
             /\ job'.cond[s] = "success" =>
                  /\ \A t \in 1..(s - 1) : concl'[t] # "failure" /\ <<"main", t>> \notin failures'
                  /\ \A t \in Steps :
                        {<<"hook", t>>, <<"prepare", t>>, <<"pre", t>>} \cap failures' = {}
  <2>0. started'[s] # "no" /\ concl'[s] \in {"success", "failure"}
    BY <1>9 DEF Ran
  <2>1. \A t \in 1..(s - 1) : t \in Int /\ t # s /\ t < s
    BY DEF Steps
  <2>2. CASE s = step
    <3>1. UNCHANGED started /\ Enabled(step)
      BY <1>1, <1>3, <2>0, <2>2 DEF IInv, TypeOK
    <3>2. /\ started[step] = "canceled" => job.cond[step] \in {"always", "cancelled"}
          /\ started[step] = "expired" => job.cond[step] \in {"always", "failure"}
          /\ job.cond[step] = "success" =>
               failures = {} /\ \A t \in Steps : concl[t] # "failure"
      BY <1>3, <3>1, EnabledRespects
    <3>3. \A t \in 1..(s - 1) : t \in Steps /\ concl'[t] = concl[t]
      <4>1. \A t \in 1..(s - 1) : t \in Steps
        BY ConstantsAssumption DEF Steps
      <4> QED BY <1>3, <2>1, <2>2, <4>1 DEF IInv, TypeOK
    <3> QED BY <1>2, <1>5, <2>1, <2>2, <3>1, <3>2, <3>3
  <2>3. CASE s # step
    <3>1. started'[s] = started[s] /\ concl'[s] = concl[s] /\ s \in Ran
      BY <1>1, <1>3, <2>0, <2>3 DEF Ran, IInv, TypeOK
    <3>2. s < step
      BY <1>3, <3>1 DEF IInv, Rest, Reached, Late, Ran
    <3>3. \A t \in 1..(s - 1) : t # step /\ concl'[t] = concl[t]
      BY <1>3, <2>1, <3>2 DEF Steps, IInv, TypeOK
    <3> QED BY <1>2, <1>5, <3>1, <3>3 DEF IInv, Rest, ConditionsRespected
  <2> QED BY <2>2, <2>3
<1>10. ConditionsRespected'
  <2>1. Ran' \subseteq Steps
    BY DEF Ran
  <2> QED BY <1>9, <2>1 DEF ConditionsRespected
<1> QED BY <1>6, <1>7, <1>8, <1>10 DEF Rest

\* The post stage of a step, if it is to have one, is the next in the order.
LEMMA PostStageStep ==
  ASSUME IInv, NEW e \in Errors, PostStage(e)
  PROVE  Rest'
<1>1. UNCHANGED <<job, ctxErr, cur, concl, container, result, started>> /\ inBody' = FALSE
  BY DEF PostStage, Goto
<1>2. /\ pc = "post" /\ step \in Steps /\ step \in Int /\ job.post \subseteq Steps
      /\ N \in Nat \ {0}
  BY JobShape, ConstantsAssumption DEF PostStage, IInv, Steps
<1>3. \/ step = 1 /\ pc' = "completed" /\ step' = 1
      \/ step # 1 /\ pc' = "post" /\ step' = step - 1 /\ step - 1 \in Steps
  BY <1>2 DEF PostStage, Goto, Steps
<1>4. Reports(<<"post", step>>)
  BY ReportReports DEF PostStage, PostReverse, IInv
<1>5. Places' /\ Reached'
  <2>1. 1 \in Steps
    BY <1>2 DEF Steps
  <2>2. Places'
    BY <1>1, <1>3, <2>1 DEF Places, Late, Early
  <2> QED BY <1>1, <1>3, <2>2 DEF Reached, Late
<1>6. Marked' /\ Boxed' /\ TornDown' /\ FailuresReported'
  <2>1. result = "none"
    BY <1>2 DEF IInv, Rest, TornDown
  <2>2. pc' \in Late \ {"finally"}
    BY <1>3 DEF Late
  <2> QED BY <1>1, <1>4, <2>1, <2>2, ReportKeeps
<1>7. HasPost(step) <=> step \in job.post /\ concl[step] \in {"success", "failure"}
  BY <1>2 DEF HasPost, IInv, TypeOK
<1>8. posts \in Seq(Steps) /\ posts' = IF HasPost(step) THEN Append(posts, step) ELSE posts
  BY DEF PostStage, PostReverse, IInv, TypeOK
<1>9. \A i \in DOMAIN posts : posts[i] > step
  BY <1>2 DEF IInv, Rest, PostsSoFar
<1>10. {posts'[i] : i \in DOMAIN posts'}
         = {s \in job.post : s >= step /\ concl[s] \in {"success", "failure"}}
  <2>1. {posts[i] : i \in DOMAIN posts}
          = {s \in job.post : s > step /\ concl[s] \in {"success", "failure"}}
    BY <1>2 DEF IInv, Rest, PostsSoFar
  <2>2. \A s \in job.post : s >= step <=> s > step \/ s = step
    BY <1>2 DEF Steps
  <2>3. {posts'[i] : i \in DOMAIN posts'}
          = {posts[i] : i \in DOMAIN posts} \cup (IF HasPost(step) THEN {step} ELSE {})
    BY <1>2, <1>8
  <2> QED BY <1>7, <2>1, <2>2, <2>3
<1>11. \A i \in 1..(Len(posts') - 1) : posts'[i] > posts'[i + 1]
  BY <1>2, <1>8, <1>9 DEF IInv, Rest, PostsSoFar
<1>12. PostsSoFar'
  <2>1. ASSUME pc' = "post"
        PROVE  {posts'[i] : i \in DOMAIN posts'}
                 = {s \in job'.post : s > step' /\ concl'[s] \in {"success", "failure"}}
    <3>1. step' = step - 1 /\ \A s \in job.post : s >= step <=> s > step - 1
      BY <1>2, <1>3, <2>1 DEF Steps
    <3> QED BY <1>1, <1>10, <3>1
  <2> QED BY <1>3, <1>11, <2>1 DEF PostsSoFar, Early
<1>13. PostsFollowMains'
  <2>1. ASSUME pc' = "completed"
        PROVE  {posts'[i] : i \in DOMAIN posts'}
                 = {s \in job'.post : concl'[s] \in {"success", "failure"}}
    <3>1. \A s \in job.post : s >= step
      BY <1>2, <1>3, <2>1 DEF Steps
    <3> QED BY <1>1, <1>10, <3>1
  <2> QED BY <1>3, <1>11, <2>1 DEF PostsFollowMains
<1>14. ConditionsRespected'
  <2>1. \A t : \A n \in {"main", "hook", "prepare", "pre"} : <<n, t>> # <<"post", step>>
    OBVIOUS
  <2>2. \A t : \A n \in {"main", "hook", "prepare", "pre"} :
            <<n, t>> \in failures' => <<n, t>> \in failures
    BY <1>4, <2>1 DEF Reports
  <2> QED BY <1>1, <2>2 DEF IInv, Rest, ConditionsRespected, Ran
<1> QED BY <1>5, <1>6, <1>12, <1>13, <1>14 DEF Rest

\* The job's completed hook is over.
LEMMA CompletedHookStep ==
  ASSUME IInv, NEW e \in Errors, CompletedHook(e)
  PROVE  Rest'
<1>1. UNCHANGED <<job, ctxErr, cur, concl, container, result, started, posts>> /\ inBody' = FALSE
  BY DEF CompletedHook, Goto
<1>2. pc = "completed" /\ pc' = "teardown" /\ step' = 1
  BY DEF CompletedHook, Goto
<1>3. Reports(<<"completed", 1>>)
  <2>1. CASE e = "nil"
    BY <2>1 DEF CompletedHook, Reports, TypeOK, IInv, statusVars
  <2>2. CASE e # "nil"
    BY <2>2, ReportStepErrorReports DEF CompletedHook, IInv
  <2> QED BY <2>1, <2>2
<1>4. Places' /\ Reached'
  BY <1>1, <1>2 DEF Places, Reached, Late, Early
<1>5. Marked' /\ Boxed' /\ TornDown' /\ FailuresReported'
  <2>1. result = "none" /\ pc' \in Late \ {"finally"}
    BY <1>2 DEF IInv, Rest, TornDown, Late
  <2> QED BY <1>1, <1>3, <2>1, ReportKeeps
<1>6. PostsSoFar' /\ PostsFollowMains'
  BY <1>1, <1>2 DEF IInv, Rest, PostsSoFar, PostsFollowMains, Early
<1>7. ConditionsRespected'
  <2>1. \A t : \A n \in {"main", "hook", "prepare", "pre"} : <<n, t>> # <<"completed", 1>>
    OBVIOUS
  <2>2. \A t : \A n \in {"main", "hook", "prepare", "pre"} :
            <<n, t>> \in failures' => <<n, t>> \in failures
    BY <1>3, <2>1 DEF Reports
  <2> QED BY <1>1, <2>2 DEF IInv, Rest, ConditionsRespected, Ran
<1> QED BY <1>4, <1>5, <1>6, <1>7 DEF Rest

-----------------------------------------------------------------------------
(* The executor's invariant holds in every reachable state.                *)

\* At the start nothing has run and nothing has failed.
LEMMA InitIInv == Init => IInv
<1> SUFFICES ASSUME Init PROVE IInv
  OBVIOUS
<1>0. N \in Nat \ {0} /\ 1 \in Steps /\ 1 \in 1..(N + 1)
  BY ConstantsAssumption DEF Steps
<1>1. TypeOK
  <2>1. inBody \in BOOLEAN /\ jobFailed \in BOOLEAN /\ jobCancelled \in BOOLEAN
        /\ returned \in BOOLEAN
    BY Zenon DEF Init
  <2>2. jobError \in [job : BOOLEAN, post : BOOLEAN]
    BY DEF Init
  <2>3. /\ ctxErr \in [job : {"nil", "canceled", "expired"}, fresh : {"nil", "expired"},
                       post : {"nil", "expired"}]
        /\ concl \in [Steps -> {"none", "success", "failure", "skipped"}]
        /\ started \in [Steps -> {"no", "nil", "canceled", "expired"}]
    BY DEF Init
  <2>4. /\ failures \subseteq {"hook", "prepare", "pre", "main", "post", "completed"} \X Steps
        /\ posts \in Seq(Steps)
    BY DEF Init
  <2>5. /\ job \in Jobs /\ pc = "start" /\ step \in 1..(N + 1) /\ cur = "job"
        /\ container = "none" /\ result = "none"
    BY <1>0 DEF Init
  <2> QED BY <2>1, <2>2, <2>3, <2>4, <2>5, Zenon DEF TypeOK
<1>2. Places /\ Reached /\ Marked /\ Boxed /\ PostsSoFar /\ TornDown
  BY <1>0 DEF Init, Places, Reached, Marked, Boxed, PostsSoFar, TornDown, Late, Early
<1>3. ConditionsRespected /\ PostsFollowMains /\ FailuresReported
  BY DEF Init, ConditionsRespected, Ran, PostsFollowMains, FailuresReported
<1> QED BY <1>1, <1>2, <1>3 DEF IInv, Rest

\* Every step of the executor keeps the invariant.
LEMMA NextIInv == IInv /\ [Next]_vars => IInv'
<1> SUFFICES ASSUME IInv, [Next]_vars PROVE IInv'
  OBVIOUS
<1>1. TypeOK'
  BY NextType DEF IInv, Rest
<1>2. CASE UNCHANGED vars
  BY <1>2 DEF IInv, Rest, vars, ctlVars, statusVars, histVars, TypeOK, Places, Reached, Marked,
              Boxed, Box, PostsSoFar, TornDown, ConditionsRespected, Ran, PostsFollowMains,
              FailuresReported
<1>3. CASE Next
  <2>1. CASE Done
    BY <1>2, <2>1 DEF Done
  <2> QED
    BY <1>1, <1>3, <2>1, StartStep, ClockStep, MainBeginStep, MarkStep, PostContextStep,
       TeardownStep, PreStageStep, MainStageStep, PostStageStep, CompletedHookStep
       DEF Next, ControlStep, StageStep, IInv
<1> QED BY <1>2, <1>3

\* At the level of the executor the module's behaviours are the executor's.
LEMMA JobInductive == JobSpec => [](level = "job" => IInv)
<1>1. JobInit => (level = "job" => IInv)
  BY InitIInv DEF JobInit
<1>2. (level = "job" => IInv) /\ [JobNext]_everything => (level = "job" => IInv)'
  <2> SUFFICES ASSUME level = "job" => IInv, [JobNext]_everything, level' = "job"
               PROVE  IInv'
    OBVIOUS
  <2>1. level = "job" /\ [Next]_vars
    BY DEF JobNext, OfJob, OfSteps, everything
  <2> QED BY <2>1, NextIInv
<1> QED BY <1>1, <1>2, PTL DEF JobSpec

\* The container of a job that got past its start is gone, or its removal has
\* failed, unless the job's failure is to be kept for inspection; a job marked
\* cancelled never leaves one behind.
THEOREM ContainerIsGone == JobSpec => []ContainerGone
<1>1. (level = "job" => IInv) => ContainerGone
  BY DEF IInv, Rest, TornDown, ContainerGone, ContainerReleased
<1> QED BY <1>1, JobInductive, PTL

\* For any steps and conditions the stages that run, and their order, are those
\* the conditions allow, whenever the job's context ends.
THEOREM ConditionsHold == JobSpec => [](level = "job" => StagesRespected)
<1>1. (level = "job" => IInv) => (level = "job" => StagesRespected)
  BY DEF IInv, Rest, StagesRespected
<1> QED BY <1>1, JobInductive, PTL

\* A job that reports success had no failure in any stage, except for those
\* that a later cancellation forgot.
THEOREM NoFailureLost == JobSpec => [](level = "job" => FailuresReported)
<1>1. (level = "job" => IInv) => (level = "job" => FailuresReported)
  BY DEF IInv, Rest
<1> QED BY <1>1, JobInductive, PTL

-----------------------------------------------------------------------------
(* The stages from inside: the steps whose stage is under way, the run     *)
(* contexts they belong to and the handler of what they print.             *)

\* The run context of the i-th of the steps whose stage is under way.
Outer(i) == IF i <= 1 THEN "job" ELSE stack[i - 1]

\* Each of them is a step of the composite action before it, the one its run
\* context is at, and no step is there twice.
Nested ==
    /\ \A s \in Inside!Scopes : next[s] >= 1
    /\ stack # <<>> => stage # "over"
    /\ \A i \in DOMAIN stack :
          /\ Inside!ScopeOf(stack[i]) = Outer(i)
          /\ i < Len(stack) => tree.kind[stack[i]] = "composite"
          /\ rc[Outer(i)].current = stack[i]
          /\ \A k \in DOMAIN stack : stack[i] = stack[k] => i = k

\* Printed commands are handled by the run context of the innermost of them,
\* and each remembers who handled them before it.
Handled ==
    /\ handler = Outer(Len(stack))
    /\ \A i \in DOMAIN stack : i > 1 => saved[stack[i]] = Outer(i - 1)

\* The command files hold what the innermost step wrote, or nothing.
Filed ==
    stack # <<>> /\ tree.kind[stack[Len(stack)]] # "composite" =>
        file \in {"none", stack[Len(stack)]}

\* The history's shape.
StagesOfSteps == {"pre", "main", "post"} \X StepIds
Histories ==
    [wrote : SUBSET StepIds, saves : SUBSET StepIds, last : StepIds \cup {"none"},
     inner : BOOLEAN, mains : Seq(StepIds), posts : Seq(StepIds), lost : SUBSET StepIds,
     failures : SUBSET StagesOfSteps, refusals : SUBSET StagesOfSteps]
Logged == hist \in Histories

\* The inductive invariant of the stages.
InsideInv == Inside!TypeOK /\ Logged /\ Nested /\ Handled /\ Filed /\ Inside!OwnState

-----------------------------------------------------------------------------
(* The tree and the stack.                                                 *)

\* The shape of the job's tree, and of the run contexts.
LEMMA TreeShape ==
  ASSUME Inside!TypeOK
  PROVE  /\ "job" \notin StepIds
         /\ tree.child \in [Inside!Scopes -> Seq(StepIds)]
         /\ Inside!Scopes = {"job"} \cup StepIds
         /\ stack \in Seq(StepIds)
         /\ \A s, u \in Inside!Scopes :
               \A i \in DOMAIN tree.child[s], k \in DOMAIN tree.child[u] :
                  tree.child[s][i] = tree.child[u][k] => s = u /\ i = k
<1>1. tree \in Trees /\ stack \in Seq(StepIds)
  BY DEF Inside!TypeOK
<1>2. Inside!Scopes = {"job"} \cup StepIds
  BY DEF Inside!Scopes
<1>3. tree.child \in [StepIds \cup {"job"} -> Seq(StepIds)]
  BY <1>1, TreesAssumption
<1>4. StepIds \cup {"job"} = Inside!Scopes
  BY <1>2
<1>5. DOMAIN tree.child = Inside!Scopes
  BY <1>3, <1>4
<1> QED BY <1>1, <1>2, <1>3, <1>4, <1>5, TreesAssumption

\* A step belongs to the run context that lists it.
LEMMA ParentOf ==
  ASSUME Inside!TypeOK, NEW s \in Inside!Scopes, NEW i \in DOMAIN tree.child[s]
  PROVE  Inside!ScopeOf(tree.child[s][i]) = s
<1> DEFINE n == tree.child[s][i]
           Lists(u) == n \in Inside!Range(tree.child[u])
<1>1. \A u \in Inside!Scopes : Lists(u) => u = s
  <2>1. SUFFICES ASSUME NEW u \in Inside!Scopes, Lists(u) PROVE u = s
    OBVIOUS
  <2>2. PICK k \in DOMAIN tree.child[u] : tree.child[u][k] = n
    BY <2>1 DEF Inside!Range
  <2> QED BY <2>2, TreeShape
<1>2. Lists(s)
  BY DEF Inside!Range
<1>3. Inside!ScopeOf(n) = CHOOSE u \in Inside!Scopes : Lists(u)
  BY DEF Inside!ScopeOf
<1> QED BY <1>1, <1>2, <1>3

\* The innermost run context, and the step whose stage is under way in it.
LEMMA ScopeIs ==
  ASSUME Inside!TypeOK
  PROVE  /\ Inside!Scope \in Inside!Scopes
         /\ Inside!Scope = Outer(Len(stack) + 1)
         /\ stack # <<>> => /\ Inside!Scope = stack[Len(stack)] /\ Inside!Scope \in StepIds
                            /\ Len(stack) \in DOMAIN stack
         /\ Len(stack) \in Nat
<1>1. stack \in Seq(StepIds)
  BY TreeShape
<1>2. CASE stack = <<>>
  BY <1>2 DEF Inside!Scope, Inside!Scopes, Outer
<1>3. CASE stack # <<>>
  <2>1. Len(stack) \in DOMAIN stack /\ Len(stack) \in Nat \ {0} /\ stack[Len(stack)] \in StepIds
    BY <1>1, <1>3
  <2>2. Inside!Scope = stack[Len(stack)]
    BY <1>3 DEF Inside!Scope, Inside!Last
  <2>3. Outer(Len(stack) + 1) = stack[Len(stack)]
    BY <2>1 DEF Outer
  <2> QED BY <2>1, <2>2, <2>3 DEF Inside!Scopes
<1> QED BY <1>1, <1>2, <1>3

\* The step a run context is at belongs to it.
LEMMA WaitingIs ==
  ASSUME Inside!TypeOK, Nested, NEW n \in StepIds, Inside!Waiting(n)
  PROVE  /\ Inside!ScopeOf(n) = Inside!Scope
         /\ stage \in {"pre", "main", "post"}
         /\ stack # <<>> => tree.kind[Inside!Scope] = "composite"
<1> DEFINE s == Inside!Scope
           c == tree.child[s]
<1>1. s \in Inside!Scopes /\ c \in Seq(StepIds)
  BY ScopeIs, TreeShape
<1>2. next[s] \in Nat \ {0} /\ next[s] <= Len(c) /\ Len(c) \in Nat
  BY <1>1 DEF Inside!Waiting, Nested, Inside!TypeOK
<1>3. \E i \in DOMAIN c : n = c[i]
  <2>1. n = c[IF stage = "post" THEN Len(c) + 1 - next[s] ELSE next[s]]
    BY DEF Inside!Waiting, Inside!StepOf
  <2>2. next[s] \in DOMAIN c /\ Len(c) + 1 - next[s] \in DOMAIN c
    BY <1>1, <1>2
  <2> QED BY <2>1, <2>2
<1>4. Inside!ScopeOf(n) = s
  BY <1>1, <1>3, ParentOf
<1> QED BY <1>4 DEF Inside!Waiting, Inside!Composite, Inside!TypeOK

-----------------------------------------------------------------------------
(* The run contexts.                                                       *)

Context == [current : StepIds \cup {"none"}, env : StepIds \cup {"none"},
            map : Inside!Scopes \cup {"nil"}, path : SUBSET StepIds,
            refused : BOOLEAN, err : BOOLEAN]
Contexts == [Inside!Scopes -> Context]

\* The steps the run contexts are at stay the same.
SameSteps(q, r) == \A s \in Inside!Scopes : q[s].current = r[s].current

LEMMA ContextsType == Inside!TypeOK => rc \in Contexts
BY DEF Inside!TypeOK, Contexts, Context

\* Fields other than the step a run context is at may change.
LEMMA SetErrorContexts ==
  ASSUME NEW r \in Contexts, NEW s \in Inside!Scopes, NEW e \in BOOLEAN
  PROVE  Inside!SetError(r, s, e) \in Contexts /\ SameSteps(Inside!SetError(r, s, e), r)
<1>1. "job" \in Inside!Scopes
  BY DEF Inside!Scopes
<1>2. \A u \in Inside!Scopes : [r EXCEPT ![u].err = TRUE] \in Contexts
                               /\ SameSteps([r EXCEPT ![u].err = TRUE], r)
  BY DEF Contexts, Context, SameSteps
<1> QED BY <1>1, <1>2 DEF Inside!SetError, SameSteps

LEMMA RefusalTaken ==
  ASSUME NEW r \in Contexts, NEW s \in Inside!Scopes
  PROVE  LET q == [r EXCEPT ![s].refused = FALSE] IN q \in Contexts /\ SameSteps(q, r)
BY DEF Contexts, Context, SameSteps

LEMMA SetEnvContexts ==
  ASSUME NEW r \in Contexts, NEW s \in Inside!Scopes, NEW v \in StepIds
  PROVE  /\ Inside!SetEnv(r, s, v) \in Contexts /\ SameSteps(Inside!SetEnv(r, s, v), r)
         /\ Inside!MapOf(r, s) \in Inside!Scopes
<1>1. Inside!MapOf(r, s) \in Inside!Scopes
  BY DEF Inside!MapOf, Contexts, Context
<1> DEFINE m == Inside!MapOf(r, s)
<1>2. m \in Inside!Scopes
  BY <1>1
<1>3. Inside!SetEnv(r, s, v) = [r EXCEPT ![s].env = v, ![s].map = m]
  BY DEF Inside!SetEnv
<1> HIDE DEF m
<1>4. [r EXCEPT ![s].env = v, ![s].map = m] \in Contexts
      /\ SameSteps([r EXCEPT ![s].env = v, ![s].map = m], r)
  BY <1>2 DEF Contexts, Context, SameSteps
<1> QED BY <1>1, <1>3, <1>4

LEMMA ReadFilesContexts ==
  ASSUME Inside!TypeOK, NEW n \in StepIds, NEW s \in Inside!Scopes, NEW k \in 0..4
  PROVE  /\ Inside!ReadFiles(n, s, k) \in Contexts
         /\ SameSteps(Inside!ReadFiles(n, s, k), rc)
<1>1. rc \in Contexts /\ file \in StepIds \cup {"none"}
  BY ContextsType DEF Inside!TypeOK
<1>2. CASE file = "none" \/ k = 0
  BY <1>1, <1>2 DEF Inside!ReadFiles, SameSteps
<1>3. CASE ~(file = "none" \/ k = 0)
  <2> DEFINE q == Inside!SetEnv(rc, s, file)
  <2>1. q \in Contexts /\ SameSteps(q, rc) /\ file \in StepIds
    BY <1>1, <1>3, SetEnvContexts
  <2>2. Inside!ReadFiles(n, s, k) = [q EXCEPT ![s].path = IF k = 4 THEN @ \cup {file} ELSE @]
    BY <1>3 DEF Inside!ReadFiles
  <2> HIDE DEF q
  <2> QED BY <2>1, <2>2 DEF Contexts, Context, SameSteps
<1> QED BY <1>2, <1>3

LEMMA ContextOfContexts ==
  ASSUME NEW r \in Contexts, NEW n \in StepIds, NEW s \in Inside!Scopes
  PROVE  Inside!ContextOf(r, n, s) \in Contexts /\ SameSteps(Inside!ContextOf(r, n, s), r)
<1> DEFINE m == IF n \in made THEN r[n].map ELSE r[s].map
<1>1. n \in Inside!Scopes
  BY DEF Inside!Scopes
<1>2. r[n] \in Context /\ r[s] \in Context
  BY <1>1 DEF Contexts
<1>3. m \in Inside!Scopes \cup {"nil"}
  BY <1>2 DEF Context
<1>4. Inside!ContextOf(r, n, s) = [r EXCEPT ![n].env = r[s].env, ![n].path = r[s].path,
                                            ![n].map = m, ![n].err = FALSE]
  BY <1>1 DEF Inside!ContextOf, Contexts, Context
<1> DEFINE q == [r[n] EXCEPT !.env = r[s].env, !.path = r[s].path, !.map = m, !.err = FALSE]
<1>5. q \in Context /\ q.current = r[n].current
  <2> HIDE DEF m
  <2> QED BY <1>2, <1>3 DEF Context
<1>6. Inside!ContextOf(r, n, s) = [r EXCEPT ![n] = q]
  BY <1>1, <1>2, <1>4 DEF Contexts, Context
<1> HIDE DEF q
<1> QED BY <1>1, <1>5, <1>6 DEF Contexts, SameSteps

LEMMA MergeBackContexts ==
  ASSUME Inside!TypeOK, NEW n \in StepIds, NEW s \in Inside!Scopes
  PROVE  Inside!MergeBack(rc, n, s) \in Contexts /\ SameSteps(Inside!MergeBack(rc, n, s), rc)
<1> DEFINE set == rc[n].map # "nil" /\ global[rc[n].map] # "none"
           m == Inside!MapOf(rc, s)
           v == IF set THEN global[rc[n].map] ELSE rc[s].env
<1>1. n \in Inside!Scopes /\ rc \in Contexts
  BY ContextsType DEF Inside!Scopes
<1>2. rc[n] \in Context /\ rc[s] \in Context
  BY <1>1 DEF Contexts
<1>3. m \in Inside!Scopes
  BY <1>2 DEF Inside!MapOf, Context
<1>4. v \in StepIds \cup {"none"}
  BY <1>2 DEF Inside!TypeOK, Context
<1>5. Inside!MergeBack(rc, n, s) = [rc EXCEPT ![s].path = rc[n].path, ![s].map = m, ![s].env = v]
  BY <1>1 DEF Inside!MergeBack, Contexts, Context
<1> DEFINE q == [rc[s] EXCEPT !.path = rc[n].path, !.map = m, !.env = v]
<1>6. q \in Context /\ q.current = rc[s].current
  <2> HIDE DEF m, v
  <2> QED BY <1>2, <1>3, <1>4 DEF Context
<1>7. Inside!MergeBack(rc, n, s) = [rc EXCEPT ![s] = q]
  BY <1>1, <1>2, <1>5 DEF Contexts, Context
<1> HIDE DEF q
<1> QED BY <1>1, <1>6, <1>7 DEF Contexts, SameSteps

\* The end of a stage.
LEMMA FinishShape ==
  ASSUME Inside!TypeOK, Nested, stage \in {"pre", "main", "post"},
         NEW s \in Inside!Scopes, NEW e \in BOOLEAN, NEW ended \in BOOLEAN, NEW r \in Contexts,
         Inside!Finish(s, e, ended, r)
  PROVE  /\ rc' \in Contexts /\ SameSteps(rc', r)
         /\ broken' \in BOOLEAN
         /\ stage' \in {"pre", "main", "post", "over"}
         /\ stage' = "over" => s = "job"
         /\ next' \in [Inside!Scopes -> Nat] /\ \A u \in Inside!Scopes : next'[u] >= 1
<1>1. (e \/ ended) \in BOOLEAN
  OBVIOUS
<1>2. PICK f \in BOOLEAN : f = (e \/ ended)
  BY <1>1
<1>3. rc' = Inside!SetError(r, s, f)
  BY <1>2 DEF Inside!Finish
<1>4. rc' \in Contexts /\ SameSteps(rc', r)
  BY <1>3, SetErrorContexts
<1>5. broken' \in BOOLEAN
  BY Zenon DEF Inside!Finish
<1>6. stage' \in {"pre", "main", "post", "over"} /\ (stage' = "over" => s = "job")
  BY DEF Inside!Finish
<1>7. next' = [next EXCEPT ![s] = 1] \/ next' = [next EXCEPT ![s] = @ + 1]
  BY DEF Inside!Finish, Inside!TypeOK
<1>8. next' \in [Inside!Scopes -> Nat] /\ \A u \in Inside!Scopes : next'[u] >= 1
  <2>1. next \in [Inside!Scopes -> Nat] /\ \A u \in Inside!Scopes : next[u] >= 1
    BY DEF Inside!TypeOK, Nested
  <2>2. PICK k \in Nat : k >= 1 /\ next' = [next EXCEPT ![s] = k]
    BY <1>7, <2>1
  <2> QED BY <2>1, <2>2
<1> QED BY <1>4, <1>5, <1>6, <1>8

-----------------------------------------------------------------------------
(* Steps that leave the stack alone.                                       *)

\* The run contexts around the steps under way are not the innermost one.
LEMMA OuterIs ==
  ASSUME Inside!TypeOK, Nested
  PROVE  \A i \in DOMAIN stack : /\ Outer(i) \in Inside!Scopes /\ Outer(i) # Inside!Scope
                                 /\ stack[i] \in StepIds
                                 /\ i \in Nat \ {0} /\ i <= Len(stack)
<1> SUFFICES ASSUME NEW i \in DOMAIN stack
             PROVE  /\ Outer(i) \in Inside!Scopes /\ Outer(i) # Inside!Scope
                    /\ stack[i] \in StepIds
                    /\ i \in Nat \ {0} /\ i <= Len(stack)
  OBVIOUS
<1>1. /\ stack \in Seq(StepIds) /\ "job" \notin StepIds /\ Inside!Scopes = {"job"} \cup StepIds
      /\ stack # <<>> /\ Len(stack) \in Nat
  BY TreeShape
<1>2. i \in Nat \ {0} /\ i <= Len(stack) /\ stack[i] \in StepIds
  BY <1>1
<1>3. Inside!Scope = stack[Len(stack)] /\ Len(stack) \in DOMAIN stack /\ Inside!Scope \in StepIds
  BY <1>1, ScopeIs
<1>4. CASE i = 1
  BY <1>1, <1>2, <1>3, <1>4 DEF Outer
<1>5. CASE i # 1
  <2>1. i - 1 \in DOMAIN stack /\ i - 1 # Len(stack) /\ Outer(i) = stack[i - 1]
    BY <1>1, <1>2, <1>5 DEF Outer
  <2>2. stack[i - 1] \in StepIds
    BY <1>1, <2>1
  <2> QED BY <1>1, <1>2, <1>3, <2>1, <2>2 DEF Nested
<1> QED BY <1>4, <1>5

LEMMA StackKept ==
  ASSUME Inside!TypeOK, Nested, Handled, UNCHANGED <<tree, stack, saved, handler>>,
         \A i \in DOMAIN stack : rc'[Outer(i)].current = rc[Outer(i)].current,
         \A s \in Inside!Scopes : next'[s] >= 1,
         stack # <<>> => stage' # "over"
  PROVE  Nested' /\ Handled'
<1>1. \A i : Outer(i)' = Outer(i)
  BY DEF Outer
<1>2. \A n : Inside!ScopeOf(n)' = Inside!ScopeOf(n)
  BY DEF Inside!ScopeOf
<1>3. Nested'
  BY <1>1, <1>2 DEF Nested
<1>4. Handled'
  BY <1>1 DEF Handled
<1> QED BY <1>3, <1>4

\* Faults stay below their bound.
LEMMA FaultType ==
  ASSUME Inside!TypeOK, Inside!Fault \/ UNCHANGED faulty
  PROVE  faulty' \in 0..MaxFaults
<1>1. faulty \in 0..MaxFaults /\ MaxFaults \in Nat
  BY TreesAssumption DEF Inside!TypeOK
<1>2. CASE Inside!Fault
  BY <1>1, <1>2 DEF Inside!Fault
<1> QED BY <1>1, <1>2

\* A failure, or the end of a main stage, goes down in the history.
LEMMA RecordLogged ==
  ASSUME Logged, NEW f \in StagesOfSteps, NEW n \in StepIds
  PROVE  LET h == [hist EXCEPT !.failures = @ \cup {f}]
         IN  h \in Histories /\ h.saves = hist.saves /\ h.mains = hist.mains
BY DEF Logged, Histories

\* A stage that is over before its executor was called.
LEMMA EarlyStep ==
  ASSUME InsideInv, NEW n \in StepIds,
         Inside!PrepareFails(n) \/ Inside!Pass(n) \/ Inside!Skip(n)
  PROVE  InsideInv'
<1> DEFINE s == Inside!Scope
           marked == [rc EXCEPT ![s].current = n]
<1>0. Inside!TypeOK /\ Nested /\ Handled /\ Filed /\ Logged /\ Inside!OwnState
  BY DEF InsideInv
<1>1. Inside!Waiting(n)
  BY DEF Inside!PrepareFails, Inside!Pass, Inside!Skip
<1>2. s \in Inside!Scopes /\ stage \in {"pre", "main", "post"} /\ rc \in Contexts
  BY <1>0, <1>1, ScopeIs, WaitingIs, ContextsType
<1>3. PICK e \in BOOLEAN, r \in {rc, marked} : Inside!FinishEarly(n, e, r)
  BY DEF Inside!PrepareFails, Inside!Pass, Inside!Skip
<1>4. /\ UNCHANGED <<tree, stack, ret, expired, made, global, handler, saved, file, state, out>>
      /\ Inside!Finish(s, e, Inside!Ended, r)
  BY <1>3 DEF Inside!FinishEarly
<1>5. r \in Contexts /\ \A u \in Inside!Scopes : u # s => r[u].current = rc[u].current
  <2>1. marked \in Contexts /\ \A u \in Inside!Scopes : u # s => marked[u].current = rc[u].current
    BY <1>2 DEF Contexts, Context
  <2> HIDE DEF marked
  <2> QED BY <1>2, <1>3, <2>1
<1>6. Inside!Ended \in BOOLEAN
  BY DEF Inside!Ended
<1>7. /\ rc' \in Contexts /\ SameSteps(rc', r) /\ broken' \in BOOLEAN
      /\ stage' \in {"pre", "main", "post", "over"} /\ (stage' = "over" => s = "job")
      /\ next' \in [Inside!Scopes -> Nat] /\ \A u \in Inside!Scopes : next'[u] >= 1
  BY <1>0, <1>2, <1>4, <1>5, <1>6, FinishShape
<1>8. /\ action' \subseteq StepIds /\ faulty' \in 0..MaxFaults
      /\ conclusion' \in [StepIds -> {"none", "success", "failure", "skipped"}]
  <2>1. Inside!Fault \/ UNCHANGED faulty
    BY DEF Inside!PrepareFails, Inside!Pass, Inside!Skip
  <2>2. action' \subseteq StepIds
    <3>1. action' = action \/ action' = action \cup {n}
      BY DEF Inside!PrepareFails, Inside!Pass, Inside!Skip, Inside!Prepare
    <3> QED BY <1>0, <3>1 DEF Inside!TypeOK
  <2>3. conclusion' \in [StepIds -> {"none", "success", "failure", "skipped"}]
    BY <1>0 DEF Inside!PrepareFails, Inside!Pass, Inside!Skip, Inside!TypeOK
  <2> QED BY <1>0, <2>1, <2>2, <2>3, FaultType
<1>9. Inside!TypeOK'
  <2>1. PICK b \in BOOLEAN : broken' = b
    BY <1>7, Zenon
  <2> QED BY <1>0, <1>4, <1>7, <1>8, <2>1 DEF Inside!TypeOK, Contexts, Context
<1>10. Logged' /\ hist'.saves = hist.saves
  <2>1. stage \in {"pre", "main", "post"} /\ <<stage, n>> \in StagesOfSteps
    BY <1>2 DEF StagesOfSteps
  <2>2. \/ hist' = hist
        \/ hist' = [hist EXCEPT !.failures = @ \cup {<<stage, n>>}]
        \/ hist' = [[hist EXCEPT !.failures = @ \cup {<<stage, n>>}]
                        EXCEPT !.mains = IF Inside!Composite(n) THEN @ ELSE Append(@, n)]
    BY DEF Inside!PrepareFails, Inside!Pass, Inside!Skip, Inside!Record
  <2> DEFINE h == [hist EXCEPT !.failures = @ \cup {<<stage, n>>}]
  <2>3. CASE hist' = hist
    BY <1>0, <2>3 DEF Logged
  <2>4. CASE hist' = h
    BY <1>0, <2>1, <2>4, RecordLogged DEF Logged
  <2>5. CASE hist' = [h EXCEPT !.mains = IF Inside!Composite(n) THEN @ ELSE Append(@, n)]
    <3>1. PICK m \in Seq(StepIds) : hist' = [h EXCEPT !.mains = m]
      <4>1. h.mains \in Seq(StepIds) /\ Append(h.mains, n) \in Seq(StepIds)
        <5>1. h.mains = hist.mains
          BY <1>0, <2>1, RecordLogged
        <5>2. hist.mains \in Seq(StepIds)
          BY <1>0 DEF Logged, Histories
        <5> HIDE DEF h
        <5> QED BY <5>1, <5>2
      <4>2. hist' = [h EXCEPT !.mains = h.mains] \/ hist' = [h EXCEPT !.mains = Append(h.mains, n)]
        BY <2>5
      <4> QED BY <4>1, <4>2
    <3>2. h \in Histories /\ h.saves = hist.saves
      BY <1>0, <2>1, RecordLogged
    <3> HIDE DEF h
    <3> QED BY <3>1, <3>2 DEF Logged, Histories
  <2> QED BY <2>2, <2>3, <2>4, <2>5
<1>11. Nested' /\ Handled'
  <2>1. \A i \in DOMAIN stack : rc'[Outer(i)].current = rc[Outer(i)].current
    BY <1>0, <1>5, <1>7, OuterIs DEF SameSteps
  <2>2. stack # <<>> => stage' # "over"
    BY <1>0, <1>7, ScopeIs, TreeShape
  <2> QED BY <1>0, <1>4, <1>7, <2>1, <2>2, StackKept
<1>12. Filed'
  BY <1>0, <1>4 DEF Filed
<1>13. Inside!OwnState'
  BY <1>0, <1>4, <1>10 DEF Inside!OwnState, Inside!Composite
<1> QED BY <1>9, <1>10, <1>11, <1>12, <1>13 DEF InsideInv

\* A script, an action or a container ran; what it printed went to itself.
LEMMA RanStep ==
  ASSUME InsideInv, NEW how \in {"silent", "files", "prints", "refused"}, NEW ok \in BOOLEAN,
         Inside!Ran(how, ok), tree.kind[Inside!Scope] \in {"script", "action"},
         stage \in {"pre", "main", "post"},
         \/ hist' = Inside!Saves(how)
         \/ how = "silent" /\ hist' = [hist EXCEPT !.posts = Append(@, Inside!Scope)]
  PROVE  InsideInv'
<1> DEFINE n == Inside!Scope
<1>0. Inside!TypeOK /\ Nested /\ Handled /\ Filed /\ Logged /\ Inside!OwnState
  BY DEF InsideInv
<1>1. /\ UNCHANGED <<tree, stage, stack, next, expired, action, made, conclusion, global, handler,
                     saved, broken>>
      /\ ret' \in {"ok", "failed"} /\ stack # <<>>
      /\ file' = IF how = "files" THEN n ELSE file
      /\ rc' = IF how = "refused" THEN [rc EXCEPT ![handler].refused = TRUE] ELSE rc
  BY DEF Inside!Ran
<1>2. n \in StepIds /\ n = stack[Len(stack)] /\ Len(stack) \in DOMAIN stack
  BY <1>0, <1>1, ScopeIs
<1>3. rc[handler].current = n
  BY <1>0, <1>2 DEF Nested, Handled
<1>4. IF how = "prints"
      THEN /\ state' = [state EXCEPT ![n] = @ \cup {n}]
           /\ out' = IF stage = "main" THEN [out EXCEPT ![n] = @ \cup {n}] ELSE out
      ELSE UNCHANGED <<state, out>>
  BY <1>3 DEF Inside!Ran, Inside!HandlersStep
<1>5. handler \in Inside!Scopes /\ rc \in Contexts
  BY <1>0, ContextsType DEF Inside!TypeOK
<1>6. rc' \in Contexts /\ SameSteps(rc', rc)
  BY <1>1, <1>5 DEF Contexts, Context, SameSteps
<1>7. faulty' \in 0..MaxFaults
  <2>1. Inside!Fault \/ UNCHANGED faulty
    BY DEF Inside!Ran
  <2> QED BY <1>0, <2>1, FaultType
<1>8. Inside!TypeOK'
  <2>1. file' \in StepIds \cup {"none"}
    BY <1>0, <1>1, <1>2 DEF Inside!TypeOK
  <2>2. state' \in [StepIds -> SUBSET StepIds] /\ out' \in [StepIds -> SUBSET StepIds]
    <3>1. [state EXCEPT ![n] = @ \cup {n}] \in [StepIds -> SUBSET StepIds]
          /\ [out EXCEPT ![n] = @ \cup {n}] \in [StepIds -> SUBSET StepIds]
      BY <1>0, <1>2 DEF Inside!TypeOK
    <3>2. state \in [StepIds -> SUBSET StepIds] /\ out \in [StepIds -> SUBSET StepIds]
      BY <1>0 DEF Inside!TypeOK
    <3> QED BY <1>4, <3>1, <3>2
  <2> QED BY <1>0, <1>1, <1>6, <1>7, <2>1, <2>2 DEF Inside!TypeOK, Contexts, Context
<1>9. Logged' /\ hist'.saves = IF how = "prints" THEN hist.saves \cup {n} ELSE hist.saves
  <2>1. stage \in {"pre", "main", "post"} /\ <<stage, n>> \in StagesOfSteps
    BY <1>2 DEF StagesOfSteps
  <2>2. CASE hist' = Inside!Saves(how)
    <3> DEFINE v == IF how = "prints" THEN hist.saves \cup {n} ELSE hist.saves
               w == IF how = "refused" THEN hist.refusals \cup {<<stage, n>>} ELSE hist.refusals
    <3>1. hist' = [hist EXCEPT !.saves = v, !.refusals = w]
      BY <1>0, <2>2 DEF Inside!Saves, Logged, Histories
    <3>2. v \in SUBSET StepIds /\ w \in SUBSET StagesOfSteps
      BY <1>0, <1>2, <2>1 DEF Logged, Histories
    <3>3. hist'.saves = v
      <4> HIDE DEF v, w
      <4> QED BY <1>0, <3>1 DEF Logged, Histories
    <3>4. Logged'
      <4> HIDE DEF v, w
      <4> QED BY <1>0, <3>1, <3>2 DEF Logged, Histories
    <3> QED BY <3>3, <3>4
  <2>3. CASE how = "silent" /\ hist' = [hist EXCEPT !.posts = Append(@, n)]
    <3>1. Append(hist.posts, n) \in Seq(StepIds)
      BY <1>0, <1>2 DEF Logged, Histories
    <3> QED BY <1>0, <2>3, <3>1 DEF Logged, Histories
  <2> QED BY <2>2, <2>3
<1>10. Nested' /\ Handled'
  <2>1. \A i \in DOMAIN stack : rc'[Outer(i)].current = rc[Outer(i)].current
    BY <1>0, <1>6, OuterIs DEF SameSteps
  <2>2. (\A s \in Inside!Scopes : next'[s] >= 1) /\ stage' # "over"
    BY <1>0, <1>1 DEF Nested
  <2> QED BY <1>0, <1>1, <2>1, <2>2, StackKept
<1>11. Filed'
  BY <1>0, <1>1, <1>2 DEF Filed
<1>12. Inside!OwnState'
  BY <1>0, <1>1, <1>2, <1>4, <1>9 DEF Inside!OwnState, Inside!Composite, Inside!TypeOK
<1> QED BY <1>8, <1>9, <1>10, <1>11, <1>12 DEF InsideInv

\* The timeout of a step passes.
LEMMA ExpireStep ==
  ASSUME InsideInv, NEW n \in StepIds, Inside!Expire(n)
  PROVE  InsideInv'
<1>0. Inside!TypeOK /\ Nested /\ Handled /\ Filed /\ Logged /\ Inside!OwnState
  BY DEF InsideInv
<1>1. /\ UNCHANGED <<tree, stage, stack, next, ret, action, made, conclusion, rc, global,
                     handler, saved, file, state, out, broken, hist>>
      /\ expired' = expired \cup {n}
  BY DEF Inside!Expire
<1>2. faulty' \in 0..MaxFaults
  <2>1. Inside!Fault
    BY DEF Inside!Expire
  <2> QED BY <1>0, <2>1, FaultType
<1>3. Inside!TypeOK'
  BY <1>0, <1>1, <1>2 DEF Inside!TypeOK
<1>4. Nested' /\ Handled'
  BY <1>0, <1>1, StackKept DEF Nested
<1>5. Filed' /\ Logged' /\ Inside!OwnState'
  BY <1>0, <1>1 DEF Filed, Logged, Inside!OwnState, Inside!Composite
<1> QED BY <1>3, <1>4, <1>5 DEF InsideInv

\* The steps of a composite action are through: only its own outputs change.
LEMMA ChildrenOverStep ==
  ASSUME InsideInv, Inside!ChildrenOver
  PROVE  InsideInv'
<1> DEFINE n == Inside!Scope
           s == Inside!ScopeOf(n)
<1>0. Inside!TypeOK /\ Nested /\ Handled /\ Filed /\ Logged /\ Inside!OwnState
  BY DEF InsideInv
<1>1. /\ UNCHANGED <<tree, stage, stack, next, expired, action, made, conclusion, handler, saved,
                     file, state, broken, hist, faulty>>
      /\ ret' \in {"ok", "failed"} /\ stack # <<>> /\ tree.kind[n] = "composite"
  BY DEF Inside!ChildrenOver, Inside!Composite
<1>2. n \in StepIds /\ n = stack[Len(stack)] /\ Len(stack) \in DOMAIN stack
  BY <1>0, <1>1, ScopeIs
<1>3. s \in Inside!Scopes /\ rc \in Contexts
  BY <1>0, <1>2, OuterIs, ContextsType DEF Nested
<1>4. rc' \in Contexts /\ SameSteps(rc', rc)
  <2>1. rc' = Inside!MergeBack(rc, n, s) \/ rc' = rc
    BY DEF Inside!ChildrenOver
  <2> QED BY <1>0, <1>2, <1>3, <2>1, MergeBackContexts DEF SameSteps
<1>5. global' \in [Inside!Scopes -> StepIds \cup {"none"}]
  <2> DEFINE m == Inside!MapOf(rc, s)
             v == IF global[rc[n].map] # "none" THEN global[rc[n].map] ELSE global[m]
  <2>1. global \in [Inside!Scopes -> StepIds \cup {"none"}] /\ n \in Inside!Scopes
    BY <1>0, <1>2 DEF Inside!TypeOK, Inside!Scopes
  <2>2. m \in Inside!Scopes /\ rc[n].map \in Inside!Scopes \cup {"nil"}
    BY <1>3, <2>1 DEF Inside!MapOf, Contexts, Context
  <2>3. global' = global \/ (rc[n].map # "nil" /\ global' = [global EXCEPT ![m] = v])
    BY <2>1, <2>2 DEF Inside!ChildrenOver
  <2>4. rc[n].map # "nil" => v \in StepIds \cup {"none"}
    BY <2>1, <2>2
  <2> HIDE DEF m, v
  <2> QED BY <2>1, <2>2, <2>3, <2>4
<1>6. out' = out \/ out' = [out EXCEPT ![n] = @ \cup Inside!OutputsOf(n)]
  BY DEF Inside!ChildrenOver
<1>7. out' \in [StepIds -> SUBSET StepIds]
      /\ \A k \in StepIds : tree.kind[k] # "composite" => out'[k] = out[k]
  <2>1. Inside!OutputsOf(n) \subseteq StepIds
    BY DEF Inside!OutputsOf
  <2> QED BY <1>0, <1>1, <1>2, <1>6, <2>1 DEF Inside!TypeOK
<1>8. Inside!TypeOK'
  BY <1>0, <1>1, <1>4, <1>5, <1>7 DEF Inside!TypeOK, Contexts, Context
<1>9. Nested' /\ Handled'
  <2>1. \A i \in DOMAIN stack : rc'[Outer(i)].current = rc[Outer(i)].current
    BY <1>0, <1>4, OuterIs DEF SameSteps
  <2>2. (\A u \in Inside!Scopes : next'[u] >= 1) /\ stage' # "over"
    BY <1>0, <1>1 DEF Nested
  <2> QED BY <1>0, <1>1, <2>1, <2>2, StackKept
<1>10. Filed' /\ Logged' /\ Inside!OwnState'
  BY <1>0, <1>1, <1>7 DEF Filed, Logged, Inside!OwnState, Inside!Composite
<1> QED BY <1>8, <1>9, <1>10 DEF InsideInv

\* The executor of a stage is called: its step is the innermost now.
LEMMA EnterStep ==
  ASSUME InsideInv, NEW n \in StepIds, Inside!Begin(n) \/ Inside!FailsAtOnce(n)
  PROVE  InsideInv'
<1> DEFINE s == Inside!Scope
           entered == Inside!Entered(n)
           top == Len(stack) + 1
<1>0. Inside!TypeOK /\ Nested /\ Handled /\ Filed /\ Logged /\ Inside!OwnState
  BY DEF InsideInv
<1>1. Inside!Enter(n)
  BY DEF Inside!Begin, Inside!FailsAtOnce
<1>2. Inside!Waiting(n)
  BY <1>1 DEF Inside!Enter
<1>3. /\ s \in Inside!Scopes /\ s = Outer(top) /\ Len(stack) \in Nat
      /\ stack # <<>> => s = stack[Len(stack)] /\ s \in StepIds
      /\ stage \in {"pre", "main", "post"} /\ Inside!ScopeOf(n) = s
      /\ stack # <<>> => tree.kind[s] = "composite"
      /\ stack \in Seq(StepIds) /\ "job" \notin StepIds
  BY <1>0, <1>2, ScopeIs, WaitingIs, TreeShape
<1>4. /\ UNCHANGED <<tree, stage, expired, global, state, out, broken>>
      /\ stack' = Append(stack, n) /\ next' = [next EXCEPT ![n] = 1] /\ file' = "none"
      /\ handler' = IF s = "job" THEN handler ELSE s
      /\ saved' = [saved EXCEPT ![n] = handler]
      /\ hist' = IF stage = "main" /\ ~Inside!Composite(n)
                 THEN [hist EXCEPT !.mains = Append(@, n)] ELSE hist
  BY <1>1 DEF Inside!Enter, Inside!FilesReset
<1>5. Len(stack') = top /\ DOMAIN stack' = DOMAIN stack \cup {top} /\ stack'[top] = n
      /\ top \notin DOMAIN stack /\ \A i \in DOMAIN stack : stack'[i] = stack[i]
  BY <1>3, <1>4
<1>6. \A i \in DOMAIN stack' : Outer(i)' = Outer(i)
  BY <1>3, <1>4 DEF Outer
<1>7. entered \in Contexts /\ entered[s].current = n
      /\ \A u \in Inside!Scopes : u # s => entered[u].current = rc[u].current
  <2>1. rc \in Contexts
    BY <1>0, ContextsType
  <2>2. entered = [rc EXCEPT ![s].current = n, ![s].refused = FALSE]
    BY DEF Inside!Entered
  <2> DEFINE q == [rc[s] EXCEPT !.current = n, !.refused = FALSE]
  <2>3. q \in Context /\ q.current = n
    BY <1>3, <2>1 DEF Contexts, Context
  <2>4. entered = [rc EXCEPT ![s] = q]
    BY <1>3, <2>1, <2>2 DEF Contexts, Context
  <2> HIDE DEF q, entered
  <2> QED BY <1>3, <2>1, <2>3, <2>4 DEF Contexts
<1>8. rc' \in Contexts /\ SameSteps(rc', entered)
  <2>1. rc' = Inside!ContextOf(entered, n, s) \/ rc' = entered
    BY DEF Inside!Begin, Inside!FailsAtOnce
  <2> HIDE DEF entered
  <2> QED BY <1>3, <1>7, <2>1, ContextOfContexts DEF SameSteps
<1>9. Inside!TypeOK'
  <2>1. /\ ret' \in {"none", "failed"} /\ action' \subseteq StepIds /\ made' \subseteq StepIds
    BY <1>0 DEF Inside!Begin, Inside!FailsAtOnce, Inside!Prepare, Inside!TypeOK
  <2>2. conclusion' \in [StepIds -> {"none", "success", "failure", "skipped"}]
    BY <1>0, <1>1 DEF Inside!Enter, Inside!TypeOK
  <2>3. faulty' \in 0..MaxFaults
    <3>1. Inside!Fault \/ UNCHANGED faulty
      BY DEF Inside!Begin, Inside!FailsAtOnce
    <3> QED BY <1>0, <3>1, FaultType
  <2>4. stack' \in Seq(StepIds) /\ next' \in [Inside!Scopes -> Nat]
    <3>1. stack' \in Seq(StepIds)
      BY <1>3, <1>4
    <3>2. next \in [Inside!Scopes -> Nat]
      BY <1>0 DEF Inside!TypeOK
    <3> QED BY <1>4, <3>1, <3>2
  <2>5. handler' \in Inside!Scopes /\ saved' \in [StepIds -> Inside!Scopes]
    BY <1>0, <1>3, <1>4 DEF Inside!TypeOK
  <2> QED BY <1>0, <1>4, <1>8, <2>1, <2>2, <2>3, <2>4, <2>5 DEF Inside!TypeOK, Contexts, Context
<1>10. Logged' /\ hist'.saves = hist.saves
  <2>1. hist.mains \in Seq(StepIds) /\ Append(hist.mains, n) \in Seq(StepIds)
    BY <1>0 DEF Logged, Histories
  <2>2. hist' = hist \/ hist' = [hist EXCEPT !.mains = Append(hist.mains, n)]
    BY <1>4
  <2> QED BY <1>0, <2>1, <2>2 DEF Logged, Histories
<1>11. \A i \in DOMAIN stack : stack[i] # n
  <2>1. SUFFICES ASSUME NEW i \in DOMAIN stack, stack[i] = n PROVE FALSE
    OBVIOUS
  <2>2. Outer(i) = s /\ Outer(i) # s
    BY <1>0, <1>3, <2>1, OuterIs DEF Nested
  <2> QED BY <2>2
<1>12. Nested'
  <2>1. \A u \in Inside!Scopes : next'[u] >= 1
    BY <1>0, <1>4 DEF Nested, Inside!TypeOK
  <2>2. \A k : Inside!ScopeOf(k)' = Inside!ScopeOf(k)
    BY <1>4 DEF Inside!ScopeOf
  <2>3. \A i \in DOMAIN stack' : Inside!ScopeOf(stack'[i]) = Outer(i)
    BY <1>0, <1>3, <1>5 DEF Nested
  <2>4. \A i \in DOMAIN stack' : i < Len(stack') => tree.kind[stack'[i]] = "composite"
    <3>1. SUFFICES ASSUME NEW i \in DOMAIN stack, i < top PROVE tree.kind[stack[i]] = "composite"
      BY <1>5
    <3>2. i \in Nat /\ (i < Len(stack) \/ i = Len(stack)) /\ stack # <<>>
      BY <1>3, <3>1
    <3> QED BY <1>0, <1>3, <3>2 DEF Nested
  <2>5. \A i \in DOMAIN stack' : rc'[Outer(i)].current = stack'[i]
    <3>1. rc'[s].current = n
      BY <1>3, <1>7, <1>8 DEF SameSteps
    <3>2. ASSUME NEW i \in DOMAIN stack
          PROVE  rc'[Outer(i)].current = stack[i]
      <4>1. Outer(i) \in Inside!Scopes /\ Outer(i) # s
        BY <1>0, OuterIs
      <4>2. rc[Outer(i)].current = stack[i]
        BY <1>0 DEF Nested
      <4> HIDE DEF s, entered
      <4> QED BY <1>7, <1>8, <4>1, <4>2 DEF SameSteps
    <3> QED BY <1>3, <1>5, <3>1, <3>2
  <2>6. \A i, k \in DOMAIN stack' : stack'[i] = stack'[k] => i = k
    BY <1>0, <1>5, <1>11 DEF Nested
  <2>7. stage' # "over"
    BY <1>3, <1>4
  <2> QED BY <1>4, <1>6, <2>1, <2>2, <2>3, <2>4, <2>5, <2>6, <2>7 DEF Nested
<1>13. Handled'
  <2>1. handler' = s
    <3>1. CASE stack = <<>>
      BY <1>0, <1>3, <1>4, <3>1 DEF Handled, Outer
    <3>2. CASE stack # <<>>
      BY <1>3, <1>4, <3>2
    <3> QED BY <3>1, <3>2
  <2>2. handler' = Outer(Len(stack))'
    <3>1. PICK j \in Nat : j = top
      BY <1>3
    <3>2. Outer(j)' = s /\ Len(stack') = j
      BY <1>3, <1>5, <1>6, <3>1
    <3> QED BY <2>1, <3>2 DEF Outer
  <2>3. ASSUME NEW i \in DOMAIN stack', i > 1
        PROVE  saved'[stack'[i]] = Outer(i - 1)'
    <3>1. i - 1 \in DOMAIN stack'
      BY <1>3, <1>4, <2>3
    <3>2. Outer(i - 1)' = Outer(i - 1)
      BY <1>6, <3>1
    <3>3. CASE i = top
      <4>1. i - 1 = Len(stack) /\ stack'[i] = n
        BY <1>3, <1>5, <3>3
      <4>2. saved'[n] = handler
        BY <1>0, <1>4 DEF Inside!TypeOK
      <4> QED BY <1>0, <3>2, <4>1, <4>2 DEF Handled
    <3>4. CASE i # top
      <4>1. i \in DOMAIN stack /\ stack'[i] = stack[i] /\ stack[i] # n /\ stack[i] \in StepIds
        BY <1>0, <1>5, <1>11, <3>4, OuterIs
      <4>2. saved'[stack[i]] = saved[stack[i]]
        BY <1>0, <1>4, <4>1 DEF Inside!TypeOK
      <4> QED BY <1>0, <2>3, <3>2, <4>1, <4>2 DEF Handled
    <3> QED BY <3>3, <3>4
  <2> QED BY <2>2, <2>3 DEF Handled
<1>14. Filed' /\ Inside!OwnState'
  BY <1>0, <1>4, <1>10 DEF Filed, Inside!OwnState, Inside!Composite
<1> QED BY <1>9, <1>10, <1>12, <1>13, <1>14 DEF InsideInv

\* The stack without the innermost step.
LEMMA FrontShape ==
  ASSUME NEW S, NEW q \in Seq(S), q # <<>>
  PROVE  /\ Inside!Front(q) \in Seq(S) /\ Len(Inside!Front(q)) = Len(q) - 1
         /\ DOMAIN Inside!Front(q) = DOMAIN q \ {Len(q)}
         /\ \A i \in DOMAIN Inside!Front(q) : Inside!Front(q)[i] = q[i]
<1> DEFINE m == Len(q) - 1
           f == SubSeq(q, 1, m)
<1>1. Len(q) \in Nat \ {0} /\ m \in Nat /\ \A i \in 1..m : q[i] \in S
  OBVIOUS
<1>2. f \in Seq(S) /\ Len(f) = m /\ \A i \in 1..m : f[i] = q[i]
  <2> HIDE DEF m
  <2>1. /\ f \in Seq(S)
        /\ Len(f) = IF 1 <= m THEN m - 1 + 1 ELSE 0
        /\ \A i \in 1..(m - 1 + 1) : f[i] = q[1 + i - 1]
    <3>1. m \in Int /\ 1 \in Int
      BY <1>1
    <3> QED BY <1>1, <3>1, SubSeqProperties
  <2> HIDE DEF f
  <2>2. \A i \in 1..m : 1 + i - 1 = i /\ i \in 1..(m - 1 + 1)
    BY <1>1
  <2> QED BY <1>1, <2>1, <2>2
<1>3. Inside!Front(q) = f
  BY DEF Inside!Front
<1> HIDE DEF f
<1>4. DOMAIN f = 1..(Len(q) - 1) /\ DOMAIN q = 1..Len(q)
  BY <1>1, <1>2
<1> QED BY <1>1, <1>2, <1>3, <1>4

\* The executor of a stage has returned: the conclusion and the command files
\* go to the innermost step and its run context, which are the right ones.
LEMMA LeaveStep ==
  ASSUME InsideInv, NEW k \in 0..4, Inside!Leave(k)
  PROVE  InsideInv'
<1> DEFINE n == Inside!Scope
           s == Inside!ScopeOf(n)
           top == Len(stack)
           read == Inside!ReadFiles(n, s, k)
           kept == [read EXCEPT ![s].refused = FALSE]
<1>0. Inside!TypeOK /\ Nested /\ Handled /\ Filed /\ Logged /\ Inside!OwnState
  BY DEF InsideInv
<1>1. stack # <<>> /\ stack \in Seq(StepIds) /\ "job" \notin StepIds
  BY <1>0, TreeShape DEF Inside!Leave
<1>2. /\ n \in StepIds /\ n = stack[top] /\ top \in DOMAIN stack /\ top \in Nat \ {0}
      /\ n \in Inside!Scopes
  BY <1>0, <1>1, ScopeIs
<1>3. /\ s = Outer(top) /\ s \in Inside!Scopes
      /\ stage \in {"pre", "main", "post"}
  BY <1>0, <1>1, <1>2, OuterIs DEF Nested, Inside!TypeOK
<1>4. /\ UNCHANGED <<tree, action, made, saved, file>>
      /\ stack' = Inside!Front(stack) /\ ret' = "none" /\ expired' = expired \ {n}
      /\ handler' = IF s = "job" THEN handler ELSE saved[n]
  BY DEF Inside!Leave
<1>5. PICK raised \in BOOLEAN, ended \in BOOLEAN :
        /\ Inside!Finish(s, raised, ended, kept)
        /\ hist' = [Inside!Record(raised, n) EXCEPT
             !.last = IF file # "none" /\ k >= 1 THEN file ELSE @,
             !.saves = IF (file # "none" /\ k >= 2) /\ file = n THEN @ \cup {file} ELSE @,
             !.wrote = IF file # "none" /\ k >= 4 THEN @ \cup {file} ELSE @,
             !.inner = IF (file # "none" /\ k >= 1) /\ stage = "pre" /\ s # "job" THEN TRUE ELSE @,
             !.lost = IF stage = "post" /\ ret = "failed" /\ Inside!Composite(n)
                      THEN @ \cup {n} ELSE @]
  <2> DEFINE e == ret = "failed" \/ Inside!Refused(s)
             r == (e /\ n \notin tree.lenient) \/ k < Len(Inside!Commands)
             d == s # "job" /\ expired \cap Inside!Range(Inside!Front(stack)) # {}
  <2>1. r \in BOOLEAN /\ d \in BOOLEAN
    OBVIOUS
  <2>2. /\ Inside!Finish(s, r, d, kept)
        /\ hist' = [Inside!Record(r, n) EXCEPT
             !.last = IF file # "none" /\ k >= 1 THEN file ELSE @,
             !.saves = IF (file # "none" /\ k >= 2) /\ file = n THEN @ \cup {file} ELSE @,
             !.wrote = IF file # "none" /\ k >= 4 THEN @ \cup {file} ELSE @,
             !.inner = IF (file # "none" /\ k >= 1) /\ stage = "pre" /\ s # "job" THEN TRUE ELSE @,
             !.lost = IF stage = "post" /\ ret = "failed" /\ Inside!Composite(n)
                      THEN @ \cup {n} ELSE @]
    BY DEF Inside!Leave
  <2> HIDE DEF r, d
  <2> QED BY <2>1, <2>2
<1>6. kept \in Contexts /\ SameSteps(kept, rc)
  <2>1. read \in Contexts /\ SameSteps(read, rc)
    BY <1>0, <1>2, <1>3, ReadFilesContexts
  <2>2. kept \in Contexts /\ SameSteps(kept, read)
    <3> HIDE DEF read, s
    <3> QED BY <1>3, <2>1, RefusalTaken
  <2> HIDE DEF kept, read
  <2> QED BY <2>1, <2>2 DEF SameSteps
<1>7. /\ rc' \in Contexts /\ SameSteps(rc', rc) /\ broken' \in BOOLEAN
      /\ stage' \in {"pre", "main", "post", "over"} /\ (stage' = "over" => s = "job")
      /\ next' \in [Inside!Scopes -> Nat] /\ \A u \in Inside!Scopes : next'[u] >= 1
  <2> HIDE DEF kept, s
  <2> QED BY <1>0, <1>3, <1>5, <1>6, FinishShape DEF SameSteps
<1>8. /\ Len(stack') = top - 1 /\ DOMAIN stack' = DOMAIN stack \ {top}
      /\ \A i \in DOMAIN stack' : stack'[i] = stack[i]
      /\ stack' \in Seq(StepIds)
  BY <1>1, <1>2, <1>4, FrontShape
<1>9. Inside!TypeOK'
  <2>1. faulty' \in 0..MaxFaults
    <3>1. Inside!Fault \/ UNCHANGED faulty
      BY DEF Inside!Leave
    <3> QED BY <1>0, <3>1, FaultType
  <2>2. conclusion' \in [StepIds -> {"none", "success", "failure", "skipped"}]
    <3>1. conclusion' = conclusion \/ conclusion' = [conclusion EXCEPT ![n] = "failure"]
      BY DEF Inside!Leave
    <3> QED BY <1>0, <3>1 DEF Inside!TypeOK
  <2>3. global' \in [Inside!Scopes -> StepIds \cup {"none"}]
    <3>1. rc \in Contexts /\ file \in StepIds \cup {"none"}
      BY <1>0, ContextsType DEF Inside!TypeOK
    <3>2. Inside!MapOf(rc, s) \in Inside!Scopes
      BY <1>3, <3>1 DEF Inside!MapOf, Contexts, Context
    <3>3. PICK m \in Inside!Scopes : global' = global \/ global' = [global EXCEPT ![m] = file]
      BY <3>2 DEF Inside!Leave
    <3> QED BY <1>0, <3>1, <3>3 DEF Inside!TypeOK
  <2>4. state' \in [StepIds -> SUBSET StepIds] /\ out' \in [StepIds -> SUBSET StepIds]
    <3>1. state' = state \/ (file # "none" /\ state' = [state EXCEPT ![n] = @ \cup {file}])
      BY DEF Inside!Leave
    <3>2. out' = out \/ (file # "none" /\ out' = [out EXCEPT ![n] = @ \cup {file}])
      BY DEF Inside!Leave
    <3>3. /\ file # "none" => file \in StepIds
          /\ state \in [StepIds -> SUBSET StepIds] /\ out \in [StepIds -> SUBSET StepIds]
      BY <1>0 DEF Inside!TypeOK
    <3>4. state' \in [StepIds -> SUBSET StepIds]
      BY <3>1, <3>3
    <3>5. out' \in [StepIds -> SUBSET StepIds]
      BY <3>2, <3>3
    <3> QED BY <3>4, <3>5
  <2>5. handler' \in Inside!Scopes
    BY <1>0, <1>2, <1>4 DEF Inside!TypeOK
  <2>6. expired' \subseteq StepIds /\ ret' = "none" /\ stack' \in Seq(StepIds)
    BY <1>0, <1>4, <1>8 DEF Inside!TypeOK
  <2>7. PICK b \in BOOLEAN : broken' = b
    BY <1>7, Zenon
  <2> QED BY <1>0, <1>4, <1>7, <2>1, <2>2, <2>3, <2>4, <2>5, <2>6, <2>7
          DEF Inside!TypeOK, Contexts, Context
<1>10. Logged' /\ hist'.saves = IF (file # "none" /\ k >= 2) /\ file = n
                                THEN hist.saves \cup {file} ELSE hist.saves
  <2> DEFINE h == Inside!Record(raised, n)
             a == IF file # "none" /\ k >= 1 THEN file ELSE h.last
             b == IF (file # "none" /\ k >= 2) /\ file = n THEN h.saves \cup {file} ELSE h.saves
             c == IF file # "none" /\ k >= 4 THEN h.wrote \cup {file} ELSE h.wrote
             d == IF (file # "none" /\ k >= 1) /\ stage = "pre" /\ s # "job" THEN TRUE ELSE h.inner
             g == IF stage = "post" /\ ret = "failed" /\ Inside!Composite(n)
                  THEN h.lost \cup {n} ELSE h.lost
  <2>1. h \in Histories /\ h.saves = hist.saves
    <3>1. <<stage, n>> \in StagesOfSteps
      BY <1>2, <1>3 DEF StagesOfSteps
    <3>2. h = hist \/ h = [hist EXCEPT !.failures = @ \cup {<<stage, n>>}]
      BY DEF Inside!Record
    <3> HIDE DEF h
    <3> QED BY <1>0, <1>2, <3>1, <3>2, RecordLogged DEF Logged
  <2>2. file \in StepIds \cup {"none"}
    BY <1>0 DEF Inside!TypeOK
  <2>3. /\ a \in StepIds \cup {"none"} /\ b \in SUBSET StepIds /\ c \in SUBSET StepIds
        /\ g \in SUBSET StepIds
    <3> HIDE DEF h
    <3> QED BY <1>2, <2>1, <2>2 DEF Histories
  <2>4. d \in BOOLEAN
    <3> HIDE DEF h
    <3> QED BY <2>1 DEF Histories
  <2>5. hist' = [h EXCEPT !.last = a, !.saves = b, !.wrote = c, !.inner = d, !.lost = g]
    BY <1>5
  <2>6. Logged' /\ hist'.saves = b
    <3> HIDE DEF a, b, c, d, g, h
    <3> QED BY <2>1, <2>3, <2>4, <2>5 DEF Logged, Histories
  <2> QED BY <2>1, <2>6
<1>11. \A j \in 1..top : Outer(j)' = Outer(j)
  BY <1>1, <1>2, <1>4 DEF Outer, Inside!Front
<1>12. Nested'
  <2>1. \A j : Inside!ScopeOf(j)' = Inside!ScopeOf(j)
    BY <1>4 DEF Inside!ScopeOf
  <2>2. stack' # <<>> => stage' # "over"
    <3>1. SUFFICES ASSUME stack' # <<>>, s = "job" PROVE FALSE
      BY <1>7
    <3>2. top # 1 /\ top - 1 \in DOMAIN stack /\ Outer(top) = stack[top - 1]
      BY <1>2, <1>8, <3>1 DEF Outer
    <3> QED BY <1>0, <1>1, <1>3, <3>1, <3>2, OuterIs
  <2>3. ASSUME NEW i \in DOMAIN stack'
        PROVE  /\ Inside!ScopeOf(stack'[i]) = Outer(i)
               /\ i < Len(stack') => tree.kind[stack'[i]] = "composite"
               /\ rc'[Outer(i)].current = stack'[i]
               /\ \A j \in DOMAIN stack' : stack'[i] = stack'[j] => i = j
               /\ i \in 1..top
    <3>1. i \in DOMAIN stack /\ stack'[i] = stack[i] /\ i \in 1..top /\ i < top
      BY <1>2, <1>8
    <3>2. rc'[Outer(i)].current = stack[i]
      BY <1>0, <1>7, <3>1, OuterIs DEF Nested, SameSteps
    <3> QED BY <1>0, <1>8, <3>1, <3>2 DEF Nested
  <2> QED BY <1>4, <1>7, <1>11, <2>1, <2>2, <2>3 DEF Nested
<1>13. Handled'
  <2>1. handler' = Outer(top - 1)
    <3>1. CASE top = 1
      BY <1>0, <1>3, <1>4, <3>1 DEF Handled, Outer
    <3>2. CASE top # 1
      <4>0. top > 1 /\ top - 1 \in DOMAIN stack
        <5>1. DOMAIN stack = 1..top
          BY <1>1
        <5> HIDE DEF top
        <5> QED BY <1>2, <3>2, <5>1
      <4>1. s = stack[top - 1] /\ s \in StepIds
        BY <1>1, <1>3, <4>0 DEF Outer
      <4>2. saved[stack[top]] = Outer(top - 1)
        BY <1>0, <1>2, <4>0 DEF Handled
      <4> QED BY <1>1, <1>2, <1>4, <4>1, <4>2
    <3> QED BY <3>1, <3>2
  <2>2. handler' = Outer(Len(stack))'
    <3>1. PICK j \in Nat : j = top - 1
      BY <1>2
    <3>2. Outer(j)' = Outer(j)
      BY <1>1, <1>2, <1>4, <3>1 DEF Outer, Inside!Front
    <3>3. Len(stack') = j
      BY <1>8, <3>1
    <3> QED BY <2>1, <3>1, <3>2, <3>3 DEF Outer
  <2>3. ASSUME NEW i \in DOMAIN stack', i > 1
        PROVE  saved'[stack'[i]] = Outer(i - 1)'
    <3>1. i \in DOMAIN stack /\ stack'[i] = stack[i] /\ i - 1 \in 1..top
      BY <1>2, <1>8, <2>3
    <3> QED BY <1>0, <1>4, <1>11, <2>3, <3>1 DEF Handled
  <2> QED BY <2>2, <2>3 DEF Handled
<1>14. Filed'
  <2>1. stack' # <<>> => tree.kind[stack'[Len(stack')]] = "composite"
    <3>1. SUFFICES ASSUME stack' # <<>> PROVE tree.kind[stack'[top - 1]] = "composite"
      BY <1>8
    <3>2. top - 1 \in DOMAIN stack /\ top - 1 < Len(stack) /\ stack'[top - 1] = stack[top - 1]
      BY <1>1, <1>2, <1>8, <3>1
    <3> QED BY <1>0, <3>2 DEF Nested
  <2> QED BY <1>4, <2>1 DEF Filed
<1>15. Inside!OwnState'
  <2>1. state' = IF file # "none" /\ k >= 2 THEN [state EXCEPT ![n] = @ \cup {file}] ELSE state
    BY DEF Inside!Leave
  <2>2. out' = out \/ (file # "none" /\ out' = [out EXCEPT ![n] = @ \cup {file}])
    BY DEF Inside!Leave
  <2>3. tree.kind[n] # "composite" => file \in {"none", n}
    BY <1>0, <1>1, <1>2 DEF Filed
  <2> QED BY <1>0, <1>2, <1>4, <1>10, <2>1, <2>2, <2>3
          DEF Inside!OwnState, Inside!Composite, Inside!TypeOK
<1> QED BY <1>9, <1>10, <1>12, <1>13, <1>14, <1>15 DEF InsideInv

-----------------------------------------------------------------------------
(* Every behaviour of the stages.                                          *)

LEMMA InitInside == Inside!Init => InsideInv
<1> SUFFICES ASSUME Inside!Init PROVE InsideInv
  OBVIOUS
<1>1. Inside!Scopes = {"job"} \cup StepIds
  BY DEF Inside!Scopes
<1>2. rc \in Contexts
  BY <1>1 DEF Inside!Init, Contexts, Context
<1>3. /\ tree \in Trees /\ stage \in {"pre", "main", "post", "over"} /\ stack \in Seq(StepIds)
      /\ next \in [Inside!Scopes -> Nat] /\ ret \in {"none", "ok", "failed"}
      /\ expired \subseteq StepIds /\ action \subseteq StepIds /\ made \subseteq StepIds
  BY DEF Inside!Init
<1>4. /\ conclusion \in [StepIds -> {"none", "success", "failure", "skipped"}]
      /\ global \in [Inside!Scopes -> StepIds \cup {"none"}]
      /\ handler \in Inside!Scopes /\ saved \in [StepIds -> Inside!Scopes]
      /\ file \in StepIds \cup {"none"}
  BY <1>1 DEF Inside!Init
<1>5. /\ state \in [StepIds -> SUBSET StepIds] /\ out \in [StepIds -> SUBSET StepIds]
      /\ faulty \in 0..MaxFaults
  BY TreesAssumption DEF Inside!Init
<1>6. broken \in BOOLEAN
  BY Zenon DEF Inside!Init
<1>7. Inside!TypeOK
  BY <1>2, <1>3, <1>4, <1>5, <1>6, Zenon DEF Inside!TypeOK, Contexts, Context
<1>8. Logged
  <2>1. /\ <<>> \in Seq(StepIds) /\ {} \in SUBSET StepIds /\ {} \in SUBSET StagesOfSteps
    OBVIOUS
  <2> QED BY <2>1 DEF Inside!Init, Logged, Histories
<1>9. Nested /\ Handled /\ Filed
  BY DEF Inside!Init, Nested, Handled, Filed, Outer
<1>10. Inside!OwnState
  BY DEF Inside!Init, Inside!OwnState
<1> QED BY <1>7, <1>8, <1>9, <1>10 DEF InsideInv

LEMMA NextInside == InsideInv /\ [Inside!Next]_inside => InsideInv'
<1> SUFFICES ASSUME InsideInv, [Inside!Next]_inside PROVE InsideInv'
  OBVIOUS
<1>1. CASE UNCHANGED inside
  <2>1. /\ UNCHANGED <<tree, stage, stack, next, ret, expired, action, made, conclusion>>
        /\ UNCHANGED <<rc, global, handler, saved, file, state, out, broken, hist, faulty>>
    BY <1>1 DEF inside
  <2>2. Inside!TypeOK'
    BY <2>1 DEF InsideInv, Inside!TypeOK
  <2>3. Logged' /\ Filed'
    BY <2>1 DEF InsideInv, Logged, Filed
  <2>4. Nested'
    BY <2>1 DEF InsideInv, Nested, Outer, Inside!ScopeOf
  <2>5. Handled'
    BY <2>1 DEF InsideInv, Handled, Outer
  <2>6. Inside!OwnState'
    BY <2>1 DEF InsideInv, Inside!OwnState, Inside!Composite
  <2> QED BY <2>2, <2>3, <2>4, <2>5, <2>6 DEF InsideInv
<1>2. ASSUME NEW n \in StepIds,
             \/ Inside!PrepareFails(n) \/ Inside!Pass(n) \/ Inside!Skip(n) \/ Inside!Begin(n)
             \/ Inside!ReadFails(n) \/ Inside!CopyFails(n) \/ Inside!Expire(n)
      PROVE  InsideInv'
  BY <1>2, EarlyStep, EnterStep, ExpireStep DEF Inside!ReadFails, Inside!CopyFails
<1>3. ASSUME NEW how \in {"silent", "files", "prints", "refused"}, NEW ok \in BOOLEAN,
             Inside!RunScript(how, ok) \/ Inside!RunAction(how, ok) \/ Inside!RunPre(how, ok)
      PROVE  InsideInv'
  <2>1. /\ Inside!Ran(how, ok) /\ tree.kind[Inside!Scope] \in {"script", "action"}
        /\ stage \in {"pre", "main", "post"} /\ hist' = Inside!Saves(how)
    BY <1>3, Zenon DEF Inside!RunScript, Inside!RunAction, Inside!RunPre
  <2> QED BY <2>1, RanStep
<1>4. ASSUME NEW ok \in BOOLEAN, Inside!RunPost(ok)
      PROVE  InsideInv'
  <2>1. /\ Inside!Ran("silent", ok) /\ tree.kind[Inside!Scope] \in {"script", "action"}
        /\ stage \in {"pre", "main", "post"}
        /\ hist' = [hist EXCEPT !.posts = Append(@, Inside!Scope)]
    BY <1>4, Zenon DEF Inside!RunPost
  <2> QED BY <2>1, RanStep
<1>5. ASSUME NEW k \in 0..Len(Inside!Commands), Inside!Leave(k)
      PROVE  InsideInv'
  <2>1. Len(Inside!Commands) = 4
    BY DEF Inside!Commands
  <2> QED BY <1>5, <2>1, LeaveStep
<1>6. CASE Inside!Over
  BY <1>1, <1>6 DEF Inside!Over, Inside!vars, inside
<1>7. CASE Inside!Next
  BY <1>2, <1>3, <1>4, <1>5, <1>6, <1>7, ChildrenOverStep DEF Inside!Next
<1> QED BY <1>1, <1>7

\* At the level of the stages the module's behaviours are theirs.
LEMMA InsideInductive == JobSpec => [](level = "steps" => InsideInv)
<1>1. JobInit => (level = "steps" => InsideInv)
  BY InitInside DEF JobInit
<1>2. (level = "steps" => InsideInv) /\ [JobNext]_everything => (level = "steps" => InsideInv)'
  <2> SUFFICES ASSUME level = "steps" => InsideInv, [JobNext]_everything, level' = "steps"
               PROVE  InsideInv'
    OBVIOUS
  <2>1. level = "steps" /\ [Inside!Next]_inside
    BY DEF JobNext, OfJob, OfSteps, everything
  <2> QED BY <2>1, NextInside
<1> QED BY <1>1, <1>2, PTL DEF JobSpec

\* Every variable of both levels keeps its type.
THEOREM JobTyped == JobSpec => []JobTypeOK
<1>1. JobInit => level \in {"job", "steps"}
  BY DEF JobInit
<1>2. level \in {"job", "steps"} /\ [JobNext]_everything => (level \in {"job", "steps"})'
  BY DEF JobNext, OfJob, OfSteps, everything
<1>3. /\ level \in {"job", "steps"}
      /\ level = "job" => IInv
      /\ level = "steps" => InsideInv
      => JobTypeOK
  BY DEF JobTypeOK, IInv, Rest, InsideInv
<1> QED BY <1>1, <1>2, <1>3, JobInductive, InsideInductive, PTL DEF JobSpec

\* What a step saves and puts out goes to that very step, and the post stage of
\* an action finds all that its other stages saved, whatever the job's tree of
\* composite actions, although all steps share the command files and every
\* composite action puts a handler of its own in the place of its parent's.
THEOREM StateIsOwn == JobSpec => [](level = "steps" => Inside!OwnState)
<1>1. (level = "steps" => InsideInv) => (level = "steps" => Inside!OwnState)
  BY DEF InsideInv
<1> QED BY <1>1, InsideInductive, PTL

-----------------------------------------------------------------------------
(* What a step sees: the values set by all earlier ones.                   *)

\* How many of the run contexts around the steps under way are up to date or
\* will be once those inside of them are merged: in the main stage down to the
\* one whose steps are being run, before it only the job's own.
Depth ==
    IF stage # "main" THEN 1
    ELSE IF stack # <<>> /\ (ret # "none" \/ tree.kind[Inside!Scope] # "composite")
    THEN Len(stack) ELSE Len(stack) + 1

\* The steps of a run context, or of the context whose map it has, set a
\* variable.
HasSet(s) == rc[s].map # "nil" /\ global[rc[s].map] # "none"

\* The innermost context has the latest values, and so has one around it
\* unless one in between has a newer one that is still to be merged.
Relevant == stage \in {"pre", "main"} /\ ~hist.inner
UpToDate(i) ==
    /\ rc[Outer(i)].env = hist.last
    /\ HasSet(Outer(i)) => global[rc[Outer(i)].map] = hist.last
Seen ==
    Relevant =>
        /\ hist.wrote \subseteq rc[Outer(Depth)].path
        /\ \A i \in 1..Depth : (\A j \in (i + 1)..Depth : ~HasSet(Outer(j))) => UpToDate(i)

\* A map exists from the first variable, or merge, on, and only then has values.
Maps ==
    \A s \in Inside!Scopes :
        /\ rc[s].map = "nil" => global[s] = "none"
        /\ rc[s].map # "nil" => rc[rc[s].map].map # "nil"
        /\ s \notin made \cup {"job"} => rc[s].map = "nil"

\* Until its main stage a composite action has its parent's map or none.
Inherited ==
    /\ \A n \in made : Inside!ScopeOf(n) \in Inside!Scopes
    /\ Relevant => \A n \in made :
           conclusion[n] = "none" => rc[n].map \in {"nil", rc[Inside!ScopeOf(n)].map}

\* The composite actions under way have their run contexts.
MadeUp ==
    /\ \A i \in DOMAIN stack : i < Len(stack) => stack[i] \in made
    /\ stack # <<>> /\ ret = "none" /\ tree.kind[Inside!Scope] = "composite" =>
          Inside!Scope \in made

\* A main stage has begun only where the run context it belongs to has come to.
Turn ==
    /\ stage = "pre" => \A n \in StepIds : conclusion[n] = "none"
    /\ stage = "main" =>
        /\ \A i \in DOMAIN stack : conclusion[stack[i]] # "none"
        /\ \A s \in Inside!Scopes : \A i \in DOMAIN tree.child[s] :
               conclusion[tree.child[s][i]] # "none" =>
                   /\ s = "job" \/ conclusion[s] # "none"
                   /\ \/ i < next[s]
                      \/ i = next[s] /\ \E k \in DOMAIN stack : stack[k] = tree.child[s][i]

SeenInv == Seen /\ Maps /\ Inherited /\ MadeUp /\ Turn

\* Two of the run contexts around the steps under way are not the same.
LEMMA OuterApart ==
  ASSUME Inside!TypeOK, Nested
  PROVE  /\ Len(stack) \in Nat
         /\ \A i \in 1..(Len(stack) + 1) : Outer(i) \in Inside!Scopes
         /\ \A i, k \in 1..(Len(stack) + 1) : Outer(i) = Outer(k) => i = k
<1>1. /\ stack \in Seq(StepIds) /\ "job" \notin StepIds /\ Inside!Scopes = {"job"} \cup StepIds
  BY TreeShape
<1>2. /\ Len(stack) \in Nat /\ DOMAIN stack = 1..Len(stack)
      /\ \A i \in DOMAIN stack : stack[i] \in StepIds
  BY <1>1
<1>3. \A i \in 1..(Len(stack) + 1) : i # 1 => i - 1 \in DOMAIN stack /\ Outer(i) = stack[i - 1]
  BY <1>2 DEF Outer
<1>4. Outer(1) = "job"
  BY DEF Outer
<1>5. \A i \in 1..(Len(stack) + 1) : Outer(i) \in Inside!Scopes
  BY <1>1, <1>2, <1>3, <1>4
<1>6. ASSUME NEW i \in 1..(Len(stack) + 1), NEW k \in 1..(Len(stack) + 1), Outer(i) = Outer(k)
      PROVE  i = k
  <2>1. CASE i = 1 \/ k = 1
    BY <1>1, <1>2, <1>3, <1>4, <1>6, <2>1
  <2>2. CASE i # 1 /\ k # 1
    <3>1. i - 1 = k - 1
      BY <1>3, <1>6, <2>2 DEF Nested
    <3> QED BY <1>2, <3>1
  <2> QED BY <2>1, <2>2
<1> QED BY <1>2, <1>5, <1>6

LEMMA DepthIs ==
  ASSUME Inside!TypeOK
  PROVE  Depth \in 1..(Len(stack) + 1) /\ Len(stack) \in Nat
<1>1. stack \in Seq(StepIds)
  BY TreeShape
<1>2. Len(stack) \in Nat /\ (stack # <<>> => Len(stack) >= 1)
  BY <1>1
<1> QED BY <1>2 DEF Depth

\* The step a run context is at is a new one, and has not begun its main stage
\* before.
LEMMA WaitingAt ==
  ASSUME Inside!TypeOK, Nested, NEW n \in StepIds, Inside!Waiting(n)
  PROVE  /\ stage # "post" => /\ next[Inside!Scope] \in DOMAIN tree.child[Inside!Scope]
                              /\ n = tree.child[Inside!Scope][next[Inside!Scope]]
         /\ \A i \in DOMAIN stack : stack[i] # n
         /\ n # Inside!Scope
<1> DEFINE s == Inside!Scope
           c == tree.child[s]
<1>1. s \in Inside!Scopes /\ c \in Seq(StepIds) /\ Inside!ScopeOf(n) = s
  BY ScopeIs, TreeShape, WaitingIs
<1>2. next[s] \in Nat \ {0} /\ next[s] <= Len(c) /\ Len(c) \in Nat
  BY <1>1 DEF Inside!Waiting, Nested, Inside!TypeOK
<1>3. stage # "post" => next[s] \in DOMAIN c /\ n = c[next[s]]
  BY <1>1, <1>2 DEF Inside!Waiting, Inside!StepOf
<1>4. \A i \in DOMAIN stack : stack[i] # n
  <2>1. SUFFICES ASSUME NEW i \in DOMAIN stack, stack[i] = n PROVE FALSE
    OBVIOUS
  <2>2. Outer(i) = s /\ Outer(i) # s
    BY <1>1, <2>1, OuterIs DEF Nested
  <2> QED BY <2>2
<1>5. n # s
  <2>1. CASE stack = <<>>
    BY <2>1, TreeShape DEF Inside!Scope
  <2>2. CASE stack # <<>>
    BY <1>4, <2>2, ScopeIs
  <2> QED BY <2>1, <2>2
<1> QED BY <1>3, <1>4, <1>5

\* The values of two sets of run contexts.
SameValues(q, r) ==
    \A s \in Inside!Scopes : q[s].env = r[s].env /\ q[s].map = r[s].map /\ q[s].path = r[s].path

\* The end of a stage changes no value, and the turn goes to the next step or,
\* after the last one of the job, to the next stage.
LEMMA FinishValues ==
  ASSUME Inside!TypeOK, stage \in {"pre", "main", "post"},
         NEW s \in Inside!Scopes, NEW e \in BOOLEAN, NEW ended \in BOOLEAN, NEW r \in Contexts,
         Inside!Finish(s, e, ended, r)
  PROVE  /\ SameValues(rc', r)
         /\ \/ stage' = stage /\ next' = [next EXCEPT ![s] = @ + 1]
            \/ s = "job" /\ (stage = "pre" => stage' = "main")
                         /\ (stage = "main" => stage' = "post")
                         /\ (stage = "post" => stage' = "over")
<1>1. PICK f \in BOOLEAN : f = (e \/ ended)
  OBVIOUS
<1>2. rc' = Inside!SetError(r, s, f)
  BY <1>1 DEF Inside!Finish
<1>3. "job" \in Inside!Scopes
  BY DEF Inside!Scopes
<1>4. \A u \in Inside!Scopes : SameValues([r EXCEPT ![u].err = TRUE], r)
  BY DEF Contexts, Context, SameValues
<1>5. SameValues(rc', r)
  BY <1>2, <1>3, <1>4 DEF Inside!SetError, SameValues
<1>6. \/ stage' = stage /\ next' = [next EXCEPT ![s] = @ + 1]
      \/ s = "job" /\ (stage = "pre" => stage' = "main")
                   /\ (stage = "main" => stage' = "post")
                   /\ (stage = "post" => stage' = "over")
  BY DEF Inside!Finish
<1> QED BY <1>5, <1>6

-----------------------------------------------------------------------------
(* Steps that change no value.                                             *)

ValuesKept ==
    /\ SameValues(rc', rc) /\ UNCHANGED <<tree, global>>
    /\ hist'.last = hist.last /\ hist'.wrote = hist.wrote /\ hist'.inner = hist.inner
    /\ stage' \in {"pre", "main"} => stage \in {"pre", "main"}

LEMMA SeenKept ==
  ASSUME InsideInv, Seen, ValuesKept, stage' \in {"pre", "main"} => Depth' = Depth,
         \A i \in 1..Depth : Outer(i)' = Outer(i)
  PROVE  Seen'
<1>1. Inside!TypeOK /\ Nested
  BY DEF InsideInv
<1>2. SUFFICES ASSUME Relevant' PROVE Seen'
  BY DEF Seen
<1>3. Relevant /\ Depth' = Depth
  BY <1>2 DEF Relevant, ValuesKept
<1>4. /\ Depth \in Nat /\ Depth \in 1..Depth
      /\ \A i \in 1..Depth : Outer(i) \in Inside!Scopes
  BY <1>1, DepthIs, OuterApart
<1>5. \A i \in 1..Depth :
        /\ Outer(i)' = Outer(i) /\ rc'[Outer(i)].env = rc[Outer(i)].env
        /\ rc'[Outer(i)].map = rc[Outer(i)].map /\ rc'[Outer(i)].path = rc[Outer(i)].path
  BY <1>4 DEF ValuesKept, SameValues
<1>6. \A i \in 1..Depth : HasSet(Outer(i))' <=> HasSet(Outer(i))
  BY <1>5 DEF HasSet, ValuesKept
<1>7. hist'.wrote \subseteq rc'[Outer(Depth)'].path
  BY <1>3, <1>4, <1>5 DEF Seen, ValuesKept
<1>8. ASSUME NEW i \in 1..Depth, \A j \in (i + 1)..Depth : ~HasSet(Outer(j))'
      PROVE  UpToDate(i)'
  <2>1. \A j \in (i + 1)..Depth : ~HasSet(Outer(j))
    <3>1. ASSUME NEW j \in (i + 1)..Depth PROVE ~HasSet(Outer(j))
      <4>1. j \in 1..Depth
        BY <1>4
      <4> QED BY <1>6, <1>8, <4>1
    <3> QED BY <3>1
  <2>2. UpToDate(i)
    BY <1>3, <2>1 DEF Seen
  <2> QED BY <1>5, <1>6, <2>2 DEF UpToDate, ValuesKept
<1>9. Outer(Depth)' = Outer(Depth)'
  OBVIOUS
<1> QED BY <1>3, <1>5, <1>7, <1>8 DEF Seen

LEMMA MapsKept ==
  ASSUME Maps, SameValues(rc', rc), UNCHANGED <<global, made>>, rc \in Contexts
  PROVE  Maps'
<1>1. \A s \in Inside!Scopes : rc[s].map \in Inside!Scopes \cup {"nil"}
  BY DEF Contexts, Context
<1> QED BY <1>1 DEF Maps, SameValues

LEMMA InheritedKept ==
  ASSUME Inherited, SameValues(rc', rc), UNCHANGED <<tree, made>>, made \subseteq StepIds,
         Relevant' => Relevant, \A n \in made : conclusion'[n] = "none" => conclusion[n] = "none"
  PROVE  Inherited'
<1>1. \A n : Inside!ScopeOf(n)' = Inside!ScopeOf(n)
  BY DEF Inside!ScopeOf
<1>2. \A n \in made : n \in Inside!Scopes
  BY DEF Inside!Scopes
<1> QED BY <1>1, <1>2 DEF Inherited, SameValues

LEMMA TurnKept ==
  ASSUME Turn, UNCHANGED <<tree, stage, stack, next, conclusion>>
  PROVE  Turn'
BY DEF Turn

-----------------------------------------------------------------------------
(* A value that arrives in a run context: its own, or what it takes over.  *)

\* The names of the run contexts are no names of anything else.
LEMMA Names == "nil" \notin Inside!Scopes /\ "none" \notin Inside!Scopes
BY TreesAssumption DEF Inside!Scopes

LEMMA MapsTaken ==
  ASSUME Maps, rc \in Contexts, NEW s \in Inside!Scopes, s \in made \cup {"job"}, made' = made,
         \A u \in Inside!Scopes : u # s => rc'[u].map = rc[u].map,
         rc'[s].map = Inside!MapOf(rc, s),
         \A u \in Inside!Scopes : u # Inside!MapOf(rc, s) => global'[u] = global[u]
  PROVE  Maps'
<1> DEFINE m == Inside!MapOf(rc, s)
<1>1. /\ \A u \in Inside!Scopes : rc[u].map \in Inside!Scopes \cup {"nil"}
      /\ m \in Inside!Scopes /\ (m = s \/ (m = rc[s].map /\ rc[s].map # "nil"))
      /\ rc[s].map = "nil" => m = s
  BY DEF Contexts, Context, Inside!MapOf
<1>2. m # "nil"
  BY <1>1, Names
<1> HIDE DEF m
<1>3. rc'[m].map # "nil" /\ rc'[s].map = m
  BY <1>1, <1>2 DEF Maps, m
<1>4. ASSUME NEW u \in Inside!Scopes
      PROVE  /\ rc'[u].map = "nil" => global'[u] = "none"
             /\ rc'[u].map # "nil" => rc'[rc'[u].map].map # "nil"
             /\ u \notin made' \cup {"job"} => rc'[u].map = "nil"
  <2>1. CASE u = s
    BY <1>2, <1>3, <2>1
  <2>2. CASE u # s
    <3>1. rc'[u].map = rc[u].map
      BY <2>2
    <3>2. rc[u].map = "nil" => u # m
      BY <1>3, <3>1
    <3>3. \A x \in Inside!Scopes : rc[x].map # "nil" => rc'[x].map # "nil"
      BY <1>2, <1>3
    <3> QED BY <1>1, <3>1, <3>2, <3>3 DEF Maps, m
  <2> QED BY <2>1, <2>2
<1> QED BY <1>4 DEF Maps

LEMMA InheritedTaken ==
  ASSUME Inherited, rc \in Contexts, NEW s \in Inside!Scopes, UNCHANGED <<tree, made>>,
         made \subseteq StepIds,
         \A u \in Inside!Scopes : u # s => rc'[u].map = rc[u].map,
         rc'[s].map = Inside!MapOf(rc, s),
         Relevant' => Relevant /\ (s = "job" \/ conclusion[s] # "none"),
         \A n \in made : conclusion'[n] = "none" => conclusion[n] = "none"
  PROVE  Inherited'
<1>1. \A n : Inside!ScopeOf(n)' = Inside!ScopeOf(n)
  BY DEF Inside!ScopeOf
<1>2. \A n \in made : n \in Inside!Scopes /\ n # "job"
  BY TreesAssumption DEF Inside!Scopes
<1>3. rc[s].map # "nil" => rc'[s].map = rc[s].map
  BY DEF Inside!MapOf
<1>4. ASSUME Relevant', NEW n \in made', conclusion'[n] = "none"
      PROVE  rc'[n].map \in {"nil", rc'[Inside!ScopeOf(n)].map}
  <2>1. n \in made /\ conclusion[n] = "none" /\ n # s /\ Relevant
    BY <1>2, <1>4
  <2>2. rc'[n].map = rc[n].map /\ rc[n].map \in {"nil", rc[Inside!ScopeOf(n)].map}
    BY <1>2, <2>1 DEF Inherited
  <2>3. Inside!ScopeOf(n) \in Inside!Scopes
    BY <2>1 DEF Inherited
  <2> QED BY <1>3, <2>2, <2>3
<1> QED BY <1>1, <1>4 DEF Inherited

-----------------------------------------------------------------------------
(* The steps of a behaviour.                                               *)

\* A stage that is over before its executor was called.
LEMMA EarlySeen ==
  ASSUME InsideInv, SeenInv, NEW n \in StepIds,
         Inside!PrepareFails(n) \/ Inside!Pass(n) \/ Inside!Skip(n)
  PROVE  SeenInv'
<1> DEFINE s == Inside!Scope
           marked == [rc EXCEPT ![s].current = n]
<1>0. /\ Inside!TypeOK /\ Nested /\ Logged
      /\ Seen /\ Maps /\ Inherited /\ MadeUp /\ Turn
  BY DEF InsideInv, SeenInv
<1>1. Inside!Waiting(n)
  BY DEF Inside!PrepareFails, Inside!Pass, Inside!Skip
<1>2. s \in Inside!Scopes /\ stage \in {"pre", "main", "post"} /\ rc \in Contexts
      /\ made \subseteq StepIds
  BY <1>0, <1>1, ScopeIs, WaitingIs, ContextsType DEF Inside!TypeOK
<1>3. PICK e \in BOOLEAN, r \in {rc, marked} : Inside!FinishEarly(n, e, r)
  BY DEF Inside!PrepareFails, Inside!Pass, Inside!Skip
<1>4. /\ UNCHANGED <<tree, stack, ret, expired, made, global, handler, saved, file, state, out>>
      /\ Inside!Finish(s, e, Inside!Ended, r)
  BY <1>3 DEF Inside!FinishEarly
<1>5. r \in Contexts /\ SameValues(r, rc)
  <2>1. marked \in Contexts /\ SameValues(marked, rc)
    BY <1>2 DEF Contexts, Context, SameValues
  <2> HIDE DEF marked
  <2> QED BY <1>2, <1>3, <2>1 DEF SameValues
<1>6. Inside!Ended \in BOOLEAN
  BY DEF Inside!Ended
<1>7. /\ SameValues(rc', r)
      /\ \/ stage' = stage /\ next' = [next EXCEPT ![s] = @ + 1]
         \/ s = "job" /\ (stage = "pre" => stage' = "main")
                      /\ (stage = "main" => stage' = "post")
                      /\ (stage = "post" => stage' = "over")
  <2> HIDE DEF s
  <2> QED BY <1>0, <1>2, <1>4, <1>5, <1>6, FinishValues
<1>8. hist'.last = hist.last /\ hist'.wrote = hist.wrote /\ hist'.inner = hist.inner
  BY <1>0 DEF Inside!PrepareFails, Inside!Pass, Inside!Skip, Inside!Record, Logged, Histories
<1>9. \/ conclusion' = conclusion
      \/ stage = "main" /\ \E v \in {"skipped", "failure"} :
             conclusion' = [conclusion EXCEPT ![n] = v]
  BY DEF Inside!PrepareFails, Inside!Pass, Inside!Skip
<1>10. /\ SameValues(rc', rc) /\ ValuesKept /\ (Relevant' => Relevant)
       /\ s = "job" => stack = <<>>
       /\ \A k \in StepIds : conclusion'[k] = "none" => conclusion[k] = "none"
  <2>1. SameValues(rc', rc)
    BY <1>5, <1>7 DEF SameValues
  <2>2. stage' \in {"pre", "main"} => stage \in {"pre", "main"}
    BY <1>2, <1>7
  <2>3. s = "job" => stack = <<>>
    BY <1>0, ScopeIs, TreeShape
  <2>4. \A k \in StepIds : conclusion'[k] = "none" => conclusion[k] = "none"
    BY <1>0, <1>9 DEF Inside!TypeOK
  <2> QED BY <1>4, <1>8, <2>1, <2>2, <2>3, <2>4 DEF ValuesKept, Relevant
<1>11. Seen'
  <2>1. \A i : Outer(i)' = Outer(i)
    BY <1>4 DEF Outer
  <2>2. Inside!Scope' = Inside!Scope
    BY <1>4 DEF Inside!Scope
  <2>3. stage' \in {"pre", "main"} => Depth' = Depth
    <3>1. CASE stage' = stage
      BY <1>4, <2>2, <3>1 DEF Depth
    <3>2. CASE stage' # stage /\ stage' \in {"pre", "main"}
      <4>1. stack = <<>> /\ Len(stack) = 0
        BY <1>7, <1>10, <3>2
      <4> QED BY <1>4, <4>1 DEF Depth
    <3> QED BY <3>1, <3>2
  <2> QED BY <1>0, <1>10, <2>1, <2>3, SeenKept
<1>12. Maps' /\ Inherited'
  BY <1>0, <1>2, <1>4, <1>10, MapsKept, InheritedKept
<1>13. MadeUp'
  <2>1. Inside!Scope' = Inside!Scope
    BY <1>4 DEF Inside!Scope
  <2> QED BY <1>0, <1>4, <2>1 DEF MadeUp
<1>14. Turn'
  <2>1. CASE stage' = "pre"
    <3>1. stage = "pre" /\ conclusion' = conclusion
      BY <1>2, <1>7, <1>9, <2>1
    <3> QED BY <1>0, <2>1, <3>1 DEF Turn
  <2>2. CASE stage' = "main" /\ stage # "main"
    <3>1. stage = "pre" /\ conclusion' = conclusion /\ stack = <<>>
      BY <1>2, <1>7, <1>9, <1>10, <2>2
    <3>2. \A u \in Inside!Scopes : \A i \in DOMAIN tree.child[u] : tree.child[u][i] \in StepIds
      BY <1>0, TreeShape
    <3> QED BY <1>0, <1>4, <2>2, <3>1, <3>2 DEF Turn
  <2>3. CASE stage' = "main" /\ stage = "main"
    <3>1. next' = [next EXCEPT ![s] = @ + 1] /\ next \in [Inside!Scopes -> Nat]
      BY <1>0, <1>7, <2>3 DEF Inside!TypeOK
    <3>2. next[s] \in DOMAIN tree.child[s] /\ n = tree.child[s][next[s]]
      BY <1>0, <1>1, <2>3, WaitingAt
    <3>3. /\ \A u \in Inside!Scopes : next'[u] >= next[u] /\ next'[u] \in Nat
          /\ next'[s] > next[s]
      BY <1>2, <3>1
    <3>4. \A k \in StepIds : k # n => conclusion'[k] = conclusion[k]
      BY <1>0, <1>9 DEF Inside!TypeOK
    <3>5. s = "job" \/ conclusion[s] # "none"
      <4>1. CASE stack = <<>>
        BY <4>1 DEF Inside!Scope
      <4>2. CASE stack # <<>>
        BY <1>0, <2>3, <4>2, ScopeIs DEF Turn
      <4> QED BY <4>1, <4>2
    <3>6. ASSUME NEW u \in Inside!Scopes, NEW i \in DOMAIN tree.child[u],
                 conclusion'[tree.child[u][i]] # "none"
          PROVE  /\ u = "job" \/ conclusion'[u] # "none"
                 /\ \/ i < next'[u]
                    \/ i = next'[u] /\ \E k \in DOMAIN stack : stack[k] = tree.child[u][i]
      <4>0. u = "job" \/ u \in StepIds
        BY DEF Inside!Scopes
      <4>1. tree.child[u][i] \in StepIds /\ i \in Nat
        BY <1>0, TreeShape
      <4>2. CASE tree.child[u][i] = n
        <5>1. u = s /\ i = next[s]
          BY <1>0, <1>2, <3>2, <4>2, TreeShape
        <5> QED BY <1>10, <3>3, <3>5, <4>0, <5>1
      <4>3. CASE tree.child[u][i] # n
        <5>1. /\ u = "job" \/ conclusion[u] # "none"
              /\ i < next[u] \/ (i = next[u] /\ \E k \in DOMAIN stack : stack[k] = tree.child[u][i])
          BY <1>0, <2>3, <3>4, <3>6, <4>1, <4>3 DEF Turn
        <5>2. next[u] \in Nat /\ next'[u] \in Nat /\ next'[u] >= next[u]
          BY <3>1, <3>3
        <5> QED BY <1>10, <4>0, <4>1, <5>1, <5>2
      <4> QED BY <4>2, <4>3
    <3>7. \A i \in DOMAIN stack : conclusion'[stack[i]] # "none"
      BY <1>0, <1>10, <2>3, OuterIs DEF Turn
    <3> QED BY <1>4, <2>3, <3>6, <3>7 DEF Turn
  <2>4. CASE stage' \notin {"pre", "main"}
    BY <2>4 DEF Turn
  <2> QED BY <2>1, <2>2, <2>3, <2>4
<1> QED BY <1>11, <1>12, <1>13, <1>14 DEF SeenInv

\* A script, an action or a container ran: its values wait in the files.
LEMMA RanSeen ==
  ASSUME InsideInv, SeenInv, NEW how \in {"silent", "files", "prints", "refused"},
         NEW ok \in BOOLEAN,
         Inside!Ran(how, ok), tree.kind[Inside!Scope] \in {"script", "action"},
         \/ hist' = Inside!Saves(how)
         \/ how = "silent" /\ hist' = [hist EXCEPT !.posts = Append(@, Inside!Scope)]
  PROVE  SeenInv'
<1>0. /\ Inside!TypeOK /\ Nested /\ Logged /\ rc \in Contexts
      /\ Seen /\ Maps /\ Inherited /\ MadeUp /\ Turn
  BY ContextsType DEF InsideInv, SeenInv
<1>1. /\ UNCHANGED <<tree, stage, stack, next, expired, action, made, conclusion, global, handler,
                     saved, broken>>
      /\ ret' \in {"ok", "failed"} /\ stack # <<>>
      /\ rc' = IF how = "refused" THEN [rc EXCEPT ![handler].refused = TRUE] ELSE rc
  BY DEF Inside!Ran
<1>2. SameValues(rc', rc)
  BY <1>0, <1>1 DEF Contexts, Context, SameValues
<1>3. hist'.last = hist.last /\ hist'.wrote = hist.wrote /\ hist'.inner = hist.inner
  BY <1>0 DEF Inside!Saves, Logged, Histories
<1>4. ValuesKept /\ (Relevant' => Relevant) /\ made \subseteq StepIds
  BY <1>0, <1>1, <1>2, <1>3 DEF ValuesKept, Relevant, Inside!TypeOK
<1>5. Inside!Scope' = Inside!Scope /\ \A i : Outer(i)' = Outer(i)
  BY <1>1 DEF Inside!Scope, Outer
<1>6. Depth' = Depth
  BY <1>1, <1>5 DEF Depth
<1>7. Seen'
  BY <1>4, <1>5, <1>6, SeenKept DEF SeenInv
<1>8. Maps' /\ Inherited' /\ Turn'
  BY <1>0, <1>1, <1>2, <1>4, MapsKept, InheritedKept, TurnKept
<1>9. MadeUp'
  BY <1>0, <1>1, <1>5 DEF MadeUp
<1> QED BY <1>7, <1>8, <1>9 DEF SeenInv

\* The timeout of a step passes.
LEMMA ExpireSeen ==
  ASSUME InsideInv, SeenInv,
         UNCHANGED <<tree, stage, stack, next, ret, made, conclusion, rc, global, hist>>
  PROVE  SeenInv'
<1>1. Inside!Scope' = Inside!Scope /\ (\A i : Outer(i)' = Outer(i))
      /\ \A n : Inside!ScopeOf(n)' = Inside!ScopeOf(n)
  BY DEF Inside!Scope, Outer, Inside!ScopeOf
<1>2. Depth' = Depth /\ (Relevant' <=> Relevant)
  BY <1>1 DEF Depth, Relevant
<1>3. \A s : HasSet(s)' <=> HasSet(s)
  BY DEF HasSet
<1>4. \A i : UpToDate(i)' <=> UpToDate(i)
  BY <1>1, <1>3 DEF UpToDate
<1>5. Seen'
  BY <1>1, <1>2, <1>3, <1>4 DEF SeenInv, Seen
<1>6. Maps' /\ Inherited' /\ MadeUp' /\ Turn'
  BY <1>1, <1>2 DEF SeenInv, Maps, Inherited, MadeUp, Turn
<1> QED BY <1>5, <1>6 DEF SeenInv

-----------------------------------------------------------------------------
(* The values along a row of run contexts, each one inside the one before. *)

\* As HasSet, UpToDate and Seen, of any run contexts r with their maps g, the
\* latest value v and the first d run contexts of the row o.
IsSet(r, g, s) == r[s].map # "nil" /\ g[r[s].map] # "none"
Has(r, g, v, s) == r[s].env = v /\ (IsSet(r, g, s) => g[r[s].map] = v)
Latest(r, g, v, o, d) ==
    \A i \in 1..d : (\A j \in (i + 1)..d : ~IsSet(r, g, o[j])) => Has(r, g, v, o[i])

LEMMA SeenRow ==
  ASSUME Inside!TypeOK, Relevant, Seen
  PROVE  LET o == [i \in 1..(Len(stack) + 1) |-> Outer(i)]
         IN  hist.wrote \subseteq rc[o[Depth]].path /\ Latest(rc, global, hist.last, o, Depth)
<1> DEFINE o == [i \in 1..(Len(stack) + 1) |-> Outer(i)]
<1>1. PICK d \in 1..(Len(stack) + 1) : d = Depth
  BY DepthIs
<1>2. Len(stack) \in Nat /\ d \in Nat
  BY DepthIs
<1>3. \A i \in 1..d : o[i] = Outer(i)
  BY <1>2
<1>4. hist.wrote \subseteq rc[o[d]].path
  BY <1>1, <1>2, <1>3 DEF Seen
<1>5. \A i \in 1..d : (\A j \in (i + 1)..d : ~HasSet(Outer(j))) => UpToDate(i)
  BY <1>1 DEF Seen
<1>6. \A i \in 1..d : \A j \in (i + 1)..d : j \in 1..d
  BY <1>2
<1> HIDE DEF o
<1>7. Latest(rc, global, hist.last, o, d)
  BY <1>3, <1>5, <1>6 DEF Latest, HasSet, UpToDate, IsSet, Has
<1> QED BY <1>1, <1>4, <1>7 DEF o

LEMMA RowSeen ==
  ASSUME NEW d \in Nat \ {0}, Relevant' => Depth' = d, NEW o, \A i \in 1..d : Outer(i)' = o[i],
         Relevant' => hist'.wrote \subseteq rc'[o[d]].path /\ Latest(rc', global', hist'.last, o, d)
  PROVE  Seen'
<1>1. SUFFICES ASSUME Relevant' PROVE Seen'
  BY DEF Seen
<1>2. Depth' = d /\ Outer(Depth)' = o[d]
  <2>1. Outer(d)' = o[d]
    OBVIOUS
  <2> QED BY <1>1, <2>1 DEF Outer
<1>3. \A i \in 1..d : \A j \in (i + 1)..d : j \in 1..d
  OBVIOUS
<1>4. \A i \in 1..d : HasSet(Outer(i))' <=> IsSet(rc', global', o[i])
  BY DEF HasSet, IsSet
<1>5. \A i \in 1..d : UpToDate(i)' <=> Has(rc', global', hist'.last, o[i])
  BY <1>4 DEF UpToDate, Has
<1>6. \A i \in 1..d : (\A j \in (i + 1)..d : ~HasSet(Outer(j))') => UpToDate(i)'
  BY <1>1, <1>3, <1>4, <1>5 DEF Latest
<1> QED BY <1>1, <1>2, <1>6 DEF Seen

\* The last run context of the row takes over the value of the one inside it.
LEMMA MergedRow ==
  ASSUME NEW r \in Contexts, NEW q, NEW g, NEW h, NEW v, NEW m,
         NEW d \in Nat \ {0}, NEW o \in [1..(d + 1) -> Inside!Scopes],
         \A i, k \in 1..(d + 1) : o[i] = o[k] => i = k,
         m = Inside!MapOf(r, o[d]), r[o[d]].map = "nil" => g[o[d]] = "none",
         \A u \in Inside!Scopes : u # o[d] => q[u] = r[u],
         q[o[d]].map = m,
         q[o[d]].env = IF IsSet(r, g, o[d + 1]) THEN g[r[o[d + 1]].map] ELSE r[o[d]].env,
         IsSet(r, g, o[d + 1]) => h[m] = g[r[o[d + 1]].map],
         ~IsSet(r, g, o[d + 1]) => h = g,
         Latest(r, g, v, o, d + 1)
  PROVE  Latest(q, h, v, o, d)
<1>1. PICK s \in Inside!Scopes, n \in Inside!Scopes : s = o[d] /\ n = o[d + 1]
  OBVIOUS
<1>2. /\ m \in Inside!Scopes /\ m # "nil"
      /\ r[s].map = "nil" => m = s
      /\ r[s].map # "nil" => m = r[s].map
  <2>1. r[s].map \in Inside!Scopes \cup {"nil"}
    BY DEF Contexts, Context
  <2> QED BY <1>1, <2>1, Names DEF Inside!MapOf
<1>3. Has(r, g, v, n) /\ (~IsSet(r, g, n) => Has(r, g, v, s))
  <2>1. \A j \in ((d + 1) + 1)..(d + 1) : ~IsSet(r, g, o[j])
    OBVIOUS
  <2>2. ~IsSet(r, g, n) => \A j \in (d + 1)..(d + 1) : ~IsSet(r, g, o[j])
    BY <1>1
  <2>3. d + 1 \in 1..(d + 1) /\ d \in 1..(d + 1)
    OBVIOUS
  <2> QED BY <1>1, <2>1, <2>2, <2>3 DEF Latest
<1>4. Has(q, h, v, s)
  <2>1. CASE IsSet(r, g, n)
    BY <1>1, <1>3, <2>1 DEF Has
  <2>2. CASE ~IsSet(r, g, n)
    BY <1>1, <1>2, <1>3, <2>2 DEF Has, IsSet
  <2> QED BY <2>1, <2>2
<1>5. ASSUME NEW i \in 1..d, i # d, \A j \in (i + 1)..d : ~IsSet(q, h, o[j])
      PROVE  Has(q, h, v, o[i])
  <2>1. d \in (i + 1)..d /\ i \in 1..(d + 1)
    BY <1>5
  <2>2. ~IsSet(q, h, s)
    BY <1>1, <1>5, <2>1
  <2>3. ~IsSet(r, g, n) /\ h = g
    BY <1>1, <1>2, <2>2 DEF IsSet
  <2>4. ~IsSet(r, g, s)
    BY <1>1, <1>2, <2>2, <2>3 DEF IsSet
  <2>5. \A j \in 1..(d + 1) : j # d => q[o[j]] = r[o[j]]
    OBVIOUS
  <2>6. ASSUME NEW j \in (i + 1)..(d + 1) PROVE ~IsSet(r, g, o[j])
    <3>1. j = d + 1 \/ j = d \/ (j \in (i + 1)..d /\ j # d /\ j \in 1..(d + 1))
      OBVIOUS
    <3> QED BY <1>1, <1>5, <2>3, <2>4, <2>5, <3>1 DEF IsSet
  <2>7. Has(r, g, v, o[i])
    BY <2>1, <2>6 DEF Latest
  <2> QED BY <1>5, <2>1, <2>3, <2>5, <2>7 DEF Has, IsSet
<1> QED BY <1>1, <1>4, <1>5 DEF Latest

\* A value is set in the last run context of the row.
LEMMA WrittenRow ==
  ASSUME NEW q, NEW h, NEW v, NEW d \in Nat \ {0}, NEW o,
         q[o[d]].env = v, q[o[d]].map # "nil", h[q[o[d]].map] = v, v # "none"
  PROVE  Latest(q, h, v, o, d)
<1>1. IsSet(q, h, o[d]) /\ Has(q, h, v, o[d])
  BY DEF IsSet, Has
<1>2. \A i \in 1..d : i # d => d \in (i + 1)..d
  OBVIOUS
<1> QED BY <1>1, <1>2 DEF Latest

\* A new run context at the end of the row has the values of the one around it.
LEMMA NewRow ==
  ASSUME NEW r, NEW q, NEW g, NEW v, NEW d \in Nat \ {0}, NEW o,
         \A i \in 1..d : q[o[i]].env = r[o[i]].env /\ q[o[i]].map = r[o[i]].map,
         q[o[d + 1]].env = r[o[d]].env, q[o[d + 1]].map \in {"nil", r[o[d]].map},
         Latest(r, g, v, o, d)
  PROVE  Latest(q, g, v, o, d + 1)
<1>1. Has(r, g, v, o[d])
  <2>1. d \in 1..d /\ \A j \in (d + 1)..d : ~IsSet(r, g, o[j])
    OBVIOUS
  <2> QED BY <2>1 DEF Latest
<1>2. Has(q, g, v, o[d + 1])
  BY <1>1 DEF Has, IsSet
<1>3. \A i \in 1..d : /\ IsSet(q, g, o[i]) <=> IsSet(r, g, o[i])
                      /\ Has(q, g, v, o[i]) <=> Has(r, g, v, o[i])
  BY DEF IsSet, Has
<1>4. ASSUME NEW i \in 1..d, \A j \in (i + 1)..(d + 1) : ~IsSet(q, g, o[j])
      PROVE  Has(q, g, v, o[i])
  <2>1. \A j \in (i + 1)..d : j \in 1..d /\ j \in (i + 1)..(d + 1)
    OBVIOUS
  <2> QED BY <1>3, <1>4, <2>1 DEF Latest
<1>5. \A i \in 1..(d + 1) : i = d + 1 \/ i \in 1..d
  OBVIOUS
<1> QED BY <1>2, <1>4, <1>5 DEF Latest

\* The run context around the innermost step: it is the job's or one made for a
\* composite action under way.
LEMMA AroundIs ==
  ASSUME Inside!TypeOK, Nested, MadeUp, Turn, stack # <<>>, NEW top, top = Len(stack)
  PROVE  /\ top \in Nat \ {0} /\ DOMAIN stack = 1..top
         /\ Inside!Scope \in StepIds /\ Inside!Scope = stack[top] /\ Inside!Scope = Outer(top + 1)
         /\ Inside!ScopeOf(Inside!Scope) = Outer(top) /\ Outer(top) \in Inside!Scopes
         /\ Outer(top) \in made \cup {"job"}
         /\ stage = "main" => Outer(top) = "job" \/ conclusion[Outer(top)] # "none"
         /\ Outer(top) = "job" => top = 1
<1>1. /\ stack \in Seq(StepIds) /\ top \in Nat \ {0} /\ DOMAIN stack = 1..top
      /\ "job" \notin StepIds /\ \A i \in 1..top : stack[i] \in StepIds
  BY TreeShape
<1>2. /\ Inside!Scope \in StepIds /\ Inside!Scope = stack[top] /\ Inside!Scope = Outer(top + 1)
      /\ Inside!ScopeOf(Inside!Scope) = Outer(top) /\ Outer(top) \in Inside!Scopes
  BY <1>1, ScopeIs, OuterIs DEF Nested
<1>3. top = 1 => Outer(top) = "job"
  BY <1>1 DEF Outer
<1>4. top # 1 => top - 1 \in 1..top /\ top - 1 < top /\ Outer(top) = stack[top - 1]
  BY <1>1 DEF Outer
<1> QED BY <1>1, <1>2, <1>3, <1>4 DEF MadeUp, Turn

\* The steps of a composite action are through: the run context around it takes
\* over the values they have set.
LEMMA ChildrenSeen ==
  ASSUME InsideInv, SeenInv, Inside!ChildrenOver
  PROVE  SeenInv'
<1>0. /\ Inside!TypeOK /\ Nested /\ rc \in Contexts
      /\ Seen /\ Maps /\ Inherited /\ MadeUp /\ Turn
  BY ContextsType DEF InsideInv, SeenInv
<1>1. /\ UNCHANGED <<tree, stage, stack, next, expired, action, made, conclusion, handler, saved,
                     file, state, broken, hist, faulty>>
      /\ ret = "none" /\ ret' # "none" /\ stack # <<>> /\ tree.kind[Inside!Scope] = "composite"
  BY DEF Inside!ChildrenOver, Inside!Composite
<1>2. PICK top \in Nat : top = Len(stack)
  BY <1>0, ScopeIs
<1>3. PICK n \in StepIds, s \in Inside!Scopes :
        /\ n = Inside!Scope /\ n = Outer(top + 1) /\ s = Inside!ScopeOf(n) /\ s = Outer(top)
        /\ s \in made \cup {"job"} /\ top \in Nat \ {0}
        /\ stage = "main" => s = "job" \/ conclusion[s] # "none"
  BY <1>0, <1>1, <1>2, AroundIs
<1>4. Inside!Scope' = n /\ \A i : Outer(i)' = Outer(i)
  BY <1>1, <1>3 DEF Inside!Scope, Outer
<1>5. made \subseteq StepIds
  BY <1>0 DEF Inside!TypeOK
<1>6. MadeUp' /\ Turn'
  BY <1>0, <1>1, <1>3, <1>4, TurnKept DEF MadeUp
<1>7. CASE stage # "main"
  <2>1. UNCHANGED <<rc, global>>
    BY <1>7 DEF Inside!ChildrenOver
  <2>2. SameValues(rc', rc) /\ ValuesKept /\ (Relevant' <=> Relevant)
    BY <1>1, <2>1 DEF ValuesKept, SameValues, Relevant
  <2>3. Depth' = Depth
    BY <1>1, <1>7 DEF Depth
  <2>4. Seen' /\ Maps' /\ Inherited'
    BY <1>0, <1>1, <1>4, <1>5, <2>1, <2>2, <2>3, SeenKept, MapsKept, InheritedKept
  <2> QED BY <1>6, <2>4 DEF SeenInv
<1>8. CASE stage = "main"
  <2>1. PICK m \in Inside!Scopes : m = Inside!MapOf(rc, s)
    BY <1>0, <1>3 DEF Inside!MapOf, Contexts, Context
  <2>2. PICK v : v = IF IsSet(rc, global, n) THEN global[rc[n].map] ELSE rc[s].env
    OBVIOUS
  <2>3. rc' = [rc EXCEPT ![s].path = rc[n].path, ![s].map = m, ![s].env = v]
    <3>1. rc' = Inside!MergeBack(rc, n, s)
      BY <1>3, <1>8 DEF Inside!ChildrenOver
    <3> QED BY <1>0, <1>3, <2>1, <2>2, <3>1 DEF Inside!MergeBack, IsSet, Contexts, Context
  <2>4. /\ \A u \in Inside!Scopes : u # s => rc'[u] = rc[u]
        /\ rc'[s].path = rc[n].path /\ rc'[s].map = m /\ rc'[s].env = v
    BY <1>0, <1>3, <2>3 DEF Contexts, Context
  <2>5. global' = IF rc[n].map = "nil" THEN global
                  ELSE [global EXCEPT ![m] = IF global[rc[n].map] # "none"
                                             THEN global[rc[n].map] ELSE @]
    BY <1>3, <1>8, <2>1 DEF Inside!ChildrenOver
  <2>6. /\ \A u \in Inside!Scopes : u # m => global'[u] = global[u]
        /\ IsSet(rc, global, n) => global'[m] = global[rc[n].map]
        /\ ~IsSet(rc, global, n) => global' = global
    <3>1. global \in [Inside!Scopes -> StepIds \cup {"none"}]
      BY <1>0 DEF Inside!TypeOK
    <3> QED BY <2>1, <2>5, <3>1 DEF IsSet
  <2>7. Maps'
    BY <1>0, <1>1, <1>3, <2>1, <2>4, <2>6, MapsTaken
  <2>8. Inherited'
    <3>1. Relevant' => Relevant
      BY <1>1 DEF Relevant
    <3> QED BY <1>0, <1>1, <1>3, <1>5, <1>8, <2>1, <2>4, <3>1, InheritedTaken
  <2>9. Seen'
    <3>1. PICK o : o = [i \in 1..(Len(stack) + 1) |-> Outer(i)]
      OBVIOUS
    <3>2. /\ o \in [1..(top + 1) -> Inside!Scopes]
          /\ \A i, k \in 1..(top + 1) : o[i] = o[k] => i = k
          /\ o[top] = s /\ o[top + 1] = n
      BY <1>0, <1>2, <1>3, <3>1, OuterApart
    <3>3. Depth = top + 1 /\ Depth' = top
      BY <1>1, <1>2, <1>3, <1>8 DEF Depth
    <3>4. Relevant => /\ hist.wrote \subseteq rc[n].path
                      /\ Latest(rc, global, hist.last, o, top + 1)
      BY <1>0, <3>1, <3>2, <3>3, SeenRow
    <3>5. Relevant => Latest(rc', global', hist.last, o, top)
      <4>1. rc[s].map = "nil" => global[s] = "none"
        BY <1>0 DEF Maps
      <4>2. /\ \A u \in Inside!Scopes : u # o[top] => rc'[u] = rc[u]
            /\ rc'[o[top]].map = m /\ m = Inside!MapOf(rc, o[top])
            /\ rc[o[top]].map = "nil" => global[o[top]] = "none"
        BY <2>1, <2>4, <3>2, <4>1
      <4>3. rc'[o[top]].env = IF IsSet(rc, global, o[top + 1])
                              THEN global[rc[o[top + 1]].map] ELSE rc[o[top]].env
        BY <2>2, <2>4, <3>2
      <4>4. /\ IsSet(rc, global, o[top + 1]) => global'[m] = global[rc[o[top + 1]].map]
            /\ ~IsSet(rc, global, o[top + 1]) => global' = global
        BY <2>6, <3>2
      <4> QED BY <1>0, <1>3, <3>2, <3>4, <4>2, <4>3, <4>4, MergedRow
    <3>6. /\ Relevant' => Relevant
          /\ Relevant' => /\ hist'.wrote \subseteq rc'[o[top]].path
                          /\ Latest(rc', global', hist'.last, o, top)
      BY <1>1, <2>4, <3>2, <3>4, <3>5 DEF Relevant
    <3>7. \A i \in 1..top : Outer(i)' = o[i]
      BY <1>2, <1>4, <3>1
    <3> QED BY <1>3, <3>3, <3>6, <3>7, RowSeen
  <2> QED BY <1>6, <2>7, <2>8, <2>9 DEF SeenInv
<1> QED BY <1>7, <1>8

\* The run context made for a composite action has the values of the one around it.
LEMMA ContextOfValues ==
  ASSUME NEW r \in Contexts, NEW n \in StepIds, NEW s \in Inside!Scopes, NEW q,
         q = Inside!ContextOf(r, n, s)
  PROVE  /\ q[n].env = r[s].env /\ q[n].path = r[s].path
         /\ q[n].map = IF n \in made THEN r[n].map ELSE r[s].map
         /\ \A u \in Inside!Scopes : u # n => q[u] = r[u]
<1> DEFINE m == IF n \in made THEN r[n].map ELSE r[s].map
<1>1. n \in Inside!Scopes
  BY DEF Inside!Scopes
<1>2. q = [r EXCEPT ![n].env = r[s].env, ![n].path = r[s].path, ![n].map = m, ![n].err = FALSE]
  BY <1>1 DEF Inside!ContextOf, Contexts, Context
<1>3. r[n] \in Context /\ r \in Contexts
  BY <1>1 DEF Contexts
<1> HIDE DEF m
<1>4. /\ q[n].env = r[s].env /\ q[n].path = r[s].path /\ q[n].map = m
      /\ \A u \in Inside!Scopes : u # n => q[u] = r[u]
  BY <1>1, <1>2, <1>3 DEF Contexts, Context
<1> QED BY <1>4 DEF m

\* The stage of a step begins, whether its run context is made for it or not.
LEMMA EnterTurn ==
  ASSUME Inside!TypeOK, Nested, Turn, NEW n \in StepIds, Inside!Enter(n)
  PROVE  Turn' /\ (stage = "main" => conclusion[n] = "none")
<1>1. PICK s \in Inside!Scopes : s = Inside!Scope
  BY ScopeIs
<1>2. /\ Inside!Waiting(n)
      /\ UNCHANGED <<tree, stage>> /\ stack' = Append(stack, n) /\ next' = [next EXCEPT ![n] = 1]
      /\ conclusion' = IF stage = "main" THEN [conclusion EXCEPT ![n] = "success"] ELSE conclusion
  BY DEF Inside!Enter
<1>3. stack \in Seq(StepIds) /\ Len(stack) \in Nat /\ DOMAIN stack = 1..Len(stack)
  BY TreeShape
<1>4. /\ DOMAIN stack' = 1..(Len(stack) + 1) /\ stack'[Len(stack) + 1] = n
      /\ \A i \in DOMAIN stack : i \in DOMAIN stack' /\ stack'[i] = stack[i]
  BY <1>2, <1>3
<1>5. CASE stage # "main"
  BY <1>2, <1>5 DEF Turn
<1>6. CASE stage = "main"
  <2>1. next[s] \in DOMAIN tree.child[s] /\ n = tree.child[s][next[s]] /\ n # s
        /\ \A i \in DOMAIN stack : stack[i] # n
    BY <1>1, <1>2, <1>6, WaitingAt
  <2>2. next \in [Inside!Scopes -> Nat]
        /\ conclusion \in [StepIds -> {"none", "success", "failure", "skipped"}]
    BY DEF Inside!TypeOK
  <2>3. conclusion[n] = "none"
    BY <1>6, <2>1, <2>2 DEF Turn
  <2>4. conclusion'[n] = "success" /\ \A k \in StepIds : k # n => conclusion'[k] = conclusion[k]
    BY <1>2, <1>6, <2>2
  <2>5. s = "job" \/ (s \in StepIds /\ conclusion[s] # "none")
    <3>1. CASE stack = <<>>
      BY <1>1, <3>1 DEF Inside!Scope
    <3>2. CASE stack # <<>>
      BY <1>1, <1>6, <3>2, ScopeIs DEF Turn
    <3> QED BY <3>1, <3>2
  <2>6. \A i \in DOMAIN stack' : conclusion'[stack'[i]] # "none"
    <3>1. \A i \in DOMAIN stack : stack[i] \in StepIds /\ conclusion[stack[i]] # "none"
      BY <1>3, <1>6 DEF Turn
    <3>2. \A i \in DOMAIN stack' : i \in DOMAIN stack \/ i = Len(stack) + 1
      BY <1>3, <1>4
    <3> QED BY <1>4, <2>1, <2>4, <3>1, <3>2
  <2>7. ASSUME NEW u \in Inside!Scopes, NEW i \in DOMAIN tree.child[u],
               conclusion'[tree.child[u][i]] # "none"
        PROVE  /\ u = "job" \/ conclusion'[u] # "none"
               /\ \/ i < next'[u]
                  \/ i = next'[u] /\ \E k \in DOMAIN stack' : stack'[k] = tree.child[u][i]
    <3>0. u = "job" \/ u \in StepIds
      BY DEF Inside!Scopes
    <3>1. tree.child[u][i] \in StepIds /\ i \in Nat
      BY TreeShape
    <3>2. CASE tree.child[u][i] = n
      <4>1. u = s /\ i = next[s]
        BY <2>1, <3>2, TreeShape
      <4>2. next'[s] = next[s]
        BY <1>2, <2>1, <2>2
      <4>3. Len(stack) + 1 \in DOMAIN stack'
        BY <1>3, <1>4
      <4>4. s = "job" \/ conclusion'[s] # "none"
        BY <2>1, <2>4, <2>5
      <4> QED BY <1>4, <3>2, <4>1, <4>2, <4>3, <4>4
    <3>3. CASE tree.child[u][i] # n
      <4>1. /\ u = "job" \/ conclusion[u] # "none"
            /\ \/ i < next[u]
               \/ i = next[u] /\ \E k \in DOMAIN stack : stack[k] = tree.child[u][i]
        BY <1>6, <2>4, <2>7, <3>1, <3>3 DEF Turn
      <4>2. u # n
        BY <2>3, <4>1, TreesAssumption
      <4>3. next'[u] = next[u]
        BY <1>2, <2>2, <4>2
      <4>4. u = "job" \/ conclusion'[u] # "none"
        BY <2>4, <3>0, <4>1, <4>2
      <4> QED BY <1>4, <4>1, <4>3, <4>4
    <3> QED BY <3>2, <3>3
  <2> QED BY <1>2, <1>6, <2>3, <2>6, <2>7 DEF Turn
<1> QED BY <1>5, <1>6

LEMMA EnterSeen ==
  ASSUME InsideInv, SeenInv, NEW n \in StepIds, Inside!Begin(n) \/ Inside!FailsAtOnce(n)
  PROVE  SeenInv'
<1>0. /\ Inside!TypeOK /\ Nested /\ Logged /\ rc \in Contexts /\ made \subseteq StepIds
      /\ Seen /\ Maps /\ Inherited /\ MadeUp /\ Turn
  BY ContextsType DEF InsideInv, SeenInv, Inside!TypeOK
<1>1. Inside!Enter(n) /\ Inside!Waiting(n)
  BY DEF Inside!Begin, Inside!FailsAtOnce, Inside!Enter
<1>2. PICK s \in Inside!Scopes, d \in Nat \ {0} :
        /\ s = Inside!Scope /\ d = Len(stack) + 1 /\ s = Outer(d) /\ Inside!ScopeOf(n) = s
        /\ stage \in {"pre", "main", "post"}
        /\ stack # <<>> => s = stack[Len(stack)] /\ tree.kind[s] = "composite"
        /\ stack \in Seq(StepIds)
  <2>1. Len(stack) + 1 \in Nat \ {0}
    BY <1>0, ScopeIs
  <2> QED BY <1>0, <1>1, <2>1, ScopeIs, WaitingIs, TreeShape
<1>3. /\ UNCHANGED <<tree, stage, global>> /\ stack' = Append(stack, n) /\ ret = "none"
      /\ hist'.last = hist.last /\ hist'.wrote = hist.wrote /\ hist'.inner = hist.inner
      /\ conclusion' = IF stage = "main" THEN [conclusion EXCEPT ![n] = "success"] ELSE conclusion
  BY <1>0, <1>1 DEF Inside!Enter, Inside!Waiting, Logged, Histories
<1>4. n # s /\ n \in Inside!Scopes /\ n # "job"
  BY <1>0, <1>1, <1>2, WaitingAt, TreesAssumption DEF Inside!Scopes
<1>5. /\ Len(stack') = d /\ stack' # <<>> /\ Inside!Scope' = n /\ stack'[d] = n
      /\ \A i \in 1..d : Outer(i)' = Outer(i)
      /\ Outer(d + 1)' = n
      /\ \A i \in 1..(d - 1) : stack'[i] = stack[i]
      /\ DOMAIN stack' = 1..d /\ DOMAIN stack = 1..(d - 1)
  <2>1. /\ Len(stack') = d /\ stack' # <<>> /\ stack'[d] = n /\ stack'[Len(stack')] = n
        /\ \A i \in 1..(d - 1) : stack'[i] = stack[i]
        /\ DOMAIN stack' = 1..d /\ DOMAIN stack = 1..(d - 1)
    BY <1>2, <1>3
  <2>2. Inside!Scope' = n
    BY <2>1 DEF Inside!Scope, Inside!Last
  <2>3. (\A i \in 1..d : Outer(i)' = Outer(i)) /\ Outer(d + 1)' = n
    BY <2>1 DEF Outer
  <2> QED BY <2>1, <2>2, <2>3
<1>6. /\ Relevant' <=> Relevant
      /\ Turn'
      /\ stage = "main" => conclusion[n] = "none"
      /\ \A k \in StepIds : conclusion'[k] = "none" => conclusion[k] = "none"
      /\ stage = "main" => conclusion'[n] # "none"
  <2>1. Turn' /\ (stage = "main" => conclusion[n] = "none")
    BY <1>0, <1>1, EnterTurn
  <2>2. conclusion \in [StepIds -> {"none", "success", "failure", "skipped"}]
    BY <1>0 DEF Inside!TypeOK
  <2> QED BY <1>3, <2>1, <2>2 DEF Relevant
<1>7. stage = "main" => Depth = d
  BY <1>2, <1>3 DEF Depth
<1>8. PICK r \in Contexts : r = Inside!Entered(n) /\ SameValues(r, rc)
  <2>1. Inside!Entered(n) = [rc EXCEPT ![s].current = n, ![s].refused = FALSE]
    BY <1>2 DEF Inside!Entered
  <2>2. /\ [rc EXCEPT ![s].current = n, ![s].refused = FALSE] \in Contexts
        /\ SameValues([rc EXCEPT ![s].current = n, ![s].refused = FALSE], rc)
    BY <1>0, <1>2 DEF Contexts, Context, SameValues
  <2> QED BY <2>1, <2>2
<1>9. \A i \in DOMAIN stack' : i < Len(stack') => stack'[i] \in made
  <2>1. SUFFICES ASSUME NEW i \in 1..(d - 1) PROVE stack[i] \in made
    BY <1>5
  <2>2. i \in DOMAIN stack /\ (i < Len(stack) \/ i = Len(stack)) /\ stack # <<>>
    <3>1. Len(stack) = d - 1 /\ i \in DOMAIN stack
      BY <1>2, <1>5
    <3>2. d # 1
      BY <2>1
    <3> QED BY <1>2, <2>1, <3>1, <3>2
  <2>3. stack # <<>> => stack[Len(stack)] \in made
    BY <1>0, <1>2, <1>3 DEF MadeUp
  <2> QED BY <1>0, <2>2, <2>3 DEF MadeUp
<1>10. CASE /\ rc' = r /\ made' = made
            /\ stage = "main" => ret' # "none" \/ tree.kind[n] # "composite"
            /\ ret' = "none" /\ tree.kind[n] = "composite" => n \in made
  <2>1. SameValues(rc', rc) /\ ValuesKept
    BY <1>3, <1>8, <1>10 DEF ValuesKept
  <2>2. stage' \in {"pre", "main"} => Depth' = Depth
    BY <1>3, <1>5, <1>7, <1>10 DEF Depth
  <2>3. \A i \in 1..Depth : Outer(i)' = Outer(i)
    <3>1. Depth \in 1..d
      BY <1>0, <1>2, DepthIs
    <3> QED BY <1>5, <3>1
  <2>4. Seen'
    BY <1>0, <2>1, <2>2, <2>3, SeenKept
  <2>5. Maps' /\ Inherited'
    BY <1>0, <1>3, <1>6, <1>10, <2>1, MapsKept, InheritedKept
  <2>6. MadeUp'
    BY <1>3, <1>5, <1>9, <1>10 DEF MadeUp
  <2> QED BY <1>6, <2>4, <2>5, <2>6 DEF SeenInv
<1>11. CASE /\ rc' = Inside!ContextOf(r, n, s) /\ made' = made \cup {n}
            /\ tree.kind[n] = "composite" /\ stage # "post" /\ ret' = "none"
  <2>1. /\ rc'[n].env = rc[s].env /\ rc'[n].path = rc[s].path
        /\ rc'[n].map = IF n \in made THEN rc[n].map ELSE rc[s].map
        /\ \A u \in Inside!Scopes : u # n => /\ rc'[u].env = rc[u].env /\ rc'[u].map = rc[u].map
                                             /\ rc'[u].path = rc[u].path
    <3>1. /\ rc'[n].env = r[s].env /\ rc'[n].path = r[s].path
          /\ rc'[n].map = IF n \in made THEN r[n].map ELSE r[s].map
          /\ \A u \in Inside!Scopes : u # n => rc'[u] = r[u]
      BY <1>2, <1>8, <1>11, ContextOfValues
    <3> QED BY <1>2, <1>4, <1>8, <3>1 DEF SameValues
  <2>2. /\ \A u \in Inside!Scopes : rc[u].map \in Inside!Scopes \cup {"nil"}
        /\ n \notin made => rc[n].map = "nil"
    BY <1>0, <1>4 DEF Maps, Contexts, Context
  <2>3. Maps'
    <3>1. \A u \in Inside!Scopes : rc[u].map # "nil" => rc'[u].map # "nil"
      BY <2>1, <2>2
    <3>2. rc'[n].map = "nil" => rc[n].map = "nil"
      BY <2>1, <2>2
    <3>3. \A u \in Inside!Scopes : \E x \in Inside!Scopes : rc'[u].map = rc[x].map
      BY <1>4, <2>1
    <3>4. ASSUME NEW u \in Inside!Scopes
          PROVE  /\ rc'[u].map = "nil" => global'[u] = "none"
                 /\ rc'[u].map # "nil" => rc'[rc'[u].map].map # "nil"
                 /\ u \notin made' \cup {"job"} => rc'[u].map = "nil"
      <4>1. rc'[u].map = "nil" => global'[u] = "none"
        BY <1>0, <1>3, <2>1, <3>2 DEF Maps
      <4>2. rc'[u].map # "nil" => rc'[rc'[u].map].map # "nil"
        BY <1>0, <2>2, <3>1, <3>3 DEF Maps
      <4>3. u \notin made' \cup {"job"} => rc'[u].map = "nil"
        BY <1>0, <1>11, <2>1 DEF Maps
      <4> QED BY <4>1, <4>2, <4>3
    <3> QED BY <3>4 DEF Maps
  <2>4. Inherited'
    <3>1. \A k : Inside!ScopeOf(k)' = Inside!ScopeOf(k)
      BY <1>3 DEF Inside!ScopeOf
    <3>2. \A k \in made' : Inside!ScopeOf(k) \in Inside!Scopes
      BY <1>0, <1>2, <1>11 DEF Inherited
    <3>3. ASSUME Relevant', NEW k \in made', conclusion'[k] = "none"
          PROVE  rc'[k].map \in {"nil", rc'[Inside!ScopeOf(k)].map}
      <4>0. Relevant /\ k \in StepIds /\ conclusion[k] = "none" /\ (k \in made \/ k = n)
        <5>1. Relevant
          BY <1>6, <3>3
        <5>2. k \in StepIds /\ (k \in made \/ k = n)
          BY <1>0, <1>11, <3>3
        <5>3. conclusion'[k] = "none" => conclusion[k] = "none"
          BY <1>6, <5>2
        <5>4. conclusion'[k] = "none"
          BY <3>3
        <5> QED BY <5>1, <5>2, <5>3, <5>4
      <4>1. CASE k = n
        <5>1. rc'[n].map = rc[s].map \/ (n \in made /\ rc'[n].map = rc[n].map)
          BY <2>1
        <5>2. n \in made => rc[n].map \in {"nil", rc[s].map}
          BY <1>0, <1>2, <4>0, <4>1 DEF Inherited
        <5> QED BY <1>2, <1>4, <2>1, <4>1, <5>1, <5>2
      <4>2. CASE k # n
        <5>1. k \in made /\ k \in Inside!Scopes
          BY <4>0, <4>2 DEF Inside!Scopes
        <5>2. /\ rc[k].map \in {"nil", rc[Inside!ScopeOf(k)].map}
              /\ Inside!ScopeOf(k) \in Inside!Scopes
          BY <1>0, <4>0, <5>1 DEF Inherited
        <5>3. rc'[k].map = rc[k].map
          BY <2>1, <4>2, <5>1
        <5>4. CASE Inside!ScopeOf(k) = n
          BY <2>1, <2>2, <5>2, <5>3, <5>4
        <5>5. CASE Inside!ScopeOf(k) # n
          BY <2>1, <5>2, <5>3, <5>5
        <5> QED BY <5>4, <5>5
      <4> QED BY <4>1, <4>2
    <3> QED BY <3>1, <3>2, <3>3 DEF Inherited
  <2>5. MadeUp'
    BY <1>3, <1>5, <1>9, <1>11 DEF MadeUp
  <2>6. Seen'
    <3>1. PICK o : o = [i \in 1..(Len(stack) + 1) |-> Outer(i)]
      OBVIOUS
    <3>2. (\A i \in 1..d : o[i] = Outer(i) /\ o[i] \in Inside!Scopes) /\ o[d] = s
      BY <1>0, <1>2, <3>1, OuterApart
    <3>3. Relevant => hist.wrote \subseteq rc[o[Depth]].path
                      /\ Latest(rc, global, hist.last, o, Depth)
      BY <1>0, <3>1, SeenRow
    <3>4. CASE stage = "pre"
      <4>1. Depth = 1 /\ Depth' = 1 /\ o[1] = "job" /\ Outer(1)' = "job" /\ "job" \in Inside!Scopes
        BY <1>2, <1>3, <3>2, <3>4 DEF Depth, Outer, Inside!Scopes
      <4>2. Relevant => hist.wrote \subseteq rc["job"].path /\ Latest(rc, global, hist.last, o, 1)
        BY <3>3, <4>1
      <4>3. rc'["job"].env = rc["job"].env /\ rc'["job"].map = rc["job"].map
            /\ rc'["job"].path = rc["job"].path
        BY <1>4, <2>1, <4>1
      <4>4. Relevant => Latest(rc', global, hist.last, o, 1)
        BY <4>1, <4>2, <4>3 DEF Latest, Has, IsSet
      <4>5. \A i \in 1..1 : Outer(i)' = o[i]
        BY <4>1
      <4> QED BY <1>3, <1>6, <4>1, <4>2, <4>3, <4>4, <4>5, RowSeen
    <3>5. CASE stage = "main"
      <4>1. PICK p : p = [i \in 1..(d + 1) |-> IF i = d + 1 THEN n ELSE o[i]]
        OBVIOUS
      <4>2. (\A i \in 1..d : p[i] = o[i] /\ p[i] = Outer(i)) /\ p[d] = s /\ p[d + 1] = n
        BY <3>2, <4>1
      <4>3. Relevant => hist.wrote \subseteq rc[s].path /\ Latest(rc, global, hist.last, p, d)
        <5>1. Relevant => hist.wrote \subseteq rc[o[d]].path
                          /\ Latest(rc, global, hist.last, o, d)
          BY <1>7, <3>3, <3>5
        <5>2. \A i \in 1..d : \A j \in (i + 1)..d : j \in 1..d
          OBVIOUS
        <5> QED BY <3>2, <4>2, <5>1, <5>2 DEF Latest
      <4>4. \A i \in 1..d : p[i] \in Inside!Scopes /\ p[i] # n
        <5>1. SUFFICES ASSUME NEW i \in 1..d, Outer(i) = n PROVE FALSE
          BY <3>2, <4>2
        <5>2. i # 1 /\ i - 1 \in 1..(d - 1) /\ Outer(i) = stack[i - 1]
          BY <1>4, <5>1 DEF Outer
        <5> QED BY <1>0, <1>1, <1>5, <5>1, <5>2, WaitingAt
      <4>5. rc[n].map \in {"nil", rc[s].map} \/ n \notin made \/ ~Relevant
        BY <1>0, <1>2, <1>6, <3>5 DEF Inherited
      <4>6. /\ \A i \in 1..d : rc'[p[i]].env = rc[p[i]].env /\ rc'[p[i]].map = rc[p[i]].map
            /\ rc'[p[d + 1]].env = rc[p[d]].env
            /\ Relevant => rc'[p[d + 1]].map \in {"nil", rc[p[d]].map}
        BY <2>1, <4>2, <4>4, <4>5
      <4>7. Relevant => Latest(rc', global, hist.last, p, d + 1)
        BY <4>3, <4>6, NewRow
      <4>8. Depth' = d + 1
        BY <1>3, <1>5, <1>11, <3>5 DEF Depth
      <4>9. \A i \in 1..(d + 1) : Outer(i)' = p[i]
        <5>1. \A i \in 1..(d + 1) : i = d + 1 \/ i \in 1..d
          OBVIOUS
        <5> QED BY <1>5, <4>2, <5>1
      <4>10. /\ d + 1 \in Nat \ {0}
             /\ Relevant' => hist'.wrote \subseteq rc'[p[d + 1]].path
                             /\ Latest(rc', global', hist'.last, p, d + 1)
        BY <1>3, <1>6, <2>1, <4>2, <4>3, <4>7
      <4> QED BY <4>8, <4>9, <4>10, RowSeen
    <3> QED BY <1>2, <1>11, <3>4, <3>5
  <2> QED BY <1>6, <2>3, <2>4, <2>5, <2>6 DEF SeenInv
<1>12. CASE Inside!FailsAtOnce(n)
  <2>1. rc' = r /\ made' = made /\ ret' = "failed"
    BY <1>8, <1>12 DEF Inside!FailsAtOnce
  <2> QED BY <1>10, <2>1
<1>13. CASE Inside!Begin(n)
  <2>1. /\ IF Inside!Composite(n) /\ stage # "post"
           THEN made' = made \cup {n} /\ rc' = Inside!ContextOf(r, n, s)
           ELSE made' = made /\ rc' = r
        /\ ret' = IF Inside!Composite(n) /\ n \notin made' THEN "failed" ELSE "none"
    BY <1>2, <1>8, <1>13 DEF Inside!Begin
  <2> QED BY <1>10, <1>11, <2>1 DEF Inside!Composite
<1> QED BY <1>12, <1>13

\* What the command files bring to a run context: the variable, and the path
\* with the last of them.
LEMMA ReadValues ==
  ASSUME Inside!TypeOK, NEW n \in StepIds, NEW s \in Inside!Scopes, NEW k \in 0..4,
         NEW q, q = Inside!ReadFiles(n, s, k), file # "none", k # 0
  PROVE  /\ q[s].env = file /\ q[s].map = Inside!MapOf(rc, s)
         /\ k = 4 => q[s].path = rc[s].path \cup {file}
         /\ k # 4 => q[s].path = rc[s].path
         /\ \A u \in Inside!Scopes : u # s => q[u] = rc[u]
<1>1. rc \in Contexts /\ file \in StepIds \cup {"none"}
  BY ContextsType DEF Inside!TypeOK
<1>2. PICK m : m = Inside!MapOf(rc, s)
  OBVIOUS
<1>3. q = [[rc EXCEPT ![s].env = file, ![s].map = m]
            EXCEPT ![s].path = IF k = 4 THEN @ \cup {file} ELSE @]
  BY <1>2 DEF Inside!ReadFiles, Inside!SetEnv
<1>4. /\ q[s].env = file /\ q[s].map = m
      /\ k = 4 => q[s].path = rc[s].path \cup {file}
      /\ k # 4 => q[s].path = rc[s].path
      /\ \A u \in Inside!Scopes : u # s => q[u] = rc[u]
  BY <1>1, <1>3 DEF Contexts, Context
<1> QED BY <1>2, <1>4

\* The turn goes to the next step.
LEMMA LeaveTurn ==
  ASSUME Inside!TypeOK, Nested, MadeUp, Turn, stack # <<>>, UNCHANGED tree,
         NEW n \in StepIds, n = Inside!Scope, NEW s \in Inside!Scopes, s = Inside!ScopeOf(n),
         stack' = Inside!Front(stack),
         \/ stage' = stage /\ next' = [next EXCEPT ![s] = @ + 1]
         \/ s = "job" /\ (stage = "pre" => stage' = "main")
                      /\ (stage = "main" => stage' = "post")
                      /\ (stage = "post" => stage' = "over"),
         stage \in {"pre", "main", "post"},
         \/ conclusion' = conclusion
         \/ stage = "main" /\ conclusion' = [conclusion EXCEPT ![n] = "failure"]
  PROVE  Turn'
<1>1. PICK top \in Nat \ {0} :
        /\ top = Len(stack) /\ DOMAIN stack = 1..top /\ stack[top] = n /\ s = Outer(top)
        /\ s = "job" => top = 1
        /\ stack \in Seq(StepIds)
  BY AroundIs, TreeShape
<1>2. DOMAIN stack' = 1..(top - 1) /\ \A i \in 1..(top - 1) : stack'[i] = stack[i]
  <2>1. DOMAIN stack' = DOMAIN stack \ {top} /\ \A i \in DOMAIN stack' : stack'[i] = stack[i]
    BY <1>1, FrontShape
  <2> QED BY <1>1, <2>1
<1>3. CASE stage' = "pre"
  BY <1>3 DEF Turn
<1>4. CASE stage' = "main" /\ stage # "main"
  <2>1. stage = "pre" /\ conclusion' = conclusion /\ s = "job"
    BY <1>4
  <2>2. DOMAIN stack' = {}
    BY <1>1, <1>2, <2>1
  <2>3. \A u \in Inside!Scopes : \A i \in DOMAIN tree.child[u] : tree.child[u][i] \in StepIds
    BY TreeShape
  <2> QED BY <1>4, <2>1, <2>2, <2>3 DEF Turn
<1>5. CASE stage' = "main" /\ stage = "main"
  <2>1. next' = [next EXCEPT ![s] = @ + 1] /\ next \in [Inside!Scopes -> Nat]
        /\ conclusion \in [StepIds -> {"none", "success", "failure", "skipped"}]
    BY <1>5 DEF Inside!TypeOK
  <2>2. \A k \in StepIds : conclusion'[k] = "none" <=> conclusion[k] = "none"
    <3>1. conclusion[n] # "none"
      BY <1>1, <1>5 DEF Turn
    <3> QED BY <2>1, <3>1
  <2>3. \A i \in DOMAIN stack' : conclusion'[stack'[i]] # "none"
    BY <1>1, <1>2, <1>5, <2>2 DEF Turn
  <2>4. ASSUME NEW u \in Inside!Scopes, NEW i \in DOMAIN tree.child[u],
               conclusion'[tree.child[u][i]] # "none"
        PROVE  /\ u = "job" \/ conclusion'[u] # "none"
               /\ \/ i < next'[u]
                  \/ i = next'[u] /\ \E k \in DOMAIN stack' : stack'[k] = tree.child[u][i]
    <3>1. (u = "job" \/ u \in StepIds) /\ tree.child[u][i] \in StepIds /\ i \in Nat
      BY TreeShape DEF Inside!Scopes
    <3>2. /\ u = "job" \/ conclusion[u] # "none"
          /\ \/ i < next[u]
             \/ i = next[u] /\ \E k \in DOMAIN stack : stack[k] = tree.child[u][i]
      BY <1>5, <2>2, <2>4, <3>1 DEF Turn
    <3>3. u = "job" \/ conclusion'[u] # "none"
      BY <2>2, <3>1, <3>2
    <3>4. next[u] \in Nat /\ next'[u] \in Nat /\ next'[u] >= next[u]
          /\ (u = s => next'[u] = next[u] + 1) /\ (u # s => next'[u] = next[u])
      BY <2>1
    <3>5. CASE i < next[u] \/ u = s
      BY <3>1, <3>2, <3>3, <3>4, <3>5
    <3>6. CASE i = next[u] /\ u # s
      <4>1. PICK k \in 1..top : stack[k] = tree.child[u][i]
        BY <1>1, <3>1, <3>2, <3>4, <3>6
      <4>2. k # top
        <5>1. Inside!ScopeOf(tree.child[u][i]) = u
          BY ParentOf
        <5> QED BY <1>1, <3>6, <4>1, <5>1
      <4>3. k \in 1..(top - 1)
        BY <4>2
      <4> QED BY <1>2, <3>3, <3>4, <3>6, <4>1, <4>3
    <3> QED BY <3>1, <3>2, <3>4, <3>5, <3>6
  <2> QED BY <1>5, <2>3, <2>4 DEF Turn
<1>6. CASE stage' \notin {"pre", "main"}
  BY <1>6 DEF Turn
<1> QED BY <1>3, <1>4, <1>5, <1>6

\* The executor of a stage has returned: what its step wrote to the command
\* files goes to the run context around it.
LEMMA LeaveSeen ==
  ASSUME InsideInv, SeenInv, NEW k \in 0..4, Inside!Leave(k)
  PROVE  SeenInv'
<1>0. /\ Inside!TypeOK /\ Nested /\ Logged /\ rc \in Contexts /\ made \subseteq StepIds
      /\ Seen /\ Maps /\ Inherited /\ MadeUp /\ Turn
  BY ContextsType DEF InsideInv, SeenInv, Inside!TypeOK
<1>1. /\ stack # <<>> /\ ret # "none" /\ stack' = Inside!Front(stack) /\ ret' = "none"
      /\ UNCHANGED <<tree, made, file>>
  BY DEF Inside!Leave
<1>2. PICK top \in Nat \ {0} : top = Len(stack)
  BY <1>0, <1>1, AroundIs
<1>3. PICK n \in StepIds, s \in Inside!Scopes :
        /\ n = Inside!Scope /\ s = Inside!ScopeOf(n) /\ s = Outer(top) /\ stack[top] = n
        /\ s \in made \cup {"job"}
        /\ stage = "main" => s = "job" \/ conclusion[s] # "none"
        /\ s = "job" => top = 1
        /\ DOMAIN stack = 1..top /\ stack \in Seq(StepIds)
  BY <1>0, <1>1, <1>2, AroundIs, TreeShape
<1>4. stage \in {"pre", "main", "post"}
  BY <1>0, <1>1 DEF Nested, Inside!TypeOK
<1>5. /\ Len(stack') = top - 1 /\ DOMAIN stack' = 1..(top - 1)
      /\ \A i \in 1..(top - 1) : stack'[i] = stack[i]
  <2>1. /\ Len(stack') = top - 1 /\ DOMAIN stack' = DOMAIN stack \ {top}
        /\ \A i \in DOMAIN stack' : stack'[i] = stack[i]
    BY <1>1, <1>2, <1>3, FrontShape
  <2> QED BY <1>3, <2>1
<1>6. \A i \in 1..top : Outer(i)' = Outer(i)
  BY <1>5 DEF Outer
<1>7. stack' # <<>> => /\ Inside!Scope' \in made /\ tree.kind[Inside!Scope'] = "composite"
                       /\ Inside!Scope' = stack'[top - 1] /\ top # 1
  <2>1. SUFFICES ASSUME stack' # <<>>
                 PROVE  /\ Inside!Scope' \in made /\ tree.kind[Inside!Scope'] = "composite"
                        /\ Inside!Scope' = stack'[top - 1] /\ top # 1
    OBVIOUS
  <2>2. stack' \in Seq(StepIds)
    BY <1>1, <1>3, FrontShape
  <2>3. Len(stack') # 0
    BY <2>1, <2>2
  <2>4. top - 1 \in 1..top /\ top - 1 < top /\ stack'[top - 1] = stack[top - 1] /\ top # 1
    BY <1>5, <2>3
  <2>5. Inside!Scope' = stack'[top - 1]
    BY <1>5, <2>1 DEF Inside!Scope, Inside!Last
  <2> QED BY <1>0, <1>2, <1>3, <2>4, <2>5 DEF MadeUp, Nested
<1>8. MadeUp'
  <2>1. \A i \in DOMAIN stack' : i < Len(stack') => stack'[i] \in made
    <3>1. SUFFICES ASSUME NEW i \in 1..(top - 1) PROVE stack[i] \in made
      BY <1>5
    <3>2. i \in DOMAIN stack /\ i < Len(stack)
      BY <1>2, <1>3
    <3> QED BY <1>0, <3>2 DEF MadeUp
  <2> QED BY <1>1, <1>7, <2>1 DEF MadeUp
<1>9. PICK raised \in BOOLEAN, ended \in BOOLEAN, kept \in Contexts :
        /\ Inside!Finish(s, raised, ended, kept)
        /\ \E q \in Contexts : q = Inside!ReadFiles(n, s, k) /\ SameValues(kept, q)
  <2> DEFINE e == ret = "failed" \/ Inside!Refused(s)
             r == (e /\ n \notin tree.lenient) \/ k < Len(Inside!Commands)
             d == s # "job" /\ expired \cap Inside!Range(Inside!Front(stack)) # {}
  <2>1. PICK q \in Contexts : q = Inside!ReadFiles(n, s, k)
    BY <1>0, ReadFilesContexts
  <2>2. Inside!Finish(s, r, d, [q EXCEPT ![s].refused = FALSE])
    BY <1>3, <2>1 DEF Inside!Leave
  <2>3. /\ [q EXCEPT ![s].refused = FALSE] \in Contexts
        /\ SameValues([q EXCEPT ![s].refused = FALSE], q)
    BY DEF Contexts, Context, SameValues
  <2>4. r \in BOOLEAN /\ d \in BOOLEAN
    OBVIOUS
  <2> HIDE DEF r, d
  <2> QED BY <2>1, <2>2, <2>3, <2>4
<1>10. PICK q \in Contexts : q = Inside!ReadFiles(n, s, k) /\ SameValues(kept, q)
  BY <1>9
<1>11. /\ SameValues(rc', q)
       /\ \/ stage' = stage /\ next' = [next EXCEPT ![s] = @ + 1]
          \/ s = "job" /\ (stage = "pre" => stage' = "main")
                       /\ (stage = "main" => stage' = "post")
                       /\ (stage = "post" => stage' = "over")
  <2>1. /\ SameValues(rc', kept)
        /\ \/ stage' = stage /\ next' = [next EXCEPT ![s] = @ + 1]
           \/ s = "job" /\ (stage = "pre" => stage' = "main")
                        /\ (stage = "main" => stage' = "post")
                        /\ (stage = "post" => stage' = "over")
    BY <1>0, <1>4, <1>9, FinishValues
  <2> QED BY <1>10, <2>1 DEF SameValues
<1>12. /\ hist'.last = IF file # "none" /\ k >= 1 THEN file ELSE hist.last
       /\ hist'.wrote = IF file # "none" /\ k >= 4 THEN hist.wrote \cup {file} ELSE hist.wrote
       /\ hist'.inner = IF file # "none" /\ k >= 1 /\ stage = "pre" /\ s # "job"
                        THEN TRUE ELSE hist.inner
  BY <1>0, <1>3 DEF Inside!Leave, Inside!Record, Logged, Histories
<1>13. \/ conclusion' = conclusion
       \/ stage = "main" /\ conclusion' = [conclusion EXCEPT ![n] = "failure"]
  BY <1>3 DEF Inside!Leave
<1>14. Turn'
  BY <1>0, <1>1, <1>3, <1>4, <1>11, <1>13, LeaveTurn
<1>15. \A x \in StepIds : conclusion'[x] = "none" => conclusion[x] = "none"
  BY <1>0, <1>13 DEF Inside!TypeOK
<1>16. stage' \in {"pre", "main"} => stage \in {"pre", "main"}
  BY <1>4, <1>11
<1>17. Relevant' => Relevant
  BY <1>0, <1>12, <1>16 DEF Relevant, Logged, Histories
<1>18. /\ stage = "main" => Depth = top
       /\ stage' \in {"pre", "main"} => Depth' = Depth
       /\ Depth \in 1..top
  <2>1. Depth = IF stage = "main" THEN top ELSE 1
    BY <1>1, <1>2 DEF Depth
  <2>2. stage' = "main" => Depth' = top
    <3>1. CASE stack' = <<>>
      <4>1. top = 1 /\ Len(stack') = 0
        BY <1>5, <3>1
      <4> QED BY <3>1, <4>1 DEF Depth
    <3>2. CASE stack' # <<>>
      <4>1. tree'.kind = tree.kind
        BY <1>1
      <4> QED BY <1>1, <1>5, <1>7, <3>2, <4>1 DEF Depth
    <3> QED BY <3>1, <3>2
  <2>3. stage' = "pre" => Depth' = 1 /\ stage = "pre"
    BY <1>4, <1>11 DEF Depth
  <2>4. stage' = "main" /\ stage # "main" => top = 1
    BY <1>3, <1>4, <1>11
  <2> QED BY <1>4, <1>16, <2>1, <2>2, <2>3, <2>4
<1>19. CASE file = "none" \/ k = 0
  <2>1. global' = global
    BY <1>19 DEF Inside!Leave
  <2>2. q = rc
    BY <1>10, <1>19 DEF Inside!ReadFiles
  <2>3. SameValues(rc', rc) /\ ValuesKept
    <3>1. SameValues(rc', rc)
      BY <1>11, <2>2
    <3>2. ~(file # "none" /\ k >= 1) /\ ~(file # "none" /\ k >= 4)
      BY <1>19
    <3>3. hist'.last = hist.last /\ hist'.wrote = hist.wrote
      BY <1>12, <3>2
    <3>4. hist'.inner = hist.inner
      BY <1>12, <3>2, Zenon
    <3> QED BY <1>1, <1>16, <2>1, <3>1, <3>3, <3>4 DEF ValuesKept
  <2>4. Seen'
    BY <1>0, <1>6, <1>18, <2>3, SeenKept DEF SeenInv
  <2>5. Maps' /\ Inherited'
    BY <1>0, <1>1, <1>15, <1>17, <2>1, <2>3, MapsKept, InheritedKept
  <2> QED BY <1>8, <1>14, <2>4, <2>5 DEF SeenInv
<1>20. CASE ~(file = "none" \/ k = 0)
  <2>1. PICK m \in Inside!Scopes : m = Inside!MapOf(rc, s)
    BY <1>0 DEF Inside!MapOf, Contexts, Context
  <2>2. global' = [global EXCEPT ![m] = file] /\ global \in [Inside!Scopes -> StepIds \cup {"none"}]
    BY <1>0, <1>3, <1>20, <2>1 DEF Inside!Leave, Inside!TypeOK
  <2>3. /\ rc'[s].env = file /\ rc'[s].map = m
        /\ k = 4 => rc'[s].path = rc[s].path \cup {file}
        /\ k # 4 => rc'[s].path = rc[s].path
        /\ \A u \in Inside!Scopes : u # s => rc'[u].map = rc[u].map
    <3>1. /\ q[s].env = file /\ q[s].map = m
          /\ k = 4 => q[s].path = rc[s].path \cup {file}
          /\ k # 4 => q[s].path = rc[s].path
          /\ \A u \in Inside!Scopes : u # s => q[u] = rc[u]
      <4>1. /\ q[s].env = file /\ q[s].map = Inside!MapOf(rc, s)
            /\ k = 4 => q[s].path = rc[s].path \cup {file}
            /\ k # 4 => q[s].path = rc[s].path
            /\ \A u \in Inside!Scopes : u # s => q[u] = rc[u]
        <5>1. q = Inside!ReadFiles(n, s, k) /\ file # "none" /\ k # 0
          BY <1>10, <1>20
        <5> QED BY <1>0, <5>1, ReadValues
      <4> QED BY <2>1, <4>1
    <3>2. \A u \in Inside!Scopes : /\ rc'[u].env = q[u].env /\ rc'[u].map = q[u].map
                                   /\ rc'[u].path = q[u].path
      BY <1>11 DEF SameValues
    <3> QED BY <3>1, <3>2
  <2>4. Maps'
    BY <1>0, <1>1, <1>3, <2>1, <2>2, <2>3, MapsTaken
  <2>5. Relevant' => (stage = "pre" => s = "job")
    BY <1>12, <1>20 DEF Relevant
  <2>6. Relevant' => Relevant /\ (s = "job" \/ conclusion[s] # "none")
    BY <1>3, <1>17, <2>5 DEF Relevant
  <2>7. Inherited'
    BY <1>0, <1>1, <1>15, <2>1, <2>3, <2>6, InheritedTaken
  <2>8. PICK d \in 1..top : d = Depth
    BY <1>18
  <2>9. Relevant' => Outer(d) = s
    BY <1>3, <1>17, <1>18, <2>5, <2>8 DEF Relevant, Outer, Depth
  <2>10. PICK o : o = [i \in 1..(Len(stack) + 1) |-> Outer(i)]
    OBVIOUS
  <2>11. \A i \in 1..d : o[i] = Outer(i)
    BY <1>2, <2>10
  <2>12. Relevant' => hist.wrote \subseteq rc[s].path
    BY <1>0, <1>17, <2>8, <2>9 DEF Seen
  <2>13. Relevant' => Latest(rc', global', file, o, d)
    <3>1. SUFFICES ASSUME Relevant' PROVE Latest(rc', global', file, o, d)
      OBVIOUS
    <3>2. o[d] = s
      BY <2>9, <2>11, <3>1
    <3>3. m # "nil" /\ global'[m] = file
      BY <2>1, <2>2, Names
    <3> QED BY <1>20, <2>3, <3>2, <3>3, WrittenRow
  <2>14. Relevant' => hist'.wrote \subseteq rc'[o[d]].path /\ hist'.last = file
    <3>1. SUFFICES ASSUME Relevant' PROVE hist'.wrote \subseteq rc'[s].path /\ hist'.last = file
      BY <2>9, <2>11
    <3> QED BY <1>12, <1>20, <2>3, <2>12, <3>1
  <2>15. Relevant' => Depth' = d
    BY <1>18, <2>8 DEF Relevant
  <2>16. \A i \in 1..d : Outer(i)' = o[i]
    BY <1>6, <2>11
  <2>17. d \in Nat \ {0}
    OBVIOUS
  <2>18. Seen'
    BY <2>13, <2>14, <2>15, <2>16, <2>17, RowSeen
  <2> QED BY <1>8, <1>14, <2>4, <2>7, <2>18 DEF SeenInv
<1> QED BY <1>19, <1>20

-----------------------------------------------------------------------------
(* What a step sees, in every behaviour.                                   *)

LEMMA InitSeen == Inside!Init => SeenInv
<1> SUFFICES ASSUME Inside!Init PROVE SeenInv
  OBVIOUS
<1>1. /\ stage = "pre" /\ stack = <<>> /\ made = {} /\ "job" \in Inside!Scopes
      /\ \A s \in Inside!Scopes : /\ rc[s].env = "none" /\ rc[s].map = "nil"
                                  /\ global[s] = "none"
      /\ \A n \in StepIds : conclusion[n] = "none"
      /\ hist.wrote = {} /\ hist.last = "none"
  BY DEF Inside!Init, Inside!Scopes
<1>2. Depth = 1 /\ Outer(1) = "job"
  BY <1>1 DEF Depth, Outer
<1>3. UpToDate(1)
  BY <1>1, <1>2 DEF UpToDate, HasSet
<1>4. Seen
  <2>1. \A i \in 1..1 : UpToDate(i)
    BY <1>3
  <2> QED BY <1>1, <1>2, <2>1 DEF Seen
<1>5. Maps /\ Inherited /\ MadeUp /\ Turn
  BY <1>1 DEF Maps, Inherited, MadeUp, Turn
<1> QED BY <1>4, <1>5 DEF SeenInv

LEMMA NextSeen == InsideInv /\ SeenInv /\ [Inside!Next]_inside => SeenInv'
<1> SUFFICES ASSUME InsideInv, SeenInv, [Inside!Next]_inside PROVE SeenInv'
  OBVIOUS
<1>1. CASE UNCHANGED inside
  BY <1>1, ExpireSeen DEF inside
<1>2. ASSUME NEW n \in StepIds,
             \/ Inside!PrepareFails(n) \/ Inside!Pass(n) \/ Inside!Skip(n) \/ Inside!Begin(n)
             \/ Inside!ReadFails(n) \/ Inside!CopyFails(n)
      PROVE  SeenInv'
  BY <1>2, EarlySeen, EnterSeen DEF Inside!ReadFails, Inside!CopyFails
<1>3. ASSUME NEW n \in StepIds, Inside!Expire(n)
      PROVE  SeenInv'
  BY <1>3, ExpireSeen DEF Inside!Expire
<1>4. ASSUME NEW how \in {"silent", "files", "prints", "refused"}, NEW ok \in BOOLEAN,
             Inside!RunScript(how, ok) \/ Inside!RunAction(how, ok) \/ Inside!RunPre(how, ok)
      PROVE  SeenInv'
  <2>1. /\ Inside!Ran(how, ok) /\ tree.kind[Inside!Scope] \in {"script", "action"}
        /\ hist' = Inside!Saves(how)
    BY <1>4, Zenon DEF Inside!RunScript, Inside!RunAction, Inside!RunPre
  <2> QED BY <2>1, RanSeen
<1>5. ASSUME NEW ok \in BOOLEAN, Inside!RunPost(ok)
      PROVE  SeenInv'
  <2>1. /\ Inside!Ran("silent", ok) /\ tree.kind[Inside!Scope] \in {"script", "action"}
        /\ hist' = [hist EXCEPT !.posts = Append(@, Inside!Scope)]
    BY <1>5, Zenon DEF Inside!RunPost
  <2> QED BY <2>1, RanSeen
<1>6. ASSUME NEW k \in 0..Len(Inside!Commands), Inside!Leave(k)
      PROVE  SeenInv'
  <2>1. Len(Inside!Commands) = 4
    BY DEF Inside!Commands
  <2> QED BY <1>6, <2>1, LeaveSeen
<1>7. CASE Inside!Over
  BY <1>1, <1>7 DEF Inside!Over, Inside!vars, inside
<1>8. CASE Inside!Next
  BY <1>2, <1>3, <1>4, <1>5, <1>6, <1>7, <1>8, ChildrenSeen DEF Inside!Next
<1> QED BY <1>1, <1>8

LEMMA SeenInductive == JobSpec => [](level = "steps" => InsideInv /\ SeenInv)
<1>1. JobInit => (level = "steps" => InsideInv /\ SeenInv)
  BY InitInside, InitSeen DEF JobInit
<1>2. (level = "steps" => InsideInv /\ SeenInv) /\ [JobNext]_everything
      => (level = "steps" => InsideInv /\ SeenInv)'
  <2> SUFFICES ASSUME level = "steps" => InsideInv /\ SeenInv, [JobNext]_everything,
                      level' = "steps"
               PROVE  InsideInv' /\ SeenInv'
    OBVIOUS
  <2>1. level = "steps" /\ [Inside!Next]_inside
    BY DEF JobNext, OfJob, OfSteps, everything
  <2> QED BY <2>1, NextInside, NextSeen
<1> QED BY <1>1, <1>2, PTL DEF JobSpec

\* A running main stage is in the run context up to which all are up to date.
LEMMA SeenLatest == InsideInv /\ SeenInv => Inside!LatestSeen
<1> SUFFICES ASSUME InsideInv, SeenInv, Inside!Running("main"), ~hist.inner
             PROVE  LET s == Inside!ScopeOf(Inside!Scope)
                    IN  rc[s].env = hist.last /\ hist.wrote \subseteq rc[s].path
  BY DEF Inside!LatestSeen
<1>1. /\ Inside!TypeOK /\ Nested /\ MadeUp /\ Turn /\ Seen
      /\ stage = "main" /\ stack # <<>> /\ tree.kind[Inside!Scope] # "composite"
  BY DEF InsideInv, SeenInv, Inside!Running, Inside!Composite
<1>2. PICK top \in Nat \ {0} : top = Len(stack) /\ Inside!ScopeOf(Inside!Scope) = Outer(top)
  BY <1>1, AroundIs
<1>3. Depth = top /\ Relevant
  BY <1>1, <1>2 DEF Depth, Relevant
<1>4. top \in 1..top /\ \A j \in (top + 1)..top : ~HasSet(Outer(j))
  OBVIOUS
<1>5. hist.wrote \subseteq rc[Outer(top)].path /\ UpToDate(top)
  BY <1>1, <1>3, <1>4 DEF Seen
<1> QED BY <1>2, <1>5 DEF UpToDate

\* What a step writes reaches those it is for: what it saves and puts out goes
\* to that very step, and the variable it sets and the path entries it adds are
\* seen by the main stages of all later steps, at any depth, although every
\* composite action runs its steps in a copy of the run context around it and
\* the copies share the map of the job's variables once there is one
\* (newCompositeRunContext, setEnv, execAsComposite).
THEOREM WritesArrive == JobSpec => []CommandsArrive
<1>1. (level = "steps" => InsideInv /\ SeenInv) => CommandsArrive
  BY SeenLatest DEF CommandsArrive, Inside!CommandsArrive, InsideInv
<1> QED BY <1>1, SeenInductive, PTL

-----------------------------------------------------------------------------
(* The tree around a step.                                                 *)

\* A step that the job's run context lists, or one of a composite action that
\* is such a step itself; what is around it is a path, with one step of every
\* run context on it.
Path(x) ==
    LET around == Inside!Around(x)
    IN  /\ \E s \in Inside!Scopes : x \in Inside!Range(tree.child[s])
        /\ \E i \in DOMAIN tree.child["job"] : tree.child["job"][i] \in around
        /\ \A y \in around : y # x =>
              /\ tree.kind[y] = "composite"
              /\ \E i \in DOMAIN tree.child[y] : tree.child[y][i] \in around
        /\ \A s \in Inside!Scopes : \A i, k \in DOMAIN tree.child[s] :
              tree.child[s][i] \in around /\ tree.child[s][k] \in around => i = k
        /\ \A i \in DOMAIN tree.child[x] : tree.child[x][i] \notin around
        /\ \A y, z \in around : y \in Inside!Around(z) \/ z \in Inside!Around(y)
Rooted(x) == \A y \in Inside!Around(x) : Path(y)

\* A step is around another if it is in every set that has that one and, with
\* a step, the run context that lists it.
LEMMA AroundSpec ==
  ASSUME NEW n, NEW m
  PROVE  m \in Inside!Around(n) <=>
             /\ m \in StepIds
             /\ \A A \in SUBSET Inside!Scopes : n \in A /\ Inside!Closed(A) => m \in A
BY DEF Inside!Around

\* What is around a step stays as it is.
LEMMA AroundKept ==
  ASSUME UNCHANGED tree
  PROVE  /\ \A n : Inside!Around(n)' = Inside!Around(n)
         /\ \A n : Inside!ScopeOf(n)' = Inside!ScopeOf(n)
BY DEF Inside!Around, Inside!Closed, Inside!ScopeOf

LEMMA AroundSelf ==
  ASSUME NEW n \in StepIds
  PROVE  n \in Inside!Around(n)
BY AroundSpec

LEMMA AroundThrough ==
  ASSUME NEW n, NEW m \in Inside!Around(n)
  PROVE  m \in StepIds /\ Inside!Around(m) \subseteq Inside!Around(n)
<1>1. m \in StepIds /\ \A A \in SUBSET Inside!Scopes : n \in A /\ Inside!Closed(A) => m \in A
  BY AroundSpec
<1>2. ASSUME NEW y \in Inside!Around(m) PROVE y \in Inside!Around(n)
  <2>1. y \in StepIds /\ \A A \in SUBSET Inside!Scopes : m \in A /\ Inside!Closed(A) => y \in A
    BY <1>2, AroundSpec
  <2> QED BY <1>1, <2>1, AroundSpec
<1> QED BY <1>1, <1>2

LEMMA AroundParent ==
  ASSUME Inside!TypeOK, NEW n, NEW s \in StepIds, NEW i \in DOMAIN tree.child[s],
         tree.child[s][i] \in Inside!Around(n)
  PROVE  s \in Inside!Around(n)
<1>1. s \in Inside!Scopes
  BY DEF Inside!Scopes
<1>2. tree.child[s][i] \in Inside!Range(tree.child[s])
  BY DEF Inside!Range
<1>3. ASSUME NEW A \in SUBSET Inside!Scopes, n \in A, Inside!Closed(A) PROVE s \in A
  <2>1. tree.child[s][i] \in A
    BY <1>3, AroundSpec
  <2> QED BY <1>1, <1>2, <1>3, <2>1 DEF Inside!Closed
<1> QED BY <1>3, AroundSpec

LEMMA AroundJob ==
  ASSUME Inside!TypeOK
  PROVE  Inside!Around("job") = {}
<1>1. "job" \notin StepIds /\ Inside!Scopes = {"job"} \cup StepIds
      /\ tree.child \in [Inside!Scopes -> Seq(StepIds)]
  BY TreeShape
<1>2. Inside!Closed({"job"})
  <2>1. SUFFICES ASSUME NEW s \in Inside!Scopes, Inside!Range(tree.child[s]) \cap {"job"} # {}
                 PROVE  FALSE
    BY DEF Inside!Closed
  <2>2. PICK i \in DOMAIN tree.child[s] : tree.child[s][i] = "job"
    BY <2>1 DEF Inside!Range
  <2>3. tree.child[s] \in Seq(StepIds)
    BY <1>1
  <2>4. tree.child[s][i] \in StepIds
    BY <2>2, <2>3
  <2> QED BY <1>1, <2>2, <2>4
<1>3. {"job"} \in SUBSET Inside!Scopes
  BY <1>1
<1>4. ASSUME NEW m \in Inside!Around("job") PROVE FALSE
  BY <1>1, <1>2, <1>3, <1>4, AroundSpec
<1> QED BY <1>4

\* Around a step are itself and what is around the one that lists it.
LEMMA AroundStep ==
  ASSUME Inside!TypeOK, NEW s \in Inside!Scopes, NEW i \in DOMAIN tree.child[s],
         NEW n, n = tree.child[s][i]
  PROVE  /\ n \in StepIds
         /\ Inside!Around(n) = {n} \cup Inside!Around(s)
         /\ s \in StepIds => s \in Inside!Around(n)
<1>1. /\ "job" \notin StepIds /\ Inside!Scopes = {"job"} \cup StepIds
      /\ tree.child[s] \in Seq(StepIds) /\ n \in StepIds
  BY TreeShape
<1>2. s \in StepIds => s \in Inside!Around(n)
  <2>1. n \in Inside!Around(n)
    BY <1>1, AroundSelf
  <2> QED BY <2>1, AroundParent
<1>3. Inside!Around(s) \subseteq Inside!Around(n)
  <2>1. CASE s = "job"
    BY <2>1, AroundJob
  <2>2. CASE s \in StepIds
    BY <1>2, <2>2, AroundThrough
  <2> QED BY <1>1, <2>1, <2>2
<1>4. ASSUME NEW m \in Inside!Around(n), m # n PROVE m \in Inside!Around(s)
  <2>1. ASSUME NEW A \in SUBSET Inside!Scopes, s \in A, Inside!Closed(A) PROVE m \in A
    <3>1. PICK B \in SUBSET Inside!Scopes : B = A \cup {n}
      BY <1>1
    <3>2. Inside!Closed(B)
      <4>1. SUFFICES ASSUME NEW u \in Inside!Scopes, Inside!Range(tree.child[u]) \cap B # {}
                     PROVE  u \in B
        BY DEF Inside!Closed
      <4>2. PICK k \in DOMAIN tree.child[u] : tree.child[u][k] \in B
        BY <4>1 DEF Inside!Range
      <4>3. CASE tree.child[u][k] = n
        BY <2>1, <3>1, <4>3, TreeShape
      <4>4. CASE tree.child[u][k] \in A
        <5>1. Inside!Range(tree.child[u]) \cap A # {}
          BY <4>4 DEF Inside!Range
        <5> QED BY <2>1, <3>1, <5>1 DEF Inside!Closed
      <4> QED BY <3>1, <4>2, <4>3, <4>4
    <3>3. m \in B
      BY <3>1, <3>2, <1>4, AroundSpec
    <3> QED BY <1>4, <3>1, <3>3
  <2>2. m \in StepIds
    BY <1>4, AroundThrough
  <2> QED BY <2>1, <2>2, AroundSpec
<1>5. n \in Inside!Around(n)
  BY <1>1, AroundSelf
<1> QED BY <1>1, <1>2, <1>3, <1>4, <1>5

LEMMA RootedKept ==
  ASSUME UNCHANGED tree
  PROVE  \A n : Rooted(n)' <=> Rooted(n)
<1>1. \A n : Inside!Around(n)' = Inside!Around(n)
  BY AroundKept
<1> QED BY <1>1 DEF Rooted, Path

LEMMA RootedThrough ==
  ASSUME NEW x \in StepIds, Rooted(x), NEW y \in Inside!Around(x)
  PROVE  Rooted(y) /\ Path(x)
BY AroundThrough, AroundSelf DEF Rooted

\* So is a step of the job, or of a composite action that is such a step.
LEMMA RootedChild ==
  ASSUME Inside!TypeOK, NEW s \in Inside!Scopes, NEW i \in DOMAIN tree.child[s],
         s = "job" \/ (Rooted(s) /\ tree.kind[s] = "composite"),
         NEW n, n = tree.child[s][i]
  PROVE  Rooted(n) /\ n \notin Inside!Around(s) /\ n # s
<1>1. /\ "job" \notin StepIds /\ Inside!Scopes = {"job"} \cup StepIds
      /\ tree.child \in [Inside!Scopes -> Seq(StepIds)] /\ n \in StepIds
      /\ \A t, u \in Inside!Scopes :
            \A k \in DOMAIN tree.child[t], j \in DOMAIN tree.child[u] :
               tree.child[t][k] = tree.child[u][j] => t = u /\ k = j
  BY TreeShape
<1>2. Inside!Around(n) = {n} \cup Inside!Around(s)
  BY AroundStep
<1>3. CASE s = "job"
  <2>1. Inside!Around(n) = {n}
    BY <1>2, <1>3, AroundJob
  <2>2. n # s /\ n \notin Inside!Around(s)
    BY <1>1, <1>3, AroundJob
  <2>3. Path(n)
    <3>1. n \in Inside!Range(tree.child[s])
      BY DEF Inside!Range
    <3>2. \A u \in Inside!Scopes : \A k, j \in DOMAIN tree.child[u] :
            tree.child[u][k] \in {n} /\ tree.child[u][j] \in {n} => k = j
      BY <1>1
    <3>3. \A k \in DOMAIN tree.child[n] : tree.child[n][k] \notin {n}
      BY <1>1, <1>3
    <3> QED BY <1>3, <2>1, <3>1, <3>2, <3>3 DEF Path
  <2> QED BY <2>1, <2>2, <2>3 DEF Rooted
<1>4. CASE s # "job"
  <2>0. s \in StepIds /\ Rooted(s) /\ tree.kind[s] = "composite"
    BY <1>1, <1>4
  <2>1. Path(s) /\ s \in Inside!Around(s)
    BY <2>0, AroundSelf DEF Rooted
  <2>2. n \notin Inside!Around(s)
    BY <2>1 DEF Path
  <2>3. n # s
    BY <2>1, <2>2
  <2>4. Path(n)
    <3>1. n \in Inside!Range(tree.child[s])
      BY DEF Inside!Range
    <3>2. \E k \in DOMAIN tree.child["job"] : tree.child["job"][k] \in Inside!Around(n)
      BY <1>2, <2>1 DEF Path
    <3>3. ASSUME NEW y \in Inside!Around(n), y # n
          PROVE  /\ tree.kind[y] = "composite"
                 /\ \E k \in DOMAIN tree.child[y] : tree.child[y][k] \in Inside!Around(n)
      <4>1. y \in Inside!Around(s)
        BY <1>2, <3>3
      <4>2. CASE y = s
        BY <1>2, <2>0, <4>2
      <4>3. CASE y # s
        BY <1>2, <2>1, <4>1, <4>3 DEF Path
      <4> QED BY <4>2, <4>3
    <3>4. ASSUME NEW u \in Inside!Scopes, NEW k \in DOMAIN tree.child[u],
                 NEW j \in DOMAIN tree.child[u],
                 tree.child[u][k] \in Inside!Around(n), tree.child[u][j] \in Inside!Around(n)
          PROVE  k = j
      <4>1. CASE u # s
        <5>1. tree.child[u][k] # n /\ tree.child[u][j] # n
          BY <1>1, <4>1
        <5> QED BY <1>2, <2>1, <3>4, <5>1 DEF Path
      <4>2. CASE u = s
        <5>1. tree.child[u][k] \notin Inside!Around(s) /\ tree.child[u][j] \notin Inside!Around(s)
          BY <2>1, <4>2 DEF Path
        <5>2. tree.child[u][k] = n /\ tree.child[u][j] = n
          BY <1>2, <3>4, <5>1
        <5> QED BY <1>1, <5>2
      <4> QED BY <4>1, <4>2
    <3>5. ASSUME NEW k \in DOMAIN tree.child[n], tree.child[n][k] \in Inside!Around(n)
          PROVE  FALSE
      <4>1. n \in Inside!Scopes
        BY <1>1
      <4>2. tree.child[n][k] # n
        BY <1>1, <2>3, <4>1
      <4>3. tree.child[n][k] \in Inside!Around(s)
        BY <1>2, <3>5, <4>2
      <4>4. n \in Inside!Around(s)
        BY <1>1, <4>3, AroundParent
      <4> QED BY <2>2, <4>4
    <3>6. \A y, z \in Inside!Around(n) : y \in Inside!Around(z) \/ z \in Inside!Around(y)
      BY <1>2, <2>1 DEF Path
    <3> QED BY <3>1, <3>2, <3>3, <3>4, <3>5, <3>6 DEF Path
  <2> QED BY <1>2, <2>0, <2>2, <2>3, <2>4 DEF Rooted
<1> QED BY <1>3, <1>4

\* The one of the job's own steps that is around a step.
LEMMA OutermostIs ==
  ASSUME Inside!TypeOK, NEW x \in StepIds, Rooted(x), NEW m \in Inside!Around(x),
         Inside!ScopeOf(m) = "job"
  PROVE  Inside!Outermost(x) = m
<1>0. "job" \in Inside!Scopes
  BY DEF Inside!Scopes
<1>1. ASSUME NEW y \in Inside!Around(x), Inside!ScopeOf(y) = "job"
      PROVE  \E i \in DOMAIN tree.child["job"] : y = tree.child["job"][i]
  <2>1. PICK s \in Inside!Scopes : y \in Inside!Range(tree.child[s])
    BY DEF Rooted, Path
  <2>2. y \in Inside!Range(tree.child[Inside!ScopeOf(y)])
    BY <2>1 DEF Inside!ScopeOf
  <2> QED BY <1>1, <2>2 DEF Inside!Range
<1>2. \A i, k \in DOMAIN tree.child["job"] :
        tree.child["job"][i] \in Inside!Around(x) /\ tree.child["job"][k] \in Inside!Around(x)
        => i = k
  BY <1>0, AroundSelf DEF Rooted, Path
<1>3. \A y \in Inside!Around(x) : Inside!ScopeOf(y) = "job" => y = m
  <2>1. ASSUME NEW y \in Inside!Around(x), Inside!ScopeOf(y) = "job" PROVE y = m
    <3>1. PICK i \in DOMAIN tree.child["job"] : y = tree.child["job"][i]
      BY <1>1, <2>1
    <3>2. PICK k \in DOMAIN tree.child["job"] : m = tree.child["job"][k]
      BY <1>1
    <3> QED BY <1>2, <2>1, <3>1, <3>2
  <2> QED BY <2>1
<1> QED BY <1>3 DEF Inside!Outermost

-----------------------------------------------------------------------------
(* What a step does to the turn, the errors and the history.               *)

\* The turn of the run context s goes to its next step, or to the next stage.
TurnGoesOn(s) ==
    \/ stage' = stage /\ next' = [next EXCEPT ![s] = @ + 1]
    \/ /\ s = "job" /\ next' = [next EXCEPT !["job"] = 1]
       /\ \/ stage = "pre" /\ stage' = "main"
          \/ stage = "main" /\ stage' = "post"
          \/ stage = "post" /\ stage' = "over" /\ next["job"] = Len(tree.child["job"])

\* Errors stay where they are; the one of a step of s arrives.
ErrorArrives(s, e) ==
    /\ \A u \in Inside!Scopes : rc[u].err => rc'[u].err
    /\ e => rc'[IF stage = "post" THEN "job" ELSE s].err
    /\ broken \/ (s = "job" /\ e) => broken'

LEMMA FinishTurn ==
  ASSUME Inside!TypeOK, stage \in {"pre", "main", "post"}, NEW s \in Inside!Scopes,
         NEW e \in BOOLEAN, NEW ended \in BOOLEAN, NEW r \in Contexts,
         Inside!Finish(s, e, ended, r), \A u \in Inside!Scopes : rc[u].err => r[u].err
  PROVE  TurnGoesOn(s) /\ ErrorArrives(s, e)
<1>1. PICK f \in BOOLEAN : f = (e \/ ended)
  OBVIOUS
<1>2. rc' = Inside!SetError(r, s, f)
  BY <1>1 DEF Inside!Finish
<1>3. "job" \in Inside!Scopes
  BY DEF Inside!Scopes
<1>4. \A u \in Inside!Scopes :
        /\ [r EXCEPT ![u].err = TRUE][u].err
        /\ \A t \in Inside!Scopes : r[t].err => [r EXCEPT ![u].err = TRUE][t].err
  BY DEF Contexts, Context
<1>5. \A u \in Inside!Scopes : r[u].err => rc'[u].err
  BY <1>2, <1>3, <1>4 DEF Inside!SetError
<1>6. e => rc'[IF stage = "post" THEN "job" ELSE s].err
  BY <1>1, <1>2, <1>3, <1>4 DEF Inside!SetError
<1>7. broken \/ (s = "job" /\ e) => broken'
  BY Zenon DEF Inside!Finish
<1>8. ErrorArrives(s, e)
  BY <1>5, <1>6, <1>7 DEF ErrorArrives
<1>9. TurnGoesOn(s)
  <2>1. PICK last \in BOOLEAN :
          last = (s = "job" /\ (next[s] = Len(tree.child[s]) \/ (stage = "pre" /\ e)))
    OBVIOUS
  <2>2. /\ stage' = IF ~last THEN stage
                    ELSE CASE stage = "pre" -> "main" [] stage = "main" -> "post"
                           [] stage = "post" -> "over"
        /\ next' = [next EXCEPT ![s] = IF last THEN 1 ELSE @ + 1]
    BY <2>1 DEF Inside!Finish
  <2>3. CASE ~last
    BY <2>2, <2>3 DEF TurnGoesOn
  <2>4. CASE last
    <3>1. s = "job" /\ next' = [next EXCEPT !["job"] = 1]
      BY <2>1, <2>2, <2>4
    <3>2. \/ stage = "pre" /\ stage' = "main"
          \/ stage = "main" /\ stage' = "post"
          \/ stage = "post" /\ stage' = "over"
      BY <2>2, <2>4
    <3>3. stage = "post" => next["job"] = Len(tree.child["job"])
      BY <2>1, <2>4
    <3> QED BY <3>1, <3>2, <3>3 DEF TurnGoesOn
  <2> QED BY <2>3, <2>4
<1> QED BY <1>8, <1>9

\* A stage that is over before its executor was called: of a failed one there
\* is an error, and only a stage that does not exist is passed over in "post".
EarlyFor(n, s, e) ==
    /\ s = Inside!Scope /\ s = Inside!ScopeOf(n) /\ Inside!Waiting(n)
    /\ TurnGoesOn(s) /\ ErrorArrives(s, e)
    /\ UNCHANGED <<tree, stack, ret, made>>
    /\ action \subseteq action'
    /\ stage = "post" => ~Inside!HasPost(n) /\ UNCHANGED <<action, conclusion>>
    /\ hist'.failures = IF e THEN hist.failures \cup {<<stage, n>>} ELSE hist.failures
    /\ hist'.refusals = hist.refusals
    /\ hist'.posts = hist.posts /\ hist'.lost = hist.lost
    /\ \/ conclusion' = conclusion /\ hist'.mains = hist.mains
       \/ /\ stage = "main" /\ hist'.mains = hist.mains
          /\ conclusion' = [conclusion EXCEPT ![n] = "skipped"]
       \/ /\ stage = "main"
          /\ conclusion' = [conclusion EXCEPT ![n] = "failure"]
          /\ hist'.mains = IF tree.kind[n] = "composite" THEN hist.mains
                           ELSE Append(hist.mains, n)

LEMMA EarlyIs ==
  ASSUME InsideInv, NEW n \in StepIds,
         Inside!PrepareFails(n) \/ Inside!Pass(n) \/ Inside!Skip(n)
  PROVE  \E s \in Inside!Scopes, e \in BOOLEAN : EarlyFor(n, s, e)
<1>0. Inside!TypeOK /\ Nested /\ Logged /\ rc \in Contexts
  BY ContextsType DEF InsideInv
<1>1. Inside!Waiting(n)
  BY DEF Inside!PrepareFails, Inside!Pass, Inside!Skip
<1>2. PICK s \in Inside!Scopes : s = Inside!Scope
  BY <1>0, ScopeIs
<1>3. s = Inside!ScopeOf(n) /\ stage \in {"pre", "main", "post"}
  BY <1>0, <1>1, <1>2, WaitingIs
<1>4. PICK marked \in Contexts : /\ marked = [rc EXCEPT ![s].current = n]
                                 /\ \A u \in Inside!Scopes : marked[u].err = rc[u].err
  <2> DEFINE q == [rc EXCEPT ![s].current = n]
  <2>1. q \in Contexts /\ \A u \in Inside!Scopes : q[u].err = rc[u].err
    BY <1>0 DEF Contexts, Context
  <2> HIDE DEF q
  <2>2. q = [rc EXCEPT ![s].current = n]
    BY DEF q
  <2> QED BY <2>1, <2>2
<1>5. ASSUME NEW e \in BOOLEAN, NEW r \in {rc, marked}, Inside!FinishEarly(n, e, r)
      PROVE  TurnGoesOn(s) /\ ErrorArrives(s, e) /\ UNCHANGED <<tree, stack, ret, made>>
  <2>1. /\ Inside!Finish(s, e, Inside!Ended, r) /\ UNCHANGED <<tree, stack, ret, made>>
    BY <1>2, <1>5 DEF Inside!FinishEarly
  <2>2. PICK ended \in BOOLEAN : ended = Inside!Ended
    BY DEF Inside!Ended
  <2>3. r \in Contexts /\ \A u \in Inside!Scopes : rc[u].err => r[u].err
    BY <1>0, <1>4, <1>5
  <2> QED BY <1>0, <1>3, <2>1, <2>2, <2>3, FinishTurn
<1>6. action \subseteq action' /\ (stage = "post" => action' = action)
  BY DEF Inside!PrepareFails, Inside!Pass, Inside!Skip, Inside!Prepare
<1>7. CASE Inside!PrepareFails(n)
  <2>1. stage # "post" /\ Inside!FinishEarly(n, TRUE, rc) /\ conclusion' = conclusion
        /\ hist' = [hist EXCEPT !.failures = @ \cup {<<stage, n>>}]
    BY <1>7 DEF Inside!PrepareFails, Inside!Record
  <2>2. /\ hist'.failures = hist.failures \cup {<<stage, n>>} /\ hist'.refusals = hist.refusals
        /\ hist'.posts = hist.posts /\ hist'.lost = hist.lost /\ hist'.mains = hist.mains
    BY <1>0, <2>1 DEF Logged, Histories
  <2>3. TurnGoesOn(s) /\ ErrorArrives(s, TRUE) /\ UNCHANGED <<tree, stack, ret, made>>
    BY <1>5, <2>1
  <2>4. EarlyFor(n, s, TRUE)
    BY <1>1, <1>2, <1>3, <1>6, <2>1, <2>2, <2>3 DEF EarlyFor
  <2> QED BY <2>4
<1>8. CASE Inside!Pass(n)
  <2>1. /\ Inside!FinishEarly(n, FALSE, rc) /\ conclusion' = conclusion /\ hist' = hist
        /\ ~Inside!HasStage(n)
    BY <1>8 DEF Inside!Pass
  <2>2. stage = "post" => ~Inside!HasPost(n)
    BY <2>1 DEF Inside!HasStage
  <2>3. TurnGoesOn(s) /\ ErrorArrives(s, FALSE) /\ UNCHANGED <<tree, stack, ret, made>>
    BY <1>5, <2>1
  <2>4. EarlyFor(n, s, FALSE)
    BY <1>1, <1>2, <1>3, <1>6, <2>1, <2>2, <2>3 DEF EarlyFor
  <2> QED BY <2>4
<1>9. CASE Inside!Skip(n)
  <2>1. stage = "main"
    BY <1>9 DEF Inside!Skip
  <2>2. \/ /\ Inside!FinishEarly(n, FALSE, marked) /\ hist' = hist
           /\ conclusion' = [conclusion EXCEPT ![n] = "skipped"]
        \/ /\ Inside!FinishEarly(n, TRUE, marked)
           /\ hist' = [[hist EXCEPT !.failures = @ \cup {<<stage, n>>}] EXCEPT
                         !.mains = IF Inside!Composite(n) THEN @ ELSE Append(@, n)]
           /\ conclusion' = [conclusion EXCEPT ![n] = "failure"]
    BY <1>2, <1>4, <1>9 DEF Inside!Skip, Inside!Record
  <2>3. CASE /\ Inside!FinishEarly(n, FALSE, marked) /\ hist' = hist
             /\ conclusion' = [conclusion EXCEPT ![n] = "skipped"]
    <3>1. TurnGoesOn(s) /\ ErrorArrives(s, FALSE) /\ UNCHANGED <<tree, stack, ret, made>>
      BY <1>5, <2>3
    <3>2. EarlyFor(n, s, FALSE)
      BY <1>1, <1>2, <1>3, <1>6, <2>1, <2>3, <3>1 DEF EarlyFor
    <3> QED BY <3>2
  <2>4. CASE /\ Inside!FinishEarly(n, TRUE, marked)
             /\ hist' = [[hist EXCEPT !.failures = @ \cup {<<stage, n>>}] EXCEPT
                           !.mains = IF Inside!Composite(n) THEN @ ELSE Append(@, n)]
             /\ conclusion' = [conclusion EXCEPT ![n] = "failure"]
    <3>1. TurnGoesOn(s) /\ ErrorArrives(s, TRUE) /\ UNCHANGED <<tree, stack, ret, made>>
      BY <1>5, <2>4
    <3>2. /\ hist'.failures = hist.failures \cup {<<stage, n>>} /\ hist'.refusals = hist.refusals
          /\ hist'.posts = hist.posts /\ hist'.lost = hist.lost
          /\ hist'.mains = IF tree.kind[n] = "composite" THEN hist.mains ELSE Append(hist.mains, n)
      BY <1>0, <2>4 DEF Logged, Histories, Inside!Composite
    <3>3. EarlyFor(n, s, TRUE)
      BY <1>1, <1>2, <1>3, <1>6, <2>1, <2>4, <3>1, <3>2 DEF EarlyFor
    <3> QED BY <3>3
  <2> QED BY <2>2, <2>3, <2>4
<1> QED BY <1>7, <1>8, <1>9

\* The stage of a step begins, whether what it needs is there or not.
EnterFor(n, s) ==
    /\ s = Inside!Scope /\ s = Inside!ScopeOf(n) /\ Inside!Waiting(n)
    /\ stage = "post" => Inside!HasPost(n)
    /\ stage = "main" => Inside!Enabled(n)
    /\ UNCHANGED <<tree, stage, broken>>
    /\ stack' = Append(stack, n) /\ next' = [next EXCEPT ![n] = 1]
    /\ \A u \in Inside!Scopes : u # n => rc'[u].err = rc[u].err
    /\ ret' \in {"none", "failed"} /\ (ret' = "none" => n \in action')
    /\ stage = "post" /\ ret' = "failed" => tree.kind[n] = "composite"
    /\ action \subseteq action' /\ (stage = "post" => action' = action)
    /\ conclusion' = IF stage = "main" THEN [conclusion EXCEPT ![n] = "success"]
                     ELSE conclusion
    /\ hist'.failures = hist.failures /\ hist'.refusals = hist.refusals
    /\ hist'.posts = hist.posts /\ hist'.lost = hist.lost
    /\ hist'.mains = IF stage = "main" /\ tree.kind[n] # "composite"
                     THEN Append(hist.mains, n) ELSE hist.mains

LEMMA EnterIs ==
  ASSUME InsideInv, NEW n \in StepIds,
         Inside!Begin(n) \/ Inside!ReadFails(n) \/ Inside!CopyFails(n)
  PROVE  \E s \in Inside!Scopes : EnterFor(n, s)
<1>0. Inside!TypeOK /\ Nested /\ Logged /\ rc \in Contexts
  BY ContextsType DEF InsideInv
<1>1. Inside!Enter(n)
  BY DEF Inside!Begin, Inside!ReadFails, Inside!CopyFails, Inside!FailsAtOnce
<1>2. /\ Inside!Waiting(n) /\ Inside!HasStage(n) /\ (stage = "main" => Inside!Enabled(n))
      /\ UNCHANGED <<tree, stage, broken>>
      /\ stack' = Append(stack, n) /\ next' = [next EXCEPT ![n] = 1]
      /\ conclusion' = IF stage = "main" THEN [conclusion EXCEPT ![n] = "success"] ELSE conclusion
      /\ hist' = IF stage = "main" /\ ~Inside!Composite(n)
                 THEN [hist EXCEPT !.mains = Append(@, n)] ELSE hist
  BY <1>1 DEF Inside!Enter
<1>3. PICK s \in Inside!Scopes : s = Inside!Scope
  BY <1>0, ScopeIs
<1>4. s = Inside!ScopeOf(n)
  BY <1>0, <1>2, <1>3, WaitingIs
<1>5. /\ hist'.failures = hist.failures /\ hist'.refusals = hist.refusals
      /\ hist'.posts = hist.posts /\ hist'.lost = hist.lost
      /\ hist'.mains = IF stage = "main" /\ tree.kind[n] # "composite"
                       THEN Append(hist.mains, n) ELSE hist.mains
  BY <1>0, <1>2 DEF Logged, Histories, Inside!Composite
<1>6. stage = "post" => Inside!HasPost(n) /\ n \in action
  BY <1>2 DEF Inside!HasStage, Inside!HasPost
<1>7. action \subseteq action' /\ (stage = "post" => action' = action)
  BY <1>6 DEF Inside!Begin, Inside!ReadFails, Inside!CopyFails, Inside!FailsAtOnce,
              Inside!Prepare
<1>8. /\ ret' \in {"none", "failed"} /\ (ret' = "none" => n \in action')
      /\ stage = "post" /\ ret' = "failed" => tree.kind[n] = "composite"
  BY DEF Inside!Begin, Inside!ReadFails, Inside!CopyFails, Inside!FailsAtOnce, Inside!Composite
<1>9. \A u \in Inside!Scopes : u # n => rc'[u].err = rc[u].err
  <2>1. PICK r \in Contexts : /\ r = Inside!Entered(n)
                              /\ \A u \in Inside!Scopes : r[u].err = rc[u].err
    <3> DEFINE q == [rc EXCEPT ![s].current = n, ![s].refused = FALSE]
    <3>1. q \in Contexts /\ \A u \in Inside!Scopes : q[u].err = rc[u].err
      <4> DEFINE c == [rc[s] EXCEPT !.current = n, !.refused = FALSE]
      <4>1. c \in Context /\ c.err = rc[s].err
        BY <1>0 DEF Contexts, Context
      <4>2. q = [rc EXCEPT ![s] = c]
        BY <1>0 DEF Contexts, Context
      <4> HIDE DEF c, q
      <4> QED BY <1>0, <4>1, <4>2 DEF Contexts
    <3> HIDE DEF q
    <3>2. q = Inside!Entered(n)
      BY <1>3 DEF q, Inside!Entered
    <3> QED BY <3>1, <3>2
  <2>2. rc' = r \/ rc' = Inside!ContextOf(r, n, s)
    BY <1>3, <2>1 DEF Inside!Begin, Inside!ReadFails, Inside!CopyFails, Inside!FailsAtOnce
  <2>3. \A u \in Inside!Scopes : u # n => Inside!ContextOf(r, n, s)[u] = r[u]
    BY <2>1, ContextOfValues
  <2> QED BY <2>1, <2>2, <2>3
<1>10. EnterFor(n, s)
  BY <1>2, <1>3, <1>4, <1>5, <1>6, <1>7, <1>8, <1>9 DEF EnterFor
<1> QED BY <1>10

\* A script or an action has run; its post stage goes down in the history, and
\* a command of another stage that was refused.
LEMMA RanIs ==
  ASSUME InsideInv, NEW how \in {"silent", "files", "prints", "refused"}, NEW ok \in BOOLEAN,
         \/ Inside!RunScript(how, ok) \/ Inside!RunAction(how, ok) \/ Inside!RunPre(how, ok)
         \/ Inside!RunPost(ok)
  PROVE  /\ stack # <<>> /\ tree.kind[Inside!Scope] # "composite"
         /\ ret = "none" /\ ret' \in {"ok", "failed"} /\ stage \in {"pre", "main", "post"}
         /\ UNCHANGED <<tree, stage, stack, next, action, conclusion, broken>>
         /\ \A u \in Inside!Scopes : rc'[u].err = rc[u].err
         /\ \/ hist'.refusals = hist.refusals
            \/ /\ hist'.refusals = hist.refusals \cup {<<stage, Inside!Scope>>}
               /\ rc'[handler].refused
         /\ hist'.failures = hist.failures /\ hist'.mains = hist.mains /\ hist'.lost = hist.lost
         /\ stage # "post" => hist'.posts = hist.posts
         /\ stage = "post" => hist'.posts = Append(hist.posts, Inside!Scope)
<1>0. Logged /\ rc \in Contexts /\ handler \in Inside!Scopes
  BY ContextsType DEF InsideInv, Inside!TypeOK
<1>1. PICK h \in {"silent", "files", "prints", "refused"} :
        /\ Inside!Ran(h, ok) /\ tree.kind[Inside!Scope] \in {"script", "action"}
        /\ stage \in {"pre", "main", "post"}
        /\ \/ stage # "post" /\ hist' = Inside!Saves(h)
           \/ /\ stage = "post" /\ h = "silent"
              /\ hist' = [hist EXCEPT !.posts = Append(@, Inside!Scope)]
  <2>1. CASE Inside!RunScript(how, ok) \/ Inside!RunAction(how, ok) \/ Inside!RunPre(how, ok)
    <3>1. /\ Inside!Ran(how, ok) /\ tree.kind[Inside!Scope] \in {"script", "action"}
          /\ stage \in {"pre", "main", "post"}
          /\ stage # "post" /\ hist' = Inside!Saves(how)
      BY <2>1, Zenon DEF Inside!RunScript, Inside!RunAction, Inside!RunPre
    <3> QED BY <3>1
  <2>2. CASE Inside!RunPost(ok)
    <3>1. /\ Inside!Ran("silent", ok) /\ tree.kind[Inside!Scope] \in {"script", "action"}
          /\ stage = "post"
          /\ hist' = [hist EXCEPT !.posts = Append(@, Inside!Scope)]
      BY <2>2, Zenon DEF Inside!RunPost
    <3> QED BY <3>1
  <2> QED BY <2>1, <2>2
<1>2. /\ stack # <<>> /\ ret = "none" /\ ret' \in {"ok", "failed"}
      /\ UNCHANGED <<tree, stage, stack, next, action, conclusion, broken>>
      /\ rc' = IF h = "refused" THEN [rc EXCEPT ![handler].refused = TRUE] ELSE rc
  BY <1>1 DEF Inside!Ran
<1>3. /\ \A u \in Inside!Scopes : rc'[u].err = rc[u].err
      /\ h = "refused" => rc'[handler].refused
  BY <1>0, <1>2 DEF Contexts, Context
<1>4. /\ hist'.failures = hist.failures /\ hist'.mains = hist.mains /\ hist'.lost = hist.lost
      /\ stage # "post" => hist'.posts = hist.posts
      /\ stage = "post" => hist'.posts = Append(hist.posts, Inside!Scope)
      /\ hist'.refusals = IF h = "refused" THEN hist.refusals \cup {<<stage, Inside!Scope>>}
                          ELSE hist.refusals
  BY <1>0, <1>1 DEF Logged, Histories, Inside!Saves
<1> QED BY <1>1, <1>2, <1>3, <1>4

\* The steps of a composite action are through.
LEMMA ChildrenAre ==
  ASSUME InsideInv, Inside!ChildrenOver
  PROVE  /\ stack # <<>> /\ tree.kind[Inside!Scope] = "composite"
         /\ ret = "none" /\ ret' \in {"ok", "failed"}
         /\ UNCHANGED <<tree, stage, stack, next, action, conclusion, broken, hist>>
         /\ \A u \in Inside!Scopes : rc'[u].err = rc[u].err
         /\ stage = "main" /\ rc[Inside!Scope].err => ret' = "failed"
         /\ stage = "post" => ret' = "ok" /\ next[Inside!Scope] > Len(tree.child[Inside!Scope])
<1>0. Inside!TypeOK /\ Nested /\ rc \in Contexts
  BY ContextsType DEF InsideInv
<1>1. PICK n \in StepIds, s \in Inside!Scopes :
        n = Inside!Scope /\ s = Inside!ScopeOf(n) /\ stack # <<>>
  <2>1. stack # <<>>
    BY DEF Inside!ChildrenOver
  <2>2. Inside!Scope \in StepIds /\ Inside!Scope = stack[Len(stack)] /\ Len(stack) \in DOMAIN stack
    BY <1>0, <2>1, ScopeIs
  <2>3. Inside!ScopeOf(Inside!Scope) \in Inside!Scopes
    BY <1>0, <2>2, OuterIs DEF Nested
  <2> QED BY <2>1, <2>2, <2>3
<1>2. /\ tree.kind[n] = "composite" /\ ret = "none"
      /\ UNCHANGED <<tree, stage, stack, next, action, conclusion, broken, hist>>
  BY <1>1 DEF Inside!ChildrenOver, Inside!Composite
<1>3. /\ ret' \in {"ok", "failed"}
      /\ stage = "main" /\ rc[n].err => ret' = "failed"
      /\ stage = "post" => ret' = "ok"
  BY <1>1 DEF Inside!ChildrenOver
<1>4. stage = "post" => next[n] > Len(tree.child[n])
  BY <1>1 DEF Inside!ChildrenOver
<1>5. \A u \in Inside!Scopes : rc'[u].err = rc[u].err
  <2>1. CASE stage # "main"
    BY <2>1 DEF Inside!ChildrenOver
  <2>2. CASE stage = "main"
    <3>1. rc' = Inside!MergeBack(rc, n, s)
      BY <1>1, <2>2 DEF Inside!ChildrenOver
    <3>2. PICK m, v : rc' = [rc EXCEPT ![s].path = rc[n].path, ![s].map = m, ![s].env = v]
      <4> DEFINE m == Inside!MapOf(rc, s)
                 v == IF rc[n].map # "nil" /\ global[rc[n].map] # "none"
                      THEN global[rc[n].map] ELSE rc[s].env
      <4>1. rc' = [rc EXCEPT ![s].path = rc[n].path, ![s].map = m, ![s].env = v]
        BY <1>0, <3>1 DEF Inside!MergeBack, Contexts, Context
      <4> HIDE DEF m, v
      <4> QED BY <4>1
    <3> QED BY <1>0, <3>2 DEF Contexts, Context
  <2> QED BY <2>1, <2>2
<1> QED BY <1>1, <1>2, <1>3, <1>4, <1>5

\* The executor of a stage has returned.
LeaveFor(n, s, top, raised) ==
    /\ n = Inside!Scope /\ s = Inside!ScopeOf(n)
    /\ top = Len(stack) /\ DOMAIN stack = 1..top /\ n = stack[top] /\ s = Outer(top)
    /\ stack' \in Seq(StepIds) /\ Len(stack') = top - 1 /\ DOMAIN stack' = 1..(top - 1)
    /\ \A i \in 1..(top - 1) : stack'[i] = stack[i]
    /\ stage \in {"pre", "main", "post"} /\ ret # "none" /\ ret' = "none"
    /\ UNCHANGED <<tree, action>>
    /\ TurnGoesOn(s) /\ ErrorArrives(s, raised)
    /\ (ret = "failed" \/ rc[s].refused) /\ n \notin tree.lenient => raised
    /\ hist'.failures = IF raised THEN hist.failures \cup {<<stage, n>>} ELSE hist.failures
    /\ hist'.refusals = hist.refusals
    /\ hist'.mains = hist.mains /\ hist'.posts = hist.posts
    /\ hist'.lost = IF stage = "post" /\ ret = "failed" /\ tree.kind[n] = "composite"
                    THEN hist.lost \cup {n} ELSE hist.lost
    /\ \/ conclusion' = conclusion
       \/ stage = "main" /\ conclusion' = [conclusion EXCEPT ![n] = "failure"]

LEMMA LeaveIs ==
  ASSUME InsideInv, NEW k \in 0..4, Inside!Leave(k)
  PROVE  \E n \in StepIds, s \in Inside!Scopes, top \in Nat \ {0}, raised \in BOOLEAN :
           LeaveFor(n, s, top, raised)
<1>0. Inside!TypeOK /\ Nested /\ Logged /\ rc \in Contexts
  BY ContextsType DEF InsideInv
<1>1. /\ stack # <<>> /\ ret # "none" /\ stack' = Inside!Front(stack) /\ ret' = "none"
      /\ UNCHANGED <<tree, action>>
  BY DEF Inside!Leave
<1>2. PICK n \in StepIds, s \in Inside!Scopes, top \in Nat \ {0} :
        /\ n = Inside!Scope /\ s = Inside!ScopeOf(n)
        /\ top = Len(stack) /\ DOMAIN stack = 1..top /\ n = stack[top] /\ s = Outer(top)
        /\ stage \in {"pre", "main", "post"}
  <2>1. /\ stack \in Seq(StepIds) /\ Len(stack) \in Nat \ {0} /\ Len(stack) \in DOMAIN stack
        /\ DOMAIN stack = 1..Len(stack)
    BY <1>1, TreeShape, <1>0
  <2>2. Inside!Scope \in StepIds /\ Inside!Scope = stack[Len(stack)]
    BY <1>0, <1>1, ScopeIs
  <2>3. Inside!ScopeOf(Inside!Scope) = Outer(Len(stack)) /\ Outer(Len(stack)) \in Inside!Scopes
    BY <1>0, <2>1, <2>2, OuterIs DEF Nested
  <2>4. stage \in {"pre", "main", "post"}
    BY <1>0, <1>1 DEF Nested, Inside!TypeOK
  <2> QED BY <2>1, <2>2, <2>3, <2>4
<1>3. /\ stack' \in Seq(StepIds) /\ Len(stack') = top - 1 /\ DOMAIN stack' = 1..(top - 1)
      /\ \A i \in 1..(top - 1) : stack'[i] = stack[i]
  <2>1. /\ stack' \in Seq(StepIds) /\ Len(stack') = top - 1
        /\ DOMAIN stack' = DOMAIN stack \ {top}
        /\ \A i \in DOMAIN stack' : stack'[i] = stack[i]
    <3>1. stack \in Seq(StepIds)
      BY <1>0, TreeShape
    <3> QED BY <1>1, <1>2, <3>1, FrontShape
  <2> QED BY <1>2, <2>1
<1>4. PICK raised \in BOOLEAN, ended \in BOOLEAN, kept \in Contexts :
        /\ Inside!Finish(s, raised, ended, kept)
        /\ \A u \in Inside!Scopes : kept[u].err = rc[u].err
        /\ (ret = "failed" \/ rc[s].refused) /\ n \notin tree.lenient => raised
        /\ hist'.failures = IF raised THEN hist.failures \cup {<<stage, n>>} ELSE hist.failures
        /\ hist'.refusals = hist.refusals
        /\ hist'.mains = hist.mains /\ hist'.posts = hist.posts
        /\ hist'.lost = IF stage = "post" /\ ret = "failed" /\ tree.kind[n] = "composite"
                        THEN hist.lost \cup {n} ELSE hist.lost
  <2> DEFINE e == ret = "failed" \/ rc[s].refused
             r == (e /\ n \notin tree.lenient) \/ k < Len(Inside!Commands)
             d == s # "job" /\ expired \cap Inside!Range(Inside!Front(stack)) # {}
  <2>1. r \in BOOLEAN /\ d \in BOOLEAN /\ (e /\ n \notin tree.lenient => r)
    OBVIOUS
  <2>2. /\ Inside!Finish(s, r, d, [Inside!ReadFiles(n, s, k) EXCEPT ![s].refused = FALSE])
        /\ hist' = [Inside!Record(r, n) EXCEPT
             !.last = IF file # "none" /\ k >= 1 THEN file ELSE @,
             !.saves = IF (file # "none" /\ k >= 2) /\ file = n THEN @ \cup {file} ELSE @,
             !.wrote = IF file # "none" /\ k >= 4 THEN @ \cup {file} ELSE @,
             !.inner = IF (file # "none" /\ k >= 1) /\ stage = "pre" /\ s # "job" THEN TRUE ELSE @,
             !.lost = IF stage = "post" /\ ret = "failed" /\ Inside!Composite(n)
                      THEN @ \cup {n} ELSE @]
    BY <1>2 DEF Inside!Leave, Inside!Refused
  <2>3. PICK read \in Contexts : /\ read = Inside!ReadFiles(n, s, k)
                                 /\ \A u \in Inside!Scopes : read[u].err = rc[u].err
    <3>1. Inside!ReadFiles(n, s, k) \in Contexts
      BY <1>0, ReadFilesContexts
    <3>2. CASE file = "none" \/ k = 0
      BY <1>0, <3>1, <3>2 DEF Inside!ReadFiles
    <3>3. CASE ~(file = "none" \/ k = 0)
      <4>1. PICK m : m = Inside!MapOf(rc, s)
        OBVIOUS
      <4>2. Inside!ReadFiles(n, s, k) =
              [[rc EXCEPT ![s].env = file, ![s].map = m]
                  EXCEPT ![s].path = IF k = 4 THEN @ \cup {file} ELSE @]
        BY <3>3, <4>1 DEF Inside!ReadFiles, Inside!SetEnv
      <4>3. \A u \in Inside!Scopes : Inside!ReadFiles(n, s, k)[u].err = rc[u].err
        BY <1>0, <4>2 DEF Contexts, Context
      <4> QED BY <3>1, <4>3
    <3> QED BY <3>2, <3>3
  <2>4. PICK q \in Contexts : /\ q = [Inside!ReadFiles(n, s, k) EXCEPT ![s].refused = FALSE]
                              /\ \A u \in Inside!Scopes : q[u].err = rc[u].err
    <3> DEFINE p == [read EXCEPT ![s].refused = FALSE]
    <3>1. p \in Contexts /\ \A u \in Inside!Scopes : p[u].err = read[u].err
      BY DEF Contexts, Context
    <3>2. p = [Inside!ReadFiles(n, s, k) EXCEPT ![s].refused = FALSE]
      BY <2>3
    <3> HIDE DEF p
    <3> QED BY <2>3, <3>1, <3>2
  <2>5. Inside!Finish(s, r, d, q)
    BY <2>2, <2>4
  <2> HIDE DEF r, d
  <2>6. /\ hist'.failures = IF r THEN hist.failures \cup {<<stage, n>>} ELSE hist.failures
        /\ hist'.refusals = hist.refusals
        /\ hist'.mains = hist.mains /\ hist'.posts = hist.posts
        /\ hist'.lost = IF stage = "post" /\ ret = "failed" /\ tree.kind[n] = "composite"
                        THEN hist.lost \cup {n} ELSE hist.lost
    BY <1>0, <2>2 DEF Logged, Histories, Inside!Record, Inside!Composite
  <2>7. (ret = "failed" \/ rc[s].refused) /\ n \notin tree.lenient => r
    BY <2>1
  <2> HIDE DEF e
  <2> QED BY <2>1, <2>4, <2>5, <2>6, <2>7
<1>5. TurnGoesOn(s) /\ ErrorArrives(s, raised)
  <2>1. Inside!Finish(s, raised, ended, kept) /\ \A u \in Inside!Scopes : rc[u].err => kept[u].err
    BY <1>4
  <2>2. stage \in {"pre", "main", "post"}
    BY <1>2
  <2> QED BY <1>0, <2>1, <2>2, FinishTurn
<1>6. \/ conclusion' = conclusion
      \/ stage = "main" /\ conclusion' = [conclusion EXCEPT ![n] = "failure"]
  BY <1>2 DEF Inside!Leave
<1>7. LeaveFor(n, s, top, raised)
  BY <1>1, <1>2, <1>3, <1>4, <1>5, <1>6 DEF LeaveFor
<1> QED BY <1>7

-----------------------------------------------------------------------------
(* The steps under way are a path of the tree.                             *)

\* The x-th step of a run context in the order of the stage.
Nth(s, x) ==
    LET c == tree.child[s]
    IN  c[IF stage = "post" THEN Len(c) + 1 - x ELSE x]

\* The steps under way are those around the innermost of them, each the one its
\* run context is at.
Rows ==
    /\ \A j \in DOMAIN stack :
          /\ Rooted(stack[j]) /\ Inside!Around(stack[j]) = {stack[i] : i \in 1..j}
          /\ next[Outer(j)] \in DOMAIN tree.child[Outer(j)]
          /\ stack[j] = Nth(Outer(j), next[Outer(j)])
    /\ stack # <<>> /\ tree.kind[Inside!Scope] # "composite" => next[Inside!Scope] = 1

\* A position of the order of the stage is one of the run context's steps.
LEMMA NthIs ==
  ASSUME Inside!TypeOK, NEW s \in Inside!Scopes, NEW x \in DOMAIN tree.child[s]
  PROVE  /\ x \in Nat \ {0} /\ x <= Len(tree.child[s]) /\ Len(tree.child[s]) \in Nat
         /\ \E i \in DOMAIN tree.child[s] :
               /\ Nth(s, x) = tree.child[s][i]
               /\ i = IF stage = "post" THEN Len(tree.child[s]) + 1 - x ELSE x
<1>1. tree.child \in [Inside!Scopes -> Seq(StepIds)]
  BY TreeShape
<1>2. PICK c \in Seq(StepIds) : c = tree.child[s]
  BY <1>1
<1>3. /\ Len(c) \in Nat /\ DOMAIN c = 1..Len(c)
  OBVIOUS
<1>4. PICK i \in DOMAIN c : i = IF stage = "post" THEN Len(c) + 1 - x ELSE x
  BY <1>2, <1>3
<1>5. Nth(s, x) = c[i]
  BY <1>2, <1>4 DEF Nth
<1> QED BY <1>2, <1>3, <1>4, <1>5

LEMMA WaitingPlace ==
  ASSUME Inside!TypeOK, Nested, Rows, NEW n \in StepIds, Inside!Waiting(n),
         NEW s \in Inside!Scopes, s = Inside!Scope
  PROVE  /\ next[s] \in DOMAIN tree.child[s] /\ n = Nth(s, next[s])
         /\ Rooted(n) /\ n \notin Inside!Around(s) /\ n # s
         /\ Inside!Around(s) = {stack[i] : i \in DOMAIN stack}
         /\ Inside!Around(n) = {n} \cup Inside!Around(s)
<1>1. tree.child \in [Inside!Scopes -> Seq(StepIds)] /\ stack \in Seq(StepIds)
  BY TreeShape
<1>2. PICK c \in Seq(StepIds) : c = tree.child[s]
  BY <1>1
<1>3. next[s] \in DOMAIN c
  <2>1. next[s] \in Nat \ {0} /\ next[s] <= Len(c) /\ Len(c) \in Nat
    BY <1>2 DEF Inside!Waiting, Nested, Inside!TypeOK
  <2> QED BY <2>1
<1>4. n = Nth(s, next[s])
  BY DEF Inside!Waiting, Inside!StepOf, Nth
<1>5. PICK i \in DOMAIN tree.child[s] : n = tree.child[s][i]
  BY <1>2, <1>3, <1>4, NthIs
<1>6. /\ stack = <<>> => s = "job"
      /\ stack # <<>> => /\ tree.kind[s] = "composite" /\ s = stack[Len(stack)]
                         /\ Len(stack) \in DOMAIN stack
  BY WaitingIs, ScopeIs DEF Inside!Scope
<1>7. s = "job" \/ (Rooted(s) /\ tree.kind[s] = "composite")
  BY <1>6 DEF Rows
<1>8. Rooted(n) /\ n \notin Inside!Around(s) /\ n # s
  BY <1>5, <1>7, RootedChild
<1>9. Inside!Around(n) = {n} \cup Inside!Around(s)
  BY <1>5, AroundStep
<1>10. Inside!Around(s) = {stack[j] : j \in DOMAIN stack}
  <2>1. CASE stack = <<>>
    <3>1. DOMAIN stack = {}
      BY <2>1
    <3> QED BY <1>6, <2>1, <3>1, AroundJob
  <2>2. CASE stack # <<>>
    <3>1. Inside!Around(s) = {stack[j] : j \in 1..Len(stack)}
      BY <1>6, <2>2 DEF Rows
    <3> QED BY <1>1, <3>1
  <2> QED BY <2>1, <2>2
<1> QED BY <1>2, <1>3, <1>4, <1>8, <1>9, <1>10

LEMMA RowsKept ==
  ASSUME InsideInv, Rows, UNCHANGED <<tree, stack>>,
         stack # <<>> => /\ stage' = stage
                         /\ \A u \in Inside!Scopes : u # Inside!Scope => next'[u] = next[u]
                         /\ tree.kind[Inside!Scope] # "composite" =>
                                next'[Inside!Scope] = next[Inside!Scope]
  PROVE  Rows'
<1>0. Inside!TypeOK /\ Nested
  BY DEF InsideInv
<1>1. Inside!Scope' = Inside!Scope /\ \A i : Outer(i)' = Outer(i)
  BY DEF Inside!Scope, Outer
<1>2. (\A n : Inside!Around(n)' = Inside!Around(n)) /\ (\A n : Rooted(n)' <=> Rooted(n))
  BY AroundKept, RootedKept
<1>3. ASSUME NEW j \in DOMAIN stack
      PROVE  /\ Rooted(stack[j])' /\ (Inside!Around(stack[j]) = {stack[i] : i \in 1..j})'
             /\ (next[Outer(j)] \in DOMAIN tree.child[Outer(j)])'
             /\ (stack[j] = Nth(Outer(j), next[Outer(j)]))'
  <2>1. stack # <<>> /\ Outer(j) \in Inside!Scopes /\ Outer(j) # Inside!Scope
    BY <1>0, OuterIs, TreeShape
  <2>2. next'[Outer(j)] = next[Outer(j)] /\ stage' = stage
    BY <2>1
  <2>3. /\ Rooted(stack[j]) /\ Inside!Around(stack[j]) = {stack[i] : i \in 1..j}
        /\ next[Outer(j)] \in DOMAIN tree.child[Outer(j)]
        /\ stack[j] = Nth(Outer(j), next[Outer(j)])
    BY DEF Rows
  <2> QED BY <1>1, <1>2, <2>2, <2>3 DEF Nth
<1>4. (stack # <<>> /\ tree.kind[Inside!Scope] # "composite" => next[Inside!Scope] = 1)'
  BY <1>1 DEF Rows
<1>5. DOMAIN stack' = DOMAIN stack
  OBVIOUS
<1> QED BY <1>3, <1>4, <1>5 DEF Rows

LEMMA EarlyRows ==
  ASSUME InsideInv, Rows, NEW n \in StepIds,
         Inside!PrepareFails(n) \/ Inside!Pass(n) \/ Inside!Skip(n)
  PROVE  Rows'
<1>0. Inside!TypeOK /\ Nested
  BY DEF InsideInv
<1>at. PICK s \in Inside!Scopes, e \in BOOLEAN : EarlyFor(n, s, e)
  BY EarlyIs
<1>1. /\ s = Inside!Scope /\ Inside!Waiting(n)
      /\ TurnGoesOn(s) /\ UNCHANGED <<tree, stack>>
  BY <1>at DEF EarlyFor
<1>2. ASSUME stack # <<>>
      PROVE  /\ stage' = stage
             /\ \A u \in Inside!Scopes : u # Inside!Scope => next'[u] = next[u]
             /\ tree.kind[Inside!Scope] = "composite"
  <2>1. s # "job" /\ tree.kind[s] = "composite"
    BY <1>0, <1>1, <1>2, ScopeIs, TreeShape, WaitingIs
  <2> QED BY <1>0, <1>1, <2>1 DEF TurnGoesOn, Inside!TypeOK
<1> QED BY <1>1, <1>2, RowsKept

LEMMA EnterRows ==
  ASSUME InsideInv, Rows, NEW n \in StepIds,
         Inside!Begin(n) \/ Inside!ReadFails(n) \/ Inside!CopyFails(n)
  PROVE  Rows'
<1>0. Inside!TypeOK /\ Nested
  BY DEF InsideInv
<1>at. PICK s \in Inside!Scopes : EnterFor(n, s)
  BY EnterIs
<1>1. /\ s = Inside!Scope /\ s = Inside!ScopeOf(n) /\ Inside!Waiting(n)
      /\ UNCHANGED <<tree, stage>>
      /\ stack' = Append(stack, n) /\ next' = [next EXCEPT ![n] = 1]
  BY <1>at DEF EnterFor
<1>2. PICK top \in Nat : top = Len(stack) /\ DOMAIN stack = 1..top /\ stack \in Seq(StepIds)
  <2>1. stack \in Seq(StepIds)
    BY <1>0, TreeShape
  <2> QED BY <2>1
<1>3. /\ DOMAIN stack' = 1..(top + 1) /\ stack'[top + 1] = n
      /\ \A i \in 1..top : stack'[i] = stack[i]
      /\ Len(stack') = top + 1
  BY <1>1, <1>2
<1>4. /\ \A i \in 1..(top + 1) : Outer(i)' = Outer(i) /\ Outer(i) \in Inside!Scopes
      /\ Outer(top + 1) = s
  <2>1. \A i \in 1..(top + 1) : Outer(i)' = Outer(i)
    BY <1>2, <1>3 DEF Outer
  <2> QED BY <1>0, <1>1, <1>2, <2>1, OuterApart, ScopeIs
<1>5. (\A x : Inside!Around(x)' = Inside!Around(x)) /\ (\A x : Rooted(x)' <=> Rooted(x))
  BY <1>1, AroundKept, RootedKept
<1>6. /\ next[s] \in DOMAIN tree.child[s] /\ n = Nth(s, next[s])
      /\ Rooted(n) /\ n # s
      /\ Inside!Around(n) = {n} \cup {stack[i] : i \in DOMAIN stack}
  BY <1>0, <1>1, WaitingPlace
<1>7. \A i \in 1..(top + 1) : Outer(i) # n
  <2>1. \A i \in DOMAIN stack : stack[i] # n
    BY <1>0, <1>1, WaitingAt
  <2>2. "job" # n
    BY TreesAssumption
  <2>3. ASSUME NEW i \in 1..(top + 1) PROVE Outer(i) # n
    <3>1. i > 1 => i - 1 \in DOMAIN stack
      BY <1>2
    <3> QED BY <2>1, <2>2, <3>1 DEF Outer
  <2> QED BY <2>3
<1>8. \A i \in 1..(top + 1) : next'[Outer(i)] = next[Outer(i)]
  BY <1>0, <1>1, <1>4, <1>7 DEF Inside!TypeOK
<1>9. ASSUME NEW j \in 1..(top + 1)
      PROVE  /\ Rooted(stack[j])' /\ (Inside!Around(stack[j]) = {stack[i] : i \in 1..j})'
             /\ (next[Outer(j)] \in DOMAIN tree.child[Outer(j)])'
             /\ (stack[j] = Nth(Outer(j), next[Outer(j)]))'
  <2>1. CASE j \in 1..top
    <3>1. /\ Rooted(stack[j]) /\ Inside!Around(stack[j]) = {stack[i] : i \in 1..j}
          /\ next[Outer(j)] \in DOMAIN tree.child[Outer(j)]
          /\ stack[j] = Nth(Outer(j), next[Outer(j)])
      BY <1>2, <2>1 DEF Rows
    <3>2. {stack[i] : i \in 1..j} = {stack'[i] : i \in 1..j}
      BY <1>3, <2>1
    <3> QED BY <1>1, <1>3, <1>4, <1>5, <1>8, <2>1, <3>1, <3>2 DEF Nth
  <2>2. CASE j = top + 1
    <3>1. {n} \cup {stack[i] : i \in DOMAIN stack} = {stack'[i] : i \in 1..j}
      BY <1>2, <1>3, <2>2
    <3> QED BY <1>1, <1>3, <1>4, <1>5, <1>6, <1>8, <2>2, <3>1 DEF Nth
  <2> QED BY <2>1, <2>2
<1>10. Inside!Scope' = n /\ next'[n] = 1
  <2>1. stack' # <<>>
    BY <1>2, <1>3
  <2>2. Inside!Scope' = n
    BY <1>3, <2>1 DEF Inside!Scope, Inside!Last
  <2>3. n \in Inside!Scopes
    BY DEF Inside!Scopes
  <2> QED BY <1>0, <1>1, <2>2, <2>3 DEF Inside!TypeOK
<1> QED BY <1>3, <1>9, <1>10 DEF Rows

LEMMA LeaveRows ==
  ASSUME InsideInv, Rows, NEW k \in 0..4, Inside!Leave(k)
  PROVE  Rows'
<1>0. Inside!TypeOK /\ Nested
  BY DEF InsideInv
<1>at. PICK n \in StepIds, s \in Inside!Scopes, top \in Nat \ {0}, raised \in BOOLEAN :
        LeaveFor(n, s, top, raised)
  BY LeaveIs
<1>1. /\ n = Inside!Scope /\ s = Inside!ScopeOf(n)
      /\ top = Len(stack) /\ DOMAIN stack = 1..top /\ n = stack[top] /\ s = Outer(top)
      /\ stack' \in Seq(StepIds) /\ Len(stack') = top - 1 /\ DOMAIN stack' = 1..(top - 1)
      /\ \A i \in 1..(top - 1) : stack'[i] = stack[i]
      /\ UNCHANGED tree /\ TurnGoesOn(s)
  BY <1>at DEF LeaveFor
<1>2. CASE top = 1
  <2>1. stack' = <<>> /\ DOMAIN stack' = {}
    BY <1>1, <1>2
  <2> QED BY <2>1 DEF Rows
<1>3. CASE top # 1
  <2>1. \A i \in 1..top : Outer(i)' = Outer(i) /\ Outer(i) \in Inside!Scopes
    <3>1. \A i \in 1..top : Outer(i)' = Outer(i)
      BY <1>1 DEF Outer
    <3> QED BY <1>0, <1>1, <3>1, OuterApart
  <2>2. \A i \in 1..(top - 1) : Outer(i) # s
    BY <1>0, <1>1, OuterApart
  <2>3. s = stack[top - 1] /\ top - 1 \in DOMAIN stack /\ s \in StepIds
    BY <1>0, <1>1, <1>3, OuterIs DEF Outer
  <2>4. s # "job"
    BY <2>3, TreesAssumption
  <2>5. stage' = stage /\ \A i \in 1..(top - 1) : next'[Outer(i)] = next[Outer(i)]
    <3>1. stage' = stage /\ next' = [next EXCEPT ![s] = @ + 1] /\ next \in [Inside!Scopes -> Nat]
      BY <1>0, <1>1, <2>4 DEF TurnGoesOn, Inside!TypeOK
    <3>2. \A u \in Inside!Scopes : u # s => next'[u] = next[u]
      BY <3>1
    <3>3. \A i \in 1..(top - 1) : i \in 1..top
      BY <1>1
    <3> QED BY <2>1, <2>2, <3>1, <3>2, <3>3
  <2>6. (\A x : Inside!Around(x)' = Inside!Around(x)) /\ (\A x : Rooted(x)' <=> Rooted(x))
    BY <1>1, AroundKept, RootedKept
  <2>7. ASSUME NEW j \in 1..(top - 1)
        PROVE  /\ Rooted(stack[j])' /\ (Inside!Around(stack[j]) = {stack[i] : i \in 1..j})'
               /\ (next[Outer(j)] \in DOMAIN tree.child[Outer(j)])'
               /\ (stack[j] = Nth(Outer(j), next[Outer(j)]))'
    <3>0. /\ j \in DOMAIN stack /\ j \in 1..top /\ stack'[j] = stack[j]
          /\ \A i \in 1..j : i \in 1..(top - 1) /\ stack'[i] = stack[i]
      BY <1>1
    <3>1. /\ Rooted(stack[j]) /\ Inside!Around(stack[j]) = {stack[i] : i \in 1..j}
          /\ next[Outer(j)] \in DOMAIN tree.child[Outer(j)]
          /\ stack[j] = Nth(Outer(j), next[Outer(j)])
      BY <3>0 DEF Rows
    <3>2. {stack[i] : i \in 1..j} = {stack'[i] : i \in 1..j}
      BY <3>0
    <3> QED BY <1>1, <2>1, <2>5, <2>6, <3>0, <3>1, <3>2 DEF Nth
  <2>8. Inside!Scope' = s /\ tree.kind[s] = "composite"
    <3>1. stack' # <<>> /\ stack'[top - 1] = s
      BY <1>1, <1>3, <2>3
    <3>2. Inside!Scope' = stack'[Len(stack')]
      BY <3>1 DEF Inside!Scope, Inside!Last
    <3> QED BY <1>0, <1>1, <2>3, <3>1, <3>2 DEF Nested
  <2> QED BY <1>1, <2>7, <2>8 DEF Rows
<1> QED BY <1>2, <1>3

-----------------------------------------------------------------------------
(* What becomes of a failure.                                              *)

\* A command was refused, and its step is still under way or forgiven.
Refusing ==
    \A f \in hist.refusals \ hist.failures :
        \/ f[2] \in tree.lenient
        \/ /\ stack # <<>> /\ f = <<stage, Inside!Scope>> /\ ret # "none"
           /\ tree.kind[Inside!Scope] # "composite" /\ rc[Outer(Len(stack))].refused

\* The i-th of the steps under way has the error of a step of its own, or failed.
Pending(i) == IF i = Len(stack) /\ ret # "none" THEN ret = "failed" ELSE rc[stack[i]].err

\* A failure has reached the job, or is on its way to it.
Heard == {f \in hist.failures : ~Inside!Swallowed(f)}
Told ==
    \A f \in Heard :
        /\ f[1] = "post" => stage \in {"post", "over"}
        /\ \/ rc["job"].err /\ (f[1] # "post" => broken)
           \/ /\ f[1] = "main" /\ stage = "main"
              /\ \E i \in DOMAIN stack :
                    stack[i] \in Inside!Around(f[2]) \ {f[2]} /\ Pending(i)

\* A step of the job that is to run on success only sees no failure but those
\* of its own steps.
Spared ==
    stage = "main" /\ stack # <<>> /\ tree.cond[stack[1]] = "success" =>
        \A f \in Heard : stack[1] \in Inside!Around(f[2])

FailuresRooted == \A f \in hist.failures : Rooted(f[2])

FailInv == Refusing /\ Told /\ Spared /\ FailuresRooted

LEMMA SwallowedKept ==
  ASSUME UNCHANGED tree
  PROVE  \A f : Inside!Swallowed(f)' <=> Inside!Swallowed(f)
BY AroundKept DEF Inside!Swallowed

\* The turn of a run context other than the job's stays in the stage.
LEMMA TurnStages ==
  ASSUME NEW s \in Inside!Scopes, TurnGoesOn(s)
  PROVE  /\ s # "job" => stage' = stage
         /\ stage \in {"post", "over"} => stage' \in {"post", "over"}
BY DEF TurnGoesOn

\* A failure of n in its stage arrives at the run context s around it.
LEMMA FailureTold ==
  ASSUME Inside!TypeOK, NEW n \in StepIds, NEW s \in Inside!Scopes, s = Inside!ScopeOf(n),
         stage \in {"pre", "main", "post"}, TurnGoesOn(s), ErrorArrives(s, TRUE),
         ~Inside!Swallowed(<<stage, n>>), ret' = "none",
         s # "job" => \E i \in DOMAIN stack' : stack'[i] = s /\ s \in Inside!Around(n) \ {n}
  PROVE  LET f == <<stage, n>>
         IN  /\ f[1] = "post" => stage' \in {"post", "over"}
             /\ \/ rc'["job"].err /\ (f[1] # "post" => broken')
                \/ /\ f[1] = "main" /\ stage' = "main"
                   /\ \E i \in DOMAIN stack' :
                         stack'[i] \in Inside!Around(f[2]) \ {f[2]} /\ Pending(i)'
<1>1. stage = "post" => stage' \in {"post", "over"}
  BY TurnStages
<1>2. rc'[IF stage = "post" THEN "job" ELSE s].err /\ (s = "job" => broken')
  BY DEF ErrorArrives
<1>3. stage = "pre" => s = "job"
  BY DEF Inside!Swallowed
<1>4. CASE stage = "post" \/ s = "job"
  BY <1>1, <1>2, <1>4
<1>5. CASE stage = "main" /\ s # "job"
  <2>1. PICK i \in DOMAIN stack' : stack'[i] = s /\ s \in Inside!Around(n) \ {n}
    BY <1>5
  <2>2. stage' = "main"
    BY <1>5, TurnStages
  <2>3. Pending(i)'
    BY <1>2, <1>5, <2>1 DEF Pending
  <2> QED BY <1>5, <2>1, <2>2, <2>3
<1> QED BY <1>3, <1>4, <1>5

LEMMA FailKept ==
  ASSUME FailInv, UNCHANGED <<tree, stage, stack, ret, rc, broken, hist>>
  PROVE  FailInv'
<1>1. (\A n : Inside!Around(n)' = Inside!Around(n)) /\ (\A n : Rooted(n)' <=> Rooted(n))
      /\ Heard' = Heard
  BY AroundKept, RootedKept, SwallowedKept DEF Heard
<1>2. Inside!Scope' = Inside!Scope /\ (\A i : Outer(i)' = Outer(i))
      /\ \A i : Pending(i)' <=> Pending(i)
  BY DEF Inside!Scope, Outer, Pending
<1>3. Refusing' /\ FailuresRooted'
  BY <1>1, <1>2 DEF FailInv, Refusing, FailuresRooted
<1>4. Told'
  BY <1>1, <1>2 DEF FailInv, Told
<1>5. Spared'
  BY <1>1 DEF FailInv, Spared
<1> QED BY <1>3, <1>4, <1>5 DEF FailInv

LEMMA EarlyFail ==
  ASSUME InsideInv, Rows, FailInv, NEW n \in StepIds,
         Inside!PrepareFails(n) \/ Inside!Pass(n) \/ Inside!Skip(n)
  PROVE  FailInv'
<1>0. /\ Inside!TypeOK /\ Nested /\ Logged
      /\ Refusing /\ Told /\ Spared /\ FailuresRooted
  BY DEF InsideInv, FailInv
<1>at. PICK s \in Inside!Scopes, e \in BOOLEAN : EarlyFor(n, s, e)
  BY EarlyIs
<1>1. /\ s = Inside!Scope /\ s = Inside!ScopeOf(n) /\ Inside!Waiting(n)
      /\ TurnGoesOn(s) /\ ErrorArrives(s, e) /\ UNCHANGED <<tree, stack, ret>>
      /\ hist'.failures = IF e THEN hist.failures \cup {<<stage, n>>} ELSE hist.failures
      /\ hist'.refusals = hist.refusals
  BY <1>at DEF EarlyFor
<1>2. ret = "none" /\ stage \in {"pre", "main", "post"}
  BY <1>0, <1>1, WaitingIs DEF Inside!Waiting
<1>3. /\ \A x : Inside!Around(x)' = Inside!Around(x)
      /\ \A x : Rooted(x)' <=> Rooted(x)
      /\ \A f : Inside!Swallowed(f)' <=> Inside!Swallowed(f)
  BY <1>1, AroundKept, RootedKept, SwallowedKept
<1>4. /\ Rooted(n) /\ n # s
      /\ Inside!Around(n) = {n} \cup {stack[i] : i \in DOMAIN stack}
  BY <1>0, <1>1, WaitingPlace
<1>5. stack # <<>> => /\ s # "job" /\ Len(stack) \in DOMAIN stack /\ s = stack[Len(stack)]
                      /\ 1 \in DOMAIN stack
  <2>1. stack \in Seq(StepIds) /\ "job" \notin StepIds
    BY <1>0, TreeShape
  <2>2. stack # <<>> => 1 \in DOMAIN stack
    BY <2>1
  <2> QED BY <1>0, <1>1, <2>1, <2>2, ScopeIs
<1>6. stack = <<>> => s = "job"
  BY <1>1 DEF Inside!Scope
<1>7. ASSUME NEW f \in Heard' PROVE f \in Heard \/ (e /\ f = <<stage, n>>)
  BY <1>1, <1>3, <1>7 DEF Heard
<1>8. Refusing'
  <2>1. \A f \in hist'.refusals \ hist'.failures : f \in hist.refusals \ hist.failures
    BY <1>1
  <2> QED BY <1>0, <1>1, <1>2, <2>1 DEF Refusing
<1>9. Told'
  <2>1. ASSUME NEW f \in Heard
        PROVE  /\ f[1] = "post" => stage' \in {"post", "over"}
               /\ \/ rc'["job"].err /\ (f[1] # "post" => broken')
                  \/ /\ f[1] = "main" /\ stage' = "main"
                     /\ \E i \in DOMAIN stack' :
                           stack'[i] \in Inside!Around(f[2]) \ {f[2]} /\ Pending(i)'
    <3>1. f[1] = "post" => stage' \in {"post", "over"}
      BY <1>0, <1>1, TurnStages DEF Told
    <3>2. CASE rc["job"].err /\ (f[1] # "post" => broken)
      <4>1. "job" \in Inside!Scopes
        BY DEF Inside!Scopes
      <4> QED BY <1>1, <3>1, <3>2, <4>1 DEF ErrorArrives
    <3>3. CASE /\ f[1] = "main" /\ stage = "main"
               /\ \E i \in DOMAIN stack :
                     stack[i] \in Inside!Around(f[2]) \ {f[2]} /\ Pending(i)
      <4>1. PICK i \in DOMAIN stack : stack[i] \in Inside!Around(f[2]) \ {f[2]} /\ Pending(i)
        BY <3>3
      <4>2. stack # <<>> /\ stack[i] \in Inside!Scopes
        BY <1>0, TreeShape
      <4>3. stage' = "main"
        BY <1>1, <1>5, <3>3, <4>2, TurnStages
      <4>4. rc'[stack[i]].err
        BY <1>1, <1>2, <4>1, <4>2 DEF Pending, ErrorArrives
      <4>5. Pending(i)'
        BY <1>1, <1>2, <4>4 DEF Pending
      <4> QED BY <1>1, <3>1, <3>3, <4>1, <4>3, <4>5
    <3> QED BY <1>0, <3>2, <3>3 DEF Told
  <2>2. ASSUME NEW f, f = <<stage, n>>, e, ~Inside!Swallowed(f)
        PROVE  /\ f[1] = "post" => stage' \in {"post", "over"}
               /\ \/ rc'["job"].err /\ (f[1] # "post" => broken')
                  \/ /\ f[1] = "main" /\ stage' = "main"
                     /\ \E i \in DOMAIN stack' :
                           stack'[i] \in Inside!Around(f[2]) \ {f[2]} /\ Pending(i)'
    <3>1. s # "job" => \E i \in DOMAIN stack' : stack'[i] = s /\ s \in Inside!Around(n) \ {n}
      BY <1>1, <1>4, <1>5, <1>6
    <3>2. ErrorArrives(s, TRUE)
      BY <1>1, <2>2
    <3>3. ret' = "none"
      BY <1>1, <1>2
    <3> QED BY <1>0, <1>1, <1>2, <2>2, <3>1, <3>2, <3>3, FailureTold
  <2>3. \A f \in Heard' : ~Inside!Swallowed(f)
    BY <1>3 DEF Heard
  <2> QED BY <1>3, <1>7, <2>1, <2>2, <2>3 DEF Told
<1>10. Spared'
  <2>1. SUFFICES ASSUME stage' = "main", stack # <<>>, tree.cond[stack[1]] = "success",
                        NEW f \in Heard'
                 PROVE  stack[1] \in Inside!Around(f[2])
    BY <1>1, <1>3 DEF Spared
  <2>2. stage = "main"
    BY <1>1, <1>5, <2>1, TurnStages
  <2>3. CASE f \in Heard
    BY <1>0, <2>1, <2>2, <2>3 DEF Spared
  <2>4. CASE f = <<stage, n>>
    BY <1>4, <1>5, <2>1, <2>4
  <2> QED BY <1>7, <2>3, <2>4
<1>11. FailuresRooted'
  <2>1. \A f \in hist'.failures : f \in hist.failures \/ f[2] = n
    BY <1>1
  <2> QED BY <1>0, <1>3, <1>4, <2>1 DEF FailuresRooted
<1> QED BY <1>8, <1>9, <1>10, <1>11 DEF FailInv

LEMMA EnterFail ==
  ASSUME InsideInv, Rows, FailInv, NEW n \in StepIds,
         Inside!Begin(n) \/ Inside!ReadFails(n) \/ Inside!CopyFails(n)
  PROVE  FailInv'
<1>0. /\ Inside!TypeOK /\ Nested /\ Logged
      /\ Refusing /\ Told /\ Spared /\ FailuresRooted
  BY DEF InsideInv, FailInv
<1>at. PICK s \in Inside!Scopes : EnterFor(n, s)
  BY EnterIs
<1>1. /\ s = Inside!Scope /\ s = Inside!ScopeOf(n) /\ Inside!Waiting(n)
      /\ stage = "main" => Inside!Enabled(n)
      /\ UNCHANGED <<tree, stage, broken>>
      /\ stack' = Append(stack, n)
      /\ \A u \in Inside!Scopes : u # n => rc'[u].err = rc[u].err
      /\ hist'.failures = hist.failures /\ hist'.refusals = hist.refusals
  BY <1>at DEF EnterFor
<1>2. ret = "none"
  BY <1>1 DEF Inside!Waiting
<1>3. /\ \A x : Inside!Around(x)' = Inside!Around(x)
      /\ \A x : Rooted(x)' <=> Rooted(x)
      /\ Heard' = Heard
  BY <1>1, AroundKept, RootedKept, SwallowedKept DEF Heard
<1>4. PICK top \in Nat : top = Len(stack) /\ DOMAIN stack = 1..top /\ stack \in Seq(StepIds)
  <2>1. stack \in Seq(StepIds)
    BY <1>0, TreeShape
  <2> QED BY <2>1
<1>5. /\ DOMAIN stack' = 1..(top + 1) /\ stack'[top + 1] = n /\ Len(stack') = top + 1
      /\ \A i \in 1..top : stack'[i] = stack[i]
  BY <1>1, <1>4
<1>6. Refusing'
  <2>1. \A f \in hist.refusals \ hist.failures : f[2] \in tree.lenient
    BY <1>0, <1>2 DEF Refusing
  <2> QED BY <1>1, <2>1 DEF Refusing
<1>7. ASSUME NEW f \in Heard
      PROVE  /\ f[1] = "post" => stage \in {"post", "over"}
             /\ \/ rc'["job"].err /\ (f[1] # "post" => broken)
                \/ /\ f[1] = "main" /\ stage = "main"
                   /\ \E i \in DOMAIN stack' :
                         stack'[i] \in Inside!Around(f[2]) \ {f[2]} /\ Pending(i)'
  <2>1. CASE rc["job"].err /\ (f[1] # "post" => broken)
    <3>1. "job" \in Inside!Scopes /\ "job" # n
      BY TreesAssumption DEF Inside!Scopes
    <3> QED BY <1>0, <1>1, <2>1, <3>1 DEF Told
  <2>2. CASE /\ f[1] = "main" /\ stage = "main"
             /\ \E i \in DOMAIN stack :
                   stack[i] \in Inside!Around(f[2]) \ {f[2]} /\ Pending(i)
    <3>1. PICK i \in DOMAIN stack : stack[i] \in Inside!Around(f[2]) \ {f[2]} /\ Pending(i)
      BY <2>2
    <3>2. /\ i \in 1..top /\ i \in DOMAIN stack' /\ stack'[i] = stack[i] /\ i # Len(stack')
      BY <1>4, <1>5
    <3>3. stack[i] # n /\ stack[i] \in Inside!Scopes
      BY <1>0, <1>1, WaitingAt, TreeShape
    <3>4. rc'[stack[i]].err
      BY <1>1, <1>2, <3>1, <3>3 DEF Pending
    <3>5. Pending(i)'
      BY <3>2, <3>4 DEF Pending
    <3> QED BY <2>2, <3>1, <3>2, <3>5
  <2> QED BY <1>0, <2>1, <2>2 DEF Told
<1>8. Told'
  BY <1>1, <1>3, <1>7 DEF Told
<1>9. Spared'
  <2>1. SUFFICES ASSUME stage = "main", tree.cond[stack'[1]] = "success", NEW f \in Heard
                 PROVE  stack'[1] \in Inside!Around(f[2])
    BY <1>1, <1>3 DEF Spared
  <2>2. CASE stack # <<>>
    <3>1. stack'[1] = stack[1]
      BY <1>4, <1>5, <2>2
    <3> QED BY <1>0, <2>1, <2>2, <3>1 DEF Spared
  <2>3. CASE stack = <<>>
    <3>1. stack'[1] = n /\ s = "job" /\ DOMAIN stack = {}
      BY <1>1, <1>4, <1>5, <2>3 DEF Inside!Scope
    <3>2. ~broken
      BY <1>1, <2>1, <3>1 DEF Inside!Enabled, Inside!Failing
    <3>3. f[1] # "post" /\ broken
      BY <1>0, <2>1, <3>1 DEF Told
    <3> QED BY <3>2, <3>3
  <2> QED BY <2>2, <2>3
<1>10. FailuresRooted'
  BY <1>0, <1>1, <1>3 DEF FailuresRooted
<1> QED BY <1>6, <1>8, <1>9, <1>10 DEF FailInv

\* The innermost step has returned: errors of its own steps made it fail.
LEMMA ReturnedFail ==
  ASSUME InsideInv, FailInv, stack # <<>>, ret = "none", ret' \in {"ok", "failed"},
         UNCHANGED <<tree, stage, stack, broken>>,
         \A u \in Inside!Scopes : rc'[u].err = rc[u].err,
         \/ tree.kind[Inside!Scope] # "composite"
         \/ stage = "main" /\ rc[Inside!Scope].err => ret' = "failed",
         \/ hist'.refusals = hist.refusals
         \/ /\ hist'.refusals = hist.refusals \cup {<<stage, Inside!Scope>>}
            /\ rc'[handler].refused /\ tree.kind[Inside!Scope] # "composite",
         hist'.failures = hist.failures
  PROVE  FailInv'
<1>0. /\ Inside!TypeOK /\ Nested /\ Handled /\ Logged
      /\ Refusing /\ Told /\ Spared /\ FailuresRooted
  BY DEF InsideInv, FailInv
<1>1. /\ \A x : Inside!Around(x)' = Inside!Around(x)
      /\ \A x : Rooted(x)' <=> Rooted(x)
      /\ Heard' = Heard
  BY AroundKept, RootedKept, SwallowedKept DEF Heard
<1>2. Inside!Scope' = Inside!Scope /\ \A i : Outer(i)' = Outer(i)
  BY DEF Inside!Scope, Outer
<1>3. Refusing'
  <2>1. SUFFICES ASSUME NEW f \in hist'.refusals \ hist'.failures
                 PROVE  \/ f[2] \in tree.lenient
                        \/ /\ f = <<stage, Inside!Scope>>
                           /\ tree.kind[Inside!Scope] # "composite"
                           /\ rc'[Outer(Len(stack))].refused
    BY <1>2 DEF Refusing
  <2>2. CASE f \in hist.refusals
    BY <1>0, <2>1, <2>2 DEF Refusing
  <2>3. CASE f \notin hist.refusals
    <3>1. f = <<stage, Inside!Scope>> /\ rc'[handler].refused
          /\ tree.kind[Inside!Scope] # "composite"
      BY <2>1, <2>3
    <3> QED BY <1>0, <3>1 DEF Handled
  <2> QED BY <2>2, <2>3
<1>4. ASSUME NEW f \in Heard
      PROVE  /\ f[1] = "post" => stage \in {"post", "over"}
             /\ \/ rc'["job"].err /\ (f[1] # "post" => broken)
                \/ /\ f[1] = "main" /\ stage = "main"
                   /\ \E i \in DOMAIN stack :
                         stack[i] \in Inside!Around(f[2]) \ {f[2]} /\ Pending(i)'
  <2>1. CASE rc["job"].err /\ (f[1] # "post" => broken)
    <3>1. "job" \in Inside!Scopes
      BY DEF Inside!Scopes
    <3> QED BY <1>0, <2>1, <3>1 DEF Told
  <2>2. CASE /\ f[1] = "main" /\ stage = "main"
             /\ \E i \in DOMAIN stack :
                   stack[i] \in Inside!Around(f[2]) \ {f[2]} /\ Pending(i)
    <3>1. PICK i \in DOMAIN stack : stack[i] \in Inside!Around(f[2]) \ {f[2]} /\ Pending(i)
      BY <2>2
    <3>2. rc[stack[i]].err /\ stack[i] \in Inside!Scopes
      BY <1>0, <3>1, TreeShape DEF Pending
    <3>3. Pending(i)'
      <4>1. CASE i # Len(stack)
        BY <3>2, <4>1 DEF Pending
      <4>2. CASE i = Len(stack)
        <5>1. stack[i] = Inside!Scope
          BY <1>0, <4>2, ScopeIs
        <5>2. tree.kind[stack[i]] = "composite"
          <6>1. f \in hist.failures /\ f[2] \in StepIds
            BY <1>0 DEF Heard, Logged, Histories, StagesOfSteps
          <6>2. Path(f[2])
            BY <1>0, <6>1, AroundSelf DEF FailuresRooted, Rooted
          <6> QED BY <3>1, <6>2 DEF Path
        <5>3. ret' = "failed"
          BY <2>2, <3>2, <5>1, <5>2
        <5> QED BY <4>2, <5>3 DEF Pending
      <4> QED BY <4>1, <4>2
    <3> QED BY <2>2, <3>1, <3>3
  <2> QED BY <1>0, <2>1, <2>2 DEF Told
<1>5. Told'
  BY <1>1, <1>4 DEF Told
<1>6. Spared' /\ FailuresRooted'
  BY <1>0, <1>1 DEF Spared, FailuresRooted
<1> QED BY <1>3, <1>5, <1>6 DEF FailInv

LEMMA LeaveFail ==
  ASSUME InsideInv, Rows, FailInv, NEW k \in 0..4, Inside!Leave(k)
  PROVE  FailInv'
<1>0. /\ Inside!TypeOK /\ Nested /\ Logged
      /\ Refusing /\ Told /\ Spared /\ FailuresRooted
  BY DEF InsideInv, FailInv
<1>at. PICK n \in StepIds, s \in Inside!Scopes, top \in Nat \ {0}, raised \in BOOLEAN :
        LeaveFor(n, s, top, raised)
  BY LeaveIs
<1>1. /\ n = Inside!Scope /\ s = Inside!ScopeOf(n)
      /\ top = Len(stack) /\ DOMAIN stack = 1..top /\ n = stack[top] /\ s = Outer(top)
      /\ stack' \in Seq(StepIds) /\ Len(stack') = top - 1 /\ DOMAIN stack' = 1..(top - 1)
      /\ \A i \in 1..(top - 1) : stack'[i] = stack[i]
      /\ stage \in {"pre", "main", "post"} /\ ret # "none" /\ ret' = "none"
      /\ UNCHANGED <<tree, action>>
      /\ TurnGoesOn(s) /\ ErrorArrives(s, raised)
      /\ (ret = "failed" \/ rc[s].refused) /\ n \notin tree.lenient => raised
      /\ hist'.failures = IF raised THEN hist.failures \cup {<<stage, n>>} ELSE hist.failures
      /\ hist'.refusals = hist.refusals
      /\ hist'.mains = hist.mains /\ hist'.posts = hist.posts
      /\ hist'.lost = IF stage = "post" /\ ret = "failed" /\ tree.kind[n] = "composite"
                      THEN hist.lost \cup {n} ELSE hist.lost
      /\ \/ conclusion' = conclusion
         \/ stage = "main" /\ conclusion' = [conclusion EXCEPT ![n] = "failure"]
  BY <1>at DEF LeaveFor
<1>2. /\ \A x : Inside!Around(x)' = Inside!Around(x)
      /\ \A x : Rooted(x)' <=> Rooted(x)
      /\ \A f : Inside!Swallowed(f)' <=> Inside!Swallowed(f)
  BY <1>1, AroundKept, RootedKept, SwallowedKept
<1>3. /\ Rooted(n) /\ Inside!Around(n) = {stack[i] : i \in 1..top}
      /\ \E i \in DOMAIN tree.child[s] : n = tree.child[s][i]
  <2>1. top \in DOMAIN stack
    BY <1>1
  <2>2. /\ Rooted(n) /\ Inside!Around(n) = {stack[i] : i \in 1..top}
        /\ next[s] \in DOMAIN tree.child[s] /\ n = Nth(s, next[s])
    BY <1>1, <2>1 DEF Rows
  <2> QED BY <1>0, <2>2, NthIs
<1>4. s = "job" \/ (top # 1 /\ s = stack[top - 1] /\ s # n /\ s \in StepIds)
  <2>1. CASE top = 1
    BY <1>1, <2>1 DEF Outer
  <2>2. CASE top # 1
    <3>1. s = stack[top - 1] /\ top - 1 \in DOMAIN stack /\ top \in DOMAIN stack
      BY <1>1, <2>2 DEF Outer
    <3> QED BY <1>0, <1>1, <2>2, <3>1, OuterIs
  <2> QED BY <2>1, <2>2
<1>5. ASSUME s # "job"
      PROVE  /\ top - 1 \in DOMAIN stack' /\ stack'[top - 1] = s
             /\ stage' = stage
  BY <1>1, <1>4, <1>5, TurnStages
<1>6. ASSUME NEW f \in Heard' PROVE f \in Heard \/ (raised /\ f = <<stage, n>>)
  BY <1>1, <1>2, <1>6 DEF Heard
<1>7. Refusing'
  <2>1. SUFFICES ASSUME NEW f \in hist'.refusals \ hist'.failures PROVE f[2] \in tree.lenient
    BY <1>1 DEF Refusing
  <2>2. f \in hist.refusals \ hist.failures
    BY <1>1, <2>1
  <2>3. CASE f = <<stage, n>> /\ rc[s].refused
    BY <1>1, <2>1, <2>3
  <2> QED BY <1>0, <1>1, <2>2, <2>3 DEF Refusing
<1>8. Told'
  <2>1. ASSUME NEW f \in Heard
        PROVE  /\ f[1] = "post" => stage' \in {"post", "over"}
               /\ \/ rc'["job"].err /\ (f[1] # "post" => broken')
                  \/ /\ f[1] = "main" /\ stage' = "main"
                     /\ \E i \in DOMAIN stack' :
                           stack'[i] \in Inside!Around(f[2]) \ {f[2]} /\ Pending(i)'
    <3>1. f[1] = "post" => stage' \in {"post", "over"}
      BY <1>0, <1>1, TurnStages DEF Told
    <3>2. CASE rc["job"].err /\ (f[1] # "post" => broken)
      <4>1. "job" \in Inside!Scopes
        BY DEF Inside!Scopes
      <4> QED BY <1>1, <3>1, <3>2, <4>1 DEF ErrorArrives
    <3>3. CASE /\ f[1] = "main" /\ stage = "main"
               /\ \E i \in DOMAIN stack :
                     stack[i] \in Inside!Around(f[2]) \ {f[2]} /\ Pending(i)
      <4>1. PICK i \in 1..top : stack[i] \in Inside!Around(f[2]) \ {f[2]} /\ Pending(i)
        BY <1>1, <3>3
      <4>2. stack[i] \in StepIds /\ stack[i] \in Inside!Scopes
        BY <1>0, <1>1, TreeShape
      <4>3. CASE i # top
        <5>1. i \in 1..(top - 1) /\ stack'[i] = stack[i] /\ i \in DOMAIN stack' /\ i # top
          BY <1>1, <4>3
        <5>2. s # "job"
          <6>1. top # 1
            BY <1>1, <5>1
          <6>2. top - 1 \in DOMAIN stack /\ s = stack[top - 1]
            BY <1>1, <6>1 DEF Outer
          <6> QED BY <1>0, <6>2, TreeShape
        <5>3. rc'[stack[i]].err
          BY <1>1, <4>1, <4>2, <5>1 DEF Pending, ErrorArrives
        <5>4. Pending(i)'
          BY <1>1, <5>1, <5>3 DEF Pending
        <5> QED BY <1>5, <3>1, <3>3, <4>1, <5>1, <5>2, <5>4
      <4>4. CASE i = top
        <5>1. ret = "failed" /\ n \in Inside!Around(f[2]) \ {f[2]}
          BY <1>1, <4>1, <4>4 DEF Pending
        <5>2. f \in hist.failures /\ f[2] \in StepIds /\ ~Inside!Swallowed(f)
          BY <1>0 DEF Heard, Logged, Histories, StagesOfSteps
        <5>3. n \notin tree.lenient
          BY <3>3, <5>1, <5>2 DEF Inside!Swallowed
        <5>4. raised
          BY <1>1, <5>1, <5>3
        <5>5. CASE s = "job"
          BY <1>1, <3>1, <3>3, <5>4, <5>5 DEF ErrorArrives
        <5>6. CASE s # "job"
          <6>1. s \in Inside!Around(f[2])
            BY <1>0, <1>3, <1>4, <5>1, <5>6, AroundParent
          <6>2. s # f[2]
            <7>1. Path(f[2])
              BY <1>0, <5>2, AroundSelf DEF FailuresRooted, Rooted
            <7> QED BY <1>3, <5>1, <7>1 DEF Path
          <6>3. rc'[s].err
            BY <1>1, <3>3, <5>4 DEF ErrorArrives
          <6>4. Pending(top - 1)'
            BY <1>1, <1>5, <5>6, <6>3 DEF Pending
          <6> QED BY <1>5, <3>1, <3>3, <5>6, <6>1, <6>2, <6>4
        <5> QED BY <5>5, <5>6
      <4> QED BY <4>3, <4>4
    <3> QED BY <1>0, <3>2, <3>3 DEF Told
  <2>2. ASSUME NEW f, f = <<stage, n>>, raised, ~Inside!Swallowed(f)
        PROVE  /\ f[1] = "post" => stage' \in {"post", "over"}
               /\ \/ rc'["job"].err /\ (f[1] # "post" => broken')
                  \/ /\ f[1] = "main" /\ stage' = "main"
                     /\ \E i \in DOMAIN stack' :
                           stack'[i] \in Inside!Around(f[2]) \ {f[2]} /\ Pending(i)'
    <3>1. s # "job" => \E i \in DOMAIN stack' : stack'[i] = s /\ s \in Inside!Around(n) \ {n}
      <4>1. s # "job" => s \in Inside!Around(n)
        BY <1>0, <1>3, <1>4, AroundStep
      <4> QED BY <1>4, <1>5, <4>1
    <3>2. ErrorArrives(s, TRUE)
      BY <1>1, <2>2
    <3> QED BY <1>0, <1>1, <2>2, <3>1, <3>2, FailureTold
  <2>3. \A f \in Heard' : ~Inside!Swallowed(f)
    BY <1>2 DEF Heard
  <2> QED BY <1>2, <1>6, <2>1, <2>2, <2>3 DEF Told
<1>9. Spared'
  <2>1. SUFFICES ASSUME stage' = "main", stack' # <<>>, tree.cond[stack'[1]] = "success",
                        NEW f \in Heard'
                 PROVE  stack'[1] \in Inside!Around(f[2])
    BY <1>1, <1>2 DEF Spared
  <2>2. top # 1 /\ 1 \in 1..(top - 1) /\ 1 \in 1..top
    <3>1. Len(stack') # 0
      BY <1>1, <2>1
    <3> QED BY <1>1, <3>1
  <2>3. stack'[1] = stack[1] /\ stack # <<>>
    BY <1>1, <2>2
  <2>4. s # "job"
    <3>1. top - 1 \in DOMAIN stack /\ s = stack[top - 1]
      BY <1>1, <2>2 DEF Outer
    <3> QED BY <1>0, <3>1, TreeShape
  <2>5. stage = "main"
    BY <1>5, <2>1, <2>4
  <2>6. CASE f \in Heard
    BY <1>0, <1>1, <2>1, <2>3, <2>5, <2>6 DEF Spared
  <2>7. CASE f = <<stage, n>>
    BY <1>3, <2>2, <2>3, <2>7
  <2> QED BY <1>6, <2>6, <2>7
<1>10. FailuresRooted'
  <2>1. \A f \in hist'.failures : f \in hist.failures \/ f[2] = n
    BY <1>1
  <2> QED BY <1>0, <1>2, <1>3, <2>1 DEF FailuresRooted
<1> QED BY <1>7, <1>8, <1>9, <1>10 DEF FailInv

LEMMA InitFail == Inside!Init => Rows /\ FailInv
<1> SUFFICES ASSUME Inside!Init PROVE Rows /\ FailInv
  OBVIOUS
<1>1. stack = <<>> /\ hist.failures = {} /\ hist.refusals = {}
  BY DEF Inside!Init
<1>2. DOMAIN stack = {} /\ Heard = {}
  BY <1>1 DEF Heard
<1>3. Rows
  BY <1>1, <1>2 DEF Rows
<1>4. FailInv
  BY <1>1, <1>2 DEF FailInv, Refusing, Told, Spared, FailuresRooted
<1> QED BY <1>3, <1>4

LEMMA NextFail ==
  InsideInv /\ Rows /\ FailInv /\ [Inside!Next]_inside => Rows' /\ FailInv'
<1> SUFFICES ASSUME InsideInv, Rows, FailInv, [Inside!Next]_inside PROVE Rows' /\ FailInv'
  OBVIOUS
<1>0. stack # <<>> => Inside!Scope \in Inside!Scopes
  BY ScopeIs DEF InsideInv
<1>1. ASSUME UNCHANGED <<tree, stage, stack, next, ret, rc, broken, hist>> PROVE Rows' /\ FailInv'
  BY <1>1, RowsKept, FailKept
<1>2. ASSUME NEW n \in StepIds,
             \/ Inside!PrepareFails(n) \/ Inside!Pass(n) \/ Inside!Skip(n) \/ Inside!Begin(n)
             \/ Inside!ReadFails(n) \/ Inside!CopyFails(n)
      PROVE  Rows' /\ FailInv'
  BY <1>2, EarlyRows, EarlyFail, EnterRows, EnterFail
<1>3. ASSUME NEW n \in StepIds, Inside!Expire(n) PROVE Rows' /\ FailInv'
  BY <1>1, <1>3 DEF Inside!Expire
<1>4. ASSUME NEW how \in {"silent", "files", "prints", "refused"}, NEW ok \in BOOLEAN,
             \/ Inside!RunScript(how, ok) \/ Inside!RunAction(how, ok) \/ Inside!RunPre(how, ok)
             \/ Inside!RunPost(ok)
      PROVE  Rows' /\ FailInv'
  <2>1. /\ stack # <<>> /\ tree.kind[Inside!Scope] # "composite"
        /\ ret = "none" /\ ret' \in {"ok", "failed"}
        /\ UNCHANGED <<tree, stage, stack, next, broken>>
        /\ \A u \in Inside!Scopes : rc'[u].err = rc[u].err
        /\ \/ hist'.refusals = hist.refusals
           \/ /\ hist'.refusals = hist.refusals \cup {<<stage, Inside!Scope>>}
              /\ rc'[handler].refused
        /\ hist'.failures = hist.failures
    BY <1>4, RanIs
  <2>2. Rows'
    BY <2>1, RowsKept
  <2>3. FailInv'
    BY <2>1, ReturnedFail
  <2> QED BY <2>2, <2>3
<1>5. CASE Inside!ChildrenOver
  <2>1. /\ stack # <<>> /\ ret = "none" /\ ret' \in {"ok", "failed"}
        /\ UNCHANGED <<tree, stage, stack, next, broken, hist>>
        /\ \A u \in Inside!Scopes : rc'[u].err = rc[u].err
        /\ stage = "main" /\ rc[Inside!Scope].err => ret' = "failed"
    BY <1>5, ChildrenAre
  <2>2. Rows'
    BY <2>1, RowsKept
  <2>3. FailInv'
    BY <2>1, ReturnedFail
  <2> QED BY <2>2, <2>3
<1>6. ASSUME NEW k \in 0..Len(Inside!Commands), Inside!Leave(k) PROVE Rows' /\ FailInv'
  <2>1. Len(Inside!Commands) = 4
    BY DEF Inside!Commands
  <2> QED BY <1>6, <2>1, LeaveRows, LeaveFail
<1>7. CASE UNCHANGED inside
  BY <1>1, <1>7 DEF inside
<1>8. CASE Inside!Over
  BY <1>7, <1>8 DEF Inside!Over, Inside!vars, inside
<1>9. CASE Inside!Next
  <2>1. PICK ok \in BOOLEAN : ok
    OBVIOUS
  <2>2. "silent" \in {"silent", "files", "prints", "refused"}
    OBVIOUS
  <2> QED BY <1>2, <1>3, <1>4, <1>5, <1>6, <1>8, <1>9, <2>2 DEF Inside!Next
<1> QED BY <1>7, <1>9

LEMMA FailInductive == JobSpec => [](level = "steps" => InsideInv /\ Rows /\ FailInv)
<1>1. JobInit => (level = "steps" => InsideInv /\ Rows /\ FailInv)
  BY InitInside, InitFail DEF JobInit
<1>2. (level = "steps" => InsideInv /\ Rows /\ FailInv) /\ [JobNext]_everything
      => (level = "steps" => InsideInv /\ Rows /\ FailInv)'
  <2> SUFFICES ASSUME level = "steps" => InsideInv /\ Rows /\ FailInv, [JobNext]_everything,
                      level' = "steps"
               PROVE  InsideInv' /\ Rows' /\ FailInv'
    OBVIOUS
  <2>1. level = "steps" /\ [Inside!Next]_inside
    BY DEF JobNext, OfJob, OfSteps, everything
  <2> QED BY <2>1, NextInside, NextFail
<1> QED BY <1>1, <1>2, PTL DEF JobSpec

\* Once the job is over no failure is left on its way, and a main stage of the
\* job's own runs, on success only, before any failure outside of it.
LEMMA FailSurfaces == InsideInv /\ Rows /\ FailInv => Inside!FailuresSurface
<1> SUFFICES ASSUME InsideInv, Rows, FailInv PROVE Inside!FailuresSurface
  OBVIOUS
<1>0. /\ Inside!TypeOK /\ Nested /\ Logged
      /\ Refusing /\ Told /\ Spared /\ FailuresRooted
  BY DEF InsideInv, FailInv
<1>1. Heard = {f \in hist.failures : ~Inside!Swallowed(f)}
  BY DEF Heard
<1>2. \A f \in hist.refusals \ hist.failures :
        f = <<stage, Inside!Scope>> \/ f[2] \in tree.lenient
  BY <1>0 DEF Refusing
<1>3. stage = "over" /\ ~rc["job"].err => Heard = {}
  BY <1>0 DEF Told
<1>4. ASSUME Inside!Running("main"), tree.cond[Inside!Outermost(Inside!Scope)] = "success"
      PROVE  \A f \in Heard : Inside!Outermost(f[2]) = Inside!Outermost(Inside!Scope)
  <2>1. stage = "main" /\ stack # <<>>
    BY <1>4 DEF Inside!Running
  <2>2. PICK top \in Nat \ {0} : top = Len(stack) /\ top \in DOMAIN stack /\ 1 \in DOMAIN stack
    <3>1. stack \in Seq(StepIds)
      BY <1>0, TreeShape
    <3> QED BY <2>1, <3>1
  <2>3. /\ Inside!Scope = stack[top] /\ Inside!Scope \in StepIds
        /\ Rooted(stack[top]) /\ Inside!Around(stack[top]) = {stack[i] : i \in 1..top}
        /\ stack[1] \in Inside!Around(stack[top])
    BY <1>0, <2>1, <2>2, ScopeIs DEF Rows
  <2>4. Inside!ScopeOf(stack[1]) = "job"
    BY <1>0, <2>2 DEF Nested, Outer
  <2>5. Inside!Outermost(Inside!Scope) = stack[1]
    BY <1>0, <2>3, <2>4, OutermostIs
  <2>6. ASSUME NEW f \in Heard PROVE Inside!Outermost(f[2]) = stack[1]
    <3>1. stack[1] \in Inside!Around(f[2])
      BY <1>0, <1>4, <2>1, <2>5 DEF Spared
    <3>2. f[2] \in StepIds /\ Rooted(f[2])
      BY <1>0, <1>1 DEF FailuresRooted, Logged, Histories, StagesOfSteps
    <3> QED BY <1>0, <2>4, <3>1, <3>2, OutermostIs
  <2> QED BY <2>5, <2>6
<1> QED BY <1>1, <1>2, <1>3, <1>4 DEF Inside!FailuresSurface

\* No failure is lost at either level: at the executor's, the job ends as its
\* stages did (NoFailureLost); inside, whatever the tree of composite actions,
\* a failure at any depth that nothing forgives reaches the job's error
\* container through the containers of the composite actions around it, the
\* job's steps that run on success only do not run after it, and a command that
\* was refused fails the step that printed it (reportStepError, SetJobError,
\* takeUnsecureCommandError).
THEOREM FailuresAreHeard == JobSpec => []FailuresHeard
<1>1. (level = "job" => FailuresReported) /\ (level = "steps" => InsideInv /\ Rows /\ FailInv)
      => FailuresHeard
  BY FailSurfaces DEF FailuresHeard
<1> QED BY <1>1, NoFailureLost, FailInductive, PTL

-----------------------------------------------------------------------------
(* The order of the stages.                                                *)

\* A step of a run context around m comes before the one around n.
Precedes(m, n) ==
    \E s \in Inside!Scopes : \E i, k \in DOMAIN tree.child[s] :
        i < k /\ tree.child[s][i] \in Inside!Around(m) /\ tree.child[s][k] \in Inside!Around(n)

\* A run context under way is past the step around n.
PastIn(s, n) ==
    \E x \in DOMAIN tree.child[s] : x < next[s] /\ Nth(s, x) \in Inside!Around(n)
Past(n) == \E j \in 1..(Len(stack) + 1) : PastIn(Outer(j), n)

\* An action that has a post stage.
Concluded == {"success", "failure"}
Owed(n) == tree.kind[n] # "script" /\ n \in action /\ conclusion[n] \in Concluded

\* The actions under way were read, and have what their stage is there for.
Active ==
    /\ \A j \in DOMAIN stack : j < Len(stack) => stack[j] \in action
    /\ stack # <<>> /\ ret = "none" => Inside!Scope \in action
    /\ stage = "main" => \A j \in DOMAIN stack : conclusion[stack[j]] \in Concluded
    /\ stage = "post" => \A j \in DOMAIN stack : Owed(stack[j])

Mains == {hist.mains[i] : i \in DOMAIN hist.mains}
Posts == {hist.posts[i] : i \in DOMAIN hist.posts}

\* The main stages: of scripts and actions inside of what has run, those with a
\* conclusion, in their order, and none of a step that is still to come.
MainsInside ==
    \A n \in Mains :
        /\ Rooted(n) /\ tree.kind[n] # "composite"
        /\ \A x \in Inside!Around(n) : conclusion[x] \in Concluded /\ (x # n => x \in action)
MainsNoted ==
    \A n \in StepIds : tree.kind[n] # "composite" /\ conclusion[n] \in Concluded => n \in Mains
MainsOrdered ==
    \A a, b \in DOMAIN hist.mains : a < b => Precedes(hist.mains[a], hist.mains[b])
MainsPast ==
    /\ stage = "pre" => Mains = {}
    /\ stage = "main" => \A n \in Mains : Past(n) \/ (stack # <<>> /\ n = Inside!Scope)

\* The post stages: of those main stages that were due one, unless it was lost
\* with one around it, in the reverse order, and none of a step still to come.
PostsOwed == \A n \in Posts : n \in Mains /\ Owed(n) /\ Inside!Around(n) \cap hist.lost = {}
PostsOrdered ==
    \A i, k \in DOMAIN hist.posts : i < k => Precedes(hist.posts[k], hist.posts[i])
PostsPast ==
    /\ stage \in {"pre", "main"} => Posts = {} /\ hist.lost = {}
    /\ stage = "post" =>
        /\ \A n \in Posts : Past(n) \/ (stack # <<>> /\ n = Inside!Scope /\ ret # "none")
        /\ \A n \in hist.lost : Past(n)

\* A post stage under way that has returned: it ran, or failed before those of
\* its steps, or went through them.
Returned ==
    stage = "post" /\ stack # <<>> =>
        /\ tree.kind[Inside!Scope] # "composite" /\ ret # "none" => Inside!Scope \in Posts
        /\ tree.kind[Inside!Scope] = "composite" /\ ret = "failed" =>
              \A n \in Posts : Inside!Scope \notin Inside!Around(n)
        /\ tree.kind[Inside!Scope] = "composite" /\ ret = "ok" =>
              next[Inside!Scope] > Len(tree.child[Inside!Scope])

\* A post stage that was due has run, or was lost.
Met(n) == Owed(n) => n \in Posts \/ Inside!Around(n) \cap hist.lost # {}
PostsMet ==
    /\ stage = "post" => \A n \in Mains : Past(n) => Met(n)
    /\ stage = "over" => \A n \in Mains : Met(n)

StageInv ==
    /\ Active /\ MainsInside /\ MainsNoted /\ MainsOrdered /\ MainsPast
    /\ PostsOwed /\ PostsOrdered /\ PostsPast /\ Returned /\ PostsMet

\* Of two steps one comes before the other, or none of them.
LEMMA Asymmetric ==
  ASSUME Inside!TypeOK, NEW m \in StepIds, NEW n \in StepIds, Rooted(m), Rooted(n),
         Precedes(m, n), Precedes(n, m)
  PROVE  FALSE
<1>0. "job" \notin StepIds /\ Inside!Scopes = {"job"} \cup StepIds
      /\ tree.child \in [Inside!Scopes -> Seq(StepIds)]
  BY TreeShape
<1>1. PICK s \in Inside!Scopes : \E i, k \in DOMAIN tree.child[s] :
        i < k /\ tree.child[s][i] \in Inside!Around(m) /\ tree.child[s][k] \in Inside!Around(n)
  BY DEF Precedes
<1>2. PICK i \in DOMAIN tree.child[s], k \in DOMAIN tree.child[s] :
        i < k /\ tree.child[s][i] \in Inside!Around(m) /\ tree.child[s][k] \in Inside!Around(n)
  BY <1>1
<1>3. PICK u \in Inside!Scopes : \E j, l \in DOMAIN tree.child[u] :
        j < l /\ tree.child[u][j] \in Inside!Around(n) /\ tree.child[u][l] \in Inside!Around(m)
  BY DEF Precedes
<1>4. PICK j \in DOMAIN tree.child[u], l \in DOMAIN tree.child[u] :
        j < l /\ tree.child[u][j] \in Inside!Around(n) /\ tree.child[u][l] \in Inside!Around(m)
  BY <1>3
<1>5. /\ i \in Nat /\ k \in Nat /\ j \in Nat /\ l \in Nat
  <2>1. tree.child[s] \in Seq(StepIds) /\ tree.child[u] \in Seq(StepIds)
    BY <1>0
  <2> QED BY <2>1
<1>6. Path(m) /\ Path(n)
  BY AroundSelf DEF Rooted
<1>7. \A t \in {s, u} : t # "job" => t \in Inside!Around(m) /\ t \in Inside!Around(n)
  BY <1>0, <1>2, <1>4, AroundParent
<1>8. CASE s = u
  <2>1. i = l /\ k = j
    BY <1>2, <1>4, <1>6, <1>8 DEF Path
  <2> QED BY <1>2, <1>4, <1>5, <2>1
\* A run context around another lists one step around that one, which is around
\* both m and n.
<1>9. ASSUME NEW t \in Inside!Scopes, NEW w \in StepIds, t # w,
             w \in Inside!Around(m), w \in Inside!Around(n),
             t = "job" \/ t \in Inside!Around(w),
             NEW a \in DOMAIN tree.child[t], NEW b \in DOMAIN tree.child[t], a # b,
             tree.child[t][a] \in Inside!Around(m), tree.child[t][b] \in Inside!Around(n)
      PROVE  FALSE
  <2>1. Path(w) /\ Inside!Around(w) \subseteq Inside!Around(m)
        /\ Inside!Around(w) \subseteq Inside!Around(n)
    BY <1>9, AroundThrough DEF Rooted
  <2>2. PICK c \in DOMAIN tree.child[t] : tree.child[t][c] \in Inside!Around(w)
    BY <1>9, <2>1 DEF Path
  <2>3. c = a /\ c = b
    BY <1>6, <1>9, <2>1, <2>2 DEF Path
  <2> QED BY <1>9, <2>3
<1>10. CASE s # u
  <2>1. i # k /\ j # l
    BY <1>2, <1>4, <1>5
  <2>2. \/ u # "job" /\ (s = "job" \/ s \in Inside!Around(u))
        \/ s # "job" /\ (u = "job" \/ u \in Inside!Around(s))
    <3>1. CASE s = "job" \/ u = "job"
      BY <1>10, <3>1
    <3>2. CASE s # "job" /\ u # "job"
      BY <1>6, <1>7, <3>2 DEF Path
    <3> QED BY <3>1, <3>2
  <2>3. CASE u # "job" /\ (s = "job" \/ s \in Inside!Around(u))
    <3>1. u \in StepIds /\ u \in Inside!Around(m) /\ u \in Inside!Around(n)
      BY <1>0, <1>7, <2>3
    <3> QED BY <1>2, <1>9, <1>10, <2>1, <2>3, <3>1
  <2>4. CASE s # "job" /\ (u = "job" \/ u \in Inside!Around(s))
    <3>1. s \in StepIds /\ s \in Inside!Around(m) /\ s \in Inside!Around(n)
      BY <1>0, <1>7, <2>4
    <3> QED BY <1>4, <1>9, <1>10, <2>1, <2>4, <3>1
  <2> QED BY <2>2, <2>3, <2>4
<1> QED BY <1>8, <1>10

LEMMA AppendIs ==
  ASSUME NEW q \in Seq(StepIds), NEW n \in StepIds
  PROVE  LET w == Append(q, n)
         IN  /\ {w[i] : i \in DOMAIN w} = {q[i] : i \in DOMAIN q} \cup {n}
             /\ \A i \in DOMAIN w : \/ i \in DOMAIN q /\ w[i] = q[i]
                                    \/ w[i] = n /\ \A k \in DOMAIN q : k < i
             /\ \A i, k \in DOMAIN w : i < k => i \in DOMAIN q /\ w[i] = q[i]
             /\ \A i \in DOMAIN q : i \in DOMAIN w /\ w[i] = q[i]
<1>1. PICK m \in Nat : m = Len(q) /\ DOMAIN q = 1..m
  OBVIOUS
<1>2. PICK w \in Seq(StepIds) : w = Append(q, n)
  <2>1. Append(q, n) \in Seq(StepIds)
    OBVIOUS
  <2> QED BY <2>1
<1>3. DOMAIN w = 1..(m + 1) /\ w[m + 1] = n /\ \A i \in 1..m : w[i] = q[i]
  BY <1>1, <1>2
<1>4. \A i \in 1..(m + 1) : i \in 1..m \/ (i = m + 1 /\ \A k \in 1..m : k < i)
  BY <1>1
<1>5. {w[i] : i \in DOMAIN w} = {q[i] : i \in DOMAIN q} \cup {n}
  <2>1. ASSUME NEW i \in 1..(m + 1) PROVE w[i] \in {q[k] : k \in DOMAIN q} \cup {n}
    BY <1>1, <1>3, <1>4
  <2>2. n \in {w[i] : i \in DOMAIN w}
    BY <1>1, <1>3
  <2>3. ASSUME NEW i \in 1..m PROVE q[i] \in {w[k] : k \in DOMAIN w}
    <3>1. i \in 1..(m + 1) /\ q[i] = w[i]
      BY <1>1, <1>3
    <3> QED BY <1>3, <3>1
  <2> QED BY <1>1, <1>3, <2>1, <2>2, <2>3
<1>6. \A i, k \in 1..(m + 1) : i < k => i \in 1..m
  BY <1>1
<1> QED BY <1>1, <1>2, <1>3, <1>4, <1>5, <1>6

\* Of a run context's steps one is around a step.
LEMMA NthOnce ==
  ASSUME Inside!TypeOK, NEW s \in Inside!Scopes, NEW m \in StepIds, Rooted(m),
         NEW x \in DOMAIN tree.child[s], NEW y \in DOMAIN tree.child[s],
         Nth(s, x) \in Inside!Around(m), Nth(s, y) \in Inside!Around(m)
  PROVE  x = y
<1>1. PICK i \in DOMAIN tree.child[s] :
        Nth(s, x) = tree.child[s][i]
        /\ i = IF stage = "post" THEN Len(tree.child[s]) + 1 - x ELSE x
  BY NthIs
<1>2. PICK k \in DOMAIN tree.child[s] :
        Nth(s, y) = tree.child[s][k]
        /\ k = IF stage = "post" THEN Len(tree.child[s]) + 1 - y ELSE y
  BY NthIs
<1>3. i = k
  BY <1>1, <1>2, AroundSelf DEF Rooted, Path
<1>4. x \in Nat /\ y \in Nat /\ Len(tree.child[s]) \in Nat
  BY NthIs
<1> QED BY <1>1, <1>2, <1>3, <1>4

\* Every step of a run context has a place in the order of the stage.
LEMMA NthOf ==
  ASSUME Inside!TypeOK, NEW s \in Inside!Scopes, NEW i \in DOMAIN tree.child[s]
  PROVE  \E x \in DOMAIN tree.child[s] : Nth(s, x) = tree.child[s][i]
<1>1. tree.child \in [Inside!Scopes -> Seq(StepIds)]
  BY TreeShape
<1>2. PICK c \in Seq(StepIds) : c = tree.child[s]
  BY <1>1
<1>3. PICK x \in DOMAIN c : x = IF stage = "post" THEN Len(c) + 1 - i ELSE i
  BY <1>2
<1>4. (IF stage = "post" THEN Len(c) + 1 - x ELSE x) = i
  BY <1>2, <1>3
<1>5. Nth(s, x) = c[i]
  BY <1>2, <1>4 DEF Nth
<1> QED BY <1>2, <1>5

\* The step a run context is at is not around one it is past, and comes after
\* it, in the post stage before it.
LEMMA PastAround ==
  ASSUME Inside!TypeOK, NEW s \in Inside!Scopes, NEW m \in StepIds, Rooted(m), PastIn(s, m),
         next[s] \in DOMAIN tree.child[s]
  PROVE  Nth(s, next[s]) \notin Inside!Around(m)
<1>1. PICK x \in DOMAIN tree.child[s] : x < next[s] /\ Nth(s, x) \in Inside!Around(m)
  BY DEF PastIn
<1>2. x \in Nat /\ next[s] \in Nat
  BY NthIs
<1> QED BY <1>1, <1>2, NthOnce

LEMMA PastOrder ==
  ASSUME Inside!TypeOK, NEW s \in Inside!Scopes, NEW m, NEW n, PastIn(s, m),
         next[s] \in DOMAIN tree.child[s], Nth(s, next[s]) \in Inside!Around(n)
  PROVE  IF stage = "post" THEN Precedes(n, m) ELSE Precedes(m, n)
<1>1. PICK x \in DOMAIN tree.child[s] : x < next[s] /\ Nth(s, x) \in Inside!Around(m)
  BY DEF PastIn
<1>2. x \in Nat /\ next[s] \in Nat /\ Len(tree.child[s]) \in Nat
  BY NthIs
<1>3. PICK i \in DOMAIN tree.child[s] :
        Nth(s, x) = tree.child[s][i]
        /\ i = IF stage = "post" THEN Len(tree.child[s]) + 1 - x ELSE x
  BY NthIs
<1>4. PICK k \in DOMAIN tree.child[s] :
        Nth(s, next[s]) = tree.child[s][k]
        /\ k = IF stage = "post" THEN Len(tree.child[s]) + 1 - next[s] ELSE next[s]
  BY NthIs
<1>5. IF stage = "post" THEN k < i ELSE i < k
  BY <1>1, <1>2, <1>3, <1>4
<1> QED BY <1>1, <1>3, <1>4, <1>5 DEF Precedes

\* What has a step that is past around it is past.
LEMMA PastThrough ==
  ASSUME NEW m, NEW l \in Inside!Around(m), Past(l)
  PROVE  Past(m)
<1>1. Inside!Around(l) \subseteq Inside!Around(m)
  BY AroundThrough
<1> QED BY <1>1 DEF Past, PastIn

\* A run context that is past a step around n, at its own step.
LEMMA PastOf ==
  ASSUME Inside!TypeOK, Nested, Rows, NEW n, Past(n)
  PROVE  \/ PastIn(Inside!Scope, n)
         \/ \E j \in DOMAIN stack : /\ PastIn(Outer(j), n) /\ Outer(j) \in Inside!Scopes
                                    /\ next[Outer(j)] \in DOMAIN tree.child[Outer(j)]
                                    /\ stack[j] = Nth(Outer(j), next[Outer(j)])
<1>1. PICK j \in 1..(Len(stack) + 1) : PastIn(Outer(j), n)
  BY DEF Past
<1>2. stack \in Seq(StepIds)
  BY TreeShape
<1>3. j \in DOMAIN stack \/ j = Len(stack) + 1
  BY <1>2
<1>4. Inside!Scope = Outer(Len(stack) + 1)
  BY ScopeIs
<1> QED BY <1>1, <1>3, <1>4, OuterIs DEF Rows

\* A step whose turn it is is around no step that is past, and comes after all
\* of these.
LEMMA WaitingAhead ==
  ASSUME Inside!TypeOK, Nested, Rows, NEW n \in StepIds, Inside!Waiting(n),
         NEW m \in StepIds, Rooted(m), Past(m)
  PROVE  /\ n \notin Inside!Around(m)
         /\ IF stage = "post" THEN Precedes(n, m) ELSE Precedes(m, n)
<1>1. PICK s \in Inside!Scopes : s = Inside!Scope
  BY ScopeIs
<1>2. /\ next[s] \in DOMAIN tree.child[s] /\ n = Nth(s, next[s])
      /\ Inside!Around(n) = {n} \cup {stack[i] : i \in DOMAIN stack}
  BY <1>1, WaitingPlace
<1>3. PICK u \in Inside!Scopes : /\ PastIn(u, m) /\ next[u] \in DOMAIN tree.child[u]
                                 /\ Nth(u, next[u]) \in Inside!Around(n)
  <2>1. CASE PastIn(s, m)
    BY <1>2, <2>1
  <2>2. CASE ~PastIn(s, m)
    BY <1>1, <1>2, <2>2, PastOf
  <2> QED BY <2>1, <2>2
<1>4. n \notin Inside!Around(m)
  <2>1. SUFFICES ASSUME n \in Inside!Around(m) PROVE FALSE
    OBVIOUS
  <2>2. Nth(u, next[u]) \in Inside!Around(m)
    BY <1>3, <2>1, AroundThrough
  <2> QED BY <1>3, <2>2, PastAround
<1> QED BY <1>3, <1>4, PastOrder

\* The same of a script or an action under way.
LEMMA RunningAhead ==
  ASSUME Inside!TypeOK, Nested, Rows, stack # <<>>, tree.kind[Inside!Scope] # "composite",
         NEW m \in StepIds, Past(m)
  PROVE  /\ m \notin Inside!Around(Inside!Scope)
         /\ IF stage = "post" THEN Precedes(Inside!Scope, m) ELSE Precedes(m, Inside!Scope)
<1>1. PICK n \in StepIds, top \in DOMAIN stack :
        n = Inside!Scope /\ n = stack[top] /\ top = Len(stack) /\ n \in Inside!Scopes
  BY ScopeIs
<1>2. /\ Rooted(n) /\ Inside!Around(n) = {stack[i] : i \in 1..top} /\ next[n] = 1
      /\ 1..top = DOMAIN stack
  <2>1. stack \in Seq(StepIds)
    BY TreeShape
  <2> QED BY <1>1, <2>1 DEF Rows
<1>3. \A l : ~PastIn(n, l)
  <2>1. ASSUME NEW x \in DOMAIN tree.child[n] PROVE ~(x < next[n])
    BY <1>1, <1>2, NthIs
  <2> QED BY <2>1 DEF PastIn
<1>4. ASSUME NEW l, Past(l)
      PROVE  \E j \in DOMAIN stack : /\ PastIn(Outer(j), l) /\ Outer(j) \in Inside!Scopes
                                     /\ next[Outer(j)] \in DOMAIN tree.child[Outer(j)]
                                     /\ stack[j] = Nth(Outer(j), next[Outer(j)])
  BY <1>1, <1>3, <1>4, PastOf
<1>5. m \notin Inside!Around(n)
  <2>1. SUFFICES ASSUME m \in Inside!Around(n) PROVE FALSE
    OBVIOUS
  <2>2. Past(n)
    BY <2>1, PastThrough
  <2>3. PICK j \in DOMAIN stack : /\ PastIn(Outer(j), n) /\ Outer(j) \in Inside!Scopes
                                  /\ next[Outer(j)] \in DOMAIN tree.child[Outer(j)]
                                  /\ stack[j] = Nth(Outer(j), next[Outer(j)])
    BY <1>4, <2>2
  <2>4. stack[j] \in Inside!Around(n)
    BY <1>2
  <2> QED BY <1>2, <2>3, <2>4, PastAround
<1>6. PICK j \in DOMAIN stack : /\ PastIn(Outer(j), m) /\ Outer(j) \in Inside!Scopes
                                /\ next[Outer(j)] \in DOMAIN tree.child[Outer(j)]
                                /\ stack[j] = Nth(Outer(j), next[Outer(j)])
  BY <1>4
<1>7. stack[j] \in Inside!Around(n)
  BY <1>2
<1> QED BY <1>1, <1>5, <1>6, <1>7, PastOrder

-----------------------------------------------------------------------------
(* What a step does to what is past.                                       *)

LEMMA PastKept ==
  ASSUME UNCHANGED <<tree, stage, stack, next>>
  PROVE  \A n : Past(n)' <=> Past(n)
<1>1. \A n : Inside!Around(n)' = Inside!Around(n)
  BY AroundKept
<1>2. \A i : Outer(i)' = Outer(i)
  BY DEF Outer
<1> QED BY <1>1, <1>2 DEF Past, PastIn, Nth

LEMMA PrecedesKept ==
  ASSUME UNCHANGED tree
  PROVE  \A m, n : Precedes(m, n)' <=> Precedes(m, n)
BY AroundKept DEF Precedes

\* A step that begins is at its own first step.
LEMMA EnterPast ==
  ASSUME InsideInv, Rows, NEW n \in StepIds,
         Inside!Begin(n) \/ Inside!ReadFails(n) \/ Inside!CopyFails(n)
  PROVE  \A m : Past(m)' <=> Past(m)
<1>0. Inside!TypeOK /\ Nested
  BY DEF InsideInv
<1>at. PICK s \in Inside!Scopes : EnterFor(n, s)
  BY EnterIs
<1>1. /\ s = Inside!Scope /\ s = Inside!ScopeOf(n) /\ Inside!Waiting(n)
      /\ UNCHANGED <<tree, stage>>
      /\ stack' = Append(stack, n) /\ next' = [next EXCEPT ![n] = 1]
  BY <1>at DEF EnterFor
<1>2. PICK top \in Nat : top = Len(stack) /\ DOMAIN stack = 1..top /\ stack \in Seq(StepIds)
  <2>1. stack \in Seq(StepIds)
    BY <1>0, TreeShape
  <2> QED BY <2>1
<1>3. /\ Len(stack') = top + 1 /\ stack'[top + 1] = n
      /\ \A i \in 1..top : stack'[i] = stack[i]
  BY <1>1, <1>2
<1>4. /\ \A i \in 1..(top + 1) : Outer(i)' = Outer(i) /\ Outer(i) \in Inside!Scopes
      /\ Outer(top + 2)' = n
  <2>1. \A i \in 1..(top + 1) : Outer(i)' = Outer(i)
    BY <1>2, <1>3 DEF Outer
  <2>2. Outer(top + 2)' = n
    BY <1>2, <1>3 DEF Outer
  <2> QED BY <1>0, <1>2, <2>1, <2>2, OuterApart
<1>5. \A i \in 1..(top + 1) : Outer(i) # n
  <2>1. \A i \in DOMAIN stack : stack[i] # n
    BY <1>0, <1>1, WaitingAt
  <2>2. "job" # n
    BY TreesAssumption
  <2>3. ASSUME NEW i \in 1..(top + 1) PROVE Outer(i) # n
    <3>1. i > 1 => i - 1 \in DOMAIN stack
      BY <1>2
    <3> QED BY <2>1, <2>2, <3>1 DEF Outer
  <2> QED BY <2>3
<1>6. /\ \A i \in 1..(top + 1) : next'[Outer(i)] = next[Outer(i)]
      /\ next'[n] = 1 /\ n \in Inside!Scopes
  <2>1. n \in Inside!Scopes
    BY DEF Inside!Scopes
  <2> QED BY <1>0, <1>1, <1>4, <1>5, <2>1 DEF Inside!TypeOK
<1>7. \A m : Inside!Around(m)' = Inside!Around(m)
  BY <1>1, AroundKept
<1>8. ASSUME NEW m, NEW i \in 1..(top + 1) PROVE PastIn(Outer(i), m)' <=> PastIn(Outer(i), m)
  BY <1>1, <1>4, <1>6, <1>7 DEF PastIn, Nth
<1>9. ASSUME NEW m PROVE ~PastIn(Outer(top + 2), m)'
  <2>1. ASSUME NEW x \in DOMAIN tree.child[n] PROVE ~(x < 1)
    BY <1>0, <1>6, NthIs
  <2> QED BY <1>1, <1>4, <1>6, <2>1 DEF PastIn
<1>10. 1..(Len(stack') + 1) = 1..(top + 1) \cup {top + 2}
  BY <1>2, <1>3
<1> QED BY <1>2, <1>8, <1>9, <1>10 DEF Past

\* The turn goes on from the step n, of the run context `s`, at the position
\* `last` of the row: n and all inside of it are past, or the stage is.
LEMMA TurnPast ==
  ASSUME Inside!TypeOK, Nested, NEW last \in 1..(Len(stack) + 1),
         NEW s \in Inside!Scopes, s = Outer(last), TurnGoesOn(s), UNCHANGED tree,
         NEW n \in StepIds, next[s] \in DOMAIN tree.child[s], n = Nth(s, next[s]),
         Len(stack') = last - 1, \A i \in 1..(last - 1) : stack'[i] = stack[i],
         last = Len(stack) \/ last = Len(stack) + 1,
         last = Len(stack) => n = stack[last]
  PROVE  \/ stage' = stage /\ \A m : Past(m)' <=> Past(m) \/ n \in Inside!Around(m)
         \/ /\ s = "job" /\ Len(stack') = 0 /\ \A m : ~Past(m)'
            /\ \/ stage = "pre" /\ stage' = "main"
               \/ stage = "main" /\ stage' = "post"
               \/ stage = "post" /\ stage' = "over" /\ next["job"] = Len(tree.child["job"])
<1>1. /\ Len(stack) \in Nat /\ stack \in Seq(StepIds) /\ last \in Nat \ {0}
      /\ \A i \in 1..(Len(stack) + 1) : Outer(i) \in Inside!Scopes
      /\ \A i, k \in 1..(Len(stack) + 1) : Outer(i) = Outer(k) => i = k
  <2>1. stack \in Seq(StepIds)
    BY TreeShape
  <2> QED BY <2>1, OuterApart
<1>2. \A i \in 1..last : Outer(i)' = Outer(i)
  <2>1. ASSUME NEW i \in 1..last PROVE Outer(i)' = Outer(i)
    <3>1. i > 1 => i - 1 \in 1..(last - 1)
      BY <1>1
    <3> QED BY <3>1 DEF Outer
  <2> QED BY <2>1
<1>3. \A m : Inside!Around(m)' = Inside!Around(m)
  BY AroundKept
<1>4. 1..(Len(stack') + 1) = 1..last
  BY <1>1
<1>5. CASE stage' = stage /\ next' = [next EXCEPT ![s] = @ + 1]
  <2>1. /\ next'[s] = next[s] + 1 /\ next[s] \in Nat
        /\ \A i \in 1..(last - 1) : next'[Outer(i)] = next[Outer(i)]
    <3>1. /\ next'[s] = next[s] + 1 /\ next[s] \in Nat
          /\ \A u \in Inside!Scopes : u # s => next'[u] = next[u]
      BY <1>5 DEF Inside!TypeOK
    <3>2. ASSUME NEW i \in 1..(last - 1) PROVE Outer(i) \in Inside!Scopes /\ Outer(i) # s
      <4>1. i \in 1..(Len(stack) + 1) /\ i # last
        BY <1>1
      <4> QED BY <1>1, <4>1
    <3> QED BY <3>1, <3>2
  <2>2. ASSUME NEW m, NEW i \in 1..(last - 1)
        PROVE  PastIn(Outer(i), m)' <=> PastIn(Outer(i), m)
    <3>1. i \in 1..last
      BY <1>1
    <3> QED BY <1>2, <1>3, <1>5, <2>1, <3>1 DEF PastIn, Nth
  <2>3. ASSUME NEW m
        PROVE  PastIn(Outer(last), m)' <=> PastIn(s, m) \/ n \in Inside!Around(m)
    <3>1. last \in 1..last
      BY <1>1
    <3>2. \A x \in DOMAIN tree.child[s] : x < next[s] + 1 <=> x < next[s] \/ x = next[s]
      <4>1. ASSUME NEW x \in DOMAIN tree.child[s] PROVE x \in Nat
        BY NthIs
      <4> QED BY <2>1, <4>1
    <3>3. PastIn(Outer(last), m)' <=>
            \E x \in DOMAIN tree.child[s] : x < next[s] + 1 /\ Nth(s, x) \in Inside!Around(m)
      BY <1>2, <1>3, <1>5, <2>1, <3>1 DEF PastIn, Nth
    <3> QED BY <3>2, <3>3 DEF PastIn
  <2>4. ASSUME NEW m PROVE Past(m)' <=> Past(m) \/ n \in Inside!Around(m)
    <3>1. \A i \in 1..last : i \in 1..(last - 1) \/ i = last
      BY <1>1
    <3>2. Past(m)' <=> (\E i \in 1..(last - 1) : PastIn(Outer(i), m)) \/ PastIn(s, m)
                       \/ n \in Inside!Around(m)
      <4>1. \A i \in 1..(last - 1) : i \in 1..last
        BY <1>1
      <4>2. last \in 1..last
        BY <1>1
      <4> QED BY <1>4, <2>2, <2>3, <3>1, <4>1, <4>2 DEF Past
    <3>3. CASE last = Len(stack) + 1
      <4>1. Past(m) <=> (\E i \in 1..(last - 1) : PastIn(Outer(i), m)) \/ PastIn(s, m)
        <5>1. \A i \in 1..(Len(stack) + 1) : i \in 1..(last - 1) \/ i = last
          BY <1>1, <3>3
        <5>2. \A i \in 1..(last - 1) : i \in 1..(Len(stack) + 1)
          BY <1>1, <3>3
        <5> QED BY <5>1, <5>2 DEF Past
      <4> QED BY <3>2, <4>1
    <3>4. CASE last = Len(stack)
      <4>1. Past(m) <=> (\E i \in 1..(last - 1) : PastIn(Outer(i), m)) \/ PastIn(s, m)
                        \/ PastIn(Outer(last + 1), m)
        <5>1. \A i \in 1..(Len(stack) + 1) : i \in 1..(last - 1) \/ i = last \/ i = last + 1
          BY <1>1, <3>4
        <5>2. /\ \A i \in 1..(last - 1) : i \in 1..(Len(stack) + 1)
              /\ last + 1 \in 1..(Len(stack) + 1)
          BY <1>1, <3>4
        <5> QED BY <5>1, <5>2 DEF Past
      <4>2. Outer(last + 1) = n
        BY <1>1, <3>4 DEF Outer
      <4>3. PastIn(n, m) => n \in Inside!Around(m)
        <5>1. SUFFICES ASSUME PastIn(n, m) PROVE n \in Inside!Around(m)
          OBVIOUS
        <5>2. PICK x \in DOMAIN tree.child[n] : Nth(n, x) \in Inside!Around(m)
          BY <5>1 DEF PastIn
        <5>3. n \in Inside!Scopes
          BY DEF Inside!Scopes
        <5>4. PICK i \in DOMAIN tree.child[n] : Nth(n, x) = tree.child[n][i]
          BY <5>3, NthIs
        <5> QED BY <5>2, <5>4, AroundParent
      <4> QED BY <3>2, <4>1, <4>2, <4>3
    <3> QED BY <3>3, <3>4
  <2> QED BY <1>5, <2>4
<1>6. CASE /\ s = "job" /\ next' = [next EXCEPT !["job"] = 1]
           /\ \/ stage = "pre" /\ stage' = "main"
              \/ stage = "main" /\ stage' = "post"
              \/ stage = "post" /\ stage' = "over" /\ next["job"] = Len(tree.child["job"])
  <2>1. last = 1
    <3>1. Outer(1) = "job" /\ 1 \in 1..(Len(stack) + 1)
      BY <1>1 DEF Outer
    <3> QED BY <1>1, <1>6, <3>1
  <2>2. Outer(1)' = "job" /\ next'["job"] = 1
    BY <1>6 DEF Outer, Inside!TypeOK
  <2>3. ASSUME NEW m PROVE ~Past(m)'
    <3>1. \A x \in DOMAIN tree.child["job"] : ~(x < 1)
      BY <1>6, NthIs
    <3>2. ~PastIn(Outer(1), m)'
      BY <2>2, <3>1 DEF PastIn
    <3>3. 1..(Len(stack') + 1) = {1}
      BY <1>4, <2>1
    <3> QED BY <3>2, <3>3 DEF Past
  <2> QED BY <1>6, <2>1, <2>3
<1> QED BY <1>5, <1>6 DEF TurnGoesOn

\* Whether a stage that is over before its executor was called, or after it has
\* returned: the step and all inside of it are past, or the stage is.
LEMMA EarlyPast ==
  ASSUME InsideInv, Rows, NEW n \in StepIds,
         Inside!PrepareFails(n) \/ Inside!Pass(n) \/ Inside!Skip(n)
  PROVE  \/ stage' = stage /\ \A m : Past(m)' <=> Past(m) \/ n \in Inside!Around(m)
         \/ /\ Inside!Scope = "job" /\ Len(stack') = 0 /\ \A m : ~Past(m)'
            /\ \/ stage = "pre" /\ stage' = "main"
               \/ stage = "main" /\ stage' = "post"
               \/ stage = "post" /\ stage' = "over" /\ next["job"] = Len(tree.child["job"])
<1>0. Inside!TypeOK /\ Nested
  BY DEF InsideInv
<1>at. PICK s \in Inside!Scopes, e \in BOOLEAN : EarlyFor(n, s, e)
  BY EarlyIs
<1>1. /\ s = Inside!Scope /\ Inside!Waiting(n)
      /\ TurnGoesOn(s) /\ UNCHANGED <<tree, stack>>
  BY <1>at DEF EarlyFor
<1>2. next[s] \in DOMAIN tree.child[s] /\ n = Nth(s, next[s])
  BY <1>0, <1>1, WaitingPlace
<1>3. PICK last \in 1..(Len(stack) + 1) :
        /\ last = Len(stack) + 1 /\ s = Outer(last) /\ Len(stack') = last - 1
        /\ last # Len(stack)
  <2>1. stack \in Seq(StepIds)
    BY <1>0, TreeShape
  <2>2. Len(stack) + 1 \in 1..(Len(stack) + 1) /\ Len(stack) = (Len(stack) + 1) - 1
        /\ Len(stack) + 1 # Len(stack)
    BY <2>1
  <2> QED BY <1>0, <1>1, <2>2, ScopeIs
<1>4. \A i \in 1..(last - 1) : stack'[i] = stack[i]
  BY <1>1
<1> QED BY <1>0, <1>1, <1>2, <1>3, <1>4, TurnPast

LEMMA LeavePast ==
  ASSUME InsideInv, Rows, NEW k \in 0..4, Inside!Leave(k)
  PROVE  LET n == Inside!Scope
         IN  \/ stage' = stage /\ \A m : Past(m)' <=> Past(m) \/ n \in Inside!Around(m)
             \/ /\ Inside!ScopeOf(n) = "job" /\ Len(stack') = 0 /\ \A m : ~Past(m)'
                /\ \/ stage = "pre" /\ stage' = "main"
                   \/ stage = "main" /\ stage' = "post"
                   \/ /\ stage = "post" /\ stage' = "over"
                      /\ next["job"] = Len(tree.child["job"])
<1>0. Inside!TypeOK /\ Nested
  BY DEF InsideInv
<1>at. PICK n \in StepIds, s \in Inside!Scopes, top \in Nat \ {0}, raised \in BOOLEAN :
        LeaveFor(n, s, top, raised)
  BY LeaveIs
<1>1. /\ n = Inside!Scope /\ s = Inside!ScopeOf(n)
      /\ top = Len(stack) /\ DOMAIN stack = 1..top /\ n = stack[top] /\ s = Outer(top)
      /\ stack' \in Seq(StepIds) /\ Len(stack') = top - 1
      /\ \A i \in 1..(top - 1) : stack'[i] = stack[i]
      /\ UNCHANGED tree /\ TurnGoesOn(s)
  BY <1>at DEF LeaveFor
<1>2. next[s] \in DOMAIN tree.child[s] /\ n = Nth(s, next[s])
  <2>1. top \in DOMAIN stack
    BY <1>1
  <2> QED BY <1>1, <2>1 DEF Rows
<1>3. top \in 1..(Len(stack) + 1)
  BY <1>1
<1> QED BY <1>0, <1>1, <1>2, <1>3, TurnPast

\* When the job's last post stage is over, every step below is past.
LEMMA LastPast ==
  ASSUME Inside!TypeOK, Nested, NEW n, n = Nth("job", next["job"]),
         next["job"] = Len(tree.child["job"]), NEW m \in StepIds, Rooted(m)
  PROVE  Past(m) \/ n \in Inside!Around(m)
<1>0. "job" \in Inside!Scopes
  BY DEF Inside!Scopes
<1>1. PICK i \in DOMAIN tree.child["job"] : tree.child["job"][i] \in Inside!Around(m)
  BY AroundSelf DEF Rooted, Path
<1>2. PICK x \in DOMAIN tree.child["job"] : Nth("job", x) = tree.child["job"][i]
  BY <1>0, NthOf
<1>3. x \in Nat /\ x <= Len(tree.child["job"]) /\ Len(tree.child["job"]) \in Nat
  BY <1>0, NthIs
<1>4. CASE x = next["job"]
  BY <1>1, <1>2, <1>4
<1>5. CASE x # next["job"]
  <2>1. x < next["job"]
    BY <1>3, <1>5
  <2>2. PastIn("job", m)
    BY <1>1, <1>2, <2>1 DEF PastIn
  <2>3. Outer(1) = "job" /\ 1 \in 1..(Len(stack) + 1)
    BY OuterApart DEF Outer
  <2> QED BY <2>2, <2>3 DEF Past
<1> QED BY <1>4, <1>5

\* A composite action whose post stages are through is past all of its steps.
LEMMA ThroughPast ==
  ASSUME Inside!TypeOK, NEW n \in StepIds, n = Inside!Scope, next[n] > Len(tree.child[n]),
         NEW m \in StepIds, Rooted(m), n \in Inside!Around(m), n # m
  PROVE  Past(m)
<1>0. n \in Inside!Scopes /\ next[n] \in Nat
  BY DEF Inside!Scopes, Inside!TypeOK
<1>1. PICK i \in DOMAIN tree.child[n] : tree.child[n][i] \in Inside!Around(m)
  BY AroundSelf DEF Rooted, Path
<1>2. PICK x \in DOMAIN tree.child[n] : Nth(n, x) = tree.child[n][i]
  BY <1>0, NthOf
<1>3. x \in Nat /\ x <= Len(tree.child[n]) /\ Len(tree.child[n]) \in Nat
  BY <1>0, NthIs
<1>4. x < next[n]
  BY <1>0, <1>3
<1>5. PastIn(n, m)
  BY <1>1, <1>2, <1>4 DEF PastIn
<1>6. n = Outer(Len(stack) + 1) /\ Len(stack) + 1 \in 1..(Len(stack) + 1)
  BY ScopeIs
<1> QED BY <1>5, <1>6 DEF Past

-----------------------------------------------------------------------------
(* The stages of a behaviour.                                              *)

LEMMA OwedIs ==
  ASSUME Inside!TypeOK, NEW n \in StepIds
  PROVE  Inside!HasPost(n) <=> Owed(n)
BY DEF Inside!TypeOK, Inside!HasPost, Owed, Concluded

\* While a step is waited for, all main stages and all post stages so far are
\* of steps that are past.
LEMMA WaitingPast ==
  ASSUME InsideInv, Rows, StageInv, NEW n \in StepIds, Inside!Waiting(n)
  PROVE  /\ stage = "main" => \A m \in Mains : Past(m) /\ n \notin Inside!Around(m)
                                               /\ Precedes(m, n)
         /\ stage = "post" => \A m \in Posts : Past(m) /\ n \notin Inside!Around(m)
         /\ stage = "main" => \A j \in DOMAIN stack : stack[j] \in action
                                                      /\ conclusion[stack[j]] \in Concluded
<1>0. Inside!TypeOK /\ Nested /\ Logged
  BY DEF InsideInv
<1>1. ret = "none" /\ (stack # <<>> => tree.kind[Inside!Scope] = "composite")
  BY DEF Inside!Waiting, Inside!Composite
<1>2. ASSUME stage = "main", NEW m \in Mains
      PROVE  Past(m) /\ n \notin Inside!Around(m) /\ Precedes(m, n)
  <2>1. m \in StepIds /\ Rooted(m) /\ tree.kind[m] # "composite"
    BY <1>0, <1>2 DEF StageInv, MainsInside, Mains, Logged, Histories
  <2>2. Past(m)
    BY <1>1, <1>2, <2>1 DEF StageInv, MainsPast
  <2> QED BY <1>0, <1>2, <2>1, <2>2, WaitingAhead
<1>3. ASSUME stage = "post", NEW m \in Posts PROVE Past(m) /\ n \notin Inside!Around(m)
  <2>1. m \in Mains /\ m \in StepIds
    BY <1>0, <1>3 DEF StageInv, PostsOwed, Mains, Logged, Histories
  <2>2. Rooted(m) /\ Past(m)
    BY <1>1, <1>3, <2>1 DEF StageInv, MainsInside, PostsPast
  <2> QED BY <1>0, <2>1, <2>2, WaitingAhead
<1>4. ASSUME stage = "main", NEW j \in DOMAIN stack
      PROVE  stack[j] \in action /\ conclusion[stack[j]] \in Concluded
  <2>1. stack # <<>>
    BY <1>0, TreeShape
  <2>2. j < Len(stack) \/ stack[j] = Inside!Scope
    BY <1>0, <2>1, ScopeIs, OuterIs
  <2> QED BY <1>1, <1>4, <2>1, <2>2 DEF StageInv, Active
<1> QED BY <1>2, <1>3, <1>4

\* A main stage is added to the others, in its place.
LEMMA MainAdded ==
  ASSUME InsideInv, StageInv, UNCHANGED tree, NEW n \in StepIds, Rooted(n),
         tree.kind[n] # "composite",
         hist'.mains = Append(hist.mains, n), \A m \in Mains : Precedes(m, n),
         \A m \in Mains \cup {n} : \A x \in Inside!Around(m) :
             conclusion'[x] \in Concluded /\ (x # m => x \in action'),
         \A x \in StepIds : x # n => conclusion'[x] = conclusion[x]
  PROVE  Mains' = Mains \cup {n} /\ MainsInside' /\ MainsNoted' /\ MainsOrdered'
<1>0. hist.mains \in Seq(StepIds)
  BY DEF InsideInv, Logged, Histories
<1>1. /\ {hist'.mains[i] : i \in DOMAIN hist'.mains} = Mains \cup {n}
      /\ \A i \in DOMAIN hist'.mains :
            \/ i \in DOMAIN hist.mains /\ hist'.mains[i] = hist.mains[i]
            \/ hist'.mains[i] = n
      /\ \A i, k \in DOMAIN hist'.mains :
            i < k => i \in DOMAIN hist.mains /\ hist'.mains[i] = hist.mains[i]
  BY <1>0, AppendIs DEF Mains
<1>2. Mains' = Mains \cup {n}
  BY <1>1 DEF Mains
<1>3. (\A m : Inside!Around(m)' = Inside!Around(m)) /\ (\A m : Rooted(m)' <=> Rooted(m))
      /\ \A l, m : Precedes(l, m)' <=> Precedes(l, m)
  BY AroundKept, RootedKept, PrecedesKept
<1>4. MainsInside'
  BY <1>2, <1>3 DEF StageInv, MainsInside
<1>5. MainsNoted'
  BY <1>2 DEF StageInv, MainsNoted
<1>6. MainsOrdered'
  <2>1. SUFFICES ASSUME NEW a \in DOMAIN hist'.mains, NEW b \in DOMAIN hist'.mains, a < b
                 PROVE  Precedes(hist'.mains[a], hist'.mains[b])
    BY <1>3 DEF MainsOrdered
  <2>2. /\ a \in DOMAIN hist.mains /\ hist'.mains[a] = hist.mains[a]
        /\ hist'.mains[a] \in Mains
    BY <1>1, <2>1 DEF Mains
  <2>3. CASE hist'.mains[b] = n
    BY <2>2, <2>3
  <2>4. CASE b \in DOMAIN hist.mains /\ hist'.mains[b] = hist.mains[b]
    BY <1>1, <2>1, <2>2, <2>4 DEF StageInv, MainsOrdered
  <2> QED BY <1>1, <2>3, <2>4
<1> QED BY <1>2, <1>4, <1>5, <1>6

\* No main stage is added, and nothing changes for those there are.
LEMMA MainsKept ==
  ASSUME InsideInv, StageInv, UNCHANGED tree, hist'.mains = hist.mains,
         \A m \in Mains : \A x \in Inside!Around(m) :
             conclusion'[x] \in Concluded /\ (x # m => x \in action'),
         \A n \in StepIds : tree.kind[n] # "composite" /\ conclusion'[n] \in Concluded =>
             conclusion[n] \in Concluded
  PROVE  Mains' = Mains /\ MainsInside' /\ MainsNoted' /\ MainsOrdered'
<1>1. (\A m : Inside!Around(m)' = Inside!Around(m)) /\ (\A m : Rooted(m)' <=> Rooted(m))
      /\ \A l, m : Precedes(l, m)' <=> Precedes(l, m)
  BY AroundKept, RootedKept, PrecedesKept
<1>2. Mains' = Mains
  BY DEF Mains
<1>3. MainsInside'
  BY <1>1, <1>2 DEF StageInv, MainsInside
<1>4. MainsNoted'
  BY <1>2 DEF StageInv, MainsNoted
<1>5. MainsOrdered'
  BY <1>1 DEF StageInv, MainsOrdered
<1> QED BY <1>2, <1>3, <1>4, <1>5

LEMMA EarlyActive ==
  ASSUME InsideInv, Rows, StageInv, NEW n \in StepIds,
         Inside!PrepareFails(n) \/ Inside!Pass(n) \/ Inside!Skip(n)
  PROVE  Active'
<1>0. Inside!TypeOK /\ Nested /\ Active /\ stack \in Seq(StepIds)
  BY TreeShape DEF InsideInv, StageInv
<1>at. PICK s \in Inside!Scopes, e \in BOOLEAN : EarlyFor(n, s, e)
  BY EarlyIs
<1>1. /\ s = Inside!Scope /\ Inside!Waiting(n) /\ TurnGoesOn(s)
      /\ UNCHANGED <<tree, stack, ret>> /\ action \subseteq action'
      /\ stage = "post" => UNCHANGED <<action, conclusion>>
      /\ \/ conclusion' = conclusion
         \/ conclusion' = [conclusion EXCEPT ![n] = "skipped"]
         \/ conclusion' = [conclusion EXCEPT ![n] = "failure"]
  BY <1>at DEF EarlyFor
<1>2. CASE stack = <<>>
  <2>1. DOMAIN stack' = {} /\ stack' = <<>>
    BY <1>1, <1>2
  <2> QED BY <2>1 DEF Active
<1>3. CASE stack # <<>>
  <2>1. s # "job" /\ Inside!Scope' = Inside!Scope
    BY <1>0, <1>1, <1>3, ScopeIs, TreeShape DEF Inside!Scope
  <2>2. stage' = stage
    BY <1>1, <2>1, TurnStages
  <2>3. \A j \in DOMAIN stack : conclusion'[stack[j]] = conclusion[stack[j]]
    <3>1. ASSUME NEW j \in DOMAIN stack PROVE stack[j] # n /\ stack[j] \in StepIds
      BY <1>0, <1>1, WaitingAt
    <3> QED BY <1>0, <1>1, <3>1 DEF Inside!TypeOK
  <2>4. stage = "post" => \A j \in DOMAIN stack : Owed(stack[j])'
    BY <1>0, <1>1 DEF Active, Owed
  <2> QED BY <1>0, <1>1, <2>1, <2>2, <2>3, <2>4 DEF Active
<1> QED BY <1>2, <1>3

LEMMA EarlyMains ==
  ASSUME InsideInv, Rows, StageInv, NEW n \in StepIds,
         Inside!PrepareFails(n) \/ Inside!Pass(n) \/ Inside!Skip(n)
  PROVE  /\ MainsInside' /\ MainsNoted' /\ MainsOrdered' /\ MainsPast'
         /\ stage \in {"pre", "post"} => Mains' = Mains
<1>0. /\ Inside!TypeOK /\ Nested
      /\ conclusion \in [StepIds -> {"none", "success", "failure", "skipped"}]
      /\ Mains \subseteq StepIds
  BY DEF InsideInv, Inside!TypeOK, Mains, Logged, Histories
<1>at. PICK s \in Inside!Scopes, e \in BOOLEAN : EarlyFor(n, s, e)
  BY EarlyIs
<1>1. /\ s = Inside!Scope /\ Inside!Waiting(n) /\ TurnGoesOn(s)
      /\ UNCHANGED <<tree, stack, ret>> /\ action \subseteq action'
      /\ \/ conclusion' = conclusion /\ hist'.mains = hist.mains
         \/ /\ stage = "main" /\ hist'.mains = hist.mains
            /\ conclusion' = [conclusion EXCEPT ![n] = "skipped"]
         \/ /\ stage = "main"
            /\ conclusion' = [conclusion EXCEPT ![n] = "failure"]
            /\ hist'.mains = IF tree.kind[n] = "composite" THEN hist.mains
                             ELSE Append(hist.mains, n)
  BY <1>at DEF EarlyFor
<1>2. /\ stage = "main" => \A m \in Mains : Past(m) /\ n \notin Inside!Around(m)
                                            /\ Precedes(m, n)
      /\ stage = "main" => \A j \in DOMAIN stack : stack[j] \in action
                                                   /\ conclusion[stack[j]] \in Concluded
  BY <1>1, WaitingPast
<1>3. /\ Rooted(n) /\ n \in Inside!Around(n)
      /\ Inside!Around(n) = {n} \cup {stack[i] : i \in DOMAIN stack}
      /\ \A i \in DOMAIN stack : stack[i] # n /\ stack[i] \in StepIds
  BY <1>0, <1>1, WaitingPlace, WaitingAt, OuterIs
<1>4. ASSUME NEW m \in Mains, NEW x \in Inside!Around(m)
      PROVE  /\ x \in StepIds
             /\ conclusion[x] \in Concluded /\ (x # m => x \in action')
  BY <1>0, <1>1, AroundThrough DEF StageInv, MainsInside
<1>5. ASSUME NEW m \in Mains, NEW x \in Inside!Around(m)
      PROVE  conclusion'[x] \in Concluded
  <2>1. x \in StepIds /\ conclusion[x] \in Concluded
    BY <1>4
  <2>2. CASE conclusion' = conclusion
    BY <2>1, <2>2
  <2>3. CASE stage = "main" /\ \E c \in {"skipped", "failure"} :
                                  conclusion' = [conclusion EXCEPT ![n] = c]
    <3>1. x # n
      BY <1>2, <2>3
    <3> QED BY <1>0, <2>1, <2>3, <3>1
  <2> QED BY <1>1, <2>2, <2>3
<1>6. CASE hist'.mains = hist.mains
  <2>1. ASSUME NEW m \in StepIds, tree.kind[m] # "composite", conclusion'[m] \in Concluded
        PROVE  conclusion[m] \in Concluded
    <3>1. CASE conclusion' = conclusion
      BY <2>1, <3>1
    <3>2. CASE conclusion' = [conclusion EXCEPT ![n] = "skipped"]
      BY <1>0, <2>1, <3>2 DEF Concluded
    <3>3. CASE /\ conclusion' = [conclusion EXCEPT ![n] = "failure"]
               /\ hist'.mains = IF tree.kind[n] = "composite" THEN hist.mains
                                ELSE Append(hist.mains, n)
      <4>1. Append(hist.mains, n) # hist.mains
        <5>1. hist.mains \in Seq(StepIds)
          BY DEF InsideInv, Logged, Histories
        <5> QED BY <5>1
      <4>2. m # n
        BY <1>6, <2>1, <3>3, <4>1
      <4> QED BY <1>0, <2>1, <3>3, <4>2
    <3> QED BY <1>1, <3>1, <3>2, <3>3
  <2>2. Mains' = Mains /\ MainsInside' /\ MainsNoted' /\ MainsOrdered'
    BY <1>1, <1>4, <1>5, <1>6, <2>1, MainsKept
  <2>3. MainsPast'
    <3>1. CASE stage' = stage /\ \A m : Past(m)' <=> Past(m) \/ n \in Inside!Around(m)
      <4>1. stage = "main" => \A m \in Mains : Past(m)'
        BY <1>2, <3>1
      <4> QED BY <2>2, <3>1, <4>1 DEF StageInv, MainsPast
    <3>2. CASE \/ stage = "pre" /\ stage' = "main"
               \/ stage = "main" /\ stage' = "post"
               \/ stage = "post" /\ stage' = "over"
      BY <2>2, <3>2 DEF StageInv, MainsPast
    <3> QED BY <3>1, <3>2, EarlyPast
  <2> QED BY <2>2, <2>3
<1>7. CASE /\ hist'.mains = Append(hist.mains, n) /\ tree.kind[n] # "composite"
           /\ stage = "main" /\ conclusion' = [conclusion EXCEPT ![n] = "failure"]
  <2>1. ASSUME NEW x \in Inside!Around(n)
        PROVE  conclusion'[x] \in Concluded /\ (x # n => x \in action')
    <3>1. CASE x = n
      BY <1>0, <1>7, <3>1 DEF Concluded
    <3>2. CASE x # n
      <4>1. PICK i \in DOMAIN stack : x = stack[i]
        BY <1>3, <3>2
      <4> QED BY <1>0, <1>1, <1>2, <1>3, <1>7, <3>2, <4>1
    <3> QED BY <3>1, <3>2
  <2>2. \A m \in Mains \cup {n} : \A x \in Inside!Around(m) :
          conclusion'[x] \in Concluded /\ (x # m => x \in action')
    BY <1>4, <1>5, <2>1
  <2>3. \A x \in StepIds : x # n => conclusion'[x] = conclusion[x]
    BY <1>0, <1>7
  <2>4. Mains' = Mains \cup {n} /\ MainsInside' /\ MainsNoted' /\ MainsOrdered'
    BY <1>1, <1>2, <1>3, <1>7, <2>2, <2>3, MainAdded
  <2>5. MainsPast'
    <3>1. CASE stage' = stage /\ \A m : Past(m)' <=> Past(m) \/ n \in Inside!Around(m)
      <4>1. \A m \in Mains' : Past(m)'
        BY <1>2, <1>3, <1>7, <2>4, <3>1
      <4> QED BY <1>7, <3>1, <4>1 DEF MainsPast
    <3>2. CASE stage = "main" /\ stage' = "post"
      BY <3>2 DEF MainsPast
    <3> QED BY <1>7, <3>1, <3>2, EarlyPast
  <2> QED BY <1>7, <2>4, <2>5
<1> QED BY <1>1, <1>6, <1>7

\* The turn of the post stages goes on from n: what is past then was before, or
\* is n or inside of it; and at the end that is all there is.
LEMMA MetTurn ==
  ASSUME InsideInv, StageInv, stage # "over", NEW n,
         stage = "post" => Mains' = Mains,
         stage = "post" => \A m \in Mains : Met(m) \/ n \in Inside!Around(m) => Met(m)',
         \/ stage' = stage /\ \A m : Past(m)' <=> Past(m) \/ n \in Inside!Around(m)
         \/ /\ \A m : ~Past(m)'
            /\ \/ stage = "pre" /\ stage' = "main"
               \/ stage = "main" /\ stage' = "post"
               \/ /\ stage = "post" /\ stage' = "over"
                  /\ next["job"] = Len(tree.child["job"]) /\ n = Nth("job", next["job"])
  PROVE  PostsMet'
<1>1. PostsMet /\ MainsInside /\ Inside!TypeOK /\ Nested
  BY DEF StageInv, InsideInv
<1>2. CASE stage' = stage /\ \A m : Past(m)' <=> Past(m) \/ n \in Inside!Around(m)
  <2>1. CASE stage = "post"
    BY <1>1, <1>2, <2>1 DEF PostsMet
  <2>2. CASE stage # "post"
    BY <1>2, <2>2 DEF PostsMet
  <2> QED BY <2>1, <2>2
<1>3. CASE stage = "post" /\ stage' = "over"
           /\ next["job"] = Len(tree.child["job"]) /\ n = Nth("job", next["job"])
  <2>1. ASSUME NEW m \in Mains PROVE Met(m)'
    <3>1. m \in StepIds /\ Rooted(m)
      BY <1>1 DEF MainsInside, Mains, InsideInv, Logged, Histories
    <3>2. Past(m) \/ n \in Inside!Around(m)
      BY <1>1, <1>3, <3>1, LastPast
    <3> QED BY <1>1, <1>3, <3>2 DEF PostsMet
  <2> QED BY <1>3, <2>1 DEF PostsMet
<1>4. CASE /\ \A m : ~Past(m)'
           /\ \/ stage = "pre" /\ stage' = "main"
              \/ stage = "main" /\ stage' = "post"
  BY <1>4 DEF PostsMet
<1> QED BY <1>2, <1>3, <1>4

\* No post stage is added, and what was due one is as before.
LEMMA PostsKept ==
  ASSUME InsideInv, StageInv, UNCHANGED tree, stage # "over",
         hist'.posts = hist.posts, hist'.lost = hist.lost,
         stage = "post" => UNCHANGED <<action, conclusion>> /\ Mains' = Mains
  PROVE  /\ Posts' = Posts /\ PostsOwed' /\ PostsOrdered'
         /\ stage = "post" => \A m : Met(m)' <=> Met(m)
         /\ stage \in {"pre", "main"} => Posts' = {} /\ hist'.lost = {}
<1>1. (\A m : Inside!Around(m)' = Inside!Around(m))
      /\ \A l, m : Precedes(l, m)' <=> Precedes(l, m)
  BY AroundKept, PrecedesKept
<1>2. Posts' = Posts
  BY DEF Posts
<1>3. stage \in {"pre", "main"} => Posts' = {} /\ hist'.lost = {}
  BY <1>2 DEF StageInv, PostsPast
<1>4. stage = "post" => \A m : (Met(m)' <=> Met(m)) /\ (Owed(m)' <=> Owed(m))
  BY <1>1, <1>2 DEF Met, Owed
<1>5. PostsOwed'
  <2>1. CASE stage = "post"
    BY <1>1, <1>2, <1>4, <2>1 DEF StageInv, PostsOwed
  <2>2. CASE stage # "post"
    <3>1. Posts' = {}
      BY <1>3, <2>2 DEF InsideInv, Inside!TypeOK
    <3> QED BY <3>1 DEF PostsOwed
  <2> QED BY <2>1, <2>2
<1>6. PostsOrdered'
  BY <1>1 DEF StageInv, PostsOrdered
<1> QED BY <1>2, <1>3, <1>4, <1>5, <1>6

LEMMA EarlyPosts ==
  ASSUME InsideInv, Rows, StageInv, NEW n \in StepIds,
         Inside!PrepareFails(n) \/ Inside!Pass(n) \/ Inside!Skip(n)
  PROVE  PostsOwed' /\ PostsOrdered' /\ PostsPast' /\ Returned' /\ PostsMet'
<1>0. Inside!TypeOK /\ Nested /\ Mains \subseteq StepIds
  BY DEF InsideInv, Mains, Logged, Histories
<1>at. PICK s \in Inside!Scopes, e \in BOOLEAN : EarlyFor(n, s, e)
  BY EarlyIs
<1>1. /\ s = Inside!Scope /\ Inside!Waiting(n) /\ TurnGoesOn(s)
      /\ UNCHANGED <<tree, stack, ret>>
      /\ stage = "post" => ~Inside!HasPost(n) /\ UNCHANGED <<action, conclusion>>
      /\ hist'.posts = hist.posts /\ hist'.lost = hist.lost
  BY <1>at DEF EarlyFor
<1>2. ret = "none" /\ stage # "over"
  BY <1>1 DEF Inside!Waiting
<1>3. stage = "post" => Mains' = Mains
  BY EarlyMains
<1>4. /\ Posts' = Posts /\ PostsOwed' /\ PostsOrdered'
      /\ stage = "post" => \A m : Met(m)' <=> Met(m)
      /\ stage \in {"pre", "main"} => Posts' = {} /\ hist'.lost = {}
  BY <1>1, <1>2, <1>3, PostsKept
<1>5. Returned'
  BY <1>1, <1>2 DEF Returned
<1>6. \/ stage' = stage /\ \A m : Past(m)' <=> Past(m) \/ n \in Inside!Around(m)
      \/ /\ Inside!Scope = "job" /\ \A m : ~Past(m)'
         /\ \/ stage = "pre" /\ stage' = "main"
            \/ stage = "main" /\ stage' = "post"
            \/ stage = "post" /\ stage' = "over" /\ next["job"] = Len(tree.child["job"])
  BY EarlyPast
<1>7. PostsPast'
  <2>1. CASE stage' = stage /\ \A m : Past(m)' <=> Past(m) \/ n \in Inside!Around(m)
    <3>1. stage = "post" => /\ \A m \in Posts : Past(m)
                            /\ \A m \in hist.lost : Past(m)
      BY <1>2 DEF StageInv, PostsPast
    <3> QED BY <1>1, <1>4, <2>1, <3>1 DEF PostsPast
  <2>2. CASE stage' # stage
    <3>1. stage \in {"pre", "main"} \/ stage' = "over"
      BY <1>6, <2>2
    <3>2. CASE stage \in {"pre", "main"}
      <4>1. Posts' = {} /\ hist'.lost = {}
        BY <1>4, <3>2
      <4> QED BY <4>1 DEF PostsPast
    <3>3. CASE stage' = "over"
      BY <3>3 DEF PostsPast
    <3> QED BY <3>1, <3>2, <3>3
  <2> QED BY <1>6, <2>1, <2>2
<1>8. ASSUME stage = "post", NEW m \in Mains, n \in Inside!Around(m) PROVE Met(m)
  <2>1. ~Owed(n)
    BY <1>0, <1>1, <1>8, OwedIs
  <2>2. CASE m = n
    BY <2>1, <2>2 DEF Met
  <2>3. CASE m # n
    <3>1. Path(m) /\ conclusion[n] \in Concluded /\ n \in action
      BY <1>0, <1>8, <2>3, AroundSelf DEF StageInv, MainsInside, Rooted
    <3>2. tree.kind[n] = "composite"
      BY <1>8, <2>3, <3>1 DEF Path
    <3> QED BY <2>1, <3>1, <3>2 DEF Owed
  <2> QED BY <2>2, <2>3
<1>9. n = Nth(s, next[s])
  BY <1>0, <1>1, WaitingPlace
<1>10. PostsMet'
  <2>1. stage = "post" => \A m \in Mains : Met(m) \/ n \in Inside!Around(m) => Met(m)'
    BY <1>4, <1>8
  <2>2. Inside!Scope = "job" => n = Nth("job", next["job"])
    BY <1>1, <1>9
  <2> QED BY <1>2, <1>3, <1>6, <2>1, <2>2, MetTurn
<1> QED BY <1>4, <1>5, <1>7, <1>10

LEMMA EnterActive ==
  ASSUME InsideInv, Rows, StageInv, NEW n \in StepIds,
         Inside!Begin(n) \/ Inside!ReadFails(n) \/ Inside!CopyFails(n)
  PROVE  Active'
<1>0. /\ Inside!TypeOK /\ Nested /\ Active
      /\ conclusion \in [StepIds -> {"none", "success", "failure", "skipped"}]
  BY DEF InsideInv, StageInv, Inside!TypeOK
<1>at. PICK s \in Inside!Scopes : EnterFor(n, s)
  BY EnterIs
<1>1. /\ s = Inside!Scope /\ Inside!Waiting(n)
      /\ stage = "post" => Inside!HasPost(n)
      /\ UNCHANGED <<tree, stage>> /\ stack' = Append(stack, n)
      /\ ret' \in {"none", "failed"} /\ (ret' = "none" => n \in action')
      /\ action \subseteq action' /\ (stage = "post" => action' = action)
      /\ conclusion' = IF stage = "main" THEN [conclusion EXCEPT ![n] = "success"]
                       ELSE conclusion
  BY <1>at DEF EnterFor
<1>2. PICK top \in Nat : top = Len(stack) /\ DOMAIN stack = 1..top /\ stack \in Seq(StepIds)
  <2>1. stack \in Seq(StepIds)
    BY <1>0, TreeShape
  <2> QED BY <2>1
<1>3. /\ DOMAIN stack' = 1..(top + 1) /\ stack'[top + 1] = n /\ Len(stack') = top + 1
      /\ \A i \in 1..top : stack'[i] = stack[i]
      /\ \A i \in 1..(top + 1) : i \in 1..top \/ i = top + 1
      /\ \A i \in 1..(top + 1) : i < top + 1 => i \in 1..top
  BY <1>1, <1>2
<1>4. Inside!Scope' = n
  <2>1. stack' # <<>>
    BY <1>3
  <2> QED BY <1>3, <2>1 DEF Inside!Scope, Inside!Last
<1>5. \A i \in 1..top : stack[i] \in action
  <2>1. ASSUME NEW i \in 1..top PROVE stack[i] \in action
    <3>1. stack # <<>> /\ ret = "none" /\ (i = top => stack[i] = Inside!Scope)
      BY <1>0, <1>1, <1>2, ScopeIs DEF Inside!Waiting
    <3>2. i < top \/ i = top
      BY <1>2
    <3> QED BY <1>0, <1>2, <3>1, <3>2 DEF Active
  <2> QED BY <2>1
<1>6. stage = "main" => \A i \in 1..(top + 1) : conclusion'[stack'[i]] \in Concluded
  <2>1. ASSUME stage = "main", NEW i \in 1..top PROVE conclusion'[stack[i]] \in Concluded
    <3>1. stack[i] # n /\ stack[i] \in StepIds /\ conclusion[stack[i]] \in Concluded
      BY <1>0, <1>1, <1>2, <2>1, WaitingAt DEF Active
    <3> QED BY <1>0, <1>1, <2>1, <3>1
  <2>2. stage = "main" => conclusion'[n] \in Concluded
    BY <1>0, <1>1 DEF Concluded
  <2> QED BY <1>3, <2>1, <2>2
<1>7. stage = "post" => \A i \in 1..(top + 1) : Owed(stack[i])'
  <2>1. ASSUME stage = "post", NEW m PROVE Owed(m)' <=> Owed(m)
    BY <1>1, <2>1 DEF Owed
  <2>2. stage = "post" => Owed(n)
    BY <1>0, <1>1, OwedIs
  <2>3. stage = "post" => \A i \in 1..top : Owed(stack[i])
    BY <1>0, <1>2 DEF Active
  <2>4. ASSUME stage = "post", NEW i \in 1..(top + 1) PROVE Owed(stack'[i])
    BY <1>3, <2>2, <2>3, <2>4
  <2>5. ASSUME stage = "post", NEW i \in 1..(top + 1) PROVE Owed(stack[i])'
    <3>1. Owed(stack'[i])
      BY <2>4, <2>5
    <3> QED BY <1>1, <2>5, <3>1 DEF Owed
  <2> QED BY <2>5
<1>8. \A j \in DOMAIN stack' : j < Len(stack') => stack'[j] \in action'
  BY <1>1, <1>3, <1>5
<1>9. ret' = "none" => n \in action'
  BY <1>1
<1>10. stage = "post" => \A j \in DOMAIN stack' : Owed(stack[j])'
  BY <1>1, <1>3, <1>7
<1> QED BY <1>1, <1>3, <1>4, <1>6, <1>8, <1>9, <1>10 DEF Active

LEMMA EnterMains ==
  ASSUME InsideInv, Rows, StageInv, NEW n \in StepIds,
         Inside!Begin(n) \/ Inside!ReadFails(n) \/ Inside!CopyFails(n)
  PROVE  /\ MainsInside' /\ MainsNoted' /\ MainsOrdered' /\ MainsPast'
         /\ stage # "main" => Mains' = Mains
<1>0. /\ Inside!TypeOK /\ Nested /\ hist.mains \in Seq(StepIds) /\ Mains \subseteq StepIds
      /\ conclusion \in [StepIds -> {"none", "success", "failure", "skipped"}]
  BY DEF InsideInv, Inside!TypeOK, Mains, Logged, Histories
<1>at. PICK s \in Inside!Scopes : EnterFor(n, s)
  BY EnterIs
<1>1. /\ s = Inside!Scope /\ Inside!Waiting(n)
      /\ UNCHANGED <<tree, stage>> /\ stack' = Append(stack, n)
      /\ action \subseteq action'
      /\ conclusion' = IF stage = "main" THEN [conclusion EXCEPT ![n] = "success"]
                       ELSE conclusion
      /\ hist'.mains = IF stage = "main" /\ tree.kind[n] # "composite"
                       THEN Append(hist.mains, n) ELSE hist.mains
  BY <1>at DEF EnterFor
<1>2. /\ stage = "main" => \A m \in Mains : Past(m) /\ n \notin Inside!Around(m)
                                            /\ Precedes(m, n)
      /\ stage = "main" => \A j \in DOMAIN stack : stack[j] \in action
                                                   /\ conclusion[stack[j]] \in Concluded
  BY <1>1, WaitingPast
<1>3. /\ Rooted(n) /\ Inside!Around(n) = {n} \cup {stack[i] : i \in DOMAIN stack}
      /\ \A i \in DOMAIN stack : stack[i] # n /\ stack[i] \in StepIds
  BY <1>0, <1>1, WaitingPlace, WaitingAt, OuterIs
<1>4. ASSUME NEW m \in Mains, NEW x \in Inside!Around(m)
      PROVE  conclusion'[x] \in Concluded /\ (x # m => x \in action')
  <2>1. x \in StepIds /\ conclusion[x] \in Concluded /\ (x # m => x \in action')
    BY <1>0, <1>1, <1>4, AroundThrough DEF StageInv, MainsInside
  <2>2. stage = "main" => x # n
    BY <1>2, <1>4
  <2> QED BY <1>0, <1>1, <2>1, <2>2
<1>5. Inside!Scope' = n /\ stack' # <<>>
  <2>1. stack \in Seq(StepIds)
    BY <1>0, TreeShape
  <2>2. stack' # <<>> /\ stack'[Len(stack')] = n
    BY <1>1, <2>1
  <2> QED BY <2>2 DEF Inside!Scope, Inside!Last
<1>6. \A m : Past(m)' <=> Past(m)
  BY EnterPast
<1>7. CASE stage = "main" /\ tree.kind[n] # "composite"
  <2>1. ASSUME NEW x \in Inside!Around(n)
        PROVE  conclusion'[x] \in Concluded /\ (x # n => x \in action')
    <3>1. CASE x = n
      BY <1>0, <1>1, <1>7, <3>1 DEF Concluded
    <3>2. CASE x # n
      <4>1. PICK i \in DOMAIN stack : x = stack[i]
        BY <1>3, <3>2
      <4> QED BY <1>0, <1>1, <1>2, <1>3, <1>7, <3>2, <4>1
    <3> QED BY <3>1, <3>2
  <2>2. \A m \in Mains \cup {n} : \A x \in Inside!Around(m) :
          conclusion'[x] \in Concluded /\ (x # m => x \in action')
    BY <1>4, <2>1
  <2>3. \A x \in StepIds : x # n => conclusion'[x] = conclusion[x]
    BY <1>0, <1>1, <1>7
  <2>4. Mains' = Mains \cup {n} /\ MainsInside' /\ MainsNoted' /\ MainsOrdered'
    BY <1>1, <1>2, <1>3, <1>7, <2>2, <2>3, MainAdded
  <2>5. MainsPast'
    BY <1>1, <1>2, <1>5, <1>6, <1>7, <2>4 DEF MainsPast
  <2> QED BY <1>7, <2>4, <2>5
<1>8. CASE ~(stage = "main" /\ tree.kind[n] # "composite")
  <2>1. \A m \in StepIds : tree.kind[m] # "composite" /\ conclusion'[m] \in Concluded =>
          conclusion[m] \in Concluded
    BY <1>0, <1>1, <1>8
  <2>2. Mains' = Mains /\ MainsInside' /\ MainsNoted' /\ MainsOrdered'
    BY <1>1, <1>4, <1>8, <2>1, MainsKept
  <2>3. MainsPast'
    BY <1>1, <1>2, <1>6, <2>2 DEF StageInv, MainsPast
  <2> QED BY <2>2, <2>3
<1> QED BY <1>7, <1>8

LEMMA EnterPosts ==
  ASSUME InsideInv, Rows, StageInv, NEW n \in StepIds,
         Inside!Begin(n) \/ Inside!ReadFails(n) \/ Inside!CopyFails(n)
  PROVE  PostsOwed' /\ PostsOrdered' /\ PostsPast' /\ Returned' /\ PostsMet'
<1>0. Inside!TypeOK /\ Nested
  BY DEF InsideInv
<1>at. PICK s \in Inside!Scopes : EnterFor(n, s)
  BY EnterIs
<1>1. /\ s = Inside!Scope /\ Inside!Waiting(n)
      /\ UNCHANGED <<tree, stage>> /\ stack' = Append(stack, n)
      /\ ret' \in {"none", "failed"}
      /\ stage = "post" /\ ret' = "failed" => tree.kind[n] = "composite"
      /\ stage = "post" => action' = action
      /\ conclusion' = IF stage = "main" THEN [conclusion EXCEPT ![n] = "success"]
                       ELSE conclusion
      /\ hist'.posts = hist.posts /\ hist'.lost = hist.lost
  BY <1>at DEF EnterFor
<1>2. ret = "none" /\ stage # "over"
  BY <1>1 DEF Inside!Waiting
<1>3. stage = "post" => Mains' = Mains /\ UNCHANGED <<action, conclusion>>
  BY <1>1, EnterMains
<1>4. /\ Posts' = Posts /\ PostsOwed' /\ PostsOrdered'
      /\ stage = "post" => \A m : Met(m)' <=> Met(m)
      /\ stage \in {"pre", "main"} => Posts' = {} /\ hist'.lost = {}
  BY <1>1, <1>2, <1>3, PostsKept
<1>5. (\A m : Past(m)' <=> Past(m)) /\ (\A m : Inside!Around(m)' = Inside!Around(m))
  BY <1>1, AroundKept, EnterPast
<1>6. PostsPast'
  <2>1. stage = "post" => (\A m \in Posts : Past(m)) /\ (\A m \in hist.lost : Past(m))
    BY <1>2 DEF StageInv, PostsPast
  <2> QED BY <1>1, <1>4, <1>5, <2>1 DEF PostsPast
<1>7. PostsMet'
  BY <1>1, <1>2, <1>3, <1>4, <1>5 DEF StageInv, PostsMet
<1>8. Inside!Scope' = n
  <2>1. stack \in Seq(StepIds)
    BY <1>0, TreeShape
  <2>2. stack' # <<>> /\ stack'[Len(stack')] = n
    BY <1>1, <2>1
  <2> QED BY <2>2 DEF Inside!Scope, Inside!Last
<1>9. Returned'
  <2>1. stage = "post" => \A m \in Posts : n \notin Inside!Around(m)
    BY <1>1, WaitingPast
  <2> QED BY <1>1, <1>4, <1>5, <1>8, <2>1 DEF Returned
<1> QED BY <1>4, <1>6, <1>7, <1>9

\* Nothing but what has run or returned changes.
LEMMA StagesKept ==
  ASSUME StageInv, UNCHANGED <<tree, stage, stack, next, action, conclusion>>,
         hist'.mains = hist.mains, hist'.lost = hist.lost,
         ret' # "none" \/ ret' = ret
  PROVE  /\ Active' /\ MainsInside' /\ MainsNoted' /\ MainsOrdered' /\ MainsPast'
         /\ Mains' = Mains
<1>1. (\A m : Inside!Around(m)' = Inside!Around(m)) /\ (\A m : Rooted(m)' <=> Rooted(m))
      /\ (\A l, m : Precedes(l, m)' <=> Precedes(l, m)) /\ (\A m : Past(m)' <=> Past(m))
  BY AroundKept, RootedKept, PrecedesKept, PastKept
<1>2. Inside!Scope' = Inside!Scope /\ Mains' = Mains
  BY DEF Inside!Scope, Mains
<1>3. Active'
  BY <1>2 DEF StageInv, Active, Owed
<1>4. MainsInside' /\ MainsNoted'
  BY <1>1, <1>2 DEF StageInv, MainsInside, MainsNoted
<1>5. MainsOrdered' /\ MainsPast'
  BY <1>1, <1>2 DEF StageInv, MainsOrdered, MainsPast
<1> QED BY <1>2, <1>3, <1>4, <1>5

\* What has returned without a post stage.
LEMMA ReturnedStages ==
  ASSUME InsideInv, StageInv, UNCHANGED <<tree, stage, stack, next, action, conclusion>>,
         hist'.mains = hist.mains, hist'.posts = hist.posts, hist'.lost = hist.lost,
         \/ ret' = ret
         \/ /\ ret = "none" /\ ret' # "none"
            /\ stage = "post" => /\ tree.kind[Inside!Scope] = "composite" /\ ret' = "ok"
                                 /\ next[Inside!Scope] > Len(tree.child[Inside!Scope])
  PROVE  StageInv'
<1>1. /\ Active' /\ MainsInside' /\ MainsNoted' /\ MainsOrdered' /\ MainsPast'
      /\ Mains' = Mains
  BY StagesKept
<1>2. (\A m : Inside!Around(m)' = Inside!Around(m)) /\ (\A m : Past(m)' <=> Past(m))
      /\ \A l, m : Precedes(l, m)' <=> Precedes(l, m)
  BY AroundKept, PrecedesKept, PastKept
<1>3. Posts' = Posts /\ Inside!Scope' = Inside!Scope
  BY DEF Posts, Inside!Scope
<1>4. PostsOwed'
  BY <1>1, <1>2, <1>3 DEF StageInv, PostsOwed, Owed
<1>5. PostsOrdered'
  BY <1>2 DEF StageInv, PostsOrdered
<1>6. PostsPast'
  BY <1>2, <1>3 DEF StageInv, PostsPast
<1>7. Returned'
  BY <1>2, <1>3 DEF StageInv, Returned
<1>8. PostsMet'
  BY <1>1, <1>2, <1>3 DEF StageInv, PostsMet, Met, Owed
<1> QED BY <1>1, <1>4, <1>5, <1>6, <1>7, <1>8 DEF StageInv

\* A post stage has run.
LEMMA PostRan ==
  ASSUME InsideInv, Rows, StageInv, stage = "post",
         stack # <<>>, tree.kind[Inside!Scope] # "composite", ret = "none", ret' # "none",
         UNCHANGED <<tree, stage, stack, next, action, conclusion>>,
         hist'.mains = hist.mains, hist'.lost = hist.lost,
         hist'.posts = Append(hist.posts, Inside!Scope)
  PROVE  StageInv'
<1>0. /\ Inside!TypeOK /\ Nested /\ hist.posts \in Seq(StepIds) /\ Posts \subseteq StepIds
      /\ hist.lost \subseteq StepIds
  BY DEF InsideInv, Posts, Logged, Histories
<1>1. PICK n \in StepIds : n = Inside!Scope /\ n = stack[Len(stack)] /\ Len(stack) \in DOMAIN stack
  BY <1>0, ScopeIs
<1>2. /\ Active' /\ MainsInside' /\ MainsNoted' /\ MainsOrdered' /\ MainsPast'
      /\ Mains' = Mains
  BY StagesKept
<1>3. (\A m : Inside!Around(m)' = Inside!Around(m)) /\ (\A m : Past(m)' <=> Past(m))
      /\ \A l, m : Precedes(l, m)' <=> Precedes(l, m)
  BY AroundKept, PrecedesKept, PastKept
<1>4. Inside!Scope' = n
  BY <1>1 DEF Inside!Scope
<1>5. /\ Posts' = Posts \cup {n}
      /\ \A i \in DOMAIN hist'.posts :
            \/ i \in DOMAIN hist.posts /\ hist'.posts[i] = hist.posts[i]
            \/ hist'.posts[i] = n
      /\ \A i, k \in DOMAIN hist'.posts :
            i < k => i \in DOMAIN hist.posts /\ hist'.posts[i] = hist.posts[i]
  BY <1>0, <1>1, AppendIs DEF Posts
<1>6. Owed(n) /\ n \in Mains
  <2>1. Owed(n)
    BY <1>1 DEF StageInv, Active
  <2> QED BY <1>1, <2>1 DEF StageInv, MainsNoted, Owed
<1>7. Inside!Around(n) \cap hist.lost = {}
  <2>1. ASSUME NEW l \in hist.lost PROVE l \notin Inside!Around(n)
    <3>1. Past(l) /\ l \in StepIds
      BY <1>0, <2>1 DEF StageInv, PostsPast
    <3> QED BY <1>0, <1>1, <3>1, RunningAhead
  <2> QED BY <2>1
<1>8. \A m \in Posts : Past(m) /\ Precedes(n, m)
  <2>1. ASSUME NEW m \in Posts PROVE Past(m) /\ Precedes(n, m)
    <3>1. Past(m)
      BY <2>1 DEF StageInv, PostsPast
    <3> QED BY <1>0, <1>1, <2>1, <3>1, RunningAhead
  <2> QED BY <2>1
<1>9. PostsOwed'
  BY <1>2, <1>3, <1>5, <1>6, <1>7 DEF StageInv, PostsOwed, Owed
<1>10. PostsOrdered'
  <2>1. SUFFICES ASSUME NEW i \in DOMAIN hist'.posts, NEW k \in DOMAIN hist'.posts, i < k
                 PROVE  Precedes(hist'.posts[k], hist'.posts[i])
    BY <1>3 DEF PostsOrdered
  <2>2. /\ i \in DOMAIN hist.posts /\ hist'.posts[i] = hist.posts[i]
        /\ hist'.posts[i] \in Posts
    BY <1>5, <2>1 DEF Posts
  <2>3. CASE hist'.posts[k] = n
    BY <1>8, <2>2, <2>3
  <2>4. CASE k \in DOMAIN hist.posts /\ hist'.posts[k] = hist.posts[k]
    BY <2>1, <2>2, <2>4 DEF StageInv, PostsOrdered
  <2> QED BY <1>5, <2>3, <2>4
<1>11. PostsPast'
  BY <1>3, <1>4, <1>5, <1>8 DEF StageInv, PostsPast
<1>12. Returned'
  BY <1>1, <1>4, <1>5 DEF Returned
<1>13. PostsMet'
  BY <1>2, <1>3, <1>5 DEF StageInv, PostsMet, Met, Owed
<1> QED BY <1>2, <1>9, <1>10, <1>11, <1>12, <1>13 DEF StageInv

LEMMA LeaveActive ==
  ASSUME InsideInv, Rows, StageInv, NEW k \in 0..4, Inside!Leave(k)
  PROVE  Active'
<1>0. /\ Inside!TypeOK /\ Nested /\ Active
      /\ conclusion \in [StepIds -> {"none", "success", "failure", "skipped"}]
  BY DEF InsideInv, StageInv, Inside!TypeOK
<1>at. PICK n \in StepIds, s \in Inside!Scopes, top \in Nat \ {0}, raised \in BOOLEAN :
        LeaveFor(n, s, top, raised)
  BY LeaveIs
<1>1. /\ top = Len(stack) /\ DOMAIN stack = 1..top /\ n = stack[top] /\ s = Outer(top)
      /\ stack' \in Seq(StepIds) /\ Len(stack') = top - 1 /\ DOMAIN stack' = 1..(top - 1)
      /\ \A i \in 1..(top - 1) : stack'[i] = stack[i]
      /\ UNCHANGED <<tree, action>> /\ TurnGoesOn(s)
      /\ \/ conclusion' = conclusion
         \/ stage = "main" /\ conclusion' = [conclusion EXCEPT ![n] = "failure"]
  BY <1>at DEF LeaveFor
<1>2. CASE top = 1
  <2>1. stack' = <<>> /\ DOMAIN stack' = {}
    BY <1>1, <1>2
  <2> QED BY <2>1 DEF Active
<1>3. CASE top # 1
  <2>1. /\ stack' # <<>> /\ top - 1 \in 1..(top - 1) /\ stack'[top - 1] = stack[top - 1]
        /\ \A i \in 1..(top - 1) : i \in DOMAIN stack /\ i < top /\ stack[i] \in StepIds
    <3>1. stack \in Seq(StepIds)
      BY <1>0, TreeShape
    <3>2. \A i \in 1..(top - 1) : i \in 1..top /\ i < top
      BY <1>1
    <3> QED BY <1>1, <1>3, <3>1, <3>2
  <2>2. Inside!Scope' = stack[top - 1]
    <3>1. Inside!Scope' = stack'[Len(stack')]
      BY <2>1 DEF Inside!Scope, Inside!Last
    <3> QED BY <1>1, <2>1, <3>1
  <2>3. stage' = stage
    <3>1. s = stack[top - 1] /\ s \in StepIds /\ "job" \notin StepIds
      BY <1>0, <1>1, <1>3, <2>1, TreeShape DEF Outer
    <3> QED BY <1>1, <3>1, TurnStages
  <2>4. \A i \in 1..(top - 1) : stack[i] \in action
    BY <1>0, <1>1, <2>1 DEF Active
  <2>5. stage = "main" => \A i \in 1..(top - 1) : conclusion'[stack'[i]] \in Concluded
    <3>1. stage = "main" => \A i \in 1..(top - 1) : conclusion[stack[i]] \in Concluded
      BY <1>0, <2>1 DEF Active
    <3>2. \A i \in 1..(top - 1) : stack[i] \in StepIds =>
            \/ conclusion'[stack[i]] = conclusion[stack[i]]
            \/ conclusion'[stack[i]] = "failure"
      BY <1>0, <1>1
    <3> QED BY <1>1, <2>1, <3>1, <3>2 DEF Concluded
  <2>6. ASSUME stage = "post", NEW i \in 1..(top - 1) PROVE Owed(stack[i])'
    <3>1. Owed(stack[i])
      BY <1>0, <2>1, <2>6 DEF Active
    <3> QED BY <1>1, <2>6, <3>1 DEF Owed
  <2>7. (\A j \in DOMAIN stack : stage = "post" => Owed(stack[j]))'
    BY <1>1, <2>3, <2>6
  <2>8. (\A j \in DOMAIN stack : j < Len(stack) => stack[j] \in action)'
    BY <1>1, <2>4
  <2>9. (stack # <<>> /\ ret = "none" => Inside!Scope \in action)'
    BY <1>1, <2>1, <2>2, <2>4
  <2>10. (stage = "main" => \A j \in DOMAIN stack : conclusion[stack[j]] \in Concluded)'
    BY <1>1, <2>3, <2>5
  <2> QED BY <2>7, <2>8, <2>9, <2>10 DEF Active
<1> QED BY <1>2, <1>3

LEMMA LeaveMains ==
  ASSUME InsideInv, Rows, StageInv, NEW k \in 0..4, Inside!Leave(k)
  PROVE  /\ MainsInside' /\ MainsNoted' /\ MainsOrdered' /\ MainsPast'
         /\ Mains' = Mains
<1>0. /\ Inside!TypeOK /\ Nested /\ Mains \subseteq StepIds
      /\ conclusion \in [StepIds -> {"none", "success", "failure", "skipped"}]
  BY DEF InsideInv, Inside!TypeOK, Mains, Logged, Histories
<1>at. PICK n \in StepIds, s \in Inside!Scopes, top \in Nat \ {0}, raised \in BOOLEAN :
        LeaveFor(n, s, top, raised)
  BY LeaveIs
<1>1. /\ n = Inside!Scope
      /\ top = Len(stack) /\ DOMAIN stack = 1..top /\ n = stack[top]
      /\ UNCHANGED <<tree, action>> /\ hist'.mains = hist.mains
      /\ \/ conclusion' = conclusion
         \/ stage = "main" /\ conclusion' = [conclusion EXCEPT ![n] = "failure"]
  BY <1>at DEF LeaveFor
<1>2. stage = "main" => conclusion[n] \in Concluded
  <2>1. top \in DOMAIN stack
    BY <1>1
  <2> QED BY <1>1, <2>1 DEF StageInv, Active
<1>3. ASSUME NEW m \in Mains, NEW x \in Inside!Around(m)
      PROVE  conclusion'[x] \in Concluded /\ (x # m => x \in action')
  <2>1. x \in StepIds /\ conclusion[x] \in Concluded /\ (x # m => x \in action')
    BY <1>0, <1>1, <1>3, AroundThrough DEF StageInv, MainsInside
  <2>2. conclusion'[x] = conclusion[x] \/ conclusion'[x] = "failure"
    BY <1>0, <1>1, <2>1
  <2> QED BY <2>1, <2>2 DEF Concluded
<1>4. \A m \in StepIds : tree.kind[m] # "composite" /\ conclusion'[m] \in Concluded =>
        conclusion[m] \in Concluded
  BY <1>0, <1>1, <1>2
<1>5. Mains' = Mains /\ MainsInside' /\ MainsNoted' /\ MainsOrdered'
  BY <1>1, <1>3, <1>4, MainsKept
<1>6. MainsPast'
  <2>1. stage = "main" => \A m \in Mains : Past(m) \/ n \in Inside!Around(m)
    BY <1>0, <1>1, AroundSelf DEF StageInv, MainsPast
  <2>2. stage = "pre" => Mains = {}
    BY DEF StageInv, MainsPast
  <2>3. CASE stage' = stage /\ \A m : Past(m)' <=> Past(m) \/ n \in Inside!Around(m)
    BY <1>5, <2>1, <2>2, <2>3 DEF MainsPast
  <2>4. CASE \/ stage = "pre" /\ stage' = "main"
             \/ stage = "main" /\ stage' = "post"
             \/ stage = "post" /\ stage' = "over"
    BY <1>5, <2>2, <2>4 DEF MainsPast
  <2> QED BY <1>1, <2>3, <2>4, LeavePast
<1> QED BY <1>5, <1>6

LEMMA LeavePosts ==
  ASSUME InsideInv, Rows, StageInv, NEW k \in 0..4, Inside!Leave(k)
  PROVE  PostsOwed' /\ PostsOrdered' /\ PostsPast' /\ Returned' /\ PostsMet'
<1>0. Inside!TypeOK /\ Nested /\ Mains \subseteq StepIds
  BY DEF InsideInv, Mains, Logged, Histories
<1>at. PICK n \in StepIds, s \in Inside!Scopes, top \in Nat \ {0}, raised \in BOOLEAN :
        LeaveFor(n, s, top, raised)
  BY LeaveIs
<1>1. /\ n = Inside!Scope /\ s = Inside!ScopeOf(n)
      /\ top = Len(stack) /\ DOMAIN stack = 1..top /\ n = stack[top] /\ s = Outer(top)
      /\ stage \in {"pre", "main", "post"} /\ ret # "none" /\ ret' = "none"
      /\ UNCHANGED <<tree, action>>
      /\ hist'.posts = hist.posts
      /\ hist'.lost = IF stage = "post" /\ ret = "failed" /\ tree.kind[n] = "composite"
                      THEN hist.lost \cup {n} ELSE hist.lost
      /\ \/ conclusion' = conclusion
         \/ stage = "main" /\ conclusion' = [conclusion EXCEPT ![n] = "failure"]
  BY <1>at DEF LeaveFor
<1>2. stack # <<>> /\ stage # "over" /\ (ret = "ok" \/ ret = "failed")
  BY <1>0, <1>1 DEF Inside!TypeOK
<1>3. /\ n \in Inside!Around(n) /\ Rooted(n)
      /\ next[s] \in DOMAIN tree.child[s] /\ n = Nth(s, next[s])
  <2>1. top \in DOMAIN stack
    BY <1>1
  <2> QED BY <1>1, <2>1, AroundSelf DEF Rows
<1>4. (\A m : Inside!Around(m)' = Inside!Around(m)) /\ \A l, m : Precedes(l, m)' <=> Precedes(l, m)
  BY <1>1, AroundKept, PrecedesKept
<1>5. Mains' = Mains /\ Posts' = Posts /\ (stage = "post" => \A m : Owed(m)' <=> Owed(m))
  BY <1>1, LeaveMains DEF Posts, Owed
<1>6. stage \in {"pre", "main"} => Posts' = {} /\ hist'.lost = {}
  BY <1>1, <1>5 DEF StageInv, PostsPast
<1>7. \/ stage' = stage /\ \A m : Past(m)' <=> Past(m) \/ n \in Inside!Around(m)
      \/ /\ s = "job" /\ \A m : ~Past(m)'
         /\ \/ stage = "pre" /\ stage' = "main"
            \/ stage = "main" /\ stage' = "post"
            \/ stage = "post" /\ stage' = "over" /\ next["job"] = Len(tree.child["job"])
  BY <1>1, LeavePast
<1>8. PostsOwed'
  <2>1. CASE stage = "post"
    <3>1. ASSUME NEW m \in Posts PROVE Inside!Around(m) \cap hist'.lost = {}
      <4>1. Inside!Around(m) \cap hist.lost = {}
        BY <3>1 DEF StageInv, PostsOwed
      <4>2. CASE ret = "failed" /\ tree.kind[n] = "composite"
        <5>1. n \notin Inside!Around(m)
          BY <1>1, <1>2, <2>1, <3>1, <4>2 DEF StageInv, Returned
        <5> QED BY <1>1, <4>1, <5>1
      <4>3. CASE ~(ret = "failed" /\ tree.kind[n] = "composite")
        BY <1>1, <4>1, <4>3
      <4> QED BY <4>2, <4>3
    <3> QED BY <1>4, <1>5, <2>1, <3>1 DEF StageInv, PostsOwed
  <2>2. CASE stage # "post"
    <3>1. Posts' = {}
      BY <1>1, <1>6, <2>2
    <3> QED BY <3>1 DEF PostsOwed
  <2> QED BY <2>1, <2>2
<1>9. PostsOrdered'
  BY <1>1, <1>4 DEF StageInv, PostsOrdered
<1>10. PostsPast'
  <2>1. CASE stage' = stage /\ \A m : Past(m)' <=> Past(m) \/ n \in Inside!Around(m)
    <3>1. stage = "post" => \A m \in Posts \cup hist'.lost : Past(m) \/ n \in Inside!Around(m)
      BY <1>1, <1>3 DEF StageInv, PostsPast
    <3> QED BY <1>5, <1>6, <2>1, <3>1 DEF PostsPast
  <2>2. CASE stage \in {"pre", "main"}
    <3>1. Posts' = {} /\ hist'.lost = {}
      BY <1>6, <2>2
    <3> QED BY <3>1 DEF PostsPast
  <2>3. CASE stage' = "over"
    BY <2>3 DEF PostsPast
  <2> QED BY <1>7, <2>1, <2>2, <2>3
<1>11. Returned'
  BY <1>1 DEF Returned
<1>12. ASSUME stage = "post", NEW m \in Mains, Met(m) PROVE Met(m)'
  <2>1. hist.lost \subseteq hist'.lost
    BY <1>1
  <2> QED BY <1>4, <1>5, <1>12, <2>1 DEF Met
<1>13. ASSUME stage = "post", NEW m \in Mains, n \in Inside!Around(m) PROVE Met(m)'
  <2>1. m \in StepIds /\ Rooted(m) /\ tree.kind[m] # "composite" /\ Path(m)
    BY <1>0, AroundSelf DEF StageInv, MainsInside, Rooted
  <2>2. CASE tree.kind[n] # "composite"
    <3>1. m = n
      BY <1>13, <2>1, <2>2 DEF Path
    <3>2. n \in Posts
      BY <1>1, <1>2, <1>13, <2>2 DEF StageInv, Returned
    <3> QED BY <1>5, <3>1, <3>2 DEF Met
  <2>3. CASE tree.kind[n] = "composite" /\ ret = "failed"
    <3>1. n \in hist'.lost
      BY <1>1, <1>13, <2>3
    <3> QED BY <1>4, <1>13, <3>1 DEF Met
  <2>4. CASE tree.kind[n] = "composite" /\ ret = "ok"
    <3>1. next[n] > Len(tree.child[n]) /\ n # m
      BY <1>1, <1>2, <1>13, <2>1, <2>4 DEF StageInv, Returned
    <3>2. Past(m)
      BY <1>0, <1>1, <1>13, <2>1, <3>1, ThroughPast
    <3>3. Met(m)
      BY <1>13, <3>2 DEF StageInv, PostsMet
    <3> QED BY <1>12, <1>13, <3>3
  <2> QED BY <1>2, <2>2, <2>3, <2>4
<1>14. PostsMet'
  <2>1. s = "job" => n = Nth("job", next["job"])
    BY <1>3
  <2> QED BY <1>2, <1>5, <1>7, <1>12, <1>13, <2>1, MetTurn
<1> QED BY <1>8, <1>9, <1>10, <1>11, <1>14

LEMMA InitStages == Inside!Init => StageInv
<1> SUFFICES ASSUME Inside!Init PROVE StageInv
  OBVIOUS
<1>1. /\ stage = "pre" /\ stack = <<>> /\ hist.mains = <<>> /\ hist.posts = <<>>
      /\ hist.lost = {} /\ \A n \in StepIds : conclusion[n] = "none"
  BY DEF Inside!Init
<1>2. DOMAIN stack = {} /\ DOMAIN hist.mains = {} /\ DOMAIN hist.posts = {}
      /\ Mains = {} /\ Posts = {}
  BY <1>1 DEF Mains, Posts
<1>3. Active /\ MainsInside /\ MainsNoted /\ MainsOrdered /\ MainsPast
  BY <1>1, <1>2 DEF Active, MainsInside, MainsNoted, MainsOrdered, MainsPast, Concluded
<1>4. PostsOwed /\ PostsOrdered /\ PostsPast /\ Returned /\ PostsMet
  BY <1>1, <1>2 DEF PostsOwed, PostsOrdered, PostsPast, Returned, PostsMet
<1> QED BY <1>3, <1>4 DEF StageInv

LEMMA NextStages == InsideInv /\ Rows /\ StageInv /\ [Inside!Next]_inside => StageInv'
<1> SUFFICES ASSUME InsideInv, Rows, StageInv, [Inside!Next]_inside PROVE StageInv'
  OBVIOUS
<1>1. ASSUME UNCHANGED <<tree, stage, stack, next, ret, action, conclusion, hist>>
      PROVE  StageInv'
  BY <1>1, ReturnedStages
<1>2. ASSUME NEW n \in StepIds,
             Inside!PrepareFails(n) \/ Inside!Pass(n) \/ Inside!Skip(n)
      PROVE  StageInv'
  BY <1>2, EarlyActive, EarlyMains, EarlyPosts DEF StageInv
<1>3. ASSUME NEW n \in StepIds,
             Inside!Begin(n) \/ Inside!ReadFails(n) \/ Inside!CopyFails(n)
      PROVE  StageInv'
  BY <1>3, EnterActive, EnterMains, EnterPosts DEF StageInv
<1>4. ASSUME NEW n \in StepIds, Inside!Expire(n) PROVE StageInv'
  BY <1>1, <1>4 DEF Inside!Expire
<1>5. ASSUME NEW how \in {"silent", "files", "prints", "refused"}, NEW ok \in BOOLEAN,
             \/ Inside!RunScript(how, ok) \/ Inside!RunAction(how, ok) \/ Inside!RunPre(how, ok)
             \/ Inside!RunPost(ok)
      PROVE  StageInv'
  <2>1. /\ stack # <<>> /\ tree.kind[Inside!Scope] # "composite"
        /\ ret = "none" /\ ret' # "none"
        /\ UNCHANGED <<tree, stage, stack, next, action, conclusion>>
        /\ hist'.mains = hist.mains /\ hist'.lost = hist.lost
        /\ stage # "post" => hist'.posts = hist.posts
        /\ stage = "post" => hist'.posts = Append(hist.posts, Inside!Scope)
    BY <1>5, RanIs
  <2>2. CASE stage = "post"
    BY <2>1, <2>2, PostRan
  <2>3. CASE stage # "post"
    BY <2>1, <2>3, ReturnedStages
  <2> QED BY <2>2, <2>3
<1>6. CASE Inside!ChildrenOver
  <2>1. /\ tree.kind[Inside!Scope] = "composite" /\ ret = "none" /\ ret' # "none"
        /\ UNCHANGED <<tree, stage, stack, next, action, conclusion, hist>>
        /\ stage = "post" => ret' = "ok" /\ next[Inside!Scope] > Len(tree.child[Inside!Scope])
    BY <1>6, ChildrenAre
  <2> QED BY <2>1, ReturnedStages
<1>7. ASSUME NEW k \in 0..Len(Inside!Commands), Inside!Leave(k) PROVE StageInv'
  <2>1. Len(Inside!Commands) = 4
    BY DEF Inside!Commands
  <2> QED BY <1>7, <2>1, LeaveActive, LeaveMains, LeavePosts DEF StageInv
<1>8. CASE UNCHANGED inside
  BY <1>1, <1>8 DEF inside
<1>9. CASE Inside!Over
  BY <1>8, <1>9 DEF Inside!Over, Inside!vars, inside
<1>10. CASE Inside!Next
  <2>1. "silent" \in {"silent", "files", "prints", "refused"}
    OBVIOUS
  <2> QED BY <1>2, <1>3, <1>4, <1>5, <1>6, <1>7, <1>9, <1>10, <2>1 DEF Inside!Next
<1> QED BY <1>8, <1>10

LEMMA StagesInductive == JobSpec => [](level = "steps" => InsideInv /\ Rows /\ StageInv)
<1>1. JobInit => (level = "steps" => InsideInv /\ Rows /\ FailInv /\ StageInv)
  BY InitInside, InitFail, InitStages DEF JobInit
<1>2. (level = "steps" => InsideInv /\ Rows /\ FailInv /\ StageInv) /\ [JobNext]_everything
      => (level = "steps" => InsideInv /\ Rows /\ FailInv /\ StageInv)'
  <2> SUFFICES ASSUME level = "steps" => InsideInv /\ Rows /\ FailInv /\ StageInv,
                      [JobNext]_everything, level' = "steps"
               PROVE  InsideInv' /\ Rows' /\ FailInv' /\ StageInv'
    OBVIOUS
  <2>1. level = "steps" /\ [Inside!Next]_inside
    BY DEF JobNext, OfJob, OfSteps, everything
  <2> QED BY <2>1, NextInside, NextFail, NextStages
<1>3. (level = "steps" => InsideInv /\ Rows /\ FailInv /\ StageInv)
      => (level = "steps" => InsideInv /\ Rows /\ StageInv)
  OBVIOUS
<1> QED BY <1>1, <1>2, <1>3, PTL DEF JobSpec

\* At the end the post stages are those that were due, each once, and in the
\* reverse order of the main stages.
LEMMA StagesMirror == InsideInv /\ StageInv => Inside!PostsMirrorMains
<1> SUFFICES ASSUME InsideInv, StageInv, stage = "over" PROVE Inside!PostsMirrorMains
  BY DEF Inside!PostsMirrorMains
<1>0. /\ Inside!TypeOK /\ Mains \subseteq StepIds /\ Posts \subseteq Mains
      /\ hist.posts \in Seq(StepIds) /\ hist.mains \in Seq(StepIds)
      /\ \A m \in Mains : Rooted(m)
  BY DEF InsideInv, StageInv, PostsOwed, MainsInside, Mains, Logged, Histories
<1>1. Inside!Range(hist.posts) = Posts /\ Inside!Range(hist.mains) = Mains
  BY DEF Inside!Range, Posts, Mains
<1>2. \A n \in Mains : Owed(n) <=> tree.kind[n] # "script" /\ n \in action
  BY <1>0, AroundSelf DEF Owed, StageInv, MainsInside
<1>3. \A n \in Mains : n \in Posts <=> Owed(n) /\ Inside!Around(n) \cap hist.lost = {}
  BY DEF StageInv, PostsOwed, PostsMet, Met
<1>4. ASSUME NEW m \in Mains, NEW n \in Mains, Precedes(m, n), Precedes(n, m) PROVE FALSE
  BY <1>0, <1>4, Asymmetric
<1>5. ASSUME NEW i \in DOMAIN hist.posts, NEW k \in DOMAIN hist.posts PROVE i \in Nat /\ k \in Nat
  BY <1>0
<1>6. ASSUME NEW i \in DOMAIN hist.posts, NEW k \in DOMAIN hist.posts,
             hist.posts[i] = hist.posts[k]
      PROVE  i = k
  <2>1. hist.posts[i] \in Mains
    BY <1>0 DEF Posts
  <2>2. ~(i < k) /\ ~(k < i)
    BY <1>4, <1>6, <2>1 DEF StageInv, PostsOrdered
  <2> QED BY <1>5, <2>2
<1>7. ASSUME NEW a \in DOMAIN hist.mains, NEW b \in DOMAIN hist.mains,
             NEW i \in DOMAIN hist.posts, NEW k \in DOMAIN hist.posts,
             a < b, hist.posts[i] = hist.mains[b], hist.posts[k] = hist.mains[a]
      PROVE  i < k
  <2>1. hist.mains[a] \in Mains /\ hist.mains[b] \in Mains
    BY DEF Mains
  <2>2. Precedes(hist.mains[a], hist.mains[b])
    BY <1>7 DEF StageInv, MainsOrdered
  <2>3. i # k
    BY <1>4, <1>7, <2>1, <2>2
  <2>4. ~(k < i)
    BY <1>4, <1>7, <2>1, <2>2 DEF StageInv, PostsOrdered
  <2> QED BY <1>5, <2>3, <2>4
<1>8. Inside!Range(hist.posts) = {n \in Inside!Range(hist.mains) :
          tree.kind[n] # "script" /\ n \in action /\ Inside!Around(n) \cap hist.lost = {}}
  <2>1. \A n \in Mains : n \in Posts <=> tree.kind[n] # "script" /\ n \in action
                                        /\ Inside!Around(n) \cap hist.lost = {}
    BY <1>2, <1>3
  <2> QED BY <1>0, <1>1, <2>1
<1>9. \A i, k \in DOMAIN hist.posts : hist.posts[i] = hist.posts[k] => i = k
  BY <1>6
<1>10. \A a, b \in DOMAIN hist.mains, i, k \in DOMAIN hist.posts :
         a < b /\ hist.posts[i] = hist.mains[b] /\ hist.posts[k] = hist.mains[a] => i < k
  BY <1>7
<1> QED BY <1>8, <1>9, <1>10 DEF Inside!PostsMirrorMains

\* At both levels the stages that run are the right ones, in the right order:
\* at the executor's, the conditions of the steps decide, and every step that
\* ran has its post stage (ConditionsHold); inside, whatever the tree of
\* composite actions, when the job is over every action whose main stage was
\* not skipped has had its post stage exactly once, all of them in the reverse
\* order, except below a composite action that could not be copied once more
\* (compositeExecutor, shouldRunPostStep, runPostStep).
THEOREM StagesAreSound == JobSpec => []StagesSound
<1>1. (level = "job" => StagesRespected) /\ (level = "steps" => InsideInv /\ Rows /\ StageInv)
      => StagesSound
  BY StagesMirror DEF StagesSound
<1> QED BY <1>1, ConditionsHold, StagesInductive, PTL
=============================================================================
