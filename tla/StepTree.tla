------------------------------ MODULE StepTree ------------------------------
(***************************************************************************)
(* What the stages of a job's steps do, seen from inside                   *)
(* (act/runner/step.go, action.go, action_composite.go, step_run.go,       *)
(* step_action_local.go, step_action_remote.go): a step is a script, an    *)
(* action, or a composite action whose steps are run, stage by stage, in a *)
(* run context of their own, to any depth.                                 *)
(*                                                                         *)
(* A script or an action may write one variable to each of the command     *)
(* files of the job container (GITHUB_ENV, _STATE, _OUTPUT, _PATH), which  *)
(* all steps share, or print save-state and set-output commands, or a      *)
(* set-env command, which is refused; its name stands for what it writes.  *)
(***************************************************************************)
EXTENDS Integers, Sequences, FiniteSets, SequencesExt

CONSTANTS
    Steps,      \* ids of the steps, of any depth
    Trees,      \* the jobs to run
    MaxFaults   \* bound on failures and timeouts

Scopes == {"job"} \cup Steps

VARIABLES
    tree,       \* the job: each run context's steps, their kind and their `if`, the
                \* local actions, continue-on-error, timeout-minutes, those that write
    stage,      \* the stage the job's steps are in
    stack,      \* the steps whose stage is under way, outermost first
    next,       \* the step each run context is at
    ret,        \* what the executor of the innermost of them returned
    expired,    \* those whose timeout-minutes have passed
    action,     \* the actions that were read
    made,       \* the composite actions whose run context exists
    conclusion, \* StepResults, of the run context each step belongs to
    rc,         \* the run contexts: CurrentStep, Env, GlobalEnv (the context whose
                \* map it is), ExtraPath, unsecureCommandErr, the error container
    global,     \* the maps that are some context's GlobalEnv
    handler,    \* the run context that handles printed commands
    saved,      \* ReplaceLogWriter's answer to each step under way
    file,       \* the step that wrote the command files since their last reset
    state, out, \* IntraActionState and Outputs of each step
    broken,     \* rc.jobFailed of the job
    hist,       \* history: the steps that wrote, the last of them, the main and the
                \* post stages in order, the failures, the commands refused
    faulty      \* failures and timeouts so far

vars == <<tree, stage, stack, next, ret, expired, action, made, conclusion, rc, global,
          handler, saved, file, state, out, broken, hist, faulty>>

Init ==
    /\ tree \in Trees
    /\ stage = "pre" /\ stack = <<>> /\ next = [s \in Scopes |-> 1] /\ ret = "none"
    /\ expired = {} /\ action = {} /\ made = {}
    /\ conclusion = [n \in Steps |-> "none"]
    /\ rc = [s \in Scopes |-> [current |-> "none", env |-> "none", map |-> "nil",
                               path |-> {}, refused |-> FALSE, err |-> FALSE]]
    /\ global = [s \in Scopes |-> "none"]
    /\ handler = "job" /\ saved = [n \in Steps |-> "job"]
    /\ file = "none"
    /\ state = [n \in Steps |-> {}] /\ out = [n \in Steps |-> {}]
    /\ broken = FALSE
    /\ hist = [wrote |-> {}, saves |-> {}, last |-> "none", inner |-> FALSE, mains |-> <<>>,
               posts |-> <<>>, lost |-> {}, failures |-> {}, refusals |-> {}]
    /\ faulty = 0

-----------------------------------------------------------------------------
(* The tree and the stage.                                                 *)

Remote(n) == tree.kind[n] # "script" /\ n \notin tree.local
Composite(n) == tree.kind[n] = "composite"
ScopeOf(n) == CHOOSE s \in Scopes : n \in Range(tree.child[s])

\* The steps a step belongs to, itself among them: those in every set that has
\* it and, with a step, the one that lists it.
Closed(A) == \A s \in Scopes : Range(tree.child[s]) \cap A # {} => s \in A
Around(n) ==
    LET closed == {A \in SUBSET Scopes : n \in A /\ Closed(A)}
    IN  {m \in Steps : \A A \in closed : m \in A}
Outermost(n) == CHOOSE m \in Around(n) : ScopeOf(m) = "job"

\* The run context whose steps are being run.
Scope == IF stack = <<>> THEN "job" ELSE Last(stack)

\* The context of the innermost stage has ended.
Ended == expired \cap Range(stack) # {}

\* Seeded defect: the post stages of a composite action run in its steps' order.
ForwardOf(s) == tree.child[s][next[s]]

\* The post stages are chained in reverse.
StepOf(s) ==
    LET c == tree.child[s]
    IN  c[IF stage = "post" THEN Len(c) + 1 - next[s] ELSE next[s]]

\* The step its run context is at: a pipeline stops between two steps when
\* its context has ended, the chain of post stages does not.
Waiting(n) ==
    /\ stage # "over" /\ ret = "none"
    /\ stack # <<>> => Composite(Scope)
    /\ next[Scope] <= Len(tree.child[Scope])
    /\ Ended => next[Scope] = 1 \/ stage = "post"
    /\ n = StepOf(Scope)

Fault == faulty < MaxFaults /\ faulty' = faulty + 1

\* getJobContext: only the job's run context is marked failed otherwise.
Failing(s) ==
    \/ s = "job" /\ broken
    \/ \E n \in Range(tree.child[s]) : conclusion[n] = "failure"

\* isStepEnabled
Enabled(n) == tree.cond[n] = "always" \/ ~Failing(ScopeOf(n))

-----------------------------------------------------------------------------
(* The end of a stage.                                                     *)

\* SetJobError of the context the steps of s run under: the pre and the main
\* stage of a composite action have a container of their own.
SetError(r, s, e) ==
    IF ~e THEN r
    ELSE IF stage = "post" THEN [r EXCEPT !["job"].err = TRUE]
    ELSE [r EXCEPT ![s].err = TRUE]

\* A stage is over with or without an error, and its context `s`, which had
\* ended or not, goes on: a step of a composite action reports the error to the
\* container; one of the job reports it to the job too, and in the pre stage
\* ends the pre stages.
Finish(s, e, ended, r) ==
    LET last == s = "job" /\ (next[s] = Len(tree.child[s]) \/ (stage = "pre" /\ e))
    IN  /\ rc' = SetError(r, s, e \/ ended)
        /\ broken' = (broken \/ (s = "job" /\ e))
        /\ stage' = IF ~last THEN stage
                    ELSE CASE stage = "pre" -> "main" [] stage = "main" -> "post"
                           [] stage = "post" -> "over"
        /\ next' = [next EXCEPT ![s] = IF last THEN 1 ELSE @ + 1]

\* The stage of n is over before its executor was called.
FinishEarly(n, e, r) ==
    /\ Finish(Scope, e, Ended, r)
    /\ UNCHANGED <<tree, stack, ret, expired, made, global, handler, saved, file, state, out>>

Record(e, n) == IF e THEN [hist EXCEPT !.failures = @ \cup {<<stage, n>>}] ELSE hist

-----------------------------------------------------------------------------
(* The beginning of a stage.                                               *)

\* shouldRunPostStep and hasPostStep
HasPost(n) ==
    /\ tree.kind[n] # "script" /\ n \in action
    /\ conclusion[n] \notin {"none", "skipped"}

HasStage(n) ==
    CASE stage = "pre" -> Remote(n) [] stage = "main" -> TRUE [] stage = "post" -> HasPost(n)

\* prepareActionExecutor fails; the main stage tries again what the pre stage
\* of a composite action's step could not do.
PrepareFails(n) ==
    /\ Waiting(n) /\ Remote(n) /\ n \notin action /\ stage \in {"pre", "main"} /\ Fault
    /\ FinishEarly(n, TRUE, rc) /\ hist' = Record(TRUE, n)
    /\ UNCHANGED <<action, conclusion>>

Prepare(n) == IF Remote(n) /\ stage # "post" THEN action \cup {n} ELSE action

\* A stage that does not exist.
Pass(n) ==
    /\ Waiting(n) /\ ~HasStage(n)
    /\ action' = Prepare(n) /\ FinishEarly(n, FALSE, rc)
    /\ UNCHANGED <<conclusion, hist, faulty>>

\* The `if` of the step says no, or cannot be evaluated.  A step whose `if` is
\* invalid has failed, and counts as one that ran to its post stage.
Skip(n) ==
    LET r == [rc EXCEPT ![Scope].current = n] IN
    /\ Waiting(n) /\ stage = "main" /\ action' = Prepare(n)
    /\ \/ /\ ~Enabled(n) /\ FinishEarly(n, FALSE, r) /\ UNCHANGED <<hist, faulty>>
          /\ conclusion' = [conclusion EXCEPT ![n] = "skipped"]
       \/ /\ Fault /\ FinishEarly(n, TRUE, r)
          /\ hist' = [Record(TRUE, n) EXCEPT
                        !.mains = IF Composite(n) THEN @ ELSE Append(@, n)]
          /\ conclusion' = [conclusion EXCEPT ![n] = "failure"]

\* newCompositeRunContext in the first stage that needs it; a remote action's
\* is refreshed by its main stage.  The map of global variables is the
\* parent's if it has one by then.
ContextOf(r, n, s) ==
    [r EXCEPT ![n].env = r[s].env, ![n].path = r[s].path,
              ![n].map = IF n \in made THEN @ ELSE r[s].map,
              ![n].err = FALSE]

FilesReset == "none"

\* runStepExecutor up to the call of the stage's executor.
Enter(n) ==
    /\ Waiting(n) /\ HasStage(n) /\ (stage = "main" => Enabled(n))
    /\ stack' = Append(stack, n)
    /\ next' = [next EXCEPT ![n] = 1]
    /\ conclusion' = IF stage = "main" THEN [conclusion EXCEPT ![n] = "success"] ELSE conclusion
    /\ file' = FilesReset
    /\ handler' = IF Scope = "job" THEN handler ELSE Scope
    /\ saved' = [saved EXCEPT ![n] = handler]
    /\ hist' = IF stage = "main" /\ ~Composite(n)
               THEN [hist EXCEPT !.mains = Append(@, n)] ELSE hist
    /\ UNCHANGED <<tree, stage, expired, global, state, out, broken>>

Entered(n) == [rc EXCEPT ![Scope].current = n, ![Scope].refused = FALSE]

\* The executor of the stage has what it needs.
Begin(n) ==
    /\ Enter(n)
    /\ action' = Prepare(n) \cup {n}
    /\ IF Composite(n) /\ stage # "post"
       THEN made' = made \cup {n} /\ rc' = ContextOf(Entered(n), n, Scope)
       ELSE UNCHANGED made /\ rc' = Entered(n)
    /\ ret' = IF Composite(n) /\ n \notin made' THEN "failed" ELSE "none"
    /\ UNCHANGED faulty

\* The executor fails before it calls what the stage is there for.
FailsAtOnce(n) ==
    /\ Enter(n) /\ Fault
    /\ action' = Prepare(n)
    /\ rc' = Entered(n) /\ ret' = "failed"
    /\ UNCHANGED made

\* A local action has no action.yml or Dockerfile, or none that can be read.
ReadFails(n) == stage = "main" /\ n \in tree.local /\ FailsAtOnce(n)

\* A remote action cannot be copied to the job container (a composite's post
\* stage copies it again).
CopyFails(n) == stage # "pre" /\ Composite(n) /\ Remote(n) /\ FailsAtOnce(n)

-----------------------------------------------------------------------------
(* The executor of a stage.                                                *)

\* Seeded defect: a printed command goes to the step the job is at.
JobsStep == rc["job"].current

HandlersStep == rc[handler].current

\* A script or an action has run in the job container: it wrote the command
\* files, or printed commands, or neither, and ended well or not.
Ran(how, ok) ==
    /\ stack # <<>> /\ ret = "none"
    /\ how # "silent" => Scope \in tree.talks
    /\ IF ok \/ Ended THEN UNCHANGED faulty ELSE Fault
    /\ ret' = IF ok THEN "ok" ELSE "failed"
    /\ file' = IF how = "files" THEN Scope ELSE file
    /\ LET to == HandlersStep
       IN  IF how = "prints"
           THEN /\ state' = [state EXCEPT ![to] = @ \cup {Scope}]
                /\ out' = IF stage = "main" THEN [out EXCEPT ![to] = @ \cup {Scope}] ELSE out
           ELSE UNCHANGED <<state, out>>
    /\ rc' = IF how = "refused" THEN [rc EXCEPT ![handler].refused = TRUE] ELSE rc
    /\ UNCHANGED <<tree, stage, stack, next, expired, action, made, conclusion, global,
                   handler, saved, broken>>

Saves(how) ==
    [hist EXCEPT !.saves = IF how = "prints" THEN @ \cup {Scope} ELSE @,
                 !.refusals = IF how = "refused" THEN @ \cup {<<stage, Scope>>} ELSE @]

RunScript(how, ok) ==
    /\ stage = "main" /\ Ran(how, ok) /\ tree.kind[Scope] = "script"
    /\ hist' = Saves(how)

RunAction(how, ok) ==
    /\ stage = "main" /\ Ran(how, ok) /\ tree.kind[Scope] = "action"
    /\ hist' = Saves(how)

RunPre(how, ok) ==
    /\ stage = "pre" /\ Ran(how, ok) /\ tree.kind[Scope] = "action"
    /\ hist' = Saves(how)

\* What a post stage writes is of no use to any other stage, and left out.
RunPost(ok) ==
    /\ stage = "post" /\ Ran("silent", ok) /\ tree.kind[Scope] = "action"
    /\ hist' = [hist EXCEPT !.posts = Append(@, Scope)]

\* The timeout-minutes of a step whose stage is under way pass.
Expire(n) ==
    /\ n \in Range(stack) \cap tree.limited /\ n \notin expired /\ Fault
    /\ expired' = expired \cup {n}
    /\ UNCHANGED <<tree, stage, stack, next, ret, action, made, conclusion, rc, global,
                   handler, saved, file, state, out, broken, hist>>

\* setEnv on the run context s.
MapOf(r, s) == IF r[s].map = "nil" THEN s ELSE r[s].map
SetEnv(r, s, v) == [r EXCEPT ![s].env = v, ![s].map = MapOf(r, s)]

\* execAsComposite: the context around it takes over the variables its steps
\* set and the path they extended.
MergeBack(r, n, s) ==
    LET set == r[n].map # "nil" /\ global[r[n].map] # "none"
    IN  [r EXCEPT ![s].path = r[n].path,
                  ![s].map = MapOf(r, s),
                  ![s].env = IF set THEN global[r[n].map] ELSE @]

\* The outputs of a composite action are those of its first step.
OutputsOf(n) == {v \in Steps : tree.child[n] # <<>> /\ v \in out[Head(tree.child[n])]}

\* The steps of a composite action are through, or its pipeline has stopped.
\* Errors of the pre stages are logged only, those of the post stages are the
\* job's already.
ChildrenOver ==
    LET n == Scope
        s == ScopeOf(n)
        through == next[n] > Len(tree.child[n])
    IN  /\ stack # <<>> /\ Composite(n) /\ ret = "none"
        /\ through \/ (Ended /\ next[n] > 1 /\ stage # "post")
        /\ ret' = IF \/ stage = "pre" /\ ~through
                     \/ stage = "main" /\ (rc[n].err \/ Ended)
                  THEN "failed" ELSE "ok"
        /\ IF stage = "main"
           THEN /\ rc' = MergeBack(rc, n, s)
                /\ global' = IF rc[n].map = "nil" THEN global
                             ELSE [global EXCEPT ![MapOf(rc, s)] =
                                       IF global[rc[n].map] # "none" THEN global[rc[n].map] ELSE @]
                /\ out' = [out EXCEPT ![n] = @ \cup OutputsOf(n)]
           ELSE UNCHANGED <<rc, global, out>>
        /\ UNCHANGED <<tree, stage, stack, next, expired, action, made, conclusion, handler,
                       saved, file, state, broken, hist, faulty>>

-----------------------------------------------------------------------------
(* runStepExecutor after the stage's executor has returned: the conclusion,*)
(* then the command files, in this order, up to one that cannot be read.   *)

Commands == <<"env", "state", "output", "path">>

ReadFiles(n, s, k) ==
    IF file = "none" \/ k = 0 THEN rc
    ELSE [SetEnv(rc, s, file) EXCEPT ![s].path = IF k = 4 THEN @ \cup {file} ELSE @]

\* Seeded defect: a refused command is taken from the job's run context.
JobRefused(s) == rc["job"].refused

\* takeUnsecureCommandError
Refused(s) == rc[s].refused

Leave(k) ==
    LET n == Scope
        s == ScopeOf(n)
        e == ret = "failed" \/ Refused(s)
        raised == (e /\ n \notin tree.lenient) \/ k < Len(Commands)
        wrote(i) == file # "none" /\ k >= i
    IN  /\ stack # <<>> /\ ret # "none"
        /\ IF k < Len(Commands) THEN Fault ELSE UNCHANGED faulty
        /\ Finish(s, raised, s # "job" /\ expired \cap Range(Front(stack)) # {},
                  [ReadFiles(n, s, k) EXCEPT ![s].refused = FALSE])
        /\ stack' = Front(stack) /\ ret' = "none" /\ expired' = expired \ {n}
        /\ handler' = IF s = "job" THEN handler ELSE saved[n]
        /\ conclusion' = IF stage = "main" /\ e /\ n \notin tree.lenient
                         THEN [conclusion EXCEPT ![n] = "failure"] ELSE conclusion
        /\ global' = IF wrote(1) THEN [global EXCEPT ![MapOf(rc, s)] = file] ELSE global
        /\ state' = IF wrote(2) THEN [state EXCEPT ![n] = @ \cup {file}] ELSE state
        /\ out' = IF wrote(3) /\ conclusion[n] # "none"
                  THEN [out EXCEPT ![n] = @ \cup {file}] ELSE out
        /\ hist' = [Record(raised, n) EXCEPT
             !.last = IF wrote(1) THEN file ELSE @,
             !.saves = IF wrote(2) /\ file = n THEN @ \cup {file} ELSE @,
             !.wrote = IF wrote(4) THEN @ \cup {file} ELSE @,
             !.inner = IF wrote(1) /\ stage = "pre" /\ s # "job" THEN TRUE ELSE @,
             !.lost = IF stage = "post" /\ ret = "failed" /\ Composite(n) THEN @ \cup {n} ELSE @]
        /\ UNCHANGED <<tree, action, made, saved, file>>

-----------------------------------------------------------------------------
Over == stage = "over" /\ UNCHANGED vars

Next ==
    \/ \E n \in Steps :
        \/ PrepareFails(n) \/ Pass(n) \/ Skip(n) \/ Begin(n) \/ ReadFails(n) \/ CopyFails(n)
        \/ Expire(n)
    \/ \E how \in {"silent", "files", "prints", "refused"}, ok \in BOOLEAN :
        RunScript(how, ok) \/ RunAction(how, ok) \/ RunPre(how, ok)
    \/ \E ok \in BOOLEAN : RunPost(ok)
    \/ ChildrenOver
    \/ \E k \in 0..Len(Commands) : Leave(k)
    \/ Over

Spec == Init /\ [][Next]_vars

-----------------------------------------------------------------------------
(* Every variable keeps its type.                                          *)
TypeOK ==
    /\ tree \in Trees
    /\ stage \in {"pre", "main", "post", "over"}
    /\ stack \in Seq(Steps)
    /\ next \in [Scopes -> Nat]
    /\ ret \in {"none", "ok", "failed"}
    /\ expired \subseteq Steps /\ action \subseteq Steps /\ made \subseteq Steps
    /\ conclusion \in [Steps -> {"none", "success", "failure", "skipped"}]
    /\ rc \in [Scopes -> [current : Steps \cup {"none"}, env : Steps \cup {"none"},
                          map : Scopes \cup {"nil"}, path : SUBSET Steps,
                          refused : BOOLEAN, err : BOOLEAN]]
    /\ global \in [Scopes -> Steps \cup {"none"}]
    /\ handler \in Scopes /\ saved \in [Steps -> Scopes]
    /\ file \in Steps \cup {"none"}
    /\ state \in [Steps -> SUBSET Steps] /\ out \in [Steps -> SUBSET Steps]
    /\ broken \in BOOLEAN
    /\ faulty \in 0..MaxFaults

\* A script or an action is under way.
Running(s) == stage = s /\ stack # <<>> /\ ~Composite(Scope) /\ ret = "none"

(* At the end every action whose main stage was not skipped has had its    *)
(* post stage, exactly once, and all of them, across composite actions, in *)
(* the reverse order (compositeExecutor, shouldRunPostStep), except below  *)
(* a composite action that could not be copied once more for its post      *)
(* stage (runPostStep).                                                    *)
PostsMirrorMains ==
    stage = "over" =>
        LET mains == hist.mains
            posts == hist.posts
        IN  /\ Range(posts) = {n \in Range(mains) :
                  tree.kind[n] # "script" /\ n \in action /\ Around(n) \cap hist.lost = {}}
            /\ \A i, k \in DOMAIN posts : posts[i] = posts[k] => i = k
            /\ \A a, b \in DOMAIN mains, i, k \in DOMAIN posts :
                  a < b /\ posts[i] = mains[b] /\ posts[k] = mains[a] => i < k

\* A failure that nothing outside of it ever hears of: one that an enclosing
\* continue-on-error forgives, and one in the pre stage of a composite
\* action's step, which is logged only.
Swallowed(f) ==
    \/ f[1] = "main" /\ (Around(f[2]) \ {f[2]}) \cap tree.lenient # {}
    \/ f[1] = "pre" /\ ScopeOf(f[2]) # "job"

(* A failure at any depth fails the job (common.JobError of each context), *)
(* and from then on the steps of the job that are to run on success only   *)
(* do not; a command that was refused is a failure of the step that printed*)
(* it (takeUnsecureCommandError).                                          *)
FailuresSurface ==
    LET heard == {f \in hist.failures : ~Swallowed(f)}
    IN  /\ \A f \in hist.refusals \ hist.failures :
              f = <<stage, Scope>> \/ f[2] \in tree.lenient
        /\ stage = "over" /\ ~rc["job"].err => heard = {}
        /\ Running("main") /\ tree.cond[Outermost(Scope)] = "success" =>
              \A f \in heard : Outermost(f[2]) = Outermost(Scope)

(* What a step saves and puts out goes to that very step, and the post     *)
(* stage of an action finds all that its other stages saved, however the   *)
(* run contexts, the handlers and the command files are shared.            *)
OwnState ==
    \A n \in Steps : ~Composite(n) =>
        /\ state[n] = {n} \cap hist.saves
        /\ out[n] \subseteq {n}

(* The main stage of a step, at any depth, sees the value that was set     *)
(* last, and the path entries of all earlier steps (GlobalEnv and ExtraPath*)
(* of newCompositeRunContext and execAsComposite), unless the pre stage of *)
(* a composite action's step has set one: such a value stays in the        *)
(* composite action's context, and its main stage brings it back over      *)
(* newer ones.                                                             *)
LatestSeen ==
    Running("main") /\ ~hist.inner =>
        /\ rc[ScopeOf(Scope)].env = hist.last
        /\ hist.wrote \subseteq rc[ScopeOf(Scope)].path

(* What a step writes reaches those it is for.                             *)
CommandsArrive == OwnState /\ LatestSeen
=============================================================================
