# gitea runner in TLA+

This directory holds a TLA+ model of the Gitea Actions runner, the TLC runs that
check it on small instances, and proofs for TLAPS. Paths below are relative to
the repository; `PROJECT.json` maps every definition to the lines it models.

## 1. The system

The daemon polls a Gitea instance for tasks, runs each one with the embedded
`act` engine in a container, on the host or in a pod, and reports log and state
back while the job runs.

| part | state it keeps | operations | talks to |
|---|---|---|---|
| Registration and daemon (`internal/app/cmd`) | runner file, its lock, signal context | `register`, start, shutdown in three phases, deferred release | server, Poller, Runner |
| Poller (`internal/app/poll`) | `sem`, `tasksVersion`, polling and job contexts, `done`, back-off state | `Poll`, `PollOnce`, `fetchTask`, `Shutdown` | server (FetchTask), Runner |
| Runner (`internal/app/run`) | `runningTasks`, `runningCount`, health cache, idle clean-up time, cache server | `Run`, `CanAcceptTask`, `OnIdle`, `Close` | Reporter, plan executor, cache server |
| Reporter (`internal/pkg/report`) | row buffer and offset, step states, outputs, result, notify channels, timer | logrus hook `Fire`, `Logf`, `SetOutputs`, daemon loop, `Close` | server (UpdateLog, UpdateTask), job goroutine |
| Plan executor (`act/runner/runner.go`) | shared `Job` records, per-job mutexes | stages, parallel combinations, job results | job executor, reusable workflows |
| Job executor (`act/runner/job_executor.go`) | context and its error container, `jobFailed`, `jobCancelled`, step results | start, hooks, pre/main/post stages, result, teardown | step runner, container |
| Step runner (`act/runner/step*.go`, `action*.go`, `command.go`) | outcome and conclusion, environment, state, run contexts of composite actions | `if`, timeout, continue-on-error, command files, log commands | container, clones of actions |
| Clones of actions (`act/common/git`, `toolkit_patch.go`) | one directory for each action: repository, worktree, patched bundle and what it replaces | clone, fetch, checkout, patch, copy, revert, under a keyed lock | every job that uses the action |
| Cache server (`act/artifactcache`) | bolt store, files, job credentials, `gcAt` | reserve, upload, commit, find, get, v2 API, collection, control plane | jobs over HTTP, Runner |
| Containers (`act/container`) | containers, network, volumes, images; a Pod; processes and directories | create, start, exec, copy, wait, remove | Docker, Kubernetes, the host |
| Locks (`internal/pkg/lock`), processes (`internal/pkg/process`) | keyed mutexes, file lock; process groups | `Lock`, `Delete`, `TryLock`; capture, kill | the above |
| Configuration, labels, client, metrics, artifact server, expressions | files, none | parsing, front ends | |

Where it is hard, and what must hold:

* **Reporter.** Three goroutines share the row buffer and the state, RPCs are
  slow, fail after the server has acted, or accept only a part; `Close` races
  with the daemon and with the end of the context. Every row arrives once and in
  order, the result after the rows, every state change in the end, and a cancel
  at the server reaches the job.
* **Poller and daemon.** A slot is taken by the loop and given back on five
  paths; a fetch is in flight while polling ends; jobs outlive the graceful
  phase. The capacity holds, `done` means over, the identity of the runner is
  kept until the last job is over, waiting tasks are not hidden by a cached
  version.
* **Runner file.** Processes load it, lock it and write it in different orders,
  and are killed in between. No two serve under one identity.
* **What tasks share.** Tokens are registered and revoked by tasks that overlap,
  requests are lost or late, both sides restart; an idle runner sweeps
  directories and networks while a task may begin. A token is accepted exactly
  while someone uses it, and a sweep takes nothing from a live job.
* **Job executor and steps.** The context may end between any two operations and
  the code then runs on with two other contexts, one of them with a fresh error
  container. Composite actions nest run contexts that share command files, an
  environment map and the log handler. Only the steps whose condition allows it
  run, post stages mirror main stages, failures are heard, what a step writes
  reaches the right one.
* **Clones of actions.** A job takes and gives back the lock of an action's
  directory up to five times, and the ref moves. What a job copies is one commit.
* **Cache server.** Handlers check an entry under the store's lock, let go of
  it, and work on files; collection, repeated requests and other jobs with the
  same key come in between. An archive that is restored is a whole one.
* **Plan executor, reusable workflows.** Combinations share one `Job` and one
  result; results of callees are collected in a map.
* **Environments.** Creation, start, exec and removal are interrupted at any
  point, on top of what a dead runner left under the same names; containers end,
  Pods are evicted, processes survive. Steps run in the job's own environment,
  their verdicts are true, and nothing is left.

## 2. Modules

| module | models | state and actions |
|---|---|---|
| `Reporter` | `reporter.go` | one action per critical section: a hook entry, a turn of the daemon's `select`, the snapshot of a report call, its return, a step of `Close`. `rpc` is the call that holds `clientM`, `srv` the server's copy, `produced` a history of all rows. |
| `TaskReport` | what a report promises | rows are appended, a prefix of them becomes visible, the result comes once after the last row. `Reporter` implements it, fairness included (`ImplementsFairReport`), as long as final flushes succeed. |
| `Poller` | `poller.go`, `CanAcceptTask` and the counts of `runner.go`, the shutdown of `daemon.go` | `pollPc` is the place of the loop, `runPc[r]` of the goroutine of a task, `mainPc` of the daemon's main goroutine; the server is `pending`, `known`, `version`; `once` tells `PollOnce` from `Poll`. |
| `TaskRun` | `Run` and `OnIdle` of `runner.go`, credentials and control plane of `handler.go` | `pc[t]` is where `Run` stands for a task, `refs` the registrations of tokens, `late` requests the client gave up on, `age` the directory and network of each task, `sweep` the sweep in progress. |
| `ActionDir` | `git.go`, `toolkit_patch.go`, preparation and copy of remote actions | `stage[j]` is where a job stands, `owner` the keyed lock; `repo`, `tree`, `script`, `original`, `marker` are what is on the disk. |
| `RunnerFile` | `register.go`, `registration.go`, the start of `daemon.go`, `lock*.go` | `proc[p]` is a process, what it runs and has in memory; `file`, `lockedBy`; `ids` and `declared` at the server. |
| `RunnerHost` | `TaskRun`, `ActionDir` and `RunnerFile` side by side | |
| `JobExecutor` | `job_executor.go`, status and start of `run_context.go`, `runStepExecutor`, `job_hooks.go`, the combinators of `executor.go` | `pc` and `step` follow the one goroutine; `ctxErr` is `Err()` of the job's, the detached and the post context, `cur` the one in use, `jobError` the error containers. |
| `StepTree` | `step.go`, `action.go`, `action_composite.go`, `step_run.go`, `step_action_*.go`, `command.go` | `stack` is the steps under way, outermost first; `rc[s]` the run context of the job or of a composite action, `global` the maps they share, `file` who wrote the command files last, `handler` who hears printed commands. |
| `JobRun` | `JobExecutor` and `StepTree` side by side | |
| `DockerJob` | `startJobContainer`, `cleanupJobResources`, `docker_*.go` | `pc` is the stage of the pipeline, `part` that of each service; `cont`, `fresh`, `health`, `net`, `vol`, `images` are the daemon's. |
| `StepContainer` | `step_docker.go`, `execAsDocker` and the same `docker_*.go` | one container beside that of the job: image, leftover, create, attach, start, wait. |
| `PodJob` | `run_context_kubernetes.go`, `act/container/kubernetes` | `pod` is the cluster's state, `wait` and `reason` those of the polled wait. |
| `HostJob` | `startHostEnvironment`, `host_environment.go`, `internal/pkg/process` | `at`, `captured`, `sent` follow one command, `alive` the processes it leaves, `scratch`, `work`, `late` the directories. |
| `Environment` | the four above as alternatives | what the job executor relies on, stated once for all backends |
| `PlanExecutor` | `NewPlanExecutor` and `handleFailure` of `runner.go`, the pipelines and workers of `executor.go`, `Executor` and `isEnabled` of `run_context.go`, `setJobResult`, `reusable_workflow.go` | `plan[p]` is where a plan is, `combo[c]` a combination with its local variables; `result`, `latch` and `holder` are the job that combinations share and its mutex, `told` what a caller heard. A called workflow is a plan of its own. What `JobExecutor` does inside is one choice of an outcome here. |
| `ArtifactCache` | `handler.go`, `handler_v2.go`, `storage.go` | `db` is the store, `tmp` and `blob` the files, `h[s]` a handler with its local variables, `job[j]` what a client has done. Work under one open store is one action, since bolt's file lock admits one opener; each file operation is one of its own. |
| `MC*` | the instances TLC checks | |
| `PollerProofs`, `PlanProofs`, `TaskRunProofs`, `RunnerHostProofs`, `ReporterProofs`, `JobRunProofs`, `EnvironmentProofs`, `ArtifactCacheProofs` | theorems | see section 5 |

**Side by side.** `JobRun`, `Environment` and `RunnerHost` do not multiply the
state of their parts: a behaviour is about one of them, and the others stay as
they began. This loses nothing, because no part reads a variable of another. The
variables that backends have in common (`pc`, `ctx`, `verdict`, `cmd`, `faults`) carry
the properties that are stated once for all of them. Where parts do share state they
are one module: the poller, its goroutines and the daemon's shutdown; tasks,
tokens and the sweep; a plan and the plans it calls.

A definition introduced by "Seeded defect" is a plausible bug: a variant of the
definition that follows it. The definition is replaced by the variant to see that
the property it is listed with in `PROJECT.json` notices. They take no part in
any run or proof.

### What the models leave out

* *Reporter.* Masking and the processing of log commands inside a row. The
  server handles a request before the client's call ends, successfully or not; a
  request that is handled after its client gave up is not modelled. No entry is
  logged after `Close`.
* *Poller.* The length of a back-off; the inside of a job, which runs, may hang,
  and ends by itself or when its context is cancelled.
* *TaskRun.* Which environment, presets and proxies a plan is given. A control
  request that the client gave up on is handled by an external server at any
  later time, or never.
* *ActionDir.* Credentials, submodules and the second attempt of a shallow clone.
  The commits of a ref are numbered in the order they are pushed; a job that finds
  its commit already there skips the fetch as the code does.
* *RunnerFile.* The questions of the dialogue are one choice of inputs. The waits
  for the backends before the declaration are one step.
* *JobExecutor.* What a stage does. It returns no error, an error of its own, or
  the error of its context; an error that wraps `context.Canceled` is returned
  only under a cancelled context.
* *StepTree.* The context of the job, which is `JobExecutor`'s; a step's own
  timeout is there. Post stages write nothing, composite actions have at least
  one step, conditions are `success()` and `always()`; each step writes one
  variable, so that its name stands for the value.
* *DockerJob, StepContainer.* Options, binds and mounts. A creation that
  fails may have been carried out, and the old image may do where a pull fails; containers end, report their health and are removed at any time.
* *PodJob.* The Pod's specification. Calls are refused, or carried out with the
  answer lost.
* *HostJob.* Shells and paths. The killer is that of unix.
* *PlanExecutor.* The evaluation of the matrix, of `if` and of
  `continue-on-error`, any of which has any value; outputs; jobs of one plan that
  share a name (the caller's map would mix them up); workflows from an action
  cache, which the program never configures.
* *ArtifactCache.* Contents beyond "this part, whole or short"; expiry of URLs
  (a request that is not made); two lengths of archives under one key; the two
  writes of `insertCache`, which happen under one open store, are one step.

### Not modelled

* Text: option strings of containers (`docker_cli.go`, adapted from docker's
  command line), pod specifications, the configuration file and its in-place
  editing, labels, expressions, masking, log layout. These are functions of their
  input without state; where one decides something, the models let it have any
  value. They are the larger part of the lines no definition maps.
* Windows: job objects, read-only attributes and delayed deletion, the search for
  leftover processes.
* Action caches and local repositories: only a program that embeds `act` can
  configure them; neither `daemon` nor `exec` does.
* Signatures and their expiry, the forwarding of artifact requests and the
  artifact server of `exec`: requests without shared state.
* Set-up of a task, RPC stubs, metrics and command-line front ends.

## 3. Runs

`tlc -config X.cfg MCModule` for each; each takes from seconds to three minutes.

| run | question | bounds and why they suffice |
|---|---|---|
| `reporter_log` | rows arrive once and in order, the window of a step holds its rows, no state change is forgotten, the result comes after the log, outputs and final state are complete | a step's line and a job's line before, after or during a call, and batch size 2, let an append fall into a call in flight and a notify be due; one output; one fault loses an answer or accepts a part; the deadline passes and calls outlast `Close`'s wait at any moment; the job has a result of its own or is given one by `Close`. `Bounds` of `MCReporter` allows two of rows, output, job result and deadline before `Close`, and two of fault, deadline, outlasted wait and own result in all: no property relates more of them at once |
| `reporter_live` | a user's cancel reaches a silent job and heartbeats end; `Close` returns; rows reach the server; the reporter implements `TaskReport` with its liveness | one line, one fault, two attempts: a failed call is retried and the last attempt is to spare |
| `poller` | capacity, `done`, identity, no late request, for `Poll` and `PollOnce`; a shutdown ends; an unregistered runner stops; no waiting task is hidden by the cached version | 2 tasks that the server may hand out again, 2 goroutines, capacity 2: the pool is full while the loop waits for a slot, or has one left while a job runs, and one task may be handed out twice; jobs that hang, one lost answer, health both ways |
| `job_steps` | which stages run, that failures are heard, the container is released, an interrupted job ends; inside the stages, that posts mirror mains and that environment, state, outputs and commands arrive | every pair of conditions over 2 steps, any end of the context, any failing stage; 4 trees of a composite action between scripts or inside another, local or remote, forgiven or with a timeout, with one failure or timeout anywhere |
| `plan` | recorded failures stay, stages keep their order, nothing outlives the plan, the verdict and the caller's result match the jobs, the plan ends | a task of two stages: a job that calls a workflow, then a plain job; in the workflow a job of two combinations beside one that calls another workflow, then a third job: two writers of one result, a plan inside a plan inside a plan, stages after a failure; every outcome of each combination, the context ends at any moment |
| `environments` | steps run in the job's own environment, a step passes only if its command did, a cancel kills the whole group, nothing is left, the reason of a failed start is true, every job ends | every kind of leftover; 2 services of which one has a health check, so that they are started and waited for in parallel; 2 failing calls, the second in the clean-up after the first; 2 steps on the host with a child that holds their output and a daemon that leaves the group |
| `runner_host` | a token is accepted while a task uses it, sweeps spare live jobs and reclaim the rest; jobs copy whole commits and a patched bundle has its original; no two processes serve one identity, a daemon runs as what the file says | 2 tasks with one token, so that one ends while the other runs, and one sweeps while the other begins; 2 jobs on one action whose ref moves once; 2 processes on a runner file that can be registered anew; 2 faults, or a failure and a crash |
| `cache` | file and entry agree, restored archives are the job's own and whole unless nobody knew their size, saved is found, collection keeps the newest usable entry | a v1 and a v2 job of one or two repositories or with one key or two, one a prefix of the other; 2 parts; 2 reservations; the clock goes on once (in one repository, without repeated requests), and the durations are 0, 1 and 2 ticks |

Bounds are constants of the modules (`MaxRows`, `MaxFaults`, `MaxAttempts`,
`Tasks`, `Runs`, `MaxIds`, `MaxVersion`, `MaxCrashes`, `MaxId`, `MaxTime`). The durations of the cache
keep their order where it matters: an abandoned upload is collected before an
unused entry, and that before an old one.

`cache` is cut down as well by the constraint `Bounds` of `MCArtifactCache`, as its
state is large. The two handlers are alike (symmetry). Jobs that save the same key of
the same repository either have two requests under way at once, or exactly one of them
repeats its requests; those may overtake each other as long as the other job has not
begun, and otherwise take turns. Jobs with different keys, or with one key in two
repositories, take turns and repeat nothing, and jobs do not differ in both. Where
requests are repeated or there are two repositories the clock stands still. Two commits of one reservation at once are kept out
(`OneCommitEach`), since they break the entry: that is what `cache_double` shows. The
theorems about `ArtifactCache` need nothing of this but `OneCommitEach`, and only two of
them need that.

A client may leave the size of its archive open, and then nothing notices a part that
is missing ("We can't check the size of the file, just skip the check"). The history
`unsized` has the entries committed so, which `ArchivesTrue` excepts.

Five runs do not check for deadlock, since what they model may stop. A cache
server whose clients are done, with the clock and the ids at their bound, has
nothing to do. A plan, the start and teardown of a job, the reporter after its
`Close` and the jobs of an action end; that they get there is `PlanEnds`,
`JobEnds`, `CloseReturns` and `JobsGetThrough`.

### Where the code and its words differ

Four runs end with a counterexample; `PROJECT.json` quotes the lines.

* `reporter_timeout`: after its 60 s wait `Close` closes `r.daemon` and goes on
  beside a daemon that is still in an RPC; the daemon closes the channel again
  and the process panics. (The final log mark may then also be sent without a
  row, which `FinalLogCarriesRows` and `ResultAfterLogs` except.)
* `job_leak`: a cancellation just after a successful start leaves the container.
* `job_result`: a cancelled job, and one whose deadline passes between two
  steps, report success.
* `cache_double`: two jobs with the same key finalize the same reservation; an
  entry is complete while its file is truncated.

Met while modelling and visible in the models without a run of their own. Where a
property would say otherwise, it names the exception.

*Reporter and poller*

* A final flush issued on a live `r.ctx` is aborted when the context ends, and
  only the retry is detached, although `closeTimeout`'s comment speaks
  of a context detached from `r.ctx` (`Aborted`).
* Rows added by `Logf` notify nobody and wait for the log ticker with the latency
  timer unarmed, although `maxLatencyTimer` is said to bound the first row's wait.
* Health checks run while a job has just been started or is flushing its report,
  since the count of running jobs does not cover these two moments (`ProbeBegin`).

*Runner file*

* `daemon` loads the registration before it takes the lock. It may run as, and
  write back, an identity that a concurrent `register` has replaced, although
  `register` says "Refuse to rewrite the runner file while another process is
  using it" (`Load`, `DaemonLocks`; the exception of `RunsWhatFileSays`).
* `SaveRegistration` truncates the file in place: a crash leaves it empty or cut
  short (`Truncate`, `Encode`, `TornOnlyByTrouble`). A lost answer to `Register` leaves
  a runner at the server that nobody uses (`Ask`).
* `register` without arguments fails at once for want of a token (`initInputs`), although
  `src/README.md` shows a dialogue that asks for it.

*Tasks and actions*

* `registerExternalCacheJob` revokes a token also when its registration failed, which takes
  the registration of another task that shares it (`TokenFollowsTask` holds for an external
  server until the first fault).
* Between the patch and the copy of an action another job's preparation may reset the
  bundle, so that a job runs the unpatched one, contrary to the comment beside the
  preparation in `step_action_remote.go`. The skip marker is looked for without the lock. The
  action file a job has read may be of another commit than what it copies.
* In offline mode a clone that a crash cut short is never repaired: every later
  job that uses the action fails.

*Steps*

* A failure in the pre stage of a composite action's step is only logged. A step
  that could not be prepared, or whose command files could not be read, inside a
  composite action does not stop the `success()` steps after it.
* A composite action reads the command files of its last step once more, so that what that
  step put out becomes the action's own, also over declared outputs.
* What such a pre stage sets in the environment stays in the composite action's
  map, and its main stage brings it back over newer values (the exception of `LatestSeen`).
* A composite action that cannot be copied again for its post stage loses the post
  stages of its steps (the exception of `PostsMirrorMains`). A failing post stage
  inside one fails the result of the job and does not mark it failed.

*Environments*

* `logDockerResponse` takes a failed call to build an image, which has no response, for a
  success: an image of an earlier build is then run even where a rebuild is forced
  (`Build`; `RunsOwnImage` holds until a call fails).
* The container of a cancelled docker step is not killed, and stays (the
  exception of `NoStepContainerLeft`). One that ended and was removed before the runner
  waits for it fails the step (`CallWait`).
* A start that fails before the clean-up is armed leaves what it found, and
  one cancelled while an earlier failure is cleaned up leaves what is left by then (`unarmed` and
  `cut`, the exceptions of `NothingLeftBehind` and `NoPodLeft`).

*Cache and plans*

* v1's `upload` touches its entry only after a part has been written, so a part
  that takes longer than `keepTemp` is collected in the middle (`UploadTouch`).
* A combination whose `if` cannot be evaluated writes the shared job result
  without the job's mutex, and the write can be lost to a combination that has
  read the result before (`Undecidable`, `LockJob`, `Store`); the job may then
  end as a success, although the plan ends with an error (`VerdictSound`).
* The combinations of a job in a called workflow tell the caller their value
  after they have given back the mutex, so that an older "success" may replace
  a tolerated "failure" (`Tell`).
* A job of a called workflow that is skipped for its platform stays "pending",
  and the calling job ends without a result (`Unsupported`, `CallerResult`).

## 4. Fairness

* *Reporter.* The daemon goroutine and `Close` keep running, and RPCs return
  (their contexts have deadlines): weak fairness. A case of the daemon's
  `select` that is ready again and again is chosen in the end, as Go picks
  uniformly among ready cases: strong fairness of the single cases.
* *Poller.* The loop and the goroutines keep running; the same for the cases of
  its selects; a job ends when its context is cancelled (`Fairness`), and, where
  `TaskFetched` assumes it, in the end by `runner.timeout` (`JobsEnd`), while
  health checks that are made again and again succeed in the end (`Recovers`);
  the shutdown timer fires.
* *TaskRun.* Each blocking call of `Run` has a timeout, `runner.timeout` included; the
  poller calls `OnIdle` whenever a fetch brings nothing, and a started sweep goes
  on; a supervisor restarts a runner that died; time passes. Faults are bounded, so that
  a removal that is tried again and again succeeds.
* *ActionDir.* The goroutine of each job goes on and its git calls return. The keyed
  lock is a Go mutex: a job wants it at most five times, so that weak fairness
  lets each of them have it in the end.
* *JobExecutor.* The executor itself keeps running, a start ends, the deadline
  of a detached context passes, and a stage ends when its context has ended. A
  stage under a live context may hang forever.
* *Environments.* The runner's steps go on, its calls return, since each wait has a
  timeout or a context with one; the command of a step ends, by `runner.timeout` if not
  before, and a container or Pod that is told to end does. On the host a command
  may run, and survive, for ever: only the deadline of the task is sure.
* *PlanExecutor.* The goroutines of plans and combinations keep running, and a
  job ends, which under an interrupt is `InterruptedJobEnds`. A combination takes
  the mutex once, so weak fairness lets it have it in the end.

## 5. Proofs

The theorems hold for every value of the constants that satisfies the named
assumption of the module. None of the properties is inductive by itself; each
module has invariants that are (`IInv`, or one for each part of the model), one
lemma for each action or group of actions, and theorems that read the properties
off them. TLC checks every invariant that a theorem states on an instance as well.

| module | theorems |
|---|---|
| `ReporterProofs` | `Typed`, `LogStaysTrue`, `ChangesRemembered`, `LogBeforeResult`, `FinalReport`, `OnlySlowCallsHurt`, `ImplementsReport` |
| `PollerProofs` | `Typed`, `CapacityIsRespected`, `ShutdownIsOrderly`, `NoLateRequest` |
| `PlanProofs` | `Typed`, `FailuresStay`, `StagesAreOrdered`, `EndsAreSound` |
| `JobRunProofs` | `JobTyped`, `ConditionsHold`, `NoFailureLost`, `ContainerIsGone`, `StateIsOwn`, `WritesArrive`, `FailuresAreHeard`, `StagesAreSound` |
| `EnvironmentProofs` | `Typed`, `NothingIsLeft`, `StepsAreSound`, `ReasonsAreTrue` |
| `TaskRunProofs` | `Typed`, `TokensFollowTasks`, `LiveJobsAreLeftAlone` |
| `RunnerHostProofs` | `HostTyped`, `CopiesAreWhole`, `OriginalsAreKept`, `NoTwinsEver`, `DaemonsRunWhatFileSays`, `TornByTroubleOnly`, `SharedFilesAreSound`, `HostTasksAreSound` |
| `ArtifactCacheProofs` | `Typed`, `RestoresAreOwn`, `NewestIsKept`, `ArchivesAreTrue`, `SavedAreFound` |

Every safety invariant and action property of a passing run is a theorem. What is
left to TLC is liveness.

`PollerProofs` proves for any sets of tasks and goroutines and any capacity, from
`ConstantsAssumption` alone (finite sets, positive capacity), that the state keeps
its type and that `CapacityRespected`, `ShutdownOrder` and `NoRequestAfterStop` hold.
The invariant adds:

* `SlotCount`: `sem` is the number of goroutines that hold a slot, plus one while
  the loop itself holds the slot it has not passed on; with it, `sem <= Capacity`
  is the capacity property. Its steps need the cardinality of the holders when
  one is added or removed (`HolderAdded`, `HolderRemoved`, `HoldersKept`).
* `OneRun`: `PollOnce`, which has no slots, starts at most one goroutine.
* `Teardown`: the main goroutine is past `Shutdown` only if the poller is done,
  and the cache server and the lock are given up only then.
* `Stopped`: an unregistered runner has stopped polling.
* `HasTask`: a goroutine that was started has a task.

`OnceStays` says that a behaviour stays with `Poll` or `PollOnce`. `NoLateRequest` is
an action property that follows from `Stopped`.

`PlanProofs` proves for any plans, jobs, combinations and worker counts, from the
`ConstantsAssumption` of `PlanExecutor` (each calling combination has a plan of
its own, and a job calls with all its combinations or with none), the type,
`FailureKept`, `StagesInOrder` and `EndSound`. Its invariant joins three parts:

* `KeptInv`: only the holder of the mutex is about to store (`Exclusive`); what it
  stores is a failure if it failed, or if another combination of the job has
  recorded one (`StoreKeeps`); a value exists exactly from the mutex on, and never
  for a calling combination, so that `Return`, which writes the result of its own
  job, meets no recorded failure (`NoValueYet`, `HasValue`). `FailureKept` alone is
  not inductive: a combination could have read the result before the failure.
* `StageInv` and `Unbegun`: combinations of later stages have not begun, those of
  earlier ones are over without an error, a plan that has not begun is at stage 0.
  It also gives `KeptInv` its step for `BeginStage`: what is queued had not begun.
* `EndInv`, for what the end of a plan says. *Nothing runs after it* (`Quiet`): a
  combination is under way only in the stage of its plan (`InStage`), a running plan has
  its caller wait for it (`CallersWait`), and a set of running plans without that of the
  task is called from outside itself (`Rooted`). The last replaces an induction over
  the depth of calls: applied to all plans but the task's, it says that none of them
  runs when the task's is done. *An error has a reason* (`Reasons`): an executor that
  returned one is over, a recorded failure has set the job's latch, and a latch is firm
  only for a failure that was not tolerated. *A caller hears the truth* (`Callers`):
  the outcome of a calling job is blamed on a combination of the called plan that
  recorded it, and before the call is over it has none.

`TaskRunProofs` proves for any finite set of tasks, sharing tokens in any way, from
`TaskRunAssumption`, the type, `TokenFollowsTask` and `LiveJobsLeftAlone`:

* `CountKept`: `runningCount` is the number of tasks between its increment and its
  deferred decrement. A sweep begins at zero, so there is no job then.
* `NothingLate` and `TokensKept`: while the count of a token can be relied on, no
  request is late, and the count is the number of tasks that hold the token;
  a registration adds a holder and a revocation removes one.
* `JobHolds`: a task before its job has neither directory nor network, a job in
  progress has both, and a network without a container is younger than `CleanupAge`.
* `SweepSpares`: what a sweep has listed as expired is of a task that is past its
  job, or a network with a container on it, which the daemon refuses to remove. A
  task that begins while the sweep runs is therefore not on the list, although the
  sweep does not look at the count again.

The age of a network without a container rests on an assumption about the
surroundings, which `Tick` states (`StartsTakeLess`): from the creation of its
network to its first container a job takes less than `CleanupAge`, a day by default.

`RunnerHostProofs` proves for any processes, label sets, jobs, commits, failures and
crashes the type of `RunnerHost` and `SharedFilesSound`, and each part of it by itself.
`RunnerHost` takes `RunnerFile` and `ActionDir` by INSTANCE; what it assumes of their
constants is `HostAssumption`. `HostBehaves` shows that a behaviour of the host is one
of each of its parts, so that what is proved of a part holds of the host; it brings
over the theorems of `TaskRunProofs` too.

* `FileInv`, of the runner file: with a lock file, whoever is past the lock holds it
  (`HolderLocks`); a daemon that was not overtaken has in memory what the file holds, and
  once it has declared them the server knows its labels (`InMemory`); only a daemon
  serves, and it has an identity (`Serving`). A file that cannot be read is a write that
  failed, was cut off or is under way (`TornByTroubleOnly`).
* `ActionInv`, of an action's directory: a job in a section holds the keyed lock, so
  that it is alone there (`LockHeld`); what it has found (an empty clone, a torn worktree,
  an unpatched bundle with its original written) stays so until it leaves (`Working`); a
  patched bundle is whole and has the original of its commit, and the bundle of a whole
  worktree is of the commit of the worktree (`PairKept`); between a job's own prepare
  and its copy the worktree is whole or another job's reset is under way, which ends
  before the copy, as that needs the lock (`StaysWhole`).

`ReporterProofs` proves for any number of steps, rows, outputs, attempts and faults, from
`ConstantsAssumption`, every invariant of `reporter_log` and the refinement of
`TaskReport`. For the type and `LogTrue`, which joins `LogFidelity` and `StepWindows`:

* `LogKept`: the buffer is what was produced from `logOffset` on, the server has the
  beginning, at least as far as `logOffset`. A failed call leaves the server ahead of the
  buffer, and the next call overlaps with what it has (`ServerFollows`).
* `CallKept`: the rows in flight are those after `logOffset`, since only the call
  that holds `clientM` moves it; rows appended meanwhile come after them.
* `WindowsKept`: also the converse of `StepWindows`, that a step without a window has no
  row, or its first line could not open one.
* `OpenAtEnd`: the window of the step under way reaches to the end of the log. This
  is where `duringSteps` matters: once the step has a window the lines of others are
  dropped (`DuringStep`).
* `InTurn`: the steps before the one under way have a result, those after it
  neither a result nor a window, which makes `duringSteps` true in time.

For what `Close` leaves behind, `EndInv` follows its steps: where it is, whose call is
in flight (`Places`, `CallPlaces`), that it has a row left to carry NoMore unless it gave
up on the daemon (`RowsLeft`), that the log is archived when it is whole (`LogDone`),
that nobody else sends a result and that it comes last, with every step resolved
(`ResultLast`, `AllResolved`), and that a report begun after the last change is of the
final state, so that one of the daemon's that is still in flight does no harm
(`FinalSent`, `OutputsAsked`, `OutputsDelivered`). `Patience` counts: each failed attempt
of a flush costs a fault, but for the one call that the end of `r.ctx` aborts.

`OnlySlowCallsHurt` and `ImplementsReport` have hypotheses, as the code does not do
better: no call outlasts the wait of `Close` (`~SlowRpc`; `reporter_timeout` shows what
happens otherwise), and there are more attempts than can fail (`Persistent`), since a flush
that gives up delivers nothing. `ImplementsReport` maps each step to one of `TaskReport`
or a stutter. That is the safety part of `ImplementsFairReport`, which TLC checks.

`JobRunProofs` proves for any steps, conditions, trees of actions and faults the type
of both parts of `JobRun` and all of its safety properties.

* `IInv`, of the executor, whatever its stages return and whenever the context ends:
  where it is (`Places`), which steps may have begun or ended (`Reached`), what
  `jobFailed`, `jobCancelled` and the context in use say of each other (`Marked`), that
  each failure is in the error container of the stages it belongs to (`Boxed`), that
  posts run in the reverse order of the mains they follow (`PostsSoFar`), and what the
  teardown has done (`TornDown`). From it `ContainerGone` and the executor's halves of
  `StagesSound` and `FailuresHeard` (`ConditionsHold`, `NoFailureLost`); the other halves
  are of the stages, below.
* `InsideInv`, of the stages, in any tree: the stack is a path of the tree with the
  run contexts it needs (`Nested`), printed commands are heard by the handler of the
  innermost composite action under way, and each remembers who heard them before
  (`Handled`), and the command files are empty or written by the innermost step (`Filed`).
  From it `OwnState`, the first part of `CommandsArrive`.

* `SeenInv`, beside `InsideInv`, of the values. A run context inside of another one may
  have a newer value than the one around it, until `execAsComposite` merges it, and then
  the outer one may have none, an old one, or share the map in which the newer one is.
  `Seen` says of the row of run contexts around the innermost step that one is up to date
  unless a context further in has set a variable; the last one always is. What is shared
  follows from when a context can have a map (`Maps`), that a composite action whose
  main stage is to come has its parent's or none (`Inherited`), that every composite
  action under way has its context (`MadeUp`), and that main stages come in turn, so
  that this one cannot have been run before (`Turn`). The steps change a row in three
  ways, each a lemma on any row: a value is set (`WrittenRow`), a copy is made (`NewRow`)
  or merged (`MergedRow`). From it `LatestSeen`, and so all of `CommandsArrive`.

The assumption on trees, `TreesAssumption`, says that a step is listed once and that no
step has the name of a sentinel of the model; it does not bound their depth or width.

The other two properties follow a failure, or a stage, through the levels of the tree.
An argument by recursion over the tree would be an induction over data, which the
provers do not do. `StepTree` therefore defines what is around a step without recursion: `Around(n)`
is the intersection of the sets that have `n` and, with a step, the run context that
lists it (`Closed`). Lemmas give it the shape of a path: `AroundStep` (the steps around
a child are the child and those around its run context), and `RootedChild` (a child of a rooted
step is rooted).

* `Rows`: the steps under way are the path around the innermost one (`Rooted`), and each is
  the one its run context is at, counted from the end in the post stage (`Nth`).
* `FailInv`, for `FailuresHeard`. A refused command is still to be taken by its step
  (`Refusing`); a failure that nothing swallows has set the error of the job, or one
  of the steps under way around it has the error, or has failed, and will hand it on
  (`Told`); while a step of the job that runs on success only is under way, such failures are
  inside of it (`Spared`). The step that returns hands on what it has: `rc.err` of
  the context around it, for which `Told` needs the whole path.
* `StageInv`, for `StagesSound`. An order on steps, by the run context at which their paths
  part (`Precedes`), is asymmetric on rooted paths; `Past(n)` says that a context under way has
  gone past the step around `n`. The main stages run in that order (`MainsOrdered`) and are
  exactly the steps with a conclusion, inside of actions that have one (`MainsInside`,
  `MainsNoted`); the posts run in the reverse of it (`PostsOrdered`), each for a main
  stage that is owed one (`PostsOwed`). What ran, is past (`MainsPast`, `PostsPast`), so that
  what comes next does not come before it; and of what is past, nothing that is owed a post is
  left out (`PostsMet`), unless it or what is around it was lost. When the
  stages are over everything is past, and the order makes posts mirror mains.

What one step does to the turn, the errors and the history is stated once for each kind of
step (`EarlyFor`, `EnterFor`, `LeaveFor`, and the lemmas `RanIs`, `ChildrenAre`), and the
lemmas on each part of the invariants start from there.

`EnvironmentProofs` proves for any services, processes, steps and failing calls every
safety property of the run. `IInv` has a part for each backend: what a stage of the
start has set up, and what one of the teardown has removed, stays so until the stage
that undoes it, unless a call has failed.

* `DockerInv`: on which context a clean-up runs (`DockerContexts`); that one in which
  no call and no context has failed has removed what its stage says
  (`DockerRemoves`); that after the leftovers are removed what there is, is this job's
  (`DockerOwns`); that what has been set up stays so (`DockerUp`).
* `PodInv`: the clean-up is armed before the job can have a Pod (`PodArmed`), and from
  the wait on the Pod under its name, if there is one, is its own (`PodOwn`). `ReasonTrue` is an action property.
* `HostInv`: which directories and processes are there (`HostFiles`, `HostCommand`).
* `StepInv`: the container of a docker step is of its own image where the build is
  forced (`StepImage`), and whose container has the step's name at each stage (`StepBox`).

`ArtifactCacheProofs` proves for any jobs, handlers, parts, ids and durations:

* without a hypothesis, the type, `GcKeepsNewest` and that a job restores only
  what its own repository saved under a key it asked for (`Served`), two commits of an
  entry included. `Sound` is inductive: a handler holds a copy of an entry it has read
  before the store was closed, and as ids are never used again, the entry under that id is
  still of the same repository and key, or gone. `NewestIsKept` needs that the newest
  usable entry of a key, if a step takes it, is outlived by another
  (`UsableIsOutlived`).
* `ArchivesTrue` and `SavedIsFound`, as long as no two handlers commit one entry at
  once (`OneCommitEach`, without which `cache_double` shows them false). `Whole` adds
  that a complete entry has a file with what it says (`EntryWhole`), that a commit has
  an incomplete entry and has counted what is in its file (`CommitWhole`), that nobody
  commits what somebody reads (`ReadWhole`, `Apart`). Steps are of five kinds: they reserve,
  go on with a commit, complete an entry, collect, or touch none of this (`StepKinds`).

Model-checked only: the liveness properties, which need fairness and `ENABLED`
(`RowsReachServer`, `CloseReturns`, `Heartbeats`, `PollingEnds`, `TaskFetched`,
`InterruptedJobEnds`, `PlanEnds`, `JobEnds`, `NothingStays`), and the fair half of
`ImplementsFairReport`. What a recursive definition computes for all inputs would need
induction over data; no module with proofs declares a recursive operator.

## 6. What is left

* Requests of the reporter that the server handles after the client gave up:
  what the server makes of a report on a finished task is not in the repository.
* The same for a task whose assignment is lost with the answer to `FetchTask`.
* `ArtifactCache` with archives of different lengths under one key.
