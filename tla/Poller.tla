------------------------------- MODULE Poller -------------------------------
(***************************************************************************)
(* internal/app/poll/poller.go with the parts of internal/app/cmd/daemon.go*)
(* and internal/app/run/runner.go it works with: the poll loop that fetches*)
(* tasks while a slot of sem is free, one goroutine per task (Run), the    *)
(* local admission check and idle maintenance, and the daemon's shutdown.  *)
(*                                                                         *)
(* A run is one goroutine the poller starts for a fetched task.  The       *)
(* server is modelled from how fetchTask uses it: a request that carries   *)
(* the server's current version gets no task.                              *)
(***************************************************************************)
EXTENDS Integers, FiniteSets

CONSTANTS
    Tasks,          \* bound: tasks the server ever has
    Runs,           \* bound: goroutines the poller may start
    Capacity,       \* cfg.Runner.Capacity
    HealthResults,  \* what a health check may find; {}: checks are disabled
    MaxFaults,      \* bound: fetches that fail or whose answer is lost
    Redeliver,      \* may the server hand out a task again?
    NoTask

ASSUME ConstantsAssumption ==
    /\ IsFiniteSet(Tasks) /\ IsFiniteSet(Runs)
    /\ Capacity \in Nat \ {0}
    /\ Redeliver \in BOOLEAN
    /\ HealthResults \subseteq BOOLEAN
    /\ MaxFaults \in Nat
    /\ NoTask \notin Tasks

VARIABLES
    once,          \* the daemon has called PollOnce, not Poll
    pollPc,        \* where Poll, or PollOnce, is
    sem,           \* slots taken
    polling,       \* pollingCtx is alive
    jobs,          \* jobsCtx is alive
    unregistered,
    tasksVersion,
    reqVersion,    \* the version the request in flight carries
    runPc,         \* where each run is
    runTask,       \* the task each run was given
    runningTasks,  \* Runner.runningTasks
    runningCount,  \* Runner.runningCount
    health,        \* cached health status: "unset", "good" or "bad"
    mainPc,        \* where the daemon's main goroutine is
    cacheOpen,     \* the runner's cache server is up
    lockHeld,      \* the daemon holds the lock on its runner file
    pending,       \* server: tasks waiting for a runner
    known,         \* server: tasks created so far
    version,       \* server: latest tasks version
    faults

loopVars   == <<pollPc, sem>>
ctxVars    == <<polling, jobs, unregistered>>
fetchVars  == <<tasksVersion, reqVersion>>
runVars    == <<runPc, runTask, runningTasks, runningCount>>
mainVars   == <<once, mainPc, cacheOpen, lockHeld>>
serverVars == <<pending, known, version, faults>>
vars == <<loopVars, ctxVars, fetchVars, runVars, health, mainVars, serverVars>>

\* The states in which a run occupies its slot, and in which it is not over.
Holding == {"spawned", "rejected", "checked", "running", "closing", "leaving"}
Live == Holding \cup {"left"}

Init ==
    /\ once \in BOOLEAN
    /\ pollPc = "acquire" /\ sem = 0
    /\ polling = TRUE /\ jobs = TRUE /\ unregistered = FALSE
    /\ tasksVersion = 0 /\ reqVersion = 0
    /\ runPc = [r \in Runs |-> "none"] /\ runTask = [r \in Runs |-> NoTask]
    /\ runningTasks = {} /\ runningCount = 0
    /\ health = "unset"
    /\ mainPc = "serve" /\ cacheOpen = TRUE /\ lockHeld = TRUE
    /\ pending = {} /\ known = {} /\ version = 0
    /\ faults = 0

-----------------------------------------------------------------------------
(* The poll loop.                                                          *)

\* The loop goes from one place to the next and only health may change.
Loop(from, to) ==
    /\ pollPc = from /\ pollPc' = to
    /\ UNCHANGED <<ctxVars, fetchVars, runVars, mainVars, serverVars>>

\* Seeded defect: one slot too many.
SlotOrOneMore == sem <= Capacity

SlotFree == sem < Capacity

\* sem <- struct{}{}; PollOnce has no slots.
Acquire ==
    /\ Loop("acquire", "available")
    /\ IF once THEN UNCHANGED sem ELSE SlotFree /\ sem' = sem + 1
    /\ UNCHANGED health

\* <-p.pollingCtx.Done() while waiting for a slot.
AcquireStopped ==
    /\ ~once /\ ~polling
    /\ Loop("acquire", "drain")
    /\ UNCHANGED <<sem, health>>

\* CanAcceptTask without a check: disabled, or deferred to the cached status
\* while jobs are running.
AvailableCached ==
    /\ HealthResults = {} \/ runningCount > 0
    /\ Loop("available", IF HealthResults # {} /\ health = "bad" THEN "idle" ELSE "fetch")
    /\ UNCHANGED <<sem, health>>

\* CanAcceptTask begins the disk check and the health script.
ProbeBegin ==
    /\ HealthResults # {} /\ runningCount = 0
    /\ Loop("available", "probing")
    /\ UNCHANGED <<sem, health>>

ProbeEnd(ready) ==
    /\ ready \in HealthResults
    /\ Loop("probing", IF ready THEN "fetch" ELSE "idle")
    /\ health' = IF ready THEN "good" ELSE "bad"
    /\ UNCHANGED sem

\* fetchTask sends its request, or fails on a context already cancelled.
FetchBegin ==
    /\ pollPc = "fetch"
    /\ pollPc' = IF polling THEN "reply" ELSE "idle"
    /\ reqVersion' = tasksVersion
    /\ UNCHANGED <<sem, ctxVars, tasksVersion, runVars, health, mainVars, serverVars>>

\* The server gives task t for the request in flight.
HandOut(t) ==
    /\ pollPc = "reply"
    /\ reqVersion # version
    /\ t \in IF Redeliver THEN known ELSE pending
    /\ pending' = pending \ {t}
    /\ UNCHANGED <<known, version>>

\* Seeded defect: the version of the answer is kept although tasks may remain.
KeepVersion == tasksVersion' = version

\* The version of the answer replaces an older one, and is then set to zero so
\* that the next request makes the server look for more.
ForceQuery ==
    LET updated == IF version > reqVersion /\ tasksVersion = reqVersion
                   THEN version ELSE tasksVersion
    IN  tasksVersion' = IF updated = version THEN 0 ELSE updated

\* Goroutines are all alike: the next one that has not been used.
NextRun == CHOOSE r \in Runs : runPc[r] = "none"

\* fetchTask returns task t and the loop starts a goroutine for it; PollOnce
\* runs it and waits.
FetchTask(r, t) ==
    /\ runPc[r] = "none" /\ r = NextRun
    /\ HandOut(t)
    /\ ForceQuery
    /\ pollPc' = IF once THEN "drain" ELSE "acquire"
    /\ runPc' = [runPc EXCEPT ![r] = "spawned"]
    /\ runTask' = [runTask EXCEPT ![r] = t]
    /\ UNCHANGED <<sem, ctxVars, reqVersion, runningTasks, runningCount, health,
                   mainVars, faults>>

\* The server has no task for the request: the answer is empty, or the long
\* poll times out, which is the healthy idle path.
FetchEmpty(timedOut) ==
    /\ pollPc = "reply" /\ pollPc' = "idle"
    /\ reqVersion = version \/ pending = {}
    /\ tasksVersion' = IF ~timedOut /\ version > reqVersion THEN version ELSE tasksVersion
    /\ UNCHANGED <<sem, ctxVars, reqVersion, runVars, health, mainVars, serverVars>>

\* The request fails, or its context ended (polling stopped, FetchTimeout),
\* possibly after the server had given a task, which is then lost to this
\* runner.
FetchFailed ==
    /\ pollPc = "reply" /\ pollPc' = "idle"
    /\ IF polling THEN faults < MaxFaults /\ faults' = faults + 1 ELSE UNCHANGED faults
    /\ \/ UNCHANGED <<pending, known, version>>
       \/ \E t \in Tasks : HandOut(t)
    /\ UNCHANGED <<sem, ctxVars, fetchVars, runVars, health, mainVars>>

\* Seeded defect: polling goes on.
NoteUnregistered == unregistered' = TRUE /\ UNCHANGED polling

StopUnregistered == unregistered' = TRUE /\ polling' = FALSE

\* Unauthenticated: the server no longer knows this runner.
FetchUnauthenticated ==
    /\ pollPc = "reply" /\ pollPc' = "idle"
    /\ faults < MaxFaults /\ faults' = faults + 1
    /\ StopUnregistered
    /\ UNCHANGED <<sem, jobs, fetchVars, runVars, health, mainVars, pending,
                   known, version>>

\* runIdleMaintenance: OnIdle cleans up when no job is counted and the last
\* clean-up is old enough.
IdleClean == runningCount = 0 /\ Loop("idle", "cleaning") /\ UNCHANGED <<sem, health>>

\* Seeded defect: PollOnce gives back a slot it never took.
GiveBackAlways == sem - 1

GiveBack == IF once THEN sem ELSE sem - 1

\* The clean-up is over, or was not due: give the slot back and wait.
Release ==
    /\ pollPc \in {"idle", "cleaning"}
    /\ Loop(pollPc, "backoff")
    /\ sem' = GiveBack
    /\ UNCHANGED health

\* waitBackoff: the timer, or the end of polling.
BackoffOver == Loop("backoff", "acquire") /\ UNCHANGED <<sem, health>>
BackoffStopped == ~polling /\ Loop("backoff", "drain") /\ UNCHANGED <<sem, health>>

\* Seeded defect: done is closed while goroutines of the loop still run.
NothingToWaitFor == TRUE

AllOver == \A r \in Runs : runPc[r] \notin Live

WaitOver == AllOver

\* wg.Wait and close(p.done)
Drained == WaitOver /\ Loop("drain", "done") /\ UNCHANGED <<sem, health>>

-----------------------------------------------------------------------------
(* Run.                                                                    *)

\* Run r goes from one place to the next.
Move(r, from, to) ==
    /\ runPc[r] = from /\ runPc' = [runPc EXCEPT ![r] = to]
    /\ UNCHANGED <<pollPc, ctxVars, fetchVars, runTask, health, mainVars, serverVars>>

\* runningTasks.Load, apart from the Store that follows.
RunCheck(r) ==
    /\ Move(r, "spawned", IF runTask[r] \in runningTasks THEN "rejected" ELSE "checked")
    /\ UNCHANGED <<sem, runningTasks, runningCount>>

RunBegin(r) ==
    /\ Move(r, "checked", "running")
    /\ runningTasks' = runningTasks \cup {runTask[r]}
    /\ runningCount' = runningCount + 1
    /\ UNCHANGED sem

\* The job ends, by itself or because jobsCtx ended: the count goes down
\* before reporter.Close flushes.
RunEnd(r) ==
    /\ Move(r, "running", "closing")
    /\ runningCount' = runningCount - 1
    /\ UNCHANGED <<sem, runningTasks>>

\* reporter.Close has returned.
RunClosed(r) ==
    /\ Move(r, "closing", "leaving")
    /\ runningTasks' = runningTasks \ {runTask[r]}
    /\ UNCHANGED <<sem, runningCount>>

\* defer func() { <-sem }()
RunLeaves(r) ==
    /\ runPc[r] \in {"rejected", "leaving"}
    /\ Move(r, runPc[r], "left")
    /\ sem' = GiveBack
    /\ UNCHANGED <<runningTasks, runningCount>>

\* defer wg.Done()
RunDone(r) ==
    /\ Move(r, "left", "over")
    /\ UNCHANGED <<sem, runningTasks, runningCount>>

-----------------------------------------------------------------------------
(* The daemon's main goroutine.                                            *)

\* The main goroutine goes from one place to the next.
Main(from, to) ==
    /\ mainPc = from /\ mainPc' = to
    /\ UNCHANGED <<once, loopVars, unregistered, fetchVars, runVars, health, serverVars>>

\* A signal, or a poller that stopped itself: Shutdown ends polling.
ShutdownBegin ==
    /\ Main("serve", "graceful")
    /\ polling' = FALSE
    /\ UNCHANGED <<jobs, cacheOpen, lockHeld>>

\* Seeded defect: the forced shutdown leaves the jobs alone.
KeepJobs == UNCHANGED jobs

CancelJobs == jobs' = FALSE

\* The shutdown timeout runs out with work under way: cancel the jobs.
ShutdownForced ==
    /\ pollPc # "done"
    /\ Main("graceful", "forced")
    /\ CancelJobs
    /\ UNCHANGED <<polling, cacheOpen, lockHeld>>

PollerDone == pollPc = "done"

\* <-p.done, in time or after the forced shutdown: Shutdown returns.
ShutdownReturns ==
    /\ PollerDone
    /\ Main("graceful", "returned") \/ Main("forced", "returned")
    /\ UNCHANGED <<polling, jobs, cacheOpen, lockHeld>>

\* The deferred calls, in their order: runner.Close, then releaseLock.
CloseRunner ==
    /\ Main("returned", "closed")
    /\ cacheOpen' = FALSE
    /\ UNCHANGED <<polling, jobs, lockHeld>>

ReleaseLock ==
    /\ Main("closed", "exited")
    /\ lockHeld' = FALSE
    /\ UNCHANGED <<polling, jobs, cacheOpen>>

-----------------------------------------------------------------------------
\* Tasks are all alike: the next one that the server has not had.
NextTask == CHOOSE t \in Tasks : t \notin known

\* The server gets a task for this runner, which bumps the version.
NewTask(t) ==
    /\ t \in Tasks \ known /\ t = NextTask
    /\ pending' = pending \cup {t}
    /\ known' = known \cup {t}
    /\ version' = version + 1
    /\ UNCHANGED <<loopVars, ctxVars, fetchVars, runVars, health, mainVars, faults>>

LoopStep ==
    \/ Acquire \/ AcquireStopped \/ AvailableCached \/ ProbeBegin
    \/ \E ready \in BOOLEAN : ProbeEnd(ready)
    \/ FetchBegin
    \/ \E r \in Runs, t \in Tasks : FetchTask(r, t)
    \/ \E timedOut \in BOOLEAN : FetchEmpty(timedOut)
    \/ FetchFailed \/ FetchUnauthenticated
    \/ IdleClean \/ Release \/ BackoffOver \/ BackoffStopped \/ Drained

RunStep(r) ==
    RunCheck(r) \/ RunBegin(r) \/ RunEnd(r) \/ RunClosed(r) \/ RunLeaves(r) \/ RunDone(r)

ShutdownStep == ShutdownForced \/ ShutdownReturns \/ CloseRunner \/ ReleaseLock

\* The process has ended.
Terminated == mainPc = "exited" /\ UNCHANGED vars

Next ==
    \/ LoopStep
    \/ \E r \in Runs : RunStep(r)
    \/ ShutdownBegin \/ ShutdownStep
    \/ \E t \in Tasks : NewTask(t)
    \/ Terminated

Spec == Init /\ [][Next]_vars

-----------------------------------------------------------------------------
\* Every variable keeps its type.
TypeOK ==
    /\ once \in BOOLEAN
    /\ pollPc \in {"acquire", "available", "probing", "fetch", "reply", "idle",
                   "cleaning", "backoff", "drain", "done"}
    /\ sem \in Nat
    /\ polling \in BOOLEAN /\ jobs \in BOOLEAN /\ unregistered \in BOOLEAN
    /\ tasksVersion \in Nat /\ reqVersion \in Nat /\ version \in Nat
    /\ runPc \in [Runs -> Live \cup {"none", "over"}]
    /\ runTask \in [Runs -> Tasks \cup {NoTask}]
    /\ runningTasks \subseteq Tasks
    /\ runningCount \in Int
    /\ health \in {"unset", "good", "bad"}
    /\ mainPc \in {"serve", "graceful", "forced", "returned", "closed", "exited"}
    /\ cacheOpen \in BOOLEAN /\ lockHeld \in BOOLEAN
    /\ pending \subseteq Tasks /\ known \subseteq Tasks
    /\ faults \in 0..MaxFaults

Holders == {r \in Runs : runPc[r] \in Holding}

\* The places of the loop between the acquisition of a slot and its hand-over.
Taking == {"available", "probing", "fetch", "reply", "idle", "cleaning"}

\* Never more jobs at once than runner.capacity, whatever is fetched, fails or
\* panics between the acquisition of a slot and its release (Poll's sem), and a
\* task is asked for only when there is room for one more job.
CapacityRespected ==
    Cardinality(Holders) + (IF pollPc \in Taking THEN 1 ELSE 0) <= Capacity

\* p.done means that every job is over and has flushed its report, and that
\* polling has stopped for good or PollOnce has had its task.
DoneMeansOver == pollPc = "done" => AllOver

\* The cache server stays up and the runner file locked as long as any job
\* runs, also after a forced shutdown (daemon.go: "the draining runner still
\* owns this identity on the server").
IdentityOutlivesJobs == ~cacheOpen \/ ~lockHeld => AllOver

\* What the shutdown may take down only after the jobs.
ShutdownOrder == DoneMeansOver /\ IdentityOutlivesJobs

\* Once polling has ended, by shutdown or because the server does not know the
\* runner, no request for a task goes out: at most the one in flight brings a
\* job (fetchTask on pollingCtx).
NoRequestAfterStop ==
    [][(~polling \/ unregistered) /\ pollPc # "reply" => pollPc' # "reply"]_vars

-----------------------------------------------------------------------------
(* Liveness.  The poll loop and the goroutines keep running, the server    *)
(* answers, a ready case of a select is chosen in the end (strong          *)
(* fairness), a job whose context ended ends, and the shutdown timeout     *)
(* runs out.  A job that nobody cancels may run forever, or, with          *)
(* JobsEnd, until runner.timeout.                                          *)

Fairness ==
    /\ WF_vars(LoopStep)
    /\ SF_vars(AcquireStopped) /\ SF_vars(BackoffStopped)
    /\ \A r \in Runs :
        /\ WF_vars(RunCheck(r) \/ RunBegin(r) \/ RunClosed(r) \/ RunLeaves(r) \/ RunDone(r))
        /\ WF_vars(~jobs /\ RunEnd(r))
    /\ WF_vars(ShutdownStep)

FairSpec == Spec /\ Fairness

JobsEnd == \A r \in Runs : WF_vars(RunEnd(r))

\* A shutdown ends, although jobs may hang until they are cancelled.
ShutdownCompletes == (mainPc = "graceful") ~> (mainPc = "exited")

\* A runner that stopped itself because it is unregistered ends polling; the
\* daemon's main goroutine then shuts down.
UnregisteredStops == unregistered ~> (pollPc \in {"drain", "done"})

\* Polling ends when it should, whoever asks for it.
PollingEnds == ShutdownCompletes /\ UnregisteredStops

\* The machine gets well: a health check that is made again and again succeeds
\* in the end.
Recovers == SF_vars(ProbeEnd(TRUE))

\* If jobs end and the machine gets well, a task that waits at the server is
\* fetched while the loop goes on: the version sent never hides it
\* (tasksVersion).  Runs is the bound on what can be fetched.
TaskFetched ==
    JobsEnd /\ Recovers => \A t \in Tasks :
        (t \in pending) ~> \/ t \notin pending \/ ~polling
                            \/ pollPc \in {"drain", "done"}
                            \/ \A r \in Runs : runPc[r] # "none"

=============================================================================
