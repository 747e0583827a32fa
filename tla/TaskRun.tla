------------------------------ MODULE TaskRun ------------------------------
(***************************************************************************)
(* One runner executing tasks (internal/app/run/runner.go): what a task    *)
(* holds outside the process while it runs, and who gives it back.         *)
(*                                                                         *)
(*   - its runtime token, accepted by a cache server while it is           *)
(*     registered (act/artifactcache/handler.go counts registrations);     *)
(*   - its scratch directory and its docker network, taken down with the   *)
(*     job and otherwise reclaimed by the sweep of an idle runner.         *)
(*                                                                         *)
(* The runner process may die and be started again.  The embedded cache    *)
(* server dies with it; an external one does not, is reached by requests   *)
(* that may be lost or answered too late, and may restart on its own.      *)
(***************************************************************************)
EXTENDS Integers, FiniteSets

CONSTANTS
    Tasks,          \* task ids the server hands out, each at most once
    Tokens,         \* runtime tokens
    TokenOf,        \* the token of each task; two tasks may share one
    CleanupAge,     \* WorkdirCleanupAge, in ticks
    CleanupEvery,   \* IdleCleanupInterval, in ticks
    MaxFaults       \* bound on crashes, server restarts, lost or late requests
                    \* and removals that fail, taken together

ASSUME TaskRunAssumption ==
    /\ TokenOf \in [Tasks -> Tokens]
    /\ CleanupAge \in Nat \ {0}
    /\ CleanupEvery \in Nat \ {0}
    /\ MaxFaults \in Nat
    /\ IsFiniteSet(Tasks)

VARIABLES
    mode,           \* which cache server the configuration names
    alive,          \* the runner process is up
    pc,             \* where Run stands for each task
    runningTasks,   \* Runner.runningTasks
    runningCount,   \* Runner.runningCount
    refs,           \* Handler.creds: registrations of each token, 0 for none
    late,           \* control-plane requests the client gave up on, still to be handled
    age,            \* age of each task's directory and network, None when there is none
    attached,       \* tasks whose network has a container on it
    idleFor,        \* ticks since the last sweep began, CleanupEvery when due
    sweep,          \* the sweep of OnIdle in progress
    faults

None == -1
Kinds == {"dir", "net"}
Revocable == {"prepared", "running", "attached", "script", "revoking"}
InJob == {"running", "attached"}
Off == [kind |-> "off", todo |-> {}, expired |-> {}]

vars == <<mode, alive, pc, runningTasks, runningCount, refs, late, age, attached,
          idleFor, sweep, faults>>
taskVars == <<pc, runningTasks, runningCount>>
credVars == <<refs, late>>
hostVars == <<age, attached>>
sweepVars == <<idleFor, sweep>>

Holders(tok) == {t \in Tasks : TokenOf[t] = tok /\ pc[t] \in Revocable}

Init ==
    /\ mode \in {"embedded", "external"}
    /\ alive = TRUE
    /\ pc = [t \in Tasks |-> "new"]
    /\ runningTasks = {}
    /\ runningCount = 0
    /\ refs = [tok \in Tokens |-> 0]
    /\ late = {}
    /\ age = [t \in Tasks |-> [k \in Kinds |-> None]]
    /\ attached = {}
    /\ idleFor = CleanupEvery
    /\ sweep = Off
    /\ faults = 0

Fault == faults < MaxFaults /\ faults' = faults + 1
NoFault == UNCHANGED faults

-----------------------------------------------------------------------------
(* Registrations.                                                          *)

(* Seeded defects: a set of tokens instead of a count of registrations; and*)
(* a revocation that does not look whether the token is registered.        *)
PlusOnce(tok) == [refs EXCEPT ![tok] = 1]
MinusAnyway(tok) == [refs EXCEPT ![tok] = @ - 1]

Plus(tok) == [refs EXCEPT ![tok] = @ + 1]
Minus(tok) == [refs EXCEPT ![tok] = IF @ > 0 THEN @ - 1 ELSE 0]
Handle(op, tok) == IF op = "register" THEN Plus(tok) ELSE Minus(tok)

(* RegisterJob and its closure for the embedded server, one POST with a    *)
(* timeout of five seconds for an external one: handled, lost, or still on *)
(* its way when the client stops waiting.  No outcome fails the task.      *)
Post(op, t) ==
    \/ refs' = Handle(op, TokenOf[t]) /\ UNCHANGED late /\ NoFault
    \/ mode = "external" /\ Fault /\ UNCHANGED <<refs, late>>
    \/ mode = "external" /\ Fault /\ late' = late \cup {<<op, t>>} /\ UNCHANGED refs

(* The server gets to a request its client no longer waits for.            *)
HandleLate ==
    \E r \in late :
        /\ late' = late \ {r}
        /\ refs' = Handle(r[1], TokenOf[r[2]])
        /\ UNCHANGED <<mode, alive, taskVars, hostVars, sweepVars, faults>>

(* The external server forgets its registrations when it restarts.         *)
ServerRestarts ==
    /\ mode = "external"
    /\ Fault
    /\ refs' = [tok \in Tokens |-> 0]
    /\ UNCHANGED <<mode, alive, taskVars, late, hostVars, sweepVars>>

-----------------------------------------------------------------------------
(* Run and run.                                                            *)

Goto(t, where) == pc' = [pc EXCEPT ![t] = where]

(* Run: the duplicate check, the store and the running count.              *)
Begin(t) ==
    /\ alive
    /\ pc[t] = "new"
    /\ t \notin runningTasks
    /\ Goto(t, "setup")
    /\ runningTasks' = runningTasks \cup {t}
    /\ runningCount' = runningCount + 1
    /\ UNCHANGED <<mode, alive, credVars, hostVars, sweepVars, faults>>

(* generateWorkflow or PlanJob fails, or either panics, before the token   *)
(* is registered: nothing has been deferred yet.                           *)
SetupFails(t) ==
    /\ alive /\ pc[t] = "setup"
    /\ Goto(t, "leaving")
    /\ UNCHANGED <<mode, alive, runningTasks, runningCount, credVars, hostVars,
                   sweepVars, faults>>

(* registerCacheForTask; from here on the revocation is deferred.          *)
Register(t) ==
    /\ alive /\ pc[t] = "setup"
    /\ Post("register", t)
    /\ Goto(t, "prepared")
    /\ UNCHANGED <<mode, alive, runningTasks, runningCount, hostVars, sweepVars>>

(* json.Marshal or runner.New fails, or anything up to the executor panics.*)
PreparationFails(t) ==
    /\ alive /\ pc[t] = "prepared"
    /\ Goto(t, "revoking")
    /\ UNCHANGED <<mode, alive, runningTasks, runningCount, credVars, hostVars,
                   sweepVars, faults>>

(* The executor makes the task's directory and network.                    *)
StartJob(t) ==
    /\ alive /\ pc[t] = "prepared"
    /\ Goto(t, "running")
    /\ age' = [age EXCEPT ![t] = [k \in Kinds |-> 0]]
    /\ UNCHANGED <<mode, alive, runningTasks, runningCount, credVars, attached,
                   sweepVars, faults>>

(* ... and, later, starts the job container on the network.                *)
Attach(t) ==
    /\ alive /\ pc[t] = "running"
    /\ Goto(t, "attached")
    /\ attached' = attached \cup {t}
    /\ UNCHANGED <<mode, alive, runningTasks, runningCount, credVars, age,
                   sweepVars, faults>>

(* The job's teardown and, after it, os.RemoveAll of the task directory:   *)
(* each removal can fail, and a failure is only logged.  The job may also  *)
(* end before its container was started.                                   *)
EndJob(t) ==
    /\ alive /\ pc[t] \in InJob
    /\ \E left \in SUBSET Kinds :
        /\ IF left = {} THEN NoFault ELSE Fault
        /\ age' = [age EXCEPT ![t] = [k \in Kinds |-> IF k \in left THEN @[k] ELSE None]]
    /\ attached' = attached \ {t}
    /\ Goto(t, "script")
    /\ UNCHANGED <<mode, alive, runningTasks, runningCount, credVars, sweepVars>>

(* runPostTaskScript returns: the script ended, or its own timeout, which  *)
(* the task's does not cut short, killed it with all its processes.        *)
PostTaskScript(t) ==
    /\ alive /\ pc[t] = "script"
    /\ Goto(t, "revoking")
    /\ UNCHANGED <<mode, alive, runningTasks, runningCount, credVars, hostVars,
                   sweepVars, faults>>

(* The deferred revokeCache, sent whatever became of the registration.     *)
Revoke(t) ==
    /\ alive /\ pc[t] = "revoking"
    /\ Post("revoke", t)
    /\ Goto(t, "leaving")
    /\ UNCHANGED <<mode, alive, runningTasks, runningCount, hostVars, sweepVars>>

(* The deferred function of Run: the count goes down before reporter.Close *)
(* has told the server the result.                                         *)
Leave(t) ==
    /\ alive /\ pc[t] = "leaving"
    /\ Goto(t, "reporting")
    /\ runningCount' = runningCount - 1
    /\ UNCHANGED <<mode, alive, runningTasks, credVars, hostVars, sweepVars, faults>>

Reported(t) ==
    /\ alive /\ pc[t] = "reporting"
    /\ Goto(t, "over")
    /\ runningTasks' = runningTasks \ {t}
    /\ UNCHANGED <<mode, alive, runningCount, credVars, hostVars, sweepVars, faults>>

-----------------------------------------------------------------------------
(* The sweep of an idle runner.                                            *)

Present(k) == {t \in Tasks : age[t][k] # None}

(* Seeded defect: a sweep that trusts the running count alone.             *)
ExpiredAll(k) == Present(k)

Expired(k) == {t \in Tasks : age[t][k] = CleanupAge}
Pass(k) == [kind |-> k, todo |-> Present(k), expired |-> Expired(k)]

(* OnIdle: shouldRunIdleCleanup, then the list and the cutoff of           *)
(* cleanupStaleDirs.  "Older than the cutoff" is "that old when the pass   *)
(* began": a modification time never moves back.                           *)
OnIdle ==
    /\ alive
    /\ sweep = Off
    /\ runningCount = 0
    /\ idleFor = CleanupEvery
    /\ idleFor' = 0
    /\ sweep' = Pass("dir")
    /\ UNCHANGED <<mode, alive, taskVars, credVars, hostVars, faults>>

(* One entry: a young one and a network with containers are kept, the      *)
(* others removed, which may fail and be retried by the next sweep.        *)
SweepOne ==
    /\ alive
    /\ \E t \in sweep.todo :
        LET k == sweep.kind
            stale == t \in sweep.expired /\ (k = "dir" \/ t \notin attached)
        IN  /\ sweep' = [sweep EXCEPT !.todo = @ \ {t}]
            /\ \/ stale /\ age' = [age EXCEPT ![t][k] = None] /\ NoFault
               \/ stale /\ Fault /\ UNCHANGED age
               \/ ~stale /\ NoFault /\ UNCHANGED age
    /\ UNCHANGED <<mode, alive, taskVars, credVars, attached, idleFor>>

(* The directories are done, or the context has ended: on to               *)
(* removeOrphanNetworks with a cutoff and a list of its own; an ended      *)
(* context makes the listing fail.                                         *)
SweepNext ==
    /\ alive
    /\ sweep.kind # "off"
    /\ \/ sweep.todo = {} /\ sweep.kind = "dir" /\ sweep' = Pass("net") /\ NoFault
       \/ sweep.todo = {} /\ sweep.kind = "net" /\ sweep' = Off /\ NoFault
       \/ Fault /\ sweep' = Off
    /\ UNCHANGED <<mode, alive, taskVars, credVars, hostVars, idleFor>>

-----------------------------------------------------------------------------
(* The surroundings.                                                       *)

Older(n, bound) == IF n = None \/ n = bound THEN n ELSE n + 1

(* Assumed of the surroundings: from the creation of its network to the    *)
(* start of its first container a job takes less than CleanupAge, a day by *)
(* default.                                                                *)
StartsTakeLess == \A t \in Tasks : pc[t] = "running" => age[t]["net"] < CleanupAge - 1

Tick ==
    /\ StartsTakeLess
    /\ age' = [t \in Tasks |-> [k \in Kinds |-> Older(age[t][k], CleanupAge)]]
    /\ idleFor' = Older(idleFor, CleanupEvery)
    /\ <<age', idleFor'>> # <<age, idleFor>>
    /\ UNCHANGED <<mode, alive, taskVars, credVars, attached, sweep, faults>>

(* The container a dead runner left sleeps for its lifetime and is removed *)
(* by the daemon when it ends.                                             *)
ContainerExpires(t) ==
    /\ t \in attached
    /\ pc[t] = "lost"
    /\ attached' = attached \ {t}
    /\ UNCHANGED <<mode, alive, taskVars, credVars, age, sweepVars, faults>>

Crash ==
    /\ alive
    /\ Fault
    /\ alive' = FALSE
    /\ pc' = [t \in Tasks |-> IF pc[t] \in {"new", "over", "lost"} THEN pc[t] ELSE "lost"]
    /\ runningTasks' = {}
    /\ runningCount' = 0
    /\ refs' = IF mode = "embedded" THEN [tok \in Tokens |-> 0] ELSE refs
    /\ idleFor' = CleanupEvery
    /\ sweep' = Off
    /\ UNCHANGED <<mode, late, hostVars>>

Restart ==
    /\ ~alive
    /\ alive' = TRUE
    /\ UNCHANGED <<mode, taskVars, credVars, hostVars, sweepVars, faults>>

Next ==
    \/ HandleLate
    \/ ServerRestarts
    \/ \E t \in Tasks : Begin(t)
    \/ \E t \in Tasks : SetupFails(t)
    \/ \E t \in Tasks : Register(t)
    \/ \E t \in Tasks : PreparationFails(t)
    \/ \E t \in Tasks : StartJob(t)
    \/ \E t \in Tasks : Attach(t)
    \/ \E t \in Tasks : EndJob(t)
    \/ \E t \in Tasks : PostTaskScript(t)
    \/ \E t \in Tasks : Revoke(t)
    \/ \E t \in Tasks : Leave(t)
    \/ \E t \in Tasks : Reported(t)
    \/ \E t \in Tasks : ContainerExpires(t)
    \/ OnIdle
    \/ SweepOne
    \/ SweepNext
    \/ Tick
    \/ Crash
    \/ Restart

(* Every step of Run is one the program takes by itself: each blocking     *)
(* call in it has a timeout.  The poller calls OnIdle whenever a fetch     *)
(* brings nothing, and the operator's supervisor restarts a dead runner.   *)
Progress(t) ==
    \/ SetupFails(t) \/ Register(t) \/ PreparationFails(t) \/ StartJob(t)
    \/ EndJob(t) \/ PostTaskScript(t) \/ Revoke(t) \/ Leave(t) \/ Reported(t)

Sweeping == OnIdle \/ SweepOne \/ SweepNext
SomeContainerExpires == \E t \in Tasks : ContainerExpires(t)

Fairness ==
    /\ \A t \in Tasks : WF_vars(Progress(t))
    /\ WF_vars(SomeContainerExpires)
    /\ WF_vars(Sweeping)
    /\ WF_vars(Tick)
    /\ WF_vars(Restart)

Spec == Init /\ [][Next]_vars /\ Fairness

-----------------------------------------------------------------------------
(* Every variable keeps its type: the running count and the registrations  *)
(* of Runner and Handler never go below zero.                              *)
TypeOK ==
    /\ mode \in {"embedded", "external"}
    /\ alive \in BOOLEAN
    /\ pc \in [Tasks -> {"new", "setup", "prepared", "running", "attached", "script",
                         "revoking", "leaving", "reporting", "over", "lost"}]
    /\ runningTasks \subseteq Tasks
    /\ runningCount \in 0..Cardinality(Tasks)
    /\ refs \in [Tokens -> Nat]
    /\ late \subseteq ({"register", "revoke"} \X Tasks)
    /\ age \in [Tasks -> [Kinds -> {None} \cup (0..CleanupAge)]]
    /\ attached \subseteq Tasks
    /\ idleFor \in 0..CleanupEvery
    /\ sweep.kind \in Kinds \cup {"off"}
    /\ sweep.todo \subseteq Tasks
    /\ sweep.expired \subseteq Tasks
    /\ faults \in 0..MaxFaults

(* Reference counting (RegisterJob, handler.go): the embedded server       *)
(* accepts a token exactly while some task that registered it is before    *)
(* its deferred revocation, in whatever order tasks that share the token   *)
(* begin, fail, panic and end; without faults the same holds of an         *)
(* external server, reached over its control plane.                        *)
TokenFollowsTask ==
    (mode = "embedded" \/ faults = 0) =>
        \A tok \in Tokens : refs[tok] = Cardinality(Holders(tok))

(* OnIdle never takes a directory or a network from a job: not even one    *)
(* that began after the sweep saw no task running, and not the network it  *)
(* has created and not yet attached a container to.                        *)
LiveJobsLeftAlone ==
    \A t \in Tasks : pc[t] \in InJob => \A k \in Kinds : age[t][k] # None

(* What a crash or a failed removal left behind is reclaimed in the end:   *)
(* time and again nothing is left of the tasks that are over.              *)
LeftoversReclaimed ==
    []<>(\A t \in Tasks : pc[t] \in {"over", "lost"} => \A k \in Kinds : age[t][k] = None)
=============================================================================
