------------------------------ MODULE Reporter ------------------------------
(***************************************************************************)
(* internal/pkg/report/reporter.go: the log rows, step states, outputs and *)
(* result of one task, produced by the job's goroutine through the logrus  *)
(* hook Fire, pushed to the server by a daemon goroutine, and flushed for  *)
(* good by Close.                                                          *)
(*                                                                         *)
(* One action is one critical section of the code: a stateMu section of    *)
(* the job, one turn of the daemon's select, the snapshot a Report* call   *)
(* takes under clientM, or its return.  An RPC in flight is the record rpc *)
(* (clientM is held exactly while rpc # NoRpc); the server is the record   *)
(* srv, modelled from how the reporter uses it.  produced is a history     *)
(* variable: every row ever appended to the buffer.                        *)
(***************************************************************************)
EXTENDS Integers, Sequences, FiniteSets

CONSTANTS
    NSteps,        \* steps of the job
    MaxRows,       \* bound: rows the job may produce before Close
    BatchSize,     \* logBatchSize
    MaxAttempts,   \* attempts of flushFinal's retry loop
    MaxFaults,     \* bound: RPCs that fail or are only partly accepted
    OutputKeys,    \* keys of the job outputs
    JobResults,    \* results a jobResult entry may carry
    StepResults,   \* results a stepResult entry may carry
    Interrupts,    \* what may stop the task from outside: "user", "canceled", "deadline"
    SlowRpc        \* may an RPC outlast Close's 60 s wait or its budget?

Unspecified == "unspecified"
Results == {Unspecified, "success", "failure", "skipped", "cancelled"}

ASSUME ConstantsAssumption ==
    /\ NSteps \in Nat \ {0}
    /\ MaxRows \in Nat
    /\ BatchSize \in Nat \ {0}
    /\ MaxAttempts \in Nat \ {0}
    /\ MaxFaults \in Nat
    /\ JobResults \subseteq Results \ {Unspecified}
    /\ StepResults \subseteq Results \ {Unspecified}
    /\ Interrupts \subseteq {"user", "canceled", "deadline"}
    /\ SlowRpc \in BOOLEAN

VARIABLES
    jobPc,         \* where the task's goroutine is, Run and Close
    cur,           \* 0: before the steps, i: main stage of step i, NSteps+1: post
    ctx,           \* r.ctx: "live", "canceled" or "deadline"
    logRows,       \* rows not yet acknowledged
    logOffset,     \* rows acknowledged
    steps,         \* state.Steps
    result,        \* state.Result
    stateChanged,
    outputs,       \* per key: "absent", "unsent" or "sent"
    reported,      \* lastReportedAtNanos # 0
    closed,
    daemonClosed,  \* channel r.daemon is closed
    heartbeatStop, \* channel r.heartbeatStop is closed
    logNotify,     \* r.logNotify holds its one element
    stateNotify,   \* r.stateNotify holds its one element
    latencyArmed,  \* maxLatencyActive
    daemonPc,      \* where runDaemonLoop is
    rpc,           \* the RPC that holds clientM
    attempts,      \* failed attempts of the current flushFinal
    flush,         \* how each flushFinal ended
    crashed,       \* a goroutine panicked: the process is gone
    faults,        \* faults used up
    srv,           \* what the server holds of the task
    produced       \* history: every row appended so far

jobVars    == <<jobPc, cur>>
bufVars    == <<logRows, logOffset, produced>>
stateVars  == <<steps, result, stateChanged>>
signalVars == <<heartbeatStop, logNotify, stateNotify>>
dataVars   == <<bufVars, stateVars, outputs>>
closeVars  == <<closed, attempts, flush>>
daemonVars == <<daemonClosed, latencyArmed, daemonPc, crashed>>
wireVars   == <<ctx, reported, rpc, faults, srv>>
backVars   == <<closeVars, daemonVars, wireVars>>
vars == <<jobVars, dataVars, signalVars, backVars>>

Row(n, s) == [no |-> n, step |-> s]
NoRpc == [by |-> "nobody", kind |-> "none"]
FreshStep == [result |-> Unspecified, started |-> FALSE, index |-> 0, length |-> 0]

Init ==
    /\ jobPc = "run"
    /\ cur = 0
    /\ ctx = "live"
    /\ logRows = <<>> /\ logOffset = 0 /\ produced = <<>>
    /\ steps = <<>> /\ result = Unspecified /\ stateChanged = FALSE
    /\ outputs = [k \in OutputKeys |-> "absent"]
    /\ reported = FALSE
    /\ closed = FALSE /\ attempts = 0
    /\ flush = [log |-> "pending", state |-> "pending"]
    /\ daemonClosed = FALSE /\ heartbeatStop = FALSE
    /\ logNotify = FALSE /\ stateNotify = FALSE
    /\ latencyArmed = FALSE
    /\ daemonPc = "select"
    /\ rpc = NoRpc
    /\ crashed = FALSE
    /\ faults = 0
    /\ srv = [log |-> <<>>, transferred |-> FALSE, steps |-> <<>>,
              result |-> Unspecified, outputs |-> {}, cancelled |-> FALSE]

-----------------------------------------------------------------------------
(* The job's goroutine: entries logged through the hook, Logf, SetOutputs. *)

\* The job logs, and Run has not yet called Close.
JobAlive == jobPc \in {"run", "outputs", "stopped"}

MayProduce == Len(produced) < MaxRows

DuringSteps ==
    /\ Len(steps) > 0
    /\ \/ steps[1].result # Unspecified
       \/ steps[1].length > 0
    /\ steps[Len(steps)].result = Unspecified

\* r.logRows = append(r.logRows, row), or nothing when the line yields no row.
AppendRow(s, yields) ==
    /\ IF yields
       THEN /\ logRows' = Append(logRows, Row(Len(produced) + 1, s))
            /\ produced' = Append(produced, Row(Len(produced) + 1, s))
       ELSE UNCHANGED <<logRows, produced>>
    /\ UNCHANGED logOffset

\* unlockAndNotify: both sends are non-blocking on channels of capacity one.
Notify(urgent) ==
    /\ logNotify' = TRUE
    /\ stateNotify' = (stateNotify \/ urgent)

ResetSteps ==
    /\ jobPc = "run" /\ steps = <<>> /\ cur = 0
    /\ steps' = [i \in 1..NSteps |-> FreshStep]
    /\ UNCHANGED <<jobVars, bufVars, result, stateChanged, outputs,
                   signalVars, backVars>>

\* Results a jobResult or Close leaves on the steps nobody finished.
Resolve(ss, r) ==
    [i \in DOMAIN ss |-> IF ss[i].result = Unspecified
                         THEN [ss[i] EXCEPT !.result = r]
                         ELSE ss[i]]

\* Fire for an entry whose stage is not "Main": a job row when no step is
\* under way, and at most one jobResult, which resolves the open steps.  The
\* hook is attached after ResetSteps.
FireJob(yields, jobResult) ==
    /\ jobPc = "run" /\ steps # <<>> /\ cur \notin 1..NSteps
    /\ jobResult = Unspecified \/ result = Unspecified
    /\ yields => MayProduce
    /\ stateChanged' = TRUE
    /\ IF jobResult = Unspecified
       THEN UNCHANGED <<steps, result>>
       ELSE /\ result' = jobResult
            /\ steps' = Resolve(steps, IF jobResult = "skipped" THEN "skipped"
                                                                ELSE "cancelled")
    /\ AppendRow(0, yields /\ ~(DuringSteps'))
    /\ Notify(jobResult # Unspecified)
    /\ UNCHANGED <<jobVars, outputs, heartbeatStop, backVars>>

\* Seeded defect: the window's start forgets the rows already acknowledged.
LinedFromBuffer(st) ==
    [st EXCEPT !.length = @ + 1,
               !.index  = IF st.length = 0 THEN Len(logRows) ELSE @]

\* A line of a step extends the step's window of the log, which starts where
\* the next row goes.
Lined(st) ==
    [st EXCEPT !.length = @ + 1,
               !.index  = IF st.length = 0 THEN logOffset + Len(logRows) ELSE @]

\* A step without a line gets an empty window at the end of the log.
\* next: where the next row goes.
Resulted(st, r, next) ==
    [st EXCEPT !.result = r,
               !.index  = IF st.length = 0 THEN next ELSE @]

\* Fire for an entry of the main stage of step cur: a raw line belongs to the
\* step, any other line is a job row unless a step is under way.
FireStep(yields, raw, stepResult) ==
    /\ jobPc = "run"
    /\ cur \in 1..NSteps /\ steps[cur].result = Unspecified
    /\ yields => MayProduce
    /\ IF raw THEN AppendRow(cur, yields)
              ELSE AppendRow(0, yields /\ ~DuringSteps)
    /\ LET begun == [steps[cur] EXCEPT !.started = TRUE]
           lined == IF raw /\ yields THEN Lined(begun) ELSE begun
       IN  steps' = [steps EXCEPT ![cur] =
                        IF stepResult = Unspecified THEN lined
                        ELSE Resulted(lined, stepResult,
                                      logOffset + Len(logRows'))]
    /\ stateChanged' = TRUE
    /\ Notify(~steps[cur].started \/ stepResult # Unspecified)
    /\ UNCHANGED <<jobVars, result, outputs, heartbeatStop, backVars>>

\* The step runner moves on: to the next step once this one has its result, to
\* the post stage at any time (a cancelled or timed-out job skips steps), and
\* nowhere after the job result.
NextStage ==
    /\ jobPc = "run" /\ steps # <<>> /\ cur <= NSteps /\ result = Unspecified
    /\ \/ cur' = NSteps + 1
       \/ /\ cur < NSteps
          /\ cur > 0 => steps[cur].result # Unspecified
          /\ cur' = cur + 1
    /\ UNCHANGED <<jobPc, dataVars, signalVars, backVars>>

\* Logf, from the set-up before the job and the tear-down after it: a job row
\* that notifies nobody.
Logf ==
    /\ JobAlive /\ cur \notin 1..NSteps /\ ~DuringSteps
    /\ MayProduce
    /\ AppendRow(0, TRUE)
    /\ UNCHANGED <<jobVars, stateVars, outputs, signalVars, backVars>>

\* The plan executor has returned: run records the job's outputs.  The first
\* value of a key wins; a key or value too long is dropped (not in keys).
SetOutputs(keys) ==
    /\ jobPc = "run" /\ steps # <<>>
    /\ jobPc' = "outputs"
    /\ outputs' = [k \in OutputKeys |->
                    IF k \in keys /\ outputs[k] = "absent" THEN "unsent"
                                                           ELSE outputs[k]]
    /\ UNCHANGED <<cur, bufVars, stateVars, signalVars, backVars>>

\* StopHeartbeats, before the post-task script.
StopHeartbeats ==
    /\ jobPc = "outputs"
    /\ jobPc' = "stopped"
    /\ heartbeatStop' = TRUE
    /\ UNCHANGED <<cur, dataVars, logNotify, stateNotify, backVars>>

-----------------------------------------------------------------------------
(* Close.                                                                  *)

\* The first critical section of Close, from the end of run or from an early
\* error or a recovered panic.  words: lastWords # "".
CloseBegin(words) ==
    /\ jobPc \in {"run", "stopped"}
    /\ jobPc' = "wait"
    /\ closed' = TRUE
    /\ IF result = Unspecified
       THEN /\ result' = IF ctx = "canceled" THEN "cancelled" ELSE "failure"
            /\ steps' = Resolve(steps, "cancelled")
            /\ AppendRow(0, TRUE)
       ELSE /\ UNCHANGED <<steps, result>>
            /\ AppendRow(0, words)
    /\ Notify(FALSE)
    /\ UNCHANGED <<cur, stateChanged, outputs, heartbeatStop, attempts, flush,
                   daemonVars, wireVars>>

\* Close moves on; the rows and r.daemon are left to the step.
CloseMoves(from, to) ==
    /\ jobPc = from /\ jobPc' = to
    /\ UNCHANGED <<cur, stateVars, outputs, signalVars, closeVars, latencyArmed,
                   daemonPc, crashed, wireVars>>

\* The daemon has closed r.daemon.
CloseAcknowledged ==
    daemonClosed /\ CloseMoves("wait", "sentinel") /\ UNCHANGED <<bufVars, daemonClosed>>

\* Nothing heard from the daemon for 60 s: Close closes the channel itself.
CloseTimeout ==
    /\ SlowRpc /\ ~daemonClosed /\ rpc.by = "daemon"
    /\ daemonClosed' = TRUE
    /\ CloseMoves("wait", "sentinel") /\ UNCHANGED bufVars

\* Seeded defect: no sentinel row.
NeverSentinel == FALSE

NeedsSentinel == logRows = <<>>

\* The row that keeps the last UpdateLog from being empty.
Sentinel ==
    /\ CloseMoves("sentinel", "flushLog") /\ AppendRow(0, NeedsSentinel)
    /\ UNCHANGED daemonClosed

-----------------------------------------------------------------------------
(* The daemon's select, one action per case, and the check after it.       *)

\* A case of the select is ready and taken: next is what it does, armed what
\* becomes of the latency timer.
Turn(ready, next, armed) ==
    /\ daemonPc = "select" /\ ready
    /\ daemonPc' = next /\ latencyArmed' = armed
    /\ UNCHANGED <<jobVars, dataVars, closeVars, daemonClosed, crashed, wireVars>>

\* <-logTicker.C
LogTick == Turn(TRUE, "log", FALSE) /\ UNCHANGED signalVars

\* <-stateTicker.C
StateTick == Turn(TRUE, "state", latencyArmed) /\ UNCHANGED signalVars

\* <-r.logNotify: send a full batch now, else arm the latency timer.
LogNotified ==
    /\ IF Len(logRows) >= BatchSize
       THEN Turn(logNotify, "log", FALSE)
       ELSE Turn(logNotify, "check", latencyArmed \/ logRows # <<>>)
    /\ logNotify' = FALSE
    /\ UNCHANGED <<heartbeatStop, stateNotify>>

\* <-r.stateNotify
StateNotified ==
    /\ Turn(stateNotify, "logThenState", FALSE)
    /\ stateNotify' = FALSE
    /\ UNCHANGED <<heartbeatStop, logNotify>>

\* <-maxLatencyTimer.C
LatencyTimer == Turn(latencyArmed, "log", FALSE) /\ UNCHANGED signalVars

\* close(r.daemon) and return: closing the channel twice panics, in a
\* goroutine nothing recovers.
Leave ==
    /\ daemonPc' = "exited"
    /\ daemonClosed' = TRUE
    /\ crashed' = daemonClosed
    /\ UNCHANGED <<jobVars, dataVars, signalVars, closeVars, latencyArmed, wireVars>>

CtxOver == ctx # "live"

\* <-r.ctx.Done()
CtxDone == daemonPc = "select" /\ CtxOver /\ Leave

\* <-r.heartbeatStop
HeartbeatStopped == daemonPc = "select" /\ heartbeatStop /\ Leave

\* Seeded defect: the loop never looks at closed.
NeverAsked == FALSE

AskedToClose == closed

\* The daemon moves on without a call; nothing else changes.
DaemonMoves(to) ==
    /\ daemonPc' = to
    /\ UNCHANGED <<jobVars, dataVars, signalVars, closeVars, latencyArmed,
                   daemonClosed, crashed, ctx, reported, faults, srv>>

\* The end of every turn that did not return.
Check ==
    /\ daemonPc = "check"
    /\ \/ AskedToClose /\ Leave
       \/ ~AskedToClose /\ DaemonMoves("select") /\ UNCHANGED rpc

-----------------------------------------------------------------------------
(* ReportLog and ReportState: the snapshot, then the return.               *)

AfterLog == IF daemonPc = "logThenState" THEN "state" ELSE "check"

\* Seeded defect: rows wait for a full batch.
LessThanABatch == Len(logRows) < BatchSize

NothingToSend == logRows = <<>>

\* rpcCtx: r.ctx while it is alive, else a context of its own.
Detached == ctx # "live"

LogTurn == daemonPc \in {"log", "logThenState"} /\ rpc = NoRpc

\* The daemon's ReportLog(false) has nothing to send.
LogSkipped == LogTurn /\ NothingToSend /\ DaemonMoves(AfterLog) /\ UNCHANGED rpc

\* clientM is free: who takes it for the call r.
Call(r) ==
    /\ rpc = NoRpc /\ rpc' = r
    /\ UNCHANGED <<jobVars, dataVars, signalVars, closeVars, daemonVars, ctx,
                   reported, faults, srv>>

\* ReportLog up to the call of UpdateLog.
LogSent(who) ==
    /\ \/ who = "daemon" /\ LogTurn /\ ~NothingToSend
       \/ who = "close" /\ jobPc = "flushLog"
    /\ Call([by |-> who, kind |-> "log", detached |-> Detached,
             index |-> logOffset, rows |-> logRows, noMore |-> who = "close"])

\* ReportState's first critical section: the outputs not yet sent.
OutputsSnapshot(who) ==
    /\ \/ who = "daemon" /\ daemonPc = "state"
       \/ who = "close" /\ jobPc = "flushState"
    /\ Call([by |-> who, kind |-> "outputs",
             outs |-> {k \in OutputKeys : outputs[k] = "unsent"}])

\* Nothing to report and the last report is younger than the interval.
NothingToReport ==
    rpc.by = "daemon" /\ ~stateChanged /\ rpc.outs = {} /\ reported

StateSkipped ==
    /\ rpc.kind = "outputs" /\ NothingToReport
    /\ rpc' = NoRpc
    /\ DaemonMoves("check")

\* Seeded defect: the daemon reports the result as soon as it is set.
ResultAlways == result

\* RunDaemon never reports results even if result is set.
ResultSent == IF rpc.by = "close" THEN result ELSE Unspecified

\* ReportState's second critical section up to the call of UpdateTask.  A report with nothing to say is the
\* heartbeat, due after the interval.
StateSent ==
    /\ rpc.kind = "outputs"
    /\ rpc' = [by |-> rpc.by, kind |-> "state", detached |-> Detached,
               steps |-> steps, outs |-> rpc.outs,
               result |-> ResultSent]
    /\ stateChanged' = FALSE
    /\ UNCHANGED <<jobVars, bufVars, steps, result, outputs, signalVars,
                   closeVars, daemonVars, ctx, reported, faults, srv>>

\* Seeded defect: the retry loop has no end.
NeverSpent == FALSE

Spent == attempts + 1 = MaxAttempts

\* flushFinal: a failed attempt is retried until the attempts, or with slow
\* RPCs the time budget, run out.
FlushReturns(ok) ==
    LET what == IF jobPc = "flushLog" THEN "log" ELSE "state"
    IN  \/ /\ ok \/ Spent \/ SlowRpc
           /\ flush' = [flush EXCEPT ![what] = IF ok THEN "ok" ELSE "gaveup"]
           /\ jobPc' = IF what = "log" THEN "flushState" ELSE "done"
           /\ attempts' = 0
        \/ /\ ~ok /\ ~Spent
           /\ attempts' = attempts + 1
           /\ UNCHANGED <<jobPc, flush>>

\* The call returns to the daemon, which ignores the error, or to flushFinal.
Return(ok) ==
    /\ rpc' = NoRpc
    /\ \/ /\ rpc.by = "daemon"
          /\ daemonPc' = IF rpc.kind = "log" THEN AfterLog ELSE "check"
          /\ UNCHANGED <<jobPc, attempts, flush>>
       \/ /\ rpc.by = "close"
          /\ FlushReturns(ok)
          /\ UNCHANGED daemonPc

\* A fault uses up one of MaxFaults.
Fault(occurs) ==
    /\ occurs => faults < MaxFaults
    /\ faults' = IF occurs THEN faults + 1 ELSE faults

\* The request was issued on r.ctx and r.ctx has ended: the call returns an
\* error, whatever the server made of the request.
Aborted == ~rpc.detached /\ ctx # "live"

\* The server, which keeps rows by index, ends up with the first k rows of the
\* request, and honours NoMore on a request that carries rows.
ServerStores(k) ==
    LET have == Len(srv.log) - rpc.index
    IN  /\ k >= have
        /\ srv' = [srv EXCEPT
                     !.log = @ \o SubSeq(rpc.rows, have + 1, k),
                     !.transferred = @ \/ (rpc.noMore /\ rpc.rows # <<>>
                                                      /\ k = Len(rpc.rows))]

\* Only the acknowledged rows leave the buffer.
Acknowledge(ack) ==
    /\ logRows' = SubSeq(logRows, ack - logOffset + 1, Len(logRows))
    /\ logOffset' = ack

\* UpdateLog answers AckIndex = index + k: the acknowledged rows leave the
\* buffer, and a last request of which rows are missing is an error.
LogReturned(k) ==
    /\ rpc.kind = "log" /\ k \in 0..Len(rpc.rows)
    /\ Fault(k < Len(rpc.rows))
    /\ ServerStores(k)
    /\ Acknowledge(rpc.index + k)
    /\ Return(rpc.noMore => k = Len(rpc.rows))
    /\ UNCHANGED <<cur, produced, stateVars, outputs, signalVars, closed,
                   daemonClosed, latencyArmed, crashed, ctx, reported>>

\* UpdateLog fails, before or after the server stored k rows.
LogFailed(k) ==
    /\ rpc.kind = "log" /\ k \in 0..Len(rpc.rows)
    /\ Fault(~Aborted)
    /\ ServerStores(k)
    /\ Return(FALSE)
    /\ UNCHANGED <<cur, dataVars, signalVars, closed, daemonClosed,
                   latencyArmed, crashed, ctx, reported>>

ServerRecords(sent) ==
    srv' = [srv EXCEPT !.steps = rpc.steps,
                       !.outputs = @ \cup sent,
                       !.result = IF rpc.result = Unspecified THEN @ ELSE rpc.result]

\* Seeded defect: every output of the request counts as sent.
AllSent(sent) ==
    outputs' = [k \in OutputKeys |-> IF k \in rpc.outs THEN "sent" ELSE outputs[k]]

MarkSent(sent) ==
    outputs' = [k \in OutputKeys |-> IF k \in sent THEN "sent" ELSE outputs[k]]

\* Seeded defect: the state in the answer is ignored.
AnswerIgnored == UNCHANGED ctx

\* A state that says cancelled cancels r.ctx.
ObeyAnswer == ctx' = IF srv.cancelled /\ ctx = "live" THEN "canceled" ELSE ctx

\* UpdateTask answers: the outputs it lists are sent, an output still unsent is
\* an error.
StateReturned(sent) ==
    /\ rpc.kind = "state" /\ sent \subseteq rpc.outs
    /\ Fault(sent # rpc.outs)
    /\ ServerRecords(sent)
    /\ MarkSent(sent)
    /\ reported' = TRUE
    /\ ObeyAnswer
    /\ Return(\A k \in OutputKeys : outputs'[k] # "unsent")
    /\ UNCHANGED <<cur, bufVars, stateVars, signalVars, closed, daemonClosed,
                   latencyArmed, crashed>>

\* Seeded defect: the change taken for the failed report is forgotten.
ChangeForgotten == UNCHANGED stateChanged

\* The change the failed report took is owed again.
OweChange == stateChanged' = TRUE

\* UpdateTask fails, before or after the server recorded the state.
StateFailed(handled) ==
    /\ rpc.kind = "state"
    /\ Fault(~Aborted)
    /\ IF handled THEN ServerRecords(rpc.outs) ELSE UNCHANGED srv
    /\ OweChange
    /\ Return(FALSE)
    /\ UNCHANGED <<cur, bufVars, steps, result, outputs, signalVars, closed,
                   daemonClosed, latencyArmed, crashed, ctx, reported>>

-----------------------------------------------------------------------------
(* The outside: the user cancels at the server, r.ctx ends on its own.     *)

UserCancels ==
    /\ "user" \in Interrupts
    /\ ~srv.cancelled /\ jobPc # "done"
    /\ srv' = [srv EXCEPT !.cancelled = TRUE]
    /\ UNCHANGED <<jobVars, dataVars, signalVars, closeVars, daemonVars, ctx,
                   reported, rpc, faults>>

\* The job's deadline passes, or the poller's shutdown cancels the parent.
CtxEnds(how) ==
    /\ ctx = "live" /\ jobPc # "done"
    /\ ctx' = how
    /\ UNCHANGED <<jobVars, dataVars, signalVars, closeVars, daemonVars,
                   reported, rpc, faults, srv>>

\* The task is over, or the process is.
Terminated ==
    /\ crashed \/ (jobPc = "done" /\ daemonPc = "exited")
    /\ UNCHANGED vars

JobStep ==
    \/ ResetSteps
    \/ \E yields \in BOOLEAN, r \in JobResults \cup {Unspecified} : FireJob(yields, r)
    \/ \E yields, raw \in BOOLEAN, r \in StepResults \cup {Unspecified} :
          FireStep(yields, raw, r)
    \/ NextStage
    \/ Logf
    \/ \E keys \in SUBSET OutputKeys : SetOutputs(keys)
    \/ StopHeartbeats

CloseStep ==
    \/ CloseAcknowledged \/ CloseTimeout \/ Sentinel
    \/ LogSent("close") \/ OutputsSnapshot("close")

DaemonStep ==
    \/ LogTick \/ StateTick \/ LogNotified \/ StateNotified \/ LatencyTimer
    \/ CtxDone \/ HeartbeatStopped \/ Check
    \/ LogSkipped \/ LogSent("daemon") \/ OutputsSnapshot("daemon")

RpcStep ==
    \/ StateSkipped
    \/ StateSent
    \/ \E k \in 0..(MaxRows + 2) : LogReturned(k) \/ LogFailed(k)
    \/ \E sent \in SUBSET OutputKeys : StateReturned(sent)
    \/ \E handled \in BOOLEAN : StateFailed(handled)

Outside == UserCancels \/ \E how \in Interrupts \ {"user"} : CtxEnds(how)

Next ==
    \/ /\ ~crashed
       /\ \/ JobStep
          \/ \E words \in BOOLEAN : CloseBegin(words)
          \/ CloseStep \/ DaemonStep \/ RpcStep \/ Outside
    \/ Terminated

Spec == Init /\ [][Next]_vars

-----------------------------------------------------------------------------
StepState == [result : Results, started : BOOLEAN, index : Nat, length : Nat]
RowType == [no : Nat \ {0}, step : 0..NSteps]

\* Every variable keeps its type; in particular an RPC in flight carries what
\* its kind of request carries.
TypeOK ==
    /\ jobPc \in {"run", "outputs", "stopped", "wait", "sentinel", "flushLog",
                  "flushState", "done"}
    /\ cur \in 0..(NSteps + 1)
    /\ ctx \in {"live", "canceled", "deadline"}
    /\ logRows \in Seq(RowType) /\ logOffset \in Nat /\ produced \in Seq(RowType)
    /\ steps \in {<<>>} \cup [1..NSteps -> StepState]
    /\ result \in Results
    /\ stateChanged \in BOOLEAN
    /\ outputs \in [OutputKeys -> {"absent", "unsent", "sent"}]
    /\ reported \in BOOLEAN
    /\ closed \in BOOLEAN
    /\ attempts \in 0..(MaxAttempts - 1)
    /\ flush \in [log : {"pending", "ok", "gaveup"}, state : {"pending", "ok", "gaveup"}]
    /\ daemonClosed \in BOOLEAN /\ heartbeatStop \in BOOLEAN
    /\ logNotify \in BOOLEAN /\ stateNotify \in BOOLEAN /\ latencyArmed \in BOOLEAN
    /\ daemonPc \in {"select", "log", "logThenState", "state", "check", "exited"}
    /\ crashed \in BOOLEAN
    /\ faults \in 0..MaxFaults
    /\ \/ rpc = NoRpc
       \/ rpc \in [by : {"daemon", "close"}, kind : {"log"}, detached : BOOLEAN,
                   index : Nat, rows : Seq(RowType), noMore : BOOLEAN]
       \/ rpc \in [by : {"daemon", "close"}, kind : {"outputs"}, outs : SUBSET OutputKeys]
       \/ rpc \in [by : {"daemon", "close"}, kind : {"state"}, detached : BOOLEAN,
                   steps : {<<>>} \cup [1..NSteps -> StepState],
                   outs : SUBSET OutputKeys, result : Results]
    /\ srv \in [log : Seq(RowType), transferred : BOOLEAN,
                steps : {<<>>} \cup [1..NSteps -> StepState], result : Results,
                outputs : SUBSET OutputKeys, cancelled : BOOLEAN]

-----------------------------------------------------------------------------
(* Safety.                                                                 *)

\* The server's log is a prefix of what was produced: no row is lost,
\* duplicated or reordered by retries, partial acceptance or rows appended
\* while UpdateLog was in flight (ReportLog's ack arithmetic).
LogFidelity ==
    /\ logOffset <= Len(srv.log) /\ Len(srv.log) <= Len(produced)
    /\ srv.log = SubSeq(produced, 1, Len(srv.log))
    /\ logRows = SubSeq(produced, logOffset + 1, Len(produced))

\* The window of a step names exactly the rows of that step, although indexes
\* are taken while acknowledged rows leave the buffer and the lines of others
\* are filtered by duringSteps (Fire's LogIndex and LogLength).
StepWindows ==
    \A i \in DOMAIN steps :
        steps[i].length > 0 =>
            {n \in 1..Len(produced) : produced[n].step = i}
                = (steps[i].index + 1)..(steps[i].index + steps[i].length)

\* Whoever reads the log of a task at the server reads what the job printed,
\* and under each step its own rows.
LogTrue == LogFidelity /\ StepWindows

\* What a list of step states shows beyond freshly reset steps.
Shown(ss) == {<<i, ss[i]>> : i \in {j \in DOMAIN ss : ss[j] # FreshStep}}

\* A step state that differs from the last report, sent or in flight, is owed
\* to the server: a Fire during UpdateTask or a failed UpdateTask is not
\* silently lost (ReportState consumes stateChanged with its snapshot and
\* restores it on error).  Close reports whatever the flag says.
NoChangeForgotten ==
    LET told == IF rpc.kind = "state" THEN rpc.steps ELSE srv.steps
    IN  Shown(steps) # Shown(told) => stateChanged \/ closed

\* Close has stopped waiting for a daemon that was, or still is, in a slow RPC.
GaveUpOnDaemon == daemonClosed /\ (daemonPc # "exited" \/ crashed)

\* The server learns the result only from Close, after the log flush ended, and
\* with the whole log stored if that flush succeeded ("We need to ensure log
\* upload before this upload").  The log is archived too, unless the daemon's
\* slow RPC drained the sentinel row: the server ignores an empty NoMore.
ResultAfterLogs ==
    srv.result # Unspecified =>
        /\ closed /\ flush.log # "pending"
        /\ flush.log = "ok" =>
              srv.log = produced /\ (srv.transferred \/ GaveUpOnDaemon)

\* Close's UpdateLog carries at least one row, which the server needs to
\* honour NoMore: a daemon that Close has waited for cannot drain the sentinel
\* row before it.
FinalLogCarriesRows ==
    rpc.kind = "log" /\ rpc.noMore => rpc.rows # <<>> \/ GaveUpOnDaemon

\* The end of the log: it goes with a row, and before the result.
EndOfLog == ResultAfterLogs /\ FinalLogCarriesRows

\* An output counts as sent only if the server has it, and a successful Close
\* leaves none unsent.
OutputsDelivered ==
    \A k \in OutputKeys :
        /\ outputs[k] = "sent" => k \in srv.outputs
        /\ flush.state = "ok" => outputs[k] # "unsent"

\* A successful Close leaves the server with the reporter's final state, in
\* which no step is left open.
FinalStateComplete ==
    flush.state = "ok" =>
        /\ srv.result = result /\ srv.steps = steps
        /\ \A i \in DOMAIN steps : steps[i].result # Unspecified

\* What a successful Close leaves at the server is all there is to know.
FinalReportComplete == OutputsDelivered /\ FinalStateComplete

-----------------------------------------------------------------------------
(* The abstract specification this one implements.                         *)

Report == INSTANCE TaskReport WITH
    Outcomes <- Results \ {Unspecified}, NoOutcome <- Unspecified,
    received <- srv.log, archived <- srv.transferred, outcome <- srv.result

-----------------------------------------------------------------------------
(* What comments of the code promise and the code does not keep.           *)

\* "continue best effort": Close's 60 s timeout does not bring the process down.
SurvivesTimeout == ~crashed

-----------------------------------------------------------------------------
(* Liveness.  Each goroutine keeps running and every RPC ends (weak        *)
(* fairness); a case of the daemon's select that is ready again and again  *)
(* is chosen in the end, as Go picks among the ready cases at random, and  *)
(* a heartbeat falls due again and again (strong fairness).                *)
(* What each property waits for, once begun, is not taken back, so that    *)
(* "leads to" is the same as "time and again" here.                        *)

DaemonFair ==
    /\ WF_vars(~crashed /\ (DaemonStep \/ RpcStep))
    /\ SF_vars(LogTick) /\ SF_vars(StateTick)
    /\ SF_vars(CtxDone \/ HeartbeatStopped)
    /\ SF_vars(StateSent)

FairSpec == Spec /\ DaemonFair /\ WF_vars(~crashed /\ CloseStep)

\* Attempts of a flush that cost no fault: the call in flight when r.ctx ends.  A
\* cancellation by the user arrives with an answer, when no call is in flight.
Aborts == IF Interrupts \subseteq {"user"} THEN 0 ELSE 1

\* More attempts than can fail.
Persistent == MaxFaults + Aborts < MaxAttempts

\* Once called, Close returns, and with more attempts than can fail the server
\* then has the result.
CloseReturns ==
    []<>(JobAlive \/ (jobPc = "done" /\ (Persistent => srv.result = result)))

\* With more attempts than can fail and no call outliving its time, every step
\* of the reporter is a step of TaskReport or changes nothing the server sees
\* (Close's order of flushes), and once the log is archived the outcome follows.
ImplementsFairReport == Report!FairSpec

\* Rows reach the server even if the job falls silent, as long as the daemon
\* lives.
RowsReachServer ==
    \A n \in 1..MaxRows :
        []<>(Len(produced) >= n => Len(srv.log) >= n \/ daemonPc = "exited")

\* A cancellation by the user reaches the job's context, through the heartbeat
\* if the job is silent (#826).
CancelReachesJob ==
    []<>(srv.cancelled => ctx # "live" \/ heartbeatStop \/ closed)

\* "Stop heartbeating on cancel so Gitea sees the runner as offline".
HeartbeatsEnd == []<>(ctx # "live" \/ heartbeatStop => daemonPc = "exited")

\* Heartbeats go on as long as a cancellation could come back with one, and no
\* longer.
Heartbeats == CancelReachesJob /\ HeartbeatsEnd

=============================================================================
