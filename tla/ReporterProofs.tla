--------------------------- MODULE ReporterProofs ---------------------------
(***************************************************************************)
(* Theorems about Reporter, for any number of steps, rows, outputs, faults *)
(* and attempts.                                                           *)
(***************************************************************************)
EXTENDS Reporter, SequenceTheorems, TLAPS

-----------------------------------------------------------------------------
(* The types.                                                              *)

Steps == {<<>>} \cup [1..NSteps -> StepState]
Callers == {"daemon", "close"}
LogCall == [by : Callers, kind : {"log"}, detached : BOOLEAN, index : Nat,
            rows : Seq(RowType), noMore : BOOLEAN]
OutputsCall == [by : Callers, kind : {"outputs"}, outs : SUBSET OutputKeys]
StateCall == [by : Callers, kind : {"state"}, detached : BOOLEAN, steps : Steps,
              outs : SUBSET OutputKeys, result : Results]
Calls == {NoRpc} \cup LogCall \cup OutputsCall \cup StateCall
Server == [log : Seq(RowType), transferred : BOOLEAN, steps : Steps, result : Results,
           outputs : SUBSET OutputKeys, cancelled : BOOLEAN]
JobPlaces == {"run", "outputs", "stopped", "wait", "sentinel", "flushLog", "flushState", "done"}

\* The types of the job's side, of the buffer, and of the daemon, the calls and
\* the server.
JobTypes ==
    /\ jobPc \in JobPlaces
    /\ cur \in 0..(NSteps + 1)
    /\ steps \in Steps
    /\ result \in Results
    /\ stateChanged \in BOOLEAN
    /\ closed \in BOOLEAN
    /\ heartbeatStop \in BOOLEAN /\ logNotify \in BOOLEAN /\ stateNotify \in BOOLEAN
OutputTypes == outputs \in [OutputKeys -> {"absent", "unsent", "sent"}]
BufferTypes == logRows \in Seq(RowType) /\ logOffset \in Nat /\ produced \in Seq(RowType)
CloseTypes ==
    /\ attempts \in 0..(MaxAttempts - 1)
    /\ flush \in [log : {"pending", "ok", "gaveup"}, state : {"pending", "ok", "gaveup"}]
    /\ faults \in 0..MaxFaults
DaemonTypes ==
    /\ ctx \in {"live", "canceled", "deadline"}
    /\ reported \in BOOLEAN
    /\ daemonClosed \in BOOLEAN
    /\ latencyArmed \in BOOLEAN
    /\ daemonPc \in {"select", "log", "logThenState", "state", "check", "exited"}
    /\ crashed \in BOOLEAN
CallTypes == rpc \in Calls
ServerTypes == srv \in Server

Types == JobTypes /\ OutputTypes /\ BufferTypes /\ CloseTypes /\ DaemonTypes /\ CallTypes
         /\ ServerTypes

-----------------------------------------------------------------------------
(* The invariant.                                                          *)

\* The buffer is the rest of what was produced, the server's log the beginning.
LogKept ==
    /\ logOffset <= Len(srv.log) /\ Len(srv.log) <= Len(produced)
    /\ logOffset + Len(logRows) = Len(produced)
    /\ \A n \in 1..Len(logRows) : logRows[n] = produced[logOffset + n]
    /\ \A n \in 1..Len(srv.log) : srv.log[n] = produced[n]

\* A call in flight carries rows of the buffer, which no other call takes away.
CallKept ==
    rpc.kind = "log" =>
        /\ rpc.index = logOffset
        /\ logOffset + Len(rpc.rows) <= Len(produced)
        /\ \A n \in 1..Len(rpc.rows) : rpc.rows[n] = produced[logOffset + n]

RowsOf(i) == {n \in 1..Len(produced) : produced[n].step = i}

\* The window of a step is where its rows are; a step without a window has none.
WindowsKept ==
    \A i \in 1..NSteps :
        RowsOf(i) = IF i \in DOMAIN steps /\ steps[i].length > 0
                    THEN (steps[i].index + 1)..(steps[i].index + steps[i].length)
                    ELSE {}

\* A step is under way only where there are steps.
Started == cur # 0 => steps # <<>>

InMain == jobPc = "run" /\ cur \in 1..NSteps /\ steps # <<>>

\* The window of the step under way is open at the end of what was produced.
OpenAtEnd ==
    InMain /\ steps[cur].result = Unspecified /\ steps[cur].length > 0 =>
        steps[cur].index + steps[cur].length = Len(produced)

\* The steps come one after the other, and none after the job's result.
InTurn ==
    /\ InMain => result = Unspecified
    /\ jobPc = "run" /\ steps # <<>> /\ result = Unspecified =>
         \A k \in 1..NSteps :
             /\ k < cur /\ cur <= NSteps => steps[k].result # Unspecified
             /\ k > cur => steps[k].result = Unspecified /\ steps[k].length = 0

IInv == Types /\ LogKept /\ CallKept /\ WindowsKept /\ Started /\ OpenAtEnd /\ InTurn

-----------------------------------------------------------------------------
(* Facts about the data.                                                   *)

\* The states of the steps are a sequence of NSteps.
LEMMA StepsAreSeq ==
  ASSUME steps \in Steps, steps # <<>>
  PROVE  /\ steps \in [1..NSteps -> StepState] /\ DOMAIN steps = 1..NSteps
         /\ steps \in Seq(StepState) /\ Len(steps) = NSteps
<1>1. steps \in [1..NSteps -> StepState] /\ DOMAIN steps = 1..NSteps
  BY DEF Steps
<1>2. NSteps \in Nat
  BY ConstantsAssumption
<1>3. steps \in Seq(StepState)
  BY <1>1, <1>2, SeqDef
<1>4. Len(steps) \in Nat /\ DOMAIN steps = 1..Len(steps)
  BY <1>3, LenProperties
<1> QED BY <1>1, <1>2, <1>3, <1>4

\* What an entry makes of a step is a step again, with the window it says.
LEMMA LinedIsStep ==
  ASSUME NEW st \in StepState, logOffset + Len(logRows) \in Nat
  PROVE  /\ Lined(st) \in StepState
         /\ Lined(st).length = st.length + 1
         /\ Lined(st).index = (IF st.length = 0 THEN logOffset + Len(logRows) ELSE st.index)
         /\ Lined(st).result = st.result
<1> DEFINE at == IF st.length = 0 THEN logOffset + Len(logRows) ELSE st.index
<1>1. /\ st.length \in Nat /\ at \in Nat /\ st.result \in Results /\ st.started \in BOOLEAN
      /\ st = [result |-> st.result, started |-> st.started, index |-> st.index,
               length |-> st.length]
  BY DEF StepState
<1>2. Lined(st) = [result |-> st.result, started |-> st.started, index |-> at,
                   length |-> st.length + 1]
  <2> HIDE DEF at
  <2>1. Lined(st) = [st EXCEPT !.length = st.length + 1, !.index = at]
    BY DEF Lined, at
  <2> QED BY <1>1, <2>1
<1> QED BY <1>1, <1>2 DEF StepState

\* The same for a result.
LEMMA ResultedIsStep ==
  ASSUME NEW st \in StepState, NEW r \in Results, NEW next \in Nat
  PROVE  /\ Resulted(st, r, next) \in StepState
         /\ Resulted(st, r, next).length = st.length
         /\ st.length > 0 => Resulted(st, r, next).index = st.index
         /\ Resulted(st, r, next).result = r
<1> DEFINE at == IF st.length = 0 THEN next ELSE st.index
<1>1. /\ st.length \in Nat /\ at \in Nat /\ st.started \in BOOLEAN
      /\ st = [result |-> st.result, started |-> st.started, index |-> st.index,
               length |-> st.length]
  BY DEF StepState
<1>2. Resulted(st, r, next) = [result |-> r, started |-> st.started, index |-> at,
                               length |-> st.length]
  <2> HIDE DEF at
  <2>1. Resulted(st, r, next) = [st EXCEPT !.result = r, !.index = at]
    BY DEF Resulted, at
  <2> QED BY <1>1, <2>1
<1> QED BY <1>1, <1>2 DEF StepState

\* The same for the start of a step.
LEMMA BegunIsStep ==
  ASSUME NEW st \in StepState
  PROVE  /\ [st EXCEPT !.started = TRUE] \in StepState
         /\ [st EXCEPT !.started = TRUE].length = st.length
         /\ [st EXCEPT !.started = TRUE].index = st.index
         /\ [st EXCEPT !.started = TRUE].result = st.result
BY DEF StepState

\* Resolving open steps leaves their windows.
LEMMA Resolved ==
  ASSUME NEW ss \in Steps, NEW r \in Results
  PROVE  /\ Resolve(ss, r) \in Steps /\ DOMAIN Resolve(ss, r) = DOMAIN ss
         /\ \A i \in DOMAIN ss : Resolve(ss, r)[i].index = ss[i].index
                                 /\ Resolve(ss, r)[i].length = ss[i].length
<1>1. CASE ss = <<>>
  <2>1. DOMAIN ss = {}
    BY <1>1
  <2>2. Resolve(ss, r) = <<>>
    BY <1>1 DEF Resolve
  <2> QED BY <1>1, <2>1, <2>2 DEF Steps
<1>2. CASE ss \in [1..NSteps -> StepState]
  <2>1. \A i \in DOMAIN ss : ss[i] \in StepState
    BY <1>2
  <2>2. \A i \in DOMAIN ss : [ss[i] EXCEPT !.result = r] \in StepState
                             /\ [ss[i] EXCEPT !.result = r].index = ss[i].index
                             /\ [ss[i] EXCEPT !.result = r].length = ss[i].length
    BY <2>1 DEF StepState
  <2> QED BY <1>2, <2>1, <2>2 DEF Resolve, Steps
<1> QED BY <1>1, <1>2 DEF Steps

\* What a call of each kind carries.
LEMMA CallFields ==
  ASSUME CallTypes
  PROVE  /\ rpc.kind = "log" => rpc \in LogCall /\ rpc.rows \in Seq(RowType)
                                /\ rpc.index \in Nat /\ rpc.by \in Callers
         /\ rpc.kind = "outputs" => rpc \in OutputsCall /\ rpc.outs \in SUBSET OutputKeys
                                    /\ rpc.by \in Callers
         /\ rpc.kind = "state" => rpc \in StateCall /\ rpc.steps \in Steps /\ rpc.result \in Results
                                  /\ rpc.outs \in SUBSET OutputKeys /\ rpc.by \in Callers
BY DEF CallTypes, Calls, LogCall, OutputsCall, StateCall, NoRpc

\* What an entry does to the buffer: a row of step s, or nothing.
Added(s) ==
    /\ logRows' = Append(logRows, Row(Len(produced) + 1, s))
    /\ produced' = Append(produced, Row(Len(produced) + 1, s))
    /\ logOffset' = logOffset

\* A row of step s is new to s and to nobody else.
LEMMA RowAdded ==
  ASSUME BufferTypes, LogKept, CallKept, CallTypes, ServerTypes,
         NEW s \in 0..NSteps, Added(s), UNCHANGED <<rpc, srv>>
  PROVE  /\ BufferTypes' /\ LogKept' /\ CallKept'
         /\ Len(produced') = Len(produced) + 1
         /\ Len(logRows') = Len(logRows) + 1
         /\ \A i \in 1..NSteps :
               RowsOf(i)' = IF i = s THEN RowsOf(i) \cup {Len(produced) + 1} ELSE RowsOf(i)
<1> DEFINE row == Row(Len(produced) + 1, s)
<1>1. Len(produced) \in Nat /\ Len(logRows) \in Nat /\ logOffset \in Nat
  BY LenProperties DEF BufferTypes
<1>2. row \in RowType /\ row.step = s
  BY <1>1 DEF Row, RowType
<1>3. /\ produced' \in Seq(RowType) /\ Len(produced') = Len(produced) + 1
      /\ \A n \in 1..Len(produced) : produced'[n] = produced[n]
      /\ produced'[Len(produced) + 1] = row
  <2> HIDE DEF row
  <2>1. produced' = Append(produced, row)
    BY DEF Added, row
  <2> QED BY <2>1, <1>2, AppendProperties DEF BufferTypes
<1>4. /\ logRows' \in Seq(RowType) /\ Len(logRows') = Len(logRows) + 1
      /\ \A n \in 1..Len(logRows) : logRows'[n] = logRows[n]
      /\ logRows'[Len(logRows) + 1] = row
  <2> HIDE DEF row
  <2>1. logRows' = Append(logRows, row)
    BY DEF Added, row
  <2> QED BY <2>1, <1>2, AppendProperties DEF BufferTypes
<1>5. logOffset' = logOffset
  BY DEF Added
<1> HIDE DEF row
<1>6. BufferTypes'
  BY <1>1, <1>3, <1>4, <1>5 DEF BufferTypes
<1>7. LogKept'
  <2>1. Len(srv.log) \in Nat
    BY LenProperties DEF ServerTypes, Server
  <2>2. logOffset + Len(logRows) = Len(produced)
    BY DEF LogKept
  <2>3. \A n \in 1..Len(logRows') : logRows'[n] = produced'[logOffset' + n]
    <3> SUFFICES ASSUME NEW n \in 1..Len(logRows') PROVE logRows'[n] = produced'[logOffset' + n]
      OBVIOUS
    <3>1. CASE n = Len(logRows) + 1
      <4>1. logOffset' + n = Len(produced) + 1
        BY <1>1, <1>5, <2>2, <3>1
      <4> QED BY <1>3, <1>4, <3>1, <4>1
    <3>2. CASE n \in 1..Len(logRows)
      <4>1. logOffset + n \in 1..Len(produced)
        BY <1>1, <2>2, <3>2
      <4> QED BY <1>3, <1>4, <1>5, <3>2, <4>1 DEF LogKept
    <3> QED BY <1>1, <1>4, <3>1, <3>2
  <2>4. \A n \in 1..Len(srv.log) : srv.log[n] = produced'[n]
    BY <1>1, <1>3, <2>1 DEF LogKept
  <2>5. /\ logOffset' <= Len(srv.log) /\ Len(srv.log) <= Len(produced')
        /\ logOffset' + Len(logRows') = Len(produced')
    <3>1. logOffset <= Len(srv.log) /\ Len(srv.log) <= Len(produced)
      BY DEF LogKept
    <3> QED BY <1>1, <1>3, <1>4, <1>5, <2>1, <2>2, <3>1
  <2> QED BY <2>3, <2>4, <2>5 DEF LogKept
<1>8. CallKept'
  <2> SUFFICES ASSUME rpc.kind = "log" PROVE CallKept'
    BY DEF CallKept
  <2>1. Len(rpc.rows) \in Nat
    BY CallFields, LenProperties
  <2>2. \A n \in 1..Len(rpc.rows) : logOffset + n \in 1..Len(produced)
    BY <1>1, <2>1 DEF CallKept
  <2> QED BY <1>1, <1>3, <1>5, <2>1, <2>2 DEF CallKept
<1>9. ASSUME NEW i \in 1..NSteps
      PROVE  RowsOf(i)' = IF i = s THEN RowsOf(i) \cup {Len(produced) + 1} ELSE RowsOf(i)
  BY <1>1, <1>2, <1>3 DEF RowsOf
<1> QED BY <1>3, <1>4, <1>6, <1>7, <1>8, <1>9

\* The windows stay where they are.
SameWindows ==
    /\ DOMAIN steps' = DOMAIN steps
    /\ \A i \in DOMAIN steps :
          /\ steps'[i].length = steps[i].length
          /\ steps[i].length > 0 => steps'[i].index = steps[i].index

\* A row of the job, or none, leaves the windows as they are.
LEMMA JobRow ==
  ASSUME BufferTypes, CallTypes, ServerTypes, LogKept, CallKept, WindowsKept,
         Added(0) \/ UNCHANGED bufVars, SameWindows, UNCHANGED <<rpc, srv>>
  PROVE  BufferTypes' /\ LogKept' /\ CallKept' /\ WindowsKept'
<1>1. BufferTypes' /\ LogKept' /\ CallKept' /\ \A i \in 1..NSteps : RowsOf(i)' = RowsOf(i)
  <2>1. CASE Added(0)
    <3>1. 0 \in 0..NSteps /\ \A i \in 1..NSteps : i # 0
      BY ConstantsAssumption
    <3> QED BY <2>1, <3>1, RowAdded
  <2>2. CASE UNCHANGED bufVars
    BY <2>2 DEF bufVars, BufferTypes, LogKept, CallKept, RowsOf
  <2> QED BY <2>1, <2>2
<1>2. WindowsKept'
  <2> SUFFICES ASSUME NEW i \in 1..NSteps
               PROVE  RowsOf(i)' = IF i \in DOMAIN steps' /\ steps'[i].length > 0
                         THEN (steps'[i].index + 1)..(steps'[i].index + steps'[i].length)
                         ELSE {}
    BY DEF WindowsKept
  <2>1. RowsOf(i) = IF i \in DOMAIN steps /\ steps[i].length > 0
                    THEN (steps[i].index + 1)..(steps[i].index + steps[i].length)
                    ELSE {}
    BY DEF WindowsKept
  <2> QED BY <1>1, <2>1 DEF SameWindows
<1> QED BY <1>1, <1>2

\* The job's goroutine leaves the daemon, the calls and the server alone.
LEMMA BackKept ==
  ASSUME Types, UNCHANGED backVars
  PROVE  /\ CloseTypes' /\ DaemonTypes' /\ CallTypes' /\ ServerTypes'
         /\ closed' = closed /\ rpc' = rpc /\ srv' = srv
BY DEF Types, CloseTypes, DaemonTypes, CallTypes, ServerTypes, backVars, closeVars, daemonVars,
       wireVars

\* What touches neither rows nor steps keeps what is said about them.
LEMMA Untouched ==
  ASSUME BufferTypes, LogKept, WindowsKept, Started, OpenAtEnd, InTurn,
         UNCHANGED <<cur, steps, result, bufVars>>, srv'.log = srv.log,
         jobPc' = "run" => jobPc = "run"
  PROVE  BufferTypes' /\ LogKept' /\ WindowsKept' /\ Started' /\ OpenAtEnd' /\ InTurn'
<1>1. BufferTypes' /\ LogKept' /\ Started'
  BY DEF BufferTypes, bufVars, LogKept, Started
<1>2. WindowsKept'
  BY DEF WindowsKept, RowsOf, bufVars
<1>3. OpenAtEnd' /\ InTurn'
  BY DEF OpenAtEnd, InTurn, InMain, bufVars
<1> QED BY <1>1, <1>2, <1>3

-----------------------------------------------------------------------------
(* The job's goroutine.                                                    *)

\* Fresh steps have no windows, and nothing has been printed for them.
LEMMA ResetStepsKeeps == ASSUME IInv, ResetSteps PROVE IInv'
<1> USE DEF IInv, Types
<1>1. CloseTypes' /\ DaemonTypes' /\ CallTypes' /\ ServerTypes' /\ rpc' = rpc /\ srv' = srv
      /\ closed' = closed
  BY BackKept DEF ResetSteps
<1>2. steps' \in [1..NSteps -> StepState]
  BY DEF ResetSteps, FreshStep, StepState, Results
<1>3. JobTypes' /\ OutputTypes'
  BY <1>1, <1>2 DEF ResetSteps, JobTypes, OutputTypes, Steps, jobVars, signalVars
<1>4. BufferTypes' /\ LogKept' /\ CallKept'
  BY <1>1 DEF ResetSteps, BufferTypes, LogKept, CallKept, bufVars
<1>5. \A i \in 1..NSteps : steps'[i].length = 0 /\ steps'[i].result = Unspecified
  BY DEF ResetSteps, FreshStep
<1>6. steps' # <<>>
  <2>1. 1 \in DOMAIN steps'
    BY ConstantsAssumption DEF ResetSteps
  <2> QED BY <2>1
<1>7. WindowsKept'
  <2>1. \A i \in 1..NSteps : RowsOf(i) = {}
    BY DEF WindowsKept, ResetSteps
  <2>2. \A i \in 1..NSteps : RowsOf(i)' = RowsOf(i)
    BY DEF RowsOf, ResetSteps, bufVars
  <2> QED BY <2>1, <2>2, <1>5 DEF WindowsKept
<1>8. cur' = 0 /\ Started' /\ OpenAtEnd' /\ InTurn'
  BY <1>5, <1>6, ConstantsAssumption DEF ResetSteps, jobVars, Started, OpenAtEnd, InTurn, InMain
<1> QED BY <1>1, <1>3, <1>4, <1>7, <1>8

\* An entry of the job comes when no step is under way, and its row is the job's.
LEMMA FireJobKeeps ==
  ASSUME IInv, NEW yields \in BOOLEAN, NEW r \in JobResults \cup {Unspecified},
         FireJob(yields, r)
  PROVE  IInv'
<1> USE DEF IInv, Types
<1>1. CloseTypes' /\ DaemonTypes' /\ CallTypes' /\ ServerTypes' /\ rpc' = rpc /\ srv' = srv
      /\ closed' = closed
  BY BackKept DEF FireJob
<1>2. r \in Results /\ {"skipped", "cancelled"} \subseteq Results
  BY ConstantsAssumption DEF Results
<1>3. steps \in Steps /\ DOMAIN steps = 1..NSteps
  BY StepsAreSeq DEF FireJob, JobTypes
<1>4. steps' \in Steps /\ SameWindows
  <2>1. CASE r = Unspecified
    BY <2>1, <1>3 DEF FireJob, SameWindows
  <2>2. CASE r # Unspecified
    <3>1. PICK q \in Results : steps' = Resolve(steps, q)
      BY <2>2, <1>2 DEF FireJob
    <3> QED BY <3>1, <1>3, Resolved DEF SameWindows
  <2> QED BY <2>1, <2>2
<1>5. BufferTypes' /\ LogKept' /\ CallKept' /\ WindowsKept'
  <2>1. Added(0) \/ UNCHANGED bufVars
    BY DEF FireJob, AppendRow, Added, bufVars
  <2> QED BY <2>1, <1>1, <1>4, JobRow
<1>6. result' \in Results /\ (result' = Unspecified => r = Unspecified)
  BY <1>2 DEF FireJob, JobTypes
<1>7. JobTypes' /\ OutputTypes'
  BY <1>1, <1>4, <1>6 DEF FireJob, JobTypes, OutputTypes, jobVars, Notify
<1>8. steps' # <<>> /\ cur' = cur /\ jobPc' = jobPc
  <2>1. DOMAIN steps' # {}
    BY <1>3, <1>4, ConstantsAssumption DEF SameWindows
  <2> QED BY <2>1 DEF FireJob, jobVars
<1>9. Started' /\ OpenAtEnd' /\ InTurn'
  <2>1. ~InMain' /\ Started' /\ OpenAtEnd'
    BY <1>8 DEF FireJob, InMain, Started, OpenAtEnd
  <2>2. InTurn'
    BY <2>1, <1>6, <1>8 DEF FireJob, InTurn
  <2> QED BY <2>1, <2>2
<1> QED BY <1>1, <1>5, <1>7, <1>9

\* A line that is not raw yields no row once the step has a window.
LEMMA DuringStep ==
  ASSUME IInv, jobPc = "run", cur \in 1..NSteps, steps[cur].result = Unspecified,
         steps[cur].length > 0
  PROVE  DuringSteps
<1>1. steps # <<>> /\ Len(steps) = NSteps /\ NSteps \in Nat \ {0}
  <2>1. steps # <<>>
    BY DEF IInv, Started
  <2> QED BY <2>1, StepsAreSeq, ConstantsAssumption DEF IInv, Types, JobTypes
<1>2. InMain /\ result = Unspecified
  BY <1>1 DEF IInv, InTurn, InMain
<1>3. \A k \in 1..NSteps : /\ k < cur => steps[k].result # Unspecified
                           /\ k > cur => steps[k].result = Unspecified
  BY <1>1, <1>2 DEF IInv, InTurn
<1>4. steps[1].result # Unspecified \/ steps[1].length > 0
  <2>1. CASE cur = 1
    BY <2>1
  <2>2. CASE cur > 1
    <3>1. 1 \in 1..NSteps /\ 1 < cur
      BY <2>2, <1>1
    <3>2. \A k \in 1..NSteps : k = 1 => steps[k].result # Unspecified
      BY <3>1, <1>3
    <3> QED BY <3>1, <3>2
  <2> QED BY <2>1, <2>2, <1>1
<1>5. steps[NSteps].result = Unspecified
  <2>1. CASE cur = NSteps
    BY <2>1
  <2>2. CASE cur < NSteps
    BY <2>2, <1>1, <1>3
  <2> QED BY <2>1, <2>2, <1>1
<1> QED BY <1>1, <1>4, <1>5 DEF DuringSteps

\* A raw line of the step under way extends its window at the end of the log; any
\* other entry of the step yields no row once there is a window (DuringStep).
LEMMA FireStepKeeps ==
  ASSUME IInv, NEW yields \in BOOLEAN, NEW raw \in BOOLEAN,
         NEW r \in StepResults \cup {Unspecified}, FireStep(yields, raw, r)
  PROVE  IInv'
<1> USE DEF IInv, Types
<1>1. CloseTypes' /\ DaemonTypes' /\ CallTypes' /\ ServerTypes' /\ rpc' = rpc /\ srv' = srv
      /\ closed' = closed
  BY BackKept DEF FireStep
<1>2. cur \in 1..NSteps /\ jobPc = "run" /\ steps[cur].result = Unspecified
      /\ UNCHANGED <<jobPc, cur, result>>
  BY DEF FireStep, jobVars
<1>3. steps \in [1..NSteps -> StepState] /\ steps[cur] \in StepState
  <2>1. cur # 0
    BY <1>2
  <2> QED BY <2>1, <1>2, StepsAreSeq DEF Started, JobTypes
<1>4. r \in Results
  BY ConstantsAssumption DEF Results
<1>5. /\ Len(produced) \in Nat /\ Len(logRows) \in Nat /\ logOffset \in Nat
      /\ logOffset + Len(logRows) = Len(produced)
  BY LenProperties DEF BufferTypes, LogKept
<1>6. BufferTypes'
  <2>1. Added(cur) \/ Added(0) \/ UNCHANGED bufVars
    BY DEF FireStep, AppendRow, Added, bufVars
  <2>2. cur \in 0..NSteps /\ 0 \in 0..NSteps
    BY <1>2, ConstantsAssumption
  <2>3. CASE UNCHANGED bufVars
    BY <2>3 DEF BufferTypes, bufVars
  <2> QED BY <2>1, <2>2, <2>3, <1>1, RowAdded
<1>7. Len(logRows') \in Nat
  BY <1>6, LenProperties DEF BufferTypes
<1> DEFINE old == steps[cur]
           begun == [old EXCEPT !.started = TRUE]
           lined == IF raw /\ yields THEN Lined(begun) ELSE begun
           new == IF r = Unspecified THEN lined ELSE Resulted(lined, r, logOffset + Len(logRows'))
<1>8. steps' = [steps EXCEPT ![cur] = new]
  BY DEF FireStep
<1>9. begun \in StepState /\ begun.length = old.length /\ begun.index = old.index
      /\ begun.result = old.result
  BY <1>3, BegunIsStep
<1>10. /\ new \in StepState
       /\ new.result = IF r = Unspecified THEN Unspecified ELSE r
       /\ raw /\ yields => /\ new.length = old.length + 1
                           /\ new.index = IF old.length = 0 THEN Len(produced) ELSE old.index
       /\ ~(raw /\ yields) => /\ new.length = old.length
                              /\ old.length > 0 => new.index = old.index
  <2> HIDE DEF old, begun
  <2>1. /\ lined \in StepState /\ lined.result = begun.result
        /\ raw /\ yields => /\ lined.length = begun.length + 1
                            /\ lined.index = IF begun.length = 0 THEN Len(produced) ELSE begun.index
        /\ ~(raw /\ yields) => lined.length = begun.length /\ lined.index = begun.index
    BY <1>5, <1>9, LinedIsStep
  <2>2. begun.length \in Nat /\ lined.length \in Nat
    BY <1>9, <2>1 DEF StepState
  <2>3. logOffset + Len(logRows') \in Nat
    BY <1>5, <1>7
  <2>4. old.result = Unspecified
    BY <1>2 DEF old
  <2>5. /\ new \in StepState
        /\ new.result = IF r = Unspecified THEN lined.result ELSE r
        /\ new.length = lined.length
        /\ lined.length > 0 => new.index = lined.index
    <3> HIDE DEF lined
    <3> QED BY <2>1, <2>3, <1>4, ResultedIsStep
  <2> HIDE DEF lined, new
  <2> QED BY <1>9, <2>1, <2>2, <2>4, <2>5
<1>11. old \in StepState /\ old.length \in Nat /\ old.index \in Nat
  BY <1>3 DEF StepState
<1> HIDE DEF new, old
<1>12. /\ steps' \in [1..NSteps -> StepState] /\ steps'[cur] = new
       /\ \A k \in 1..NSteps \ {cur} : steps'[k] = steps[k]
  BY <1>2, <1>3, <1>8, <1>10
<1>13. JobTypes' /\ OutputTypes'
  BY <1>1, <1>2, <1>12 DEF FireStep, JobTypes, OutputTypes, Steps, jobVars, Notify
<1>14. steps # <<>> /\ steps' # <<>>
  <2>1. cur \in DOMAIN steps' /\ cur \in DOMAIN steps
    BY <1>2, <1>3, <1>12
  <2> QED BY <2>1
<1>15. Started' /\ InTurn'
  <2>1. InMain /\ result = Unspecified /\ Started'
    BY <1>2, <1>14 DEF InMain, InTurn, Started
  <2>2. \A k \in 1..NSteps :
             /\ k < cur => steps[k].result # Unspecified
             /\ k > cur => steps[k].result = Unspecified /\ steps[k].length = 0
    BY <2>1, <1>2 DEF InTurn, InMain
  <2>3. \A k \in 1..NSteps :
             /\ k < cur => steps'[k].result # Unspecified
             /\ k > cur => steps'[k].result = Unspecified /\ steps'[k].length = 0
    BY <2>2, <1>2, <1>12, ConstantsAssumption
  <2> QED BY <2>1, <2>3, <1>2 DEF InTurn, InMain
<1>16. CASE raw /\ yields
  <2>1. Added(cur) /\ cur \in 0..NSteps
    BY <1>2, <1>16 DEF FireStep, AppendRow, Added
  <2>2. /\ BufferTypes' /\ LogKept' /\ CallKept' /\ Len(produced') = Len(produced) + 1
        /\ \A i \in 1..NSteps :
               RowsOf(i)' = IF i = cur THEN RowsOf(i) \cup {Len(produced) + 1} ELSE RowsOf(i)
    BY <2>1, <1>1, RowAdded
  <2>3. old.length > 0 => old.index + old.length = Len(produced)
    BY <1>2, <1>14 DEF OpenAtEnd, InMain, old
  <2>4. new.index + new.length = Len(produced) + 1 /\ new.length > 0
    BY <1>5, <1>10, <1>11, <1>16, <2>3
  <2>5. OpenAtEnd'
    BY <1>2, <1>12, <2>2, <2>4 DEF OpenAtEnd
  <2>6. ASSUME NEW i \in 1..NSteps, i = cur
        PROVE  RowsOf(i)' = (new.index + 1)..(new.index + new.length)
    <3>1. RowsOf(i) = IF old.length > 0 THEN (old.index + 1)..(old.index + old.length) ELSE {}
      BY <2>6, <1>3 DEF WindowsKept, old
    <3>2. RowsOf(i)' = RowsOf(i) \cup {Len(produced) + 1}
      BY <2>2, <2>6
    <3>3. CASE old.length = 0
      <4>1. new.index = Len(produced) /\ new.length = 1 /\ RowsOf(i) = {}
        BY <3>1, <3>3, <1>10, <1>16
      <4> QED BY <4>1, <3>2, <1>5
    <3>4. CASE old.length > 0
      <4>1. new.index = old.index /\ new.length = old.length + 1
        BY <3>4, <1>10, <1>11, <1>16
      <4>2. RowsOf(i) = (old.index + 1)..(old.index + old.length)
        BY <3>1, <3>4
      <4>3. (old.index + 1)..(old.index + old.length) \cup {old.index + old.length + 1}
              = (old.index + 1)..(old.index + (old.length + 1))
        BY <1>11
      <4> QED BY <4>1, <4>2, <4>3, <3>4, <3>2, <2>3
    <3> QED BY <3>3, <3>4, <1>11
  <2>7. WindowsKept'
    <3> SUFFICES ASSUME NEW i \in 1..NSteps
                 PROVE  RowsOf(i)' = IF i \in DOMAIN steps' /\ steps'[i].length > 0
                           THEN (steps'[i].index + 1)..(steps'[i].index + steps'[i].length)
                           ELSE {}
      BY DEF WindowsKept
    <3>1. CASE i = cur
      <4>1. i \in DOMAIN steps' /\ steps'[i] = new
        BY <3>1, <1>12
      <4> QED BY <3>1, <4>1, <2>4, <2>6
    <3>2. CASE i # cur
      <4>1. RowsOf(i) = IF steps[i].length > 0 THEN (steps[i].index + 1)..(steps[i].index + steps[i].length)
                        ELSE {}
        BY <1>3 DEF WindowsKept
      <4> QED BY <3>2, <4>1, <2>2, <1>12
    <3> QED BY <3>1, <3>2
  <2> QED BY <1>1, <1>13, <1>15, <2>2, <2>5, <2>7
<1>17. CASE ~(raw /\ yields)
  <2>1. Added(0) \/ UNCHANGED bufVars
    BY <1>17 DEF FireStep, AppendRow, Added, bufVars
  <2>2. old.length > 0 => UNCHANGED bufVars
    <3>1. old.length > 0 => DuringSteps
      BY <1>2, DuringStep DEF old
    <3> QED BY <1>17, <3>1 DEF FireStep, AppendRow, bufVars
  <2>3. SameWindows
    <3>1. DOMAIN steps' = DOMAIN steps /\ DOMAIN steps = 1..NSteps
      BY <1>3, <1>12
    <3>2. new.length = steps[cur].length /\ (steps[cur].length > 0 => new.index = steps[cur].index)
      BY <1>10, <1>17 DEF old
    <3> QED BY <3>1, <3>2, <1>12 DEF SameWindows
  <2>4. BufferTypes' /\ LogKept' /\ CallKept' /\ WindowsKept'
    BY <2>1, <2>3, <1>1, JobRow
  <2>5. OpenAtEnd'
    <3> SUFFICES ASSUME new.length > 0 PROVE new.index + new.length = Len(produced')
      BY <1>2, <1>12 DEF OpenAtEnd
    <3>1. old.length > 0 /\ new.length = old.length /\ new.index = old.index /\ produced' = produced
      BY <1>10, <1>17, <2>2 DEF bufVars
    <3> QED BY <3>1, <1>2, <1>14 DEF OpenAtEnd, InMain, old
  <2> QED BY <1>1, <1>13, <1>15, <2>4, <2>5
<1> QED BY <1>16, <1>17

\* The next step has neither a result nor a window yet.
LEMMA NextStageKeeps == ASSUME IInv, NextStage PROVE IInv'
<1> USE DEF IInv, Types
<1>1. CloseTypes' /\ DaemonTypes' /\ CallTypes' /\ ServerTypes' /\ rpc' = rpc /\ srv' = srv
      /\ closed' = closed
  BY BackKept DEF NextStage
<1>2. UNCHANGED <<jobPc, steps, result, bufVars, outputs>>
  BY DEF NextStage, dataVars, stateVars
<1>3. NSteps \in Nat \ {0} /\ cur \in 0..NSteps + 1 /\ steps # <<>>
  BY ConstantsAssumption DEF NextStage, JobTypes
<1>4. cur' \in 0..NSteps + 1
  BY <1>3 DEF NextStage
<1>5. JobTypes' /\ OutputTypes' /\ BufferTypes'
  BY <1>1, <1>2, <1>4 DEF NextStage, JobTypes, OutputTypes, BufferTypes, signalVars, bufVars,
                          dataVars, stateVars
<1>6. LogKept' /\ CallKept' /\ WindowsKept' /\ Started'
  BY <1>1, <1>2, <1>3 DEF LogKept, CallKept, WindowsKept, RowsOf, Started, bufVars
<1>7. CASE cur' = NSteps + 1
  <2>1. ~InMain'
    BY <1>3, <1>7 DEF InMain
  <2>2. OpenAtEnd'
    BY <2>1 DEF OpenAtEnd
  <2>3. InTurn'
    BY <2>1, <1>3, <1>7 DEF InTurn
  <2> QED BY <1>1, <1>5, <1>6, <2>2, <2>3
<1>8. CASE cur' # NSteps + 1
  <2>1. cur < NSteps /\ cur' = cur + 1 /\ (cur > 0 => steps[cur].result # Unspecified)
    BY <1>8 DEF NextStage
  <2>2. jobPc = "run" /\ result = Unspecified
    BY DEF NextStage
  <2>3. \A k \in 1..NSteps :
           /\ k < cur => steps[k].result # Unspecified
           /\ k > cur => steps[k].result = Unspecified /\ steps[k].length = 0
    BY <1>3, <2>1, <2>2 DEF InTurn
  <2>4. \A k \in 1..NSteps :
           /\ k < cur' => steps[k].result # Unspecified
           /\ k > cur' => steps[k].result = Unspecified /\ steps[k].length = 0
    <3> SUFFICES ASSUME NEW k \in 1..NSteps
                 PROVE  /\ k < cur' => steps[k].result # Unspecified
                        /\ k > cur' => steps[k].result = Unspecified /\ steps[k].length = 0
      OBVIOUS
    <3>1. CASE k = cur
      BY <3>1, <2>1, <1>3
    <3>2. CASE k # cur
      <4>1. (k < cur' => k < cur) /\ (k > cur' => k > cur)
        BY <3>2, <2>1, <1>3
      <4> QED BY <4>1, <2>3
    <3> QED BY <3>1, <3>2
  <2>5. InTurn'
    BY <1>2, <2>2, <2>4 DEF InTurn
  <2>6. OpenAtEnd'
    <3>1. cur' \in 1..NSteps /\ cur' > cur
      BY <1>3, <2>1
    <3>2. steps[cur'].length = 0
      BY <3>1, <2>3
    <3> QED BY <3>2, <1>2 DEF OpenAtEnd
  <2> QED BY <1>1, <1>5, <1>6, <2>5, <2>6
<1> QED BY <1>7, <1>8

\* Logf comes when no step is under way.
LEMMA LogfKeeps == ASSUME IInv, Logf PROVE IInv'
<1> USE DEF IInv, Types
<1>1. CloseTypes' /\ DaemonTypes' /\ CallTypes' /\ ServerTypes' /\ rpc' = rpc /\ srv' = srv
      /\ closed' = closed
  BY BackKept DEF Logf
<1>2. UNCHANGED <<jobVars, stateVars, outputs, signalVars>> /\ ~InMain
  BY DEF Logf, InMain
<1>3. JobTypes' /\ OutputTypes'
  BY <1>1, <1>2 DEF JobTypes, OutputTypes, jobVars, stateVars, signalVars
<1>4. BufferTypes' /\ LogKept' /\ CallKept' /\ WindowsKept'
  <2>1. Added(0)
    BY DEF Logf, AppendRow, Added
  <2>2. SameWindows
    BY <1>2 DEF SameWindows, stateVars
  <2> QED BY <2>1, <2>2, <1>1, JobRow
<1>5. Started' /\ OpenAtEnd' /\ InTurn'
  <2>1. ~InMain'
    BY <1>2 DEF InMain, jobVars, stateVars
  <2>2. OpenAtEnd' /\ Started'
    BY <2>1, <1>2 DEF OpenAtEnd, Started, jobVars, stateVars
  <2>3. InTurn'
    BY <2>1, <1>2 DEF InTurn, jobVars, stateVars
  <2> QED BY <2>2, <2>3
<1> QED BY <1>1, <1>3, <1>4, <1>5

\* Outputs and the end of heartbeats come after the steps.
LEMMA EndOfJobKeeps ==
  ASSUME IInv, (\E keys \in SUBSET OutputKeys : SetOutputs(keys)) \/ StopHeartbeats
  PROVE  IInv'
<1> USE DEF IInv, Types
<1>1. UNCHANGED backVars /\ UNCHANGED <<cur, bufVars, stateVars>> /\ jobPc' \in {"outputs", "stopped"}
  BY DEF SetOutputs, StopHeartbeats, dataVars
<1>2. CloseTypes' /\ DaemonTypes' /\ CallTypes' /\ ServerTypes' /\ rpc' = rpc /\ srv' = srv
      /\ closed' = closed
  BY <1>1, BackKept
<1>3. BufferTypes' /\ LogKept' /\ WindowsKept' /\ Started' /\ OpenAtEnd' /\ InTurn'
  BY <1>1, <1>2, Untouched DEF stateVars
<1>4. CallKept'
  BY <1>1, <1>2 DEF CallKept, bufVars
<1>5. JobTypes'
  BY <1>1, <1>2 DEF SetOutputs, StopHeartbeats, JobTypes, JobPlaces, stateVars, signalVars
<1>6. OutputTypes'
  BY DEF SetOutputs, StopHeartbeats, OutputTypes, dataVars
<1> QED BY <1>2, <1>3, <1>4, <1>5, <1>6

-----------------------------------------------------------------------------
(* Close.                                                                  *)

\* Close resolves the open steps and appends a row of the job.
LEMMA CloseBeginKeeps == ASSUME IInv, NEW words \in BOOLEAN, CloseBegin(words) PROVE IInv'
<1> USE DEF IInv, Types
<1>1. CloseTypes' /\ DaemonTypes' /\ CallTypes' /\ ServerTypes' /\ rpc' = rpc /\ srv' = srv
  BY DEF CloseBegin, CloseTypes, DaemonTypes, CallTypes, ServerTypes, daemonVars, wireVars
<1>2. {"cancelled", "failure"} \subseteq Results
  BY DEF Results
<1>3. steps \in Steps
  BY DEF JobTypes
<1>4. steps' \in Steps /\ SameWindows
  <2>1. CASE result = Unspecified
    <3>1. steps' = Resolve(steps, "cancelled")
      BY <2>1 DEF CloseBegin
    <3> QED BY <3>1, <1>2, <1>3, Resolved DEF SameWindows
  <2>2. CASE result # Unspecified
    BY <2>2, <1>3 DEF CloseBegin, SameWindows
  <2> QED BY <2>1, <2>2
<1>5. BufferTypes' /\ LogKept' /\ CallKept' /\ WindowsKept'
  <2>1. Added(0) \/ UNCHANGED bufVars
    BY DEF CloseBegin, AppendRow, Added, bufVars
  <2> QED BY <2>1, <1>1, <1>4, JobRow
<1>6. JobTypes' /\ OutputTypes'
  BY <1>2, <1>4 DEF CloseBegin, JobTypes, JobPlaces, OutputTypes, Notify
<1>7. OpenAtEnd' /\ InTurn'
  BY DEF CloseBegin, OpenAtEnd, InTurn, InMain
<1>8. Started'
  <2>1. steps # <<>> => steps' # <<>>
    <3>1. ASSUME steps # <<>> PROVE DOMAIN steps' # {}
      <4>1. DOMAIN steps = 1..NSteps
        BY <3>1, <1>3, StepsAreSeq
      <4>2. 1 \in DOMAIN steps'
        BY <4>1, <1>4, ConstantsAssumption DEF SameWindows
      <4> QED BY <4>2
    <3> QED BY <3>1
  <2> QED BY <2>1 DEF CloseBegin, Started
<1> QED BY <1>1, <1>5, <1>6, <1>7, <1>8

\* Close waits, and makes sure of a row.
LEMMA CloseMovesKeep ==
  ASSUME IInv, CloseAcknowledged \/ CloseTimeout \/ Sentinel
  PROVE  IInv'
<1> USE DEF IInv, Types
<1>1. PICK from, to \in {"wait", "sentinel", "flushLog"} : CloseMoves(from, to)
  BY DEF CloseAcknowledged, CloseTimeout, Sentinel
<1>2. daemonClosed' \in BOOLEAN
  BY DEF CloseAcknowledged, CloseTimeout, Sentinel, DaemonTypes
<1>3. Added(0) \/ UNCHANGED bufVars
  BY DEF CloseAcknowledged, CloseTimeout, Sentinel, AppendRow, Added, bufVars
<1>4. /\ CloseTypes' /\ DaemonTypes' /\ CallTypes' /\ ServerTypes' /\ JobTypes' /\ OutputTypes'
      /\ rpc' = rpc /\ srv' = srv /\ steps' = steps /\ cur' = cur /\ jobPc' # "run"
  BY <1>1, <1>2 DEF CloseMoves, CloseTypes, DaemonTypes, CallTypes, ServerTypes, JobTypes,
                    JobPlaces, OutputTypes, stateVars, signalVars, closeVars, wireVars
<1>5. BufferTypes' /\ LogKept' /\ CallKept' /\ WindowsKept'
  <2>1. SameWindows
    BY <1>4 DEF SameWindows
  <2> QED BY <2>1, <1>3, <1>4, JobRow
<1>6. Started' /\ OpenAtEnd' /\ InTurn'
  BY <1>4 DEF Started, OpenAtEnd, InTurn, InMain
<1> QED BY <1>4, <1>5, <1>6

-----------------------------------------------------------------------------
(* The daemon.                                                             *)

\* A turn of the daemon, and what happens outside, leave job, data, calls and log.
LEMMA TurnKeeps ==
  ASSUME IInv, DaemonTypes', JobTypes', ServerTypes', srv'.log = srv.log,
         UNCHANGED <<jobVars, bufVars, stateVars, outputs, closeVars, rpc, faults>>
  PROVE  IInv'
<1> USE DEF IInv, Types
<1>1. OutputTypes' /\ CloseTypes' /\ CallTypes'
  BY DEF OutputTypes, CloseTypes, CallTypes, closeVars
<1>2. BufferTypes' /\ LogKept' /\ WindowsKept' /\ Started' /\ OpenAtEnd' /\ InTurn'
  BY Untouched DEF jobVars, stateVars
<1>3. CallKept'
  BY DEF CallKept, bufVars
<1> QED BY <1>1, <1>2, <1>3

\* A case of the select.
LEMMA SelectKeeps ==
  ASSUME IInv,
         LogTick \/ StateTick \/ LogNotified \/ StateNotified \/ LatencyTimer
  PROVE  IInv'
<1> USE DEF IInv, Types
<1>1. \E ready, armed : \E next \in {"log", "state", "logThenState", "check"} :
         Turn(ready, next, armed) /\ armed \in BOOLEAN
  BY DEF LogTick, StateTick, LogNotified, StateNotified, LatencyTimer, DaemonTypes
<1>2. UNCHANGED <<jobVars, dataVars, closeVars, wireVars>> /\ DaemonTypes'
  BY <1>1 DEF Turn, DaemonTypes, wireVars
<1>3. heartbeatStop' \in BOOLEAN /\ logNotify' \in BOOLEAN /\ stateNotify' \in BOOLEAN
  BY DEF LogTick, StateTick, LogNotified, StateNotified, LatencyTimer, signalVars, JobTypes
<1>4. JobTypes' /\ ServerTypes' /\ srv' = srv
  BY <1>2, <1>3 DEF JobTypes, ServerTypes, jobVars, dataVars, stateVars, closeVars, wireVars
<1> QED BY <1>2, <1>4, TurnKeeps DEF dataVars, wireVars

\* The end of the loop, and of a turn.
LEMMA LeaveKeeps ==
  ASSUME IInv, CtxDone \/ HeartbeatStopped \/ Check \/ LogSkipped
  PROVE  IInv'
<1> USE DEF IInv, Types
<1>1. UNCHANGED <<jobVars, dataVars, signalVars, closeVars, ctx, reported, rpc, faults, srv>>
  BY DEF CtxDone, HeartbeatStopped, Check, LogSkipped, Leave, DaemonMoves, wireVars
<1>2. DaemonTypes'
  <2>1. CASE Leave
    BY <2>1, <1>1 DEF Leave, DaemonTypes
  <2>2. CASE \E to \in {"select", "state", "check"} : DaemonMoves(to)
    BY <2>2 DEF DaemonMoves, DaemonTypes
  <2> QED BY <2>1, <2>2 DEF CtxDone, HeartbeatStopped, Check, LogSkipped, AfterLog
<1>3. JobTypes' /\ ServerTypes'
  BY <1>1 DEF JobTypes, ServerTypes, jobVars, dataVars, stateVars, closeVars, signalVars
<1> QED BY <1>1, <1>2, <1>3, TurnKeeps DEF dataVars

\* The outside: a cancellation, the end of the context, nothing.
LEMMA OutsideKeeps ==
  ASSUME IInv, Outside \/ Terminated \/ UNCHANGED vars
  PROVE  IInv'
<1> USE DEF IInv, Types
<1>1. CASE UserCancels
  <2>1. /\ UNCHANGED <<jobVars, dataVars, signalVars, closeVars, daemonVars, ctx, reported, rpc,
                       faults>>
        /\ srv' = [srv EXCEPT !.cancelled = TRUE]
    BY <1>1 DEF UserCancels
  <2>2. ServerTypes' /\ srv'.log = srv.log
    BY <2>1 DEF ServerTypes, Server
  <2>3. JobTypes' /\ DaemonTypes'
    BY <2>1 DEF JobTypes, DaemonTypes, jobVars, dataVars, stateVars, closeVars, signalVars,
                daemonVars
  <2> QED BY <2>1, <2>2, <2>3, TurnKeeps DEF dataVars
<1>2. CASE \E how \in Interrupts \ {"user"} : CtxEnds(how)
  <2>1. /\ UNCHANGED <<jobVars, dataVars, signalVars, closeVars, daemonVars, reported, rpc,
                       faults, srv>>
        /\ ctx' \in {"canceled", "deadline"}
    BY <1>2, ConstantsAssumption DEF CtxEnds
  <2>2. JobTypes' /\ DaemonTypes' /\ ServerTypes'
    BY <2>1 DEF JobTypes, DaemonTypes, ServerTypes, jobVars, dataVars, stateVars, closeVars,
                signalVars, daemonVars
  <2> QED BY <2>1, <2>2, TurnKeeps DEF dataVars
<1>3. CASE UNCHANGED vars
  <2>1. UNCHANGED <<jobVars, dataVars, signalVars, backVars>>
    BY <1>3 DEF vars
  <2>2. /\ JobTypes' /\ DaemonTypes' /\ ServerTypes' /\ srv' = srv
        /\ UNCHANGED <<jobVars, bufVars, stateVars, outputs, closeVars, rpc, faults>>
    BY <2>1 DEF JobTypes, DaemonTypes, ServerTypes, jobVars, dataVars, stateVars, closeVars,
                signalVars, daemonVars, backVars, wireVars
  <2> QED BY <2>2, TurnKeeps
<1> QED BY <1>1, <1>2, <1>3 DEF Outside, Terminated

-----------------------------------------------------------------------------
(* Calls.                                                                  *)

\* A request takes the lock, with the rows of the buffer if it is UpdateLog.
LEMMA CallKeeps ==
  ASSUME IInv,
         \E who \in Callers : LogSent(who) \/ OutputsSnapshot(who)
  PROVE  IInv'
<1> USE DEF IInv, Types
<1>1. UNCHANGED <<jobVars, dataVars, signalVars, closeVars, daemonVars, ctx, reported, faults, srv>>
  BY DEF LogSent, OutputsSnapshot, Call
<1>2. /\ JobTypes' /\ OutputTypes' /\ CloseTypes' /\ DaemonTypes' /\ ServerTypes'
  BY <1>1 DEF JobTypes, OutputTypes, CloseTypes, DaemonTypes, ServerTypes, jobVars, dataVars,
              stateVars, signalVars, closeVars, daemonVars
<1>3. BufferTypes' /\ LogKept' /\ WindowsKept' /\ Started' /\ OpenAtEnd' /\ InTurn'
  BY <1>1, Untouched DEF jobVars, dataVars, stateVars
<1>4. CallTypes' /\ CallKept'
  <2>1. ASSUME NEW who \in Callers, LogSent(who) PROVE CallTypes' /\ CallKept'
    <3>1. rpc' = [by |-> who, kind |-> "log", detached |-> Detached, index |-> logOffset,
                  rows |-> logRows, noMore |-> who = "close"]
      BY <2>1 DEF LogSent, Call
    <3>2. rpc' \in LogCall
      BY <3>1 DEF LogCall, Detached, BufferTypes
    <3>3. logOffset' = logOffset /\ produced' = produced
      BY <1>1 DEF dataVars, bufVars
    <3>4. Len(logRows) \in Nat /\ Len(produced) \in Nat /\ logOffset \in Nat
      BY LenProperties DEF BufferTypes
    <3>5. logOffset + Len(logRows) <= Len(produced)
      BY <3>4 DEF LogKept
    <3> QED BY <3>1, <3>2, <3>3, <3>5 DEF CallTypes, Calls, CallKept, LogKept
  <2>2. ASSUME NEW who \in Callers, OutputsSnapshot(who) PROVE CallTypes' /\ CallKept'
    <3>1. rpc' = [by |-> who, kind |-> "outputs",
                  outs |-> {k \in OutputKeys : outputs[k] = "unsent"}]
      BY <2>2 DEF OutputsSnapshot, Call
    <3>2. rpc' \in OutputsCall /\ rpc'.kind # "log"
      BY <3>1 DEF OutputsCall
    <3> QED BY <3>2 DEF CallTypes, Calls, CallKept
  <2> QED BY <2>1, <2>2
<1> QED BY <1>2, <1>3, <1>4

\* ReportState goes on to UpdateTask, or has nothing to say.
LEMMA StateCallKeeps == ASSUME IInv, StateSkipped \/ StateSent PROVE IInv'
<1> USE DEF IInv, Types
<1>1. UNCHANGED <<jobVars, bufVars, steps, result, outputs, signalVars, closeVars, ctx, reported,
                  faults, srv, daemonClosed, latencyArmed, crashed>>
  BY DEF StateSkipped, StateSent, DaemonMoves, dataVars, stateVars, daemonVars
<1>2. stateChanged' \in BOOLEAN /\ daemonPc' \in {daemonPc, "check"}
  BY DEF StateSkipped, StateSent, DaemonMoves, dataVars, stateVars, daemonVars, JobTypes
<1>3. JobTypes' /\ OutputTypes' /\ CloseTypes' /\ DaemonTypes' /\ ServerTypes'
  BY <1>1, <1>2 DEF JobTypes, OutputTypes, CloseTypes, DaemonTypes, ServerTypes, jobVars,
                    signalVars, closeVars
<1>4. BufferTypes' /\ LogKept' /\ WindowsKept' /\ Started' /\ OpenAtEnd' /\ InTurn'
  BY <1>1, Untouched DEF jobVars
<1>5. CallTypes' /\ rpc'.kind # "log"
  <2>1. CASE StateSkipped
    BY <2>1 DEF StateSkipped, CallTypes, Calls, NoRpc
  <2>2. CASE StateSent
    <3>1. rpc' = [by |-> rpc.by, kind |-> "state", detached |-> Detached, steps |-> steps,
                  outs |-> rpc.outs, result |-> ResultSent]
      BY <2>2 DEF StateSent
    <3>2. rpc.by \in Callers /\ rpc.outs \in SUBSET OutputKeys
      BY <2>2, CallFields DEF StateSent
    <3>3. ResultSent \in Results /\ steps \in Steps /\ Detached \in BOOLEAN
      BY DEF ResultSent, JobTypes, Results, Detached
    <3>4. rpc' \in StateCall
      BY <3>1, <3>2, <3>3 DEF StateCall
    <3> QED BY <3>1, <3>4 DEF CallTypes, Calls
  <2> QED BY <2>1, <2>2
<1> QED BY <1>3, <1>4, <1>5 DEF CallKept

-----------------------------------------------------------------------------
(* Returns.                                                                *)

\* A call that returned holds no lock; only Close's own moves Close.
LEMMA ReturnKeeps ==
  ASSUME Types, NEW ok \in BOOLEAN, Return(ok)
  PROVE  /\ rpc' = NoRpc /\ CallTypes' /\ CallKept'
         /\ daemonPc' \in {"select", "log", "logThenState", "state", "check", "exited"}
         /\ jobPc' \in JobPlaces /\ (jobPc' = "run" => jobPc = "run")
         /\ attempts' \in 0..(MaxAttempts - 1)
         /\ flush' \in [log : {"pending", "ok", "gaveup"}, state : {"pending", "ok", "gaveup"}]
<1> USE DEF Types
<1>1. rpc' = NoRpc /\ CallTypes' /\ CallKept'
  BY DEF Return, CallTypes, Calls, CallKept, NoRpc
<1>2. MaxAttempts \in Nat \ {0} /\ attempts \in 0..(MaxAttempts - 1)
  BY ConstantsAssumption DEF CloseTypes
<1>3. CASE UNCHANGED <<jobPc, attempts, flush>>
  BY <1>1, <1>3 DEF Return, AfterLog, JobTypes, CloseTypes, DaemonTypes
<1>4. CASE FlushReturns(ok) /\ UNCHANGED daemonPc
  <2>1. attempts' \in 0..(MaxAttempts - 1)
    BY <1>2, <1>4 DEF FlushReturns, Spent
  <2>2. jobPc' \in JobPlaces /\ (jobPc' = "run" => jobPc = "run")
    BY <1>4 DEF FlushReturns, JobTypes, JobPlaces
  <2>3. flush' \in [log : {"pending", "ok", "gaveup"}, state : {"pending", "ok", "gaveup"}]
    <3>1. PICK how \in {"ok", "gaveup"} :
             flush' \in {flush, [flush EXCEPT !["log"] = how], [flush EXCEPT !["state"] = how]}
      BY <1>4 DEF FlushReturns
    <3> QED BY <3>1 DEF CloseTypes
  <2> QED BY <1>1, <1>4, <2>1, <2>2, <2>3 DEF DaemonTypes
<1> QED BY <1>3, <1>4 DEF Return

\* The server's log goes on with the rows that follow it.
LEMMA ServerFollows ==
  ASSUME IInv, rpc.kind = "log", NEW k \in 0..Len(rpc.rows), ServerStores(k)
  PROVE  /\ ServerTypes' /\ Len(srv'.log) = logOffset + k
         /\ Len(srv.log) <= logOffset + k /\ logOffset + k <= Len(produced)
         /\ \A n \in 1..Len(srv'.log) : srv'.log[n] = produced[n]
<1> USE DEF IInv, Types
<1> DEFINE have == Len(srv.log) - rpc.index
           new == SubSeq(rpc.rows, have + 1, k)
<1>1. /\ rpc.rows \in Seq(RowType) /\ Len(rpc.rows) \in Nat /\ rpc \in LogCall
      /\ \A n \in 1..Len(rpc.rows) : rpc.rows[n] \in RowType
  BY CallFields, LenProperties, ElementOfSeq
<1>2. srv.log \in Seq(RowType) /\ Len(srv.log) \in Nat
  BY LenProperties DEF ServerTypes, Server
<1>3. logOffset \in Nat /\ Len(produced) \in Nat
  BY LenProperties DEF BufferTypes
<1>4. /\ logOffset <= Len(srv.log) /\ rpc.index = logOffset
      /\ logOffset + Len(rpc.rows) <= Len(produced)
  BY DEF LogKept, CallKept
<1>5. have \in 0..k /\ have = Len(srv.log) - logOffset
  BY <1>1, <1>2, <1>3, <1>4 DEF ServerStores
<1>6. /\ new \in Seq(RowType) /\ Len(new) = k - have
      /\ \A i \in 1..(k - have) : new[i] = rpc.rows[have + i]
  <2>1. have + 1 \in Int /\ k \in Int /\ \A i \in (have + 1)..k : rpc.rows[i] \in RowType
    BY <1>1, <1>5
  <2>2. /\ new \in Seq(RowType)
        /\ Len(new) = IF have + 1 <= k THEN k - (have + 1) + 1 ELSE 0
        /\ \A i \in 1..(k - (have + 1) + 1) : new[i] = rpc.rows[(have + 1) + i - 1]
    <3> HIDE DEF have
    <3> QED BY <2>1, SubSeqProperties
  <2>3. have \in Nat /\ k \in Nat /\ have <= k
    BY <1>1, <1>5
  <2> HIDE DEF have, new
  <2>4. \A i \in 1..(k - have) :
           i \in 1..(k - (have + 1) + 1) /\ (have + 1) + i - 1 = have + i
    BY <2>3
  <2>5. (IF have + 1 <= k THEN k - (have + 1) + 1 ELSE 0) = k - have
    BY <2>3
  <2> QED BY <2>2, <2>4, <2>5
<1>7. /\ srv'.log = srv.log \o new
      /\ srv' = [srv EXCEPT !.log = srv.log \o new,
                            !.transferred = srv.transferred \/ (rpc.noMore /\ rpc.rows # <<>> /\ k = Len(rpc.rows))]
  BY DEF ServerStores, ServerTypes, Server
<1> HIDE DEF have, new
<1>8. /\ srv'.log \in Seq(RowType) /\ Len(srv'.log) = Len(srv.log) + (k - have)
      /\ \A n \in 1..(Len(srv.log) + (k - have)) :
            srv'.log[n] = IF n <= Len(srv.log) THEN srv.log[n] ELSE new[n - Len(srv.log)]
  <2>1. /\ srv.log \o new \in Seq(RowType) /\ Len(srv.log \o new) = Len(srv.log) + Len(new)
        /\ \A n \in 1..(Len(srv.log) + Len(new)) :
              (srv.log \o new)[n] = IF n <= Len(srv.log) THEN srv.log[n] ELSE new[n - Len(srv.log)]
    BY <1>2, <1>6, ConcatProperties
  <2>2. srv'.log = srv.log \o new /\ Len(new) = k - have
    BY <1>6, <1>7
  <2> QED BY <2>1, <2>2
<1>9. Len(srv'.log) = logOffset + k
  BY <1>1, <1>2, <1>3, <1>5, <1>8
<1>10. ServerTypes'
  <2>1. \A b : [srv EXCEPT !.log = srv.log \o new, !.transferred = b] \in Server
                  <=> b \in BOOLEAN /\ srv.log \o new \in Seq(RowType)
    BY DEF ServerTypes, Server
  <2>2. (srv.transferred \/ (rpc.noMore /\ rpc.rows # <<>> /\ k = Len(rpc.rows))) \in BOOLEAN
    OBVIOUS
  <2> QED BY <1>7, <1>8, <2>1, <2>2 DEF ServerTypes
<1>11. ASSUME NEW n \in 1..Len(srv'.log) PROVE srv'.log[n] = produced[n]
  <2>1. n \in 1..(Len(srv.log) + (k - have)) /\ n \in Nat
    BY <1>8, <1>11, <1>1, <1>2, <1>5
  <2>2. CASE n <= Len(srv.log)
    <3>1. n \in 1..Len(srv.log)
      BY <2>1, <2>2, <1>2
    <3> QED BY <2>1, <2>2, <3>1, <1>8 DEF LogKept
  <2>3. CASE n > Len(srv.log)
    <3> DEFINE i == n - Len(srv.log)
    <3>1. i \in 1..(k - have) /\ have + i \in 1..Len(rpc.rows) /\ logOffset + (have + i) = n
      BY <2>1, <2>3, <1>1, <1>2, <1>3, <1>5
    <3>2. srv'.log[n] = new[i]
      BY <2>1, <2>3, <1>2, <1>8
    <3>3. new[i] = rpc.rows[have + i]
      BY <3>1, <1>6
    <3>4. rpc.rows[have + i] = produced[logOffset + (have + i)]
      <4> HIDE DEF i
      <4> QED BY <3>1 DEF CallKept
    <3> QED BY <3>1, <3>2, <3>3, <3>4
  <2> QED BY <2>1, <2>2, <2>3, <1>2
<1>12. Len(srv.log) <= logOffset + k /\ logOffset + k <= Len(produced)
  BY <1>1, <1>2, <1>3, <1>4, <1>5
<1> QED BY <1>9, <1>10, <1>11, <1>12

\* What is acknowledged leaves the buffer, and is what the server has.
LEMMA LogReturnedKeeps == ASSUME IInv, NEW k \in Nat, LogReturned(k) PROVE IInv'
<1> USE DEF IInv, Types
<1>1. rpc.kind = "log" /\ k \in 0..Len(rpc.rows) /\ ServerStores(k)
  BY DEF LogReturned
<1>2. /\ ServerTypes' /\ Len(srv'.log) = logOffset + k
      /\ logOffset + k <= Len(produced)
      /\ \A n \in 1..Len(srv'.log) : srv'.log[n] = produced[n]
  BY <1>1, ServerFollows
<1>3. PICK ok \in BOOLEAN : Return(ok)
  <2>1. (rpc.noMore => k = Len(rpc.rows)) \in BOOLEAN
    OBVIOUS
  <2> QED BY <2>1 DEF LogReturned
<1>4. /\ CallTypes' /\ CallKept'
      /\ daemonPc' \in {"select", "log", "logThenState", "state", "check", "exited"}
      /\ jobPc' \in JobPlaces /\ (jobPc' = "run" => jobPc = "run")
      /\ attempts' \in 0..(MaxAttempts - 1)
      /\ flush' \in [log : {"pending", "ok", "gaveup"}, state : {"pending", "ok", "gaveup"}]
  BY <1>3, ReturnKeeps
<1>5. faults' \in 0..MaxFaults
  BY ConstantsAssumption DEF LogReturned, Fault, CloseTypes
<1>6. UNCHANGED <<cur, produced, stateVars, outputs, signalVars, closed, daemonClosed,
                  latencyArmed, crashed, ctx, reported>>
  BY DEF LogReturned
<1>7. JobTypes' /\ OutputTypes' /\ CloseTypes' /\ DaemonTypes'
  BY <1>4, <1>5, <1>6 DEF JobTypes, OutputTypes, CloseTypes, DaemonTypes, stateVars, signalVars
<1>8. Len(logRows) \in Nat /\ Len(produced) \in Nat /\ logOffset \in Nat /\ k \in Int
  BY LenProperties DEF BufferTypes
<1>9. logOffset + Len(logRows) = Len(produced) /\ k <= Len(logRows)
  BY <1>2, <1>8 DEF LogKept
<1>10. logOffset' = logOffset + k /\ logRows' = SubSeq(logRows, k + 1, Len(logRows))
  <2>1. rpc.index = logOffset
    BY <1>1 DEF CallKept
  <2>2. rpc.index + k - logOffset + 1 = k + 1
    BY <2>1, <1>8
  <2>3. /\ logOffset' = rpc.index + k
        /\ logRows' = SubSeq(logRows, rpc.index + k - logOffset + 1, Len(logRows))
    <3>1. Acknowledge(rpc.index + k)
      BY DEF LogReturned
    <3> QED BY <3>1, <2>1, <1>8 DEF Acknowledge
  <2> QED BY <2>1, <2>2, <2>3
<1>11. /\ logRows' \in Seq(RowType) /\ Len(logRows') = Len(logRows) - k
       /\ \A n \in 1..(Len(logRows) - k) : logRows'[n] = logRows[k + n]
  <2>1. \A i \in (k + 1)..Len(logRows) : logRows[i] \in RowType
    BY <1>8, ElementOfSeq DEF BufferTypes
  <2>2. /\ logRows' \in Seq(RowType)
        /\ Len(logRows') = IF k + 1 <= Len(logRows) THEN Len(logRows) - (k + 1) + 1 ELSE 0
        /\ \A i \in 1..(Len(logRows) - (k + 1) + 1) : logRows'[i] = logRows[(k + 1) + i - 1]
    BY <2>1, <1>8, <1>10, SubSeqProperties
  <2> QED BY <2>2, <1>8, <1>9
<1>12. BufferTypes'
  BY <1>6, <1>8, <1>10, <1>11 DEF BufferTypes
<1>13. LogKept'
  <2>1. ASSUME NEW n \in 1..Len(logRows') PROVE logRows'[n] = produced[logOffset' + n]
    <3>1. k + n \in 1..Len(logRows) /\ logOffset + (k + n) = logOffset' + n
      <4>1. n \in 1..(Len(logRows) - k) /\ k \in Nat
        BY <1>11
      <4>2. k + n \in 1..Len(logRows)
        BY <4>1, <1>8
      <4> QED BY <4>1, <4>2, <1>8, <1>10
    <3>2. logRows[k + n] = produced[logOffset + (k + n)]
      BY <3>1 DEF LogKept
    <3> QED BY <3>1, <3>2, <1>11
  <2>2. /\ logOffset' <= Len(srv'.log) /\ Len(srv'.log) <= Len(produced)
        /\ logOffset' + Len(logRows') = Len(produced)
    <3>1. Len(srv'.log) = logOffset'
      BY <1>2, <1>10
    <3>2. logOffset + k + (Len(logRows) - k) = Len(produced)
      BY <1>8, <1>9
    <3>3. logOffset' \in Nat /\ logOffset' <= Len(produced)
      BY <1>2, <1>8, <1>10
    <3>4. logOffset' + Len(logRows') = Len(produced)
      BY <3>2, <1>10, <1>11
    <3> QED BY <3>1, <3>3, <3>4, <1>8
  <2> QED BY <2>1, <2>2, <1>2, <1>6 DEF LogKept
<1>14. WindowsKept'
  BY <1>6 DEF WindowsKept, RowsOf, stateVars
<1>15. Started' /\ OpenAtEnd' /\ InTurn'
  BY <1>4, <1>6 DEF Started, OpenAtEnd, InTurn, InMain, stateVars
<1> QED BY <1>2, <1>4, <1>7, <1>12, <1>13, <1>14, <1>15

\* A failed UpdateLog leaves the buffer; the server may be ahead of it.
LEMMA LogFailedKeeps == ASSUME IInv, NEW k \in Nat, LogFailed(k) PROVE IInv'
<1> USE DEF IInv, Types
<1>1. rpc.kind = "log" /\ k \in 0..Len(rpc.rows) /\ ServerStores(k)
  BY DEF LogFailed
<1>2. /\ ServerTypes' /\ Len(srv'.log) = logOffset + k
      /\ Len(srv.log) <= logOffset + k /\ logOffset + k <= Len(produced)
      /\ \A n \in 1..Len(srv'.log) : srv'.log[n] = produced[n]
  BY <1>1, ServerFollows
<1>3. /\ CallTypes' /\ CallKept'
      /\ daemonPc' \in {"select", "log", "logThenState", "state", "check", "exited"}
      /\ jobPc' \in JobPlaces /\ (jobPc' = "run" => jobPc = "run")
      /\ attempts' \in 0..(MaxAttempts - 1)
      /\ flush' \in [log : {"pending", "ok", "gaveup"}, state : {"pending", "ok", "gaveup"}]
  BY ReturnKeeps DEF LogFailed
<1>4. faults' \in 0..MaxFaults
  BY ConstantsAssumption DEF LogFailed, Fault, CloseTypes
<1>5. UNCHANGED <<cur, dataVars, signalVars, closed, daemonClosed, latencyArmed, crashed, ctx,
                  reported>>
  BY DEF LogFailed
<1>6. JobTypes' /\ OutputTypes' /\ CloseTypes' /\ DaemonTypes' /\ BufferTypes'
  BY <1>3, <1>4, <1>5 DEF JobTypes, OutputTypes, CloseTypes, DaemonTypes, BufferTypes, dataVars,
                          bufVars, stateVars, signalVars
<1>7. LogKept'
  <2>1. logOffset <= Len(srv'.log) /\ Len(srv'.log) <= Len(produced)
    <3>1. logOffset \in Nat /\ Len(srv.log) \in Nat /\ logOffset <= Len(srv.log) /\ k \in Nat
      BY LenProperties DEF BufferTypes, ServerTypes, Server, LogKept
    <3> QED BY <3>1, <1>2
  <2> QED BY <2>1, <1>2, <1>5 DEF LogKept, dataVars, bufVars
<1>8. WindowsKept'
  BY <1>5 DEF WindowsKept, RowsOf, dataVars, bufVars, stateVars
<1>9. Started' /\ OpenAtEnd' /\ InTurn'
  BY <1>3, <1>5 DEF Started, OpenAtEnd, InTurn, InMain, dataVars, bufVars, stateVars
<1> QED BY <1>2, <1>3, <1>6, <1>7, <1>8, <1>9

\* What the server records of a report, its log apart.
LEMMA Recorded ==
  ASSUME Types, rpc.kind = "state", NEW sent \in SUBSET OutputKeys, ServerRecords(sent)
  PROVE  ServerTypes' /\ srv'.log = srv.log
<1>1. rpc.steps \in Steps /\ rpc.result \in Results
  BY CallFields DEF Types
<1> QED BY <1>1 DEF ServerRecords, Types, ServerTypes, Server

\* UpdateTask does not touch the log.
LEMMA StateReturnKeeps ==
  ASSUME IInv, (\E sent \in SUBSET OutputKeys : StateReturned(sent))
               \/ (\E handled \in BOOLEAN : StateFailed(handled))
  PROVE  IInv'
<1> USE DEF IInv, Types
<1>1. rpc.kind = "state" /\ rpc.outs \in SUBSET OutputKeys
  BY CallFields DEF StateReturned, StateFailed
<1>2. ServerTypes' /\ srv'.log = srv.log
  <2>1. CASE \E sent \in SUBSET OutputKeys : StateReturned(sent)
    BY <2>1, <1>1, Recorded DEF StateReturned
  <2>2. CASE \E handled \in BOOLEAN : StateFailed(handled)
    <3>1. ServerRecords(rpc.outs) \/ UNCHANGED srv
      BY <2>2 DEF StateFailed
    <3>2. CASE UNCHANGED srv
      BY <3>2 DEF ServerTypes
    <3> QED BY <3>1, <3>2, <1>1, Recorded
  <2> QED BY <2>1, <2>2
<1>3. PICK ok \in BOOLEAN : Return(ok)
  <2>1. (\A k \in OutputKeys : outputs'[k] # "unsent") \in BOOLEAN
    OBVIOUS
  <2> QED BY <2>1 DEF StateReturned, StateFailed
<1>4. /\ CallTypes' /\ CallKept'
      /\ daemonPc' \in {"select", "log", "logThenState", "state", "check", "exited"}
      /\ jobPc' \in JobPlaces /\ (jobPc' = "run" => jobPc = "run")
      /\ attempts' \in 0..(MaxAttempts - 1)
      /\ flush' \in [log : {"pending", "ok", "gaveup"}, state : {"pending", "ok", "gaveup"}]
  BY <1>3, ReturnKeeps
<1>5. faults' \in 0..MaxFaults
  <2>1. faults' = faults \/ (faults < MaxFaults /\ faults' = faults + 1)
    BY DEF StateReturned, StateFailed, Fault
  <2> QED BY <2>1, ConstantsAssumption DEF CloseTypes
<1>6. UNCHANGED <<cur, bufVars, steps, result, signalVars, closed, daemonClosed, latencyArmed,
                  crashed>>
  BY DEF StateReturned, StateFailed, stateVars
<1>7. stateChanged' \in BOOLEAN /\ reported' \in BOOLEAN /\ ctx' \in {"live", "canceled", "deadline"}
  BY DEF StateReturned, StateFailed, stateVars, OweChange, ObeyAnswer, JobTypes, DaemonTypes
<1>8. OutputTypes'
  BY DEF StateReturned, StateFailed, MarkSent, OutputTypes
<1>9. JobTypes' /\ CloseTypes' /\ DaemonTypes'
  BY <1>4, <1>5, <1>6, <1>7 DEF JobTypes, CloseTypes, DaemonTypes, signalVars
<1>10. BufferTypes' /\ LogKept' /\ WindowsKept' /\ Started' /\ OpenAtEnd' /\ InTurn'
  BY <1>2, <1>4, <1>6, Untouched
<1> QED BY <1>2, <1>4, <1>8, <1>9, <1>10

-----------------------------------------------------------------------------
(* The theorems.                                                           *)

\* Nothing has been produced at first.
LEMMA InitIInv == Init => IInv
<1> SUFFICES ASSUME Init PROVE IInv
  OBVIOUS
<1>1. MaxAttempts \in Nat \ {0} /\ NSteps \in Nat \ {0} /\ MaxFaults \in Nat
  BY ConstantsAssumption
<1>2. \A S : <<>> \in Seq(S) /\ Len(<<>>) = 0
  BY EmptySeq
<1>3. JobTypes /\ OutputTypes /\ BufferTypes /\ CloseTypes /\ DaemonTypes
  <2>1. JobTypes
    <3>1. cur \in 0..(NSteps + 1)
      BY <1>1 DEF Init
    <3> QED BY <3>1 DEF Init, JobTypes, JobPlaces, Steps, Results
  <2>2. OutputTypes /\ DaemonTypes
    BY DEF Init, OutputTypes, DaemonTypes
  <2>3. BufferTypes
    BY <1>2 DEF Init, BufferTypes
  <2>4. CloseTypes
    BY <1>1 DEF Init, CloseTypes
  <2> QED BY <2>1, <2>2, <2>3, <2>4
<1>4. CallTypes /\ ServerTypes
  BY <1>2 DEF Init, CallTypes, Calls, ServerTypes, Server, Steps, Results
<1>5. LogKept /\ CallKept
  BY <1>2 DEF Init, LogKept, CallKept, NoRpc
<1>6. WindowsKept
  <2>1. DOMAIN steps = {} /\ 1..Len(produced) = {}
    BY <1>2 DEF Init
  <2> QED BY <2>1 DEF WindowsKept, RowsOf
<1>7. Started /\ OpenAtEnd /\ InTurn
  BY DEF Init, Started, OpenAtEnd, InTurn, InMain
<1> QED BY <1>3, <1>4, <1>5, <1>6, <1>7 DEF IInv, Types

\* The invariant holds throughout.
LEMMA Inductive == Spec => []IInv
<1>1. IInv /\ [Next]_vars => IInv'
  <2> SUFFICES ASSUME IInv, [Next]_vars PROVE IInv'
    OBVIOUS
  <2>1. CASE JobStep
    BY <2>1, ResetStepsKeeps, FireJobKeeps, FireStepKeeps, NextStageKeeps, LogfKeeps, EndOfJobKeeps
       DEF JobStep
  <2>2. CASE \E words \in BOOLEAN : CloseBegin(words)
    BY <2>2, CloseBeginKeeps
  <2>3. CASE CloseStep
    BY <2>3, CloseMovesKeep, CallKeeps DEF CloseStep, Callers
  <2>4. CASE DaemonStep
    BY <2>4, SelectKeeps, LeaveKeeps, CallKeeps DEF DaemonStep, Callers
  <2>5. CASE RpcStep
    <3>1. \A k \in 0..(MaxRows + 2) : k \in Nat
      OBVIOUS
    <3> QED BY <2>5, <3>1, StateCallKeeps, LogReturnedKeeps, LogFailedKeeps, StateReturnKeeps
            DEF RpcStep
  <2>6. CASE Outside \/ Terminated \/ UNCHANGED vars
    BY <2>6, OutsideKeeps
  <2> QED BY <2>1, <2>2, <2>3, <2>4, <2>5, <2>6 DEF Next
<1> QED BY InitIInv, <1>1, PTL DEF Spec

\* Every variable keeps its type, an RPC in flight included, whatever the
\* number of steps, rows, outputs and faults.
THEOREM Typed == Spec => []TypeOK
<1>1. IInv => TypeOK
  BY DEF IInv, Types, TypeOK, JobTypes, JobPlaces, OutputTypes, BufferTypes, CloseTypes,
         DaemonTypes, CallTypes, Calls, LogCall, OutputsCall, StateCall, Callers, ServerTypes,
         Server, Steps
<1> QED BY <1>1, Inductive, PTL

\* No row of the log is lost, doubled or reordered, and the window of a step
\* holds the rows of that step and no others, for any number of rows, retries,
\* partial acknowledgements and appends during UpdateLog (ReportLog, Fire).
THEOREM LogStaysTrue == Spec => []LogTrue
<1>1. IInv => LogFidelity
  <2> SUFFICES ASSUME IInv PROVE LogFidelity
    OBVIOUS
  <2>1. /\ produced \in Seq(RowType) /\ logRows \in Seq(RowType) /\ srv.log \in Seq(RowType)
        /\ logOffset \in Nat
    BY DEF IInv, Types, BufferTypes, ServerTypes, Server
  <2>2. /\ Len(produced) \in Nat /\ Len(logRows) \in Nat /\ Len(srv.log) \in Nat
        /\ \A n \in 1..Len(produced) : produced[n] \in RowType
    BY <2>1, LenProperties, ElementOfSeq
  <2>3. /\ logOffset <= Len(srv.log) /\ Len(srv.log) <= Len(produced)
        /\ logOffset + Len(logRows) = Len(produced)
    BY DEF IInv, LogKept
  <2>4. srv.log = SubSeq(produced, 1, Len(srv.log))
    <3> DEFINE part == SubSeq(produced, 1, Len(srv.log))
    <3>1. \A i \in 1..Len(srv.log) : produced[i] \in RowType
      BY <2>2, <2>3
    <3>2. /\ part \in Seq(RowType)
          /\ Len(part) = IF 1 <= Len(srv.log) THEN Len(srv.log) - 1 + 1 ELSE 0
          /\ \A i \in 1..(Len(srv.log) - 1 + 1) : part[i] = produced[1 + i - 1]
      BY <3>1, <2>2, SubSeqProperties
    <3>3. Len(part) = Len(srv.log) /\ \A i \in 1..Len(srv.log) : srv.log[i] = part[i]
      BY <3>2, <2>2 DEF IInv, LogKept
    <3> HIDE DEF part
    <3>4. srv.log = part
      BY <3>2, <3>3, <2>1, SeqEqual
    <3> QED BY <3>4 DEF part
  <2>5. logRows = SubSeq(produced, logOffset + 1, Len(produced))
    <3> DEFINE part == SubSeq(produced, logOffset + 1, Len(produced))
    <3>1. \A i \in (logOffset + 1)..Len(produced) : produced[i] \in RowType
      BY <2>1, <2>2
    <3>2. /\ part \in Seq(RowType)
          /\ Len(part) = IF logOffset + 1 <= Len(produced)
                         THEN Len(produced) - (logOffset + 1) + 1 ELSE 0
          /\ \A i \in 1..(Len(produced) - (logOffset + 1) + 1) :
                part[i] = produced[(logOffset + 1) + i - 1]
      BY <3>1, <2>1, <2>2, SubSeqProperties
    <3>3. Len(part) = Len(logRows) /\ \A i \in 1..Len(logRows) : logRows[i] = part[i]
      <4>1. Len(part) = Len(logRows)
        BY <3>2, <2>1, <2>2, <2>3
      <4>2. \A i \in 1..Len(logRows) : part[i] = produced[logOffset + i]
        BY <3>2, <2>1, <2>2, <2>3
      <4> QED BY <4>1, <4>2 DEF IInv, LogKept
    <3> HIDE DEF part
    <3>4. logRows = part
      BY <3>2, <3>3, <2>1, SeqEqual
    <3> QED BY <3>4 DEF part
  <2> QED BY <2>3, <2>4, <2>5 DEF LogFidelity
<1>2. IInv => StepWindows
  <2> SUFFICES ASSUME IInv, NEW i \in DOMAIN steps, steps[i].length > 0
               PROVE  {n \in 1..Len(produced) : produced[n].step = i}
                        = (steps[i].index + 1)..(steps[i].index + steps[i].length)
    BY DEF StepWindows
  <2>1. i \in 1..NSteps
    <3>1. steps # <<>>
      OBVIOUS
    <3> QED BY <3>1, StepsAreSeq DEF IInv, Types, JobTypes
  <2> QED BY <2>1 DEF IInv, WindowsKept, RowsOf
<1>3. IInv => LogTrue
  BY <1>1, <1>2 DEF LogTrue
<1> QED BY <1>3, Inductive, PTL

-----------------------------------------------------------------------------
(* The end of the task: a second invariant, on top of the first.           *)

Ending == {"wait", "sentinel", "flushLog", "flushState", "done"}

\* Where Close is: what it has closed, waited for and flushed.
Places ==
    /\ closed <=> jobPc \in Ending
    /\ jobPc \in Ending \ {"wait"} => daemonClosed
    /\ flush.log # "pending" <=> jobPc \in {"flushState", "done"}
    /\ flush.state # "pending" <=> jobPc = "done"

\* Whoever made the call in flight is where it is made; only Close says NoMore.
CallPlaces ==
    /\ rpc.by = "daemon" => IF rpc.kind = "log" THEN daemonPc \in {"log", "logThenState"}
                                               ELSE daemonPc = "state"
    /\ rpc.by = "close" => jobPc = IF rpc.kind = "log" THEN "flushLog" ELSE "flushState"
    /\ rpc.kind = "log" => (rpc.noMore <=> rpc.by = "close")

\* Close has a row to send, and sends what the buffer holds.
RowsLeft ==
    /\ jobPc = "flushLog" => logRows # <<>> \/ GaveUpOnDaemon
    /\ rpc.kind = "log" /\ rpc.by = "close" => rpc.rows = logRows

\* The log is archived when it is whole, and a successful flush leaves it so.
LogDone ==
    /\ srv.transferred => jobPc \in Ending \ {"wait", "sentinel"} /\ Len(srv.log) = Len(produced)
    /\ flush.log = "ok" => Len(srv.log) = Len(produced) /\ (srv.transferred \/ GaveUpOnDaemon)

\* Nobody but Close's second flush sends a result, and it sends the last one.
ResultLast ==
    /\ rpc.kind = "state" /\ rpc.result # Unspecified => rpc.by = "close"
    /\ srv.result # Unspecified => jobPc \in {"flushState", "done"} /\ srv.result = result

\* The result comes with the results of all steps, and Close leaves one.
AllResolved ==
    /\ result # Unspecified => \A i \in DOMAIN steps : steps[i].result # Unspecified
    /\ jobPc = "run" /\ steps = <<>> => result = Unspecified
    /\ closed => result # Unspecified

\* The state that Close sends is final, and so is every one after it.
FinalSent ==
    /\ rpc.kind = "state" /\ (rpc.by = "close" \/ jobPc = "done") => rpc.steps = steps
    /\ rpc.kind = "state" /\ rpc.by = "close" => rpc.result = result
    /\ flush.state = "ok" => srv.steps = steps /\ srv.result = result

\* Close asks for every output that is still unsent.
OutputsAsked ==
    rpc.kind \in {"outputs", "state"} /\ rpc.by = "close" =>
        rpc.outs = {k \in OutputKeys : outputs[k] = "unsent"}

\* Unless calls are slow, Close waits until the daemon has left.
DaemonGone == ~SlowRpc => ~crashed /\ (daemonClosed <=> daemonPc = "exited")

\* A failed attempt costs a fault, but for the one call that the end of r.ctx
\* may abort.
Patience ==
    /\ attempts <= faults + Aborts
    /\ ctx = "live" => attempts <= faults
    /\ rpc.kind \in {"log", "state"} /\ rpc.by = "close" /\ ~rpc.detached =>
          attempts <= faults /\ (Aborts = 0 => ctx = "live")
    /\ ~SlowRpc /\ MaxFaults + Aborts < MaxAttempts =>
          flush.log # "gaveup" /\ flush.state # "gaveup"

EndInv == Places /\ CallPlaces /\ RowsLeft /\ LogDone /\ ResultLast /\ AllResolved
          /\ FinalSent /\ OutputsAsked /\ OutputsDelivered /\ NoChangeForgotten
          /\ DaemonGone /\ Patience

\* Resolving the steps leaves none open.
LEMMA ResolvedAll ==
  ASSUME NEW ss \in Steps, NEW r \in Results \ {Unspecified}
  PROVE  /\ \A i \in DOMAIN Resolve(ss, r) : Resolve(ss, r)[i].result # Unspecified
         /\ ss # <<>> => Resolve(ss, r) # <<>>
<1>1. \A i \in DOMAIN ss : Resolve(ss, r)[i].result # Unspecified
  <2>1. CASE ss = <<>>
    BY <2>1
  <2>2. CASE ss \in [1..NSteps -> StepState]
    BY <2>2 DEF Resolve, StepState
  <2> QED BY <2>1, <2>2 DEF Steps
<1>2. DOMAIN Resolve(ss, r) = DOMAIN ss
  BY DEF Resolve
<1>3. ss # <<>> => 1 \in DOMAIN ss
  BY ConstantsAssumption DEF Steps
<1> QED BY <1>1, <1>2, <1>3

\* What concerns Close, the calls and the daemon, and neither steps nor outputs.
CloseInv == Places /\ CallPlaces /\ RowsLeft /\ LogDone /\ ResultLast /\ FinalSent
            /\ OutputsAsked /\ DaemonGone /\ Patience

\* Before Close, none of it changes.
LEMMA BeforeClose ==
  ASSUME CloseInv, UNCHANGED backVars, jobPc \notin Ending, jobPc' \notin Ending
  PROVE  CloseInv'
<1> USE DEF CloseInv
<1>1. UNCHANGED <<closed, attempts, flush, daemonClosed, daemonPc, crashed, ctx, rpc, faults, srv>>
  BY DEF backVars, closeVars, daemonVars, wireVars
<1>2. Places'
  BY <1>1 DEF Places, Ending
<1>3. rpc.by # "close"
  BY DEF CallPlaces, Ending
<1>4. ~srv.transferred /\ flush.log = "pending" /\ flush.state = "pending" /\ srv.result = Unspecified
  BY DEF LogDone, Places, ResultLast, Ending
<1>5. CallPlaces' /\ RowsLeft'
  BY <1>1, <1>3 DEF CallPlaces, RowsLeft, Ending
<1>6. LogDone' /\ ResultLast' /\ FinalSent' /\ OutputsAsked'
  BY <1>1, <1>3, <1>4 DEF LogDone, ResultLast, FinalSent, OutputsAsked, Ending
<1>7. DaemonGone' /\ Patience'
  BY <1>1 DEF DaemonGone, Patience
<1> QED BY <1>2, <1>5, <1>6, <1>7

\* A change of the steps that owes a report is not forgotten.
LEMMA ChangeOwed ==
  ASSUME NoChangeForgotten, UNCHANGED <<rpc, srv, closed>>,
         stateChanged' \/ (stateChanged' = stateChanged /\ steps' = steps)
  PROVE  NoChangeForgotten'
BY DEF NoChangeForgotten

\* An output that is sent stays at the server.
LEMMA NothingSent ==
  ASSUME OutputsDelivered, UNCHANGED <<srv, flush>>, flush.state # "ok",
         \A k \in OutputKeys : outputs'[k] = "sent" => outputs[k] = "sent"
  PROVE  OutputsDelivered'
BY DEF OutputsDelivered

\* The job's goroutine: only its own entries touch the steps.
LEMMA JobStepEnds == ASSUME IInv, EndInv, JobStep PROVE EndInv'
<1> USE DEF EndInv, IInv, Types
<1>1. UNCHANGED backVars /\ jobPc \notin Ending /\ jobPc' \notin Ending
  BY DEF JobStep, ResetSteps, FireJob, FireStep, NextStage, Logf, SetOutputs, StopHeartbeats,
         JobAlive, jobVars, Ending
<1>2. CloseInv'
  BY <1>1, BeforeClose DEF CloseInv
<1>3. UNCHANGED <<closed, flush, rpc, srv>> /\ flush.state # "ok" /\ ~closed
  BY <1>1 DEF backVars, closeVars, wireVars, Places, Ending
<1>4. OutputsDelivered'
  <2>1. \A k \in OutputKeys : outputs'[k] = "sent" => outputs[k] = "sent"
    BY DEF JobStep, ResetSteps, FireJob, FireStep, NextStage, Logf, SetOutputs, StopHeartbeats,
           dataVars
  <2> QED BY <2>1, <1>3, NothingSent
<1>5. AllResolved' /\ NoChangeForgotten'
  <2>1. CASE ResetSteps
    <3>1. /\ steps' = [i \in 1..NSteps |-> FreshStep] /\ result' = Unspecified
          /\ stateChanged' = stateChanged /\ jobPc' = "run"
      BY <2>1 DEF ResetSteps, AllResolved, jobVars
    <3>2. AllResolved'
      <4>1. steps' # <<>>
        BY <3>1, ConstantsAssumption
      <4> QED BY <3>1, <4>1, <1>3 DEF AllResolved
    <3>3. Shown(steps') = {} /\ Shown(steps) = {}
      BY <2>1, <3>1 DEF Shown, ResetSteps
    <3>4. NoChangeForgotten'
      <4> HIDE DEF EndInv, IInv, Types
      <4>1. NoChangeForgotten
        BY DEF EndInv
      <4> QED BY <3>1, <3>3, <1>3, <4>1 DEF NoChangeForgotten
    <3> QED BY <3>2, <3>4
  <2>2. CASE \E yields \in BOOLEAN, r \in JobResults \cup {Unspecified} : FireJob(yields, r)
    <3>1. PICK r \in JobResults \cup {Unspecified} :
            /\ jobPc' = "run" /\ steps # <<>> /\ stateChanged'
            /\ IF r = Unspecified THEN UNCHANGED <<steps, result>>
               ELSE /\ result' = r
                    /\ steps' = Resolve(steps, IF r = "skipped" THEN "skipped" ELSE "cancelled")
      BY <2>2 DEF FireJob, jobVars
    <3>2. CASE r = Unspecified
      BY <3>1, <3>2, <1>3, ChangeOwed DEF AllResolved
    <3>3. CASE r # Unspecified
      <4>1. PICK left \in Results \ {Unspecified} : steps' = Resolve(steps, left)
        BY <3>1, <3>3 DEF Results, Unspecified
      <4>2. steps' # <<>> /\ \A i \in DOMAIN steps' : steps'[i].result # Unspecified
        BY <3>1, <4>1, ResolvedAll DEF JobTypes
      <4> QED BY <3>1, <3>3, <4>2, <1>3, ChangeOwed DEF AllResolved
    <3> QED BY <3>2, <3>3
  <2>3. CASE \E yields, raw \in BOOLEAN, r \in StepResults \cup {Unspecified} :
                FireStep(yields, raw, r)
    <3>1. /\ jobPc = "run" /\ cur \in 1..NSteps /\ result' = result /\ stateChanged'
          /\ DOMAIN steps' = DOMAIN steps
      BY <2>3 DEF FireStep
    <3>2. steps # <<>> /\ result = Unspecified
      BY <3>1 DEF Started, InTurn, InMain
    <3> QED BY <3>1, <3>2, <1>3, ChangeOwed DEF AllResolved
  <2>4. CASE UNCHANGED stateVars
    <3>1. jobPc' = "run" => jobPc = "run"
      BY <2>4, <1>1 DEF JobStep, ResetSteps, FireJob, FireStep, NextStage, Logf, SetOutputs,
                        StopHeartbeats, jobVars
    <3> QED BY <3>1, <2>4, <1>3, ChangeOwed DEF AllResolved, stateVars
  <2> QED BY <2>1, <2>2, <2>3, <2>4
          DEF JobStep, NextStage, Logf, SetOutputs, StopHeartbeats, dataVars
<1> QED BY <1>2, <1>4, <1>5 DEF CloseInv

\* Close begins: it leaves a result, and no step open.
LEMMA CloseBeginEnds ==
  ASSUME IInv, EndInv, NEW words \in BOOLEAN, CloseBegin(words)
  PROVE  EndInv'
<1> USE DEF EndInv, IInv, Types
<1>1. /\ UNCHANGED <<stateChanged, outputs, attempts, flush, daemonClosed, daemonPc, crashed, ctx,
                     rpc, faults, srv>>
      /\ jobPc \in {"run", "stopped"} /\ jobPc' = "wait" /\ closed'
  BY DEF CloseBegin, daemonVars, wireVars
<1>2. rpc.by # "close" /\ ~srv.transferred /\ srv.result = Unspecified
      /\ flush.log = "pending" /\ flush.state = "pending"
  BY <1>1 DEF CallPlaces, LogDone, Places, ResultLast, Ending
<1>3. Places' /\ CallPlaces'
  BY <1>1, <1>2 DEF Places, CallPlaces, Ending
<1>4. RowsLeft' /\ LogDone' /\ ResultLast' /\ FinalSent' /\ OutputsAsked'
  BY <1>1, <1>2 DEF RowsLeft, LogDone, ResultLast, FinalSent, OutputsAsked
<1>5. DaemonGone' /\ Patience' /\ OutputsDelivered'
  BY <1>1 DEF DaemonGone, Patience, OutputsDelivered
<1>6. NoChangeForgotten'
  BY <1>1 DEF NoChangeForgotten
<1>7. AllResolved'
  <2>1. CASE result = Unspecified
    <3>1. result' # Unspecified /\ steps' = Resolve(steps, "cancelled")
      BY <2>1 DEF CloseBegin, Unspecified
    <3>2. \A i \in DOMAIN steps' : steps'[i].result # Unspecified
      BY <3>1, ResolvedAll DEF JobTypes, Results, Unspecified
    <3> QED BY <1>1, <3>1, <3>2 DEF AllResolved
  <2>2. CASE result # Unspecified
    BY <1>1, <2>2 DEF CloseBegin, AllResolved
  <2> QED BY <2>1, <2>2
<1> QED BY <1>3, <1>4, <1>5, <1>6, <1>7


\* What Close is waiting for: to go on with the daemon gone, and with a row to send.
LEMMA CloseMovesEnd ==
  ASSUME IInv, EndInv, CloseAcknowledged \/ CloseTimeout \/ Sentinel
  PROVE  EndInv'
<1> USE DEF EndInv, IInv, Types
<1>1. /\ UNCHANGED <<steps, result, stateChanged, closed, attempts, flush, outputs, rpc, faults,
                     srv, daemonPc, crashed, ctx>>
      /\ \/ jobPc = "wait" /\ jobPc' = "sentinel"
         \/ jobPc = "sentinel" /\ jobPc' = "flushLog"
      /\ daemonClosed'
      /\ daemonClosed' # daemonClosed => SlowRpc
  BY DEF CloseAcknowledged, CloseTimeout, Sentinel, CloseMoves, stateVars, closeVars, wireVars,
         Places, Ending, DaemonTypes
<1>2. rpc.by # "close" /\ ~srv.transferred /\ srv.result = Unspecified
      /\ flush.log = "pending" /\ flush.state = "pending"
  BY <1>1 DEF CallPlaces, LogDone, Places, ResultLast, Ending
<1>3. Places' /\ CallPlaces'
  BY <1>1, <1>2 DEF Places, CallPlaces, Ending
<1>4. RowsLeft'
  <2>1. CASE Sentinel
    <3>1. logRows' # <<>>
      <4>1. CASE logRows = <<>>
        <5>1. logRows' = Append(logRows, Row(Len(produced) + 1, 0))
          BY <2>1, <4>1 DEF Sentinel, NeedsSentinel, AppendRow
        <5>2. logRows' = <<Row(Len(produced) + 1, 0)>>
          BY <4>1, <5>1
        <5> QED BY <5>2
      <4>2. CASE logRows # <<>>
        BY <2>1, <4>2 DEF Sentinel, NeedsSentinel, AppendRow
      <4> QED BY <4>1, <4>2
    <3> QED BY <3>1, <1>1, <1>2 DEF RowsLeft
  <2>2. CASE CloseAcknowledged \/ CloseTimeout
    BY <2>2, <1>1, <1>2 DEF RowsLeft, CloseAcknowledged, CloseTimeout, CloseMoves
  <2> QED BY <2>1, <2>2
<1>5. LogDone' /\ ResultLast' /\ FinalSent' /\ OutputsAsked'
  BY <1>1, <1>2 DEF LogDone, ResultLast, FinalSent, OutputsAsked
<1>6. DaemonGone' /\ Patience' /\ OutputsDelivered'
  BY <1>1 DEF DaemonGone, Patience, OutputsDelivered, DaemonTypes
<1>7. NoChangeForgotten' /\ AllResolved'
  BY <1>1 DEF NoChangeForgotten, AllResolved
<1> QED BY <1>3, <1>4, <1>5, <1>6, <1>7

\* A daemon that moves without a call, and may leave.
LEMMA DaemonTurnEnds ==
  ASSUME IInv, EndInv,
         LogTick \/ StateTick \/ LogNotified \/ StateNotified \/ LatencyTimer
         \/ CtxDone \/ HeartbeatStopped \/ Check \/ LogSkipped
  PROVE  EndInv'
<1> USE DEF EndInv, IInv, Types
<1>1. UNCHANGED <<jobPc, steps, result, stateChanged, closed, attempts, flush, outputs, rpc,
                  faults, logRows, produced, srv, ctx>>
  BY DEF LogTick, StateTick, LogNotified, StateNotified, LatencyTimer, CtxDone, HeartbeatStopped,
         Check, LogSkipped, Turn, Leave, DaemonMoves, jobVars, dataVars, bufVars, stateVars,
         closeVars, wireVars
<1>2. rpc.by # "daemon"
  <2>1. rpc.by = "daemon" => daemonPc \in {"log", "logThenState", "state"}
    BY DEF CallPlaces
  <2>2. LogSkipped => rpc.by # "daemon"
    BY DEF LogSkipped, LogTurn, NoRpc
  <2> QED BY <2>1, <2>2 DEF LogTick, StateTick, LogNotified, StateNotified, LatencyTimer, CtxDone,
                            HeartbeatStopped, Check, Turn
<1>3. /\ daemonPc # "exited"
      /\ \/ UNCHANGED <<daemonClosed, crashed>> /\ daemonPc' # "exited"
         \/ daemonPc' = "exited" /\ daemonClosed' /\ crashed' = daemonClosed
  BY DEF LogTick, StateTick, LogNotified, StateNotified, LatencyTimer, CtxDone, HeartbeatStopped,
         Check, LogSkipped, Turn, Leave, DaemonMoves, LogTurn, AfterLog
<1>4. GaveUpOnDaemon => GaveUpOnDaemon'
  BY <1>3 DEF GaveUpOnDaemon
<1>5. Places' /\ CallPlaces'
  BY <1>1, <1>2, <1>3 DEF Places, CallPlaces
<1>6. RowsLeft' /\ LogDone' /\ ResultLast' /\ FinalSent' /\ OutputsAsked'
  BY <1>1, <1>4 DEF RowsLeft, LogDone, ResultLast, FinalSent, OutputsAsked
<1>7. DaemonGone' /\ Patience' /\ OutputsDelivered'
  BY <1>1, <1>3 DEF DaemonGone, Patience, OutputsDelivered, DaemonTypes
<1>8. NoChangeForgotten' /\ AllResolved'
  BY <1>1 DEF NoChangeForgotten, AllResolved
<1> QED BY <1>5, <1>6, <1>7, <1>8

\* The outside: only r.ctx may end, which costs the call in flight its attempt.
LEMMA OutsideEnds ==
  ASSUME IInv, EndInv, Outside \/ Terminated \/ UNCHANGED vars
  PROVE  EndInv'
<1> USE DEF EndInv, IInv, Types
<1>1. /\ UNCHANGED <<jobPc, steps, result, stateChanged, closed, attempts, flush, outputs, rpc,
                     faults, logRows, produced, daemonPc, daemonClosed, crashed>>
      /\ srv' = srv \/ srv' = [srv EXCEPT !.cancelled = TRUE]
      /\ ctx' = ctx \/ (ctx' # "live" /\ Aborts = 1)
  BY ConstantsAssumption
     DEF Outside, UserCancels, CtxEnds, Terminated, vars, backVars, jobVars, dataVars, bufVars,
         stateVars, closeVars, daemonVars, wireVars, Aborts
<1>2. /\ srv'.log = srv.log /\ srv'.transferred = srv.transferred /\ srv'.steps = srv.steps
      /\ srv'.result = srv.result /\ srv'.outputs = srv.outputs
  BY <1>1 DEF ServerTypes, Server
<1>3. Places' /\ CallPlaces' /\ RowsLeft' /\ LogDone' /\ ResultLast'
  BY <1>1, <1>2 DEF Places, CallPlaces, RowsLeft, LogDone, ResultLast, GaveUpOnDaemon
<1>4. AllResolved' /\ FinalSent' /\ OutputsAsked' /\ OutputsDelivered' /\ NoChangeForgotten'
  BY <1>1, <1>2 DEF AllResolved, FinalSent, OutputsAsked, OutputsDelivered, NoChangeForgotten
<1>5. DaemonGone' /\ Patience'
  BY <1>1 DEF DaemonGone, Patience
<1> QED BY <1>3, <1>4, <1>5

-----------------------------------------------------------------------------
(* The calls, to the end.                                                  *)

\* A call is made where the caller is, with what is there to send.
LEMMA CallEnds ==
  ASSUME IInv, EndInv, \E who \in Callers : LogSent(who) \/ OutputsSnapshot(who)
  PROVE  EndInv'
<1> USE DEF EndInv, IInv, Types
<1>1. /\ UNCHANGED <<jobPc, steps, result, stateChanged, closed, attempts, flush, outputs, faults,
                     logRows, produced, daemonPc, daemonClosed, crashed, ctx, srv>>
      /\ rpc = NoRpc
  BY DEF LogSent, OutputsSnapshot, Call, jobVars, dataVars, bufVars, stateVars, closeVars,
         daemonVars
<1>2. PICK who \in Callers :
        \/ /\ rpc' = [by |-> who, kind |-> "log", detached |-> ctx # "live", index |-> logOffset,
                      rows |-> logRows, noMore |-> who = "close"]
           /\ who = "daemon" => daemonPc \in {"log", "logThenState"}
           /\ who = "close" => jobPc = "flushLog"
        \/ /\ rpc' = [by |-> who, kind |-> "outputs",
                      outs |-> {k \in OutputKeys : outputs[k] = "unsent"}]
           /\ who = "daemon" => daemonPc = "state"
           /\ who = "close" => jobPc = "flushState"
  BY DEF LogSent, OutputsSnapshot, Call, LogTurn, Callers, Detached
<1>3. rpc.kind = "none" /\ rpc'.kind \in {"log", "outputs"} /\ rpc'.by = who
  BY <1>1, <1>2 DEF NoRpc
<1>4. rpc'.kind = "log" =>
        /\ rpc'.rows = logRows /\ rpc'.detached = (ctx # "live") /\ rpc'.noMore = (who = "close")
        /\ who = "daemon" => daemonPc \in {"log", "logThenState"}
        /\ who = "close" => jobPc = "flushLog"
  BY <1>2
<1>5. rpc'.kind = "outputs" =>
        /\ who = "daemon" => daemonPc = "state"
        /\ who = "close" => jobPc = "flushState"
  BY <1>2
<1>6. Places' /\ LogDone' /\ AllResolved' /\ DaemonGone' /\ OutputsDelivered'
  BY <1>1 DEF Places, LogDone, AllResolved, DaemonGone, OutputsDelivered, GaveUpOnDaemon
<1>7. CallPlaces'
  <2>1. who \in {"daemon", "close"} /\ daemonPc' = daemonPc /\ jobPc' = jobPc
    BY <1>1 DEF Callers
  <2> HIDE DEF EndInv, IInv, Types
  <2> QED BY <1>3, <1>4, <1>5, <2>1 DEF CallPlaces
<1>8. RowsLeft'
  BY <1>1, <1>3, <1>4 DEF RowsLeft, GaveUpOnDaemon
<1>9. ResultLast' /\ FinalSent' /\ NoChangeForgotten'
  BY <1>1, <1>3 DEF ResultLast, FinalSent, NoChangeForgotten
<1>10. OutputsAsked'
  BY <1>1, <1>2 DEF OutputsAsked
<1>11. Patience'
  BY <1>1, <1>3, <1>4 DEF Patience
<1> QED BY <1>6, <1>7, <1>8, <1>9, <1>10, <1>11

\* ReportState goes on to UpdateTask with the state of now, or ends.
LEMMA StateCallEnds == ASSUME IInv, EndInv, StateSkipped \/ StateSent PROVE EndInv'
<1> USE DEF EndInv, IInv, Types
<1>1. /\ UNCHANGED <<jobPc, steps, result, closed, attempts, flush, outputs, faults,
                     logRows, produced, daemonClosed, crashed, ctx, srv>>
      /\ rpc.kind = "outputs" /\ rpc.by \in Callers
  BY CallFields DEF StateSkipped, StateSent, DaemonMoves, jobVars, dataVars, bufVars, stateVars,
                    closeVars, daemonVars
<1>2. Places' /\ AllResolved' /\ OutputsDelivered'
  BY <1>1 DEF Places, AllResolved, OutputsDelivered
<1>3. CASE StateSkipped
  <2>1. rpc' = NoRpc /\ rpc.by = "daemon" /\ daemonPc = "state" /\ daemonPc' = "check"
        /\ UNCHANGED stateChanged
    BY <1>1, <1>3 DEF StateSkipped, DaemonMoves, NothingToReport, CallPlaces, dataVars, stateVars
  <2>2. rpc'.kind = "none" /\ rpc'.by = "nobody"
    BY <2>1 DEF NoRpc
  <2>3. CallPlaces' /\ RowsLeft' /\ LogDone' /\ ResultLast' /\ FinalSent' /\ OutputsAsked'
    BY <1>1, <2>1, <2>2 DEF CallPlaces, RowsLeft, LogDone, ResultLast, FinalSent, OutputsAsked,
                            GaveUpOnDaemon
  <2>4. NoChangeForgotten' /\ DaemonGone' /\ Patience'
    BY <1>1, <2>1, <2>2 DEF NoChangeForgotten, DaemonGone, Patience
  <2> QED BY <1>2, <2>3, <2>4
<1>4. CASE StateSent
  <2>1. rpc' = [by |-> rpc.by, kind |-> "state", detached |-> ctx # "live", steps |-> steps,
                outs |-> rpc.outs, result |-> IF rpc.by = "close" THEN result ELSE Unspecified]
        /\ daemonPc' = daemonPc
    BY <1>4 DEF StateSent, Detached, ResultSent, daemonVars
  <2>2. /\ rpc'.by = rpc.by /\ rpc'.kind = "state" /\ rpc'.steps = steps /\ rpc'.outs = rpc.outs
        /\ rpc'.detached = (ctx # "live")
        /\ rpc'.result = IF rpc.by = "close" THEN result ELSE Unspecified
    BY <2>1
  <2>3. CallPlaces' /\ RowsLeft' /\ LogDone' /\ ResultLast' /\ FinalSent' /\ OutputsAsked'
    BY <1>1, <2>1, <2>2 DEF CallPlaces, RowsLeft, LogDone, ResultLast, FinalSent, OutputsAsked,
                            GaveUpOnDaemon
  <2>4. NoChangeForgotten'
    BY <1>1, <2>2 DEF NoChangeForgotten
  <2>5. DaemonGone' /\ Patience'
    BY <1>1, <2>1, <2>2 DEF DaemonGone, Patience
  <2> QED BY <1>2, <2>3, <2>4, <2>5
<1> QED BY <1>3, <1>4

-----------------------------------------------------------------------------
(* The returns, to the end.                                                *)

\* Where a return leads: the daemon goes on, or a flush ends or is tried again.
LEMMA ReturnMoves ==
  ASSUME Types, EndInv, rpc.kind \in {"log", "state"}, NEW ok \in BOOLEAN, Return(ok),
         UNCHANGED <<closed, daemonClosed, crashed>>
  PROVE  /\ Places' /\ CallPlaces' /\ OutputsAsked' /\ DaemonGone' /\ rpc' = NoRpc
         /\ GaveUpOnDaemon => GaveUpOnDaemon'
         /\ rpc.by = "daemon" /\ daemonClosed => GaveUpOnDaemon
         /\ \/ rpc.by = "daemon" /\ UNCHANGED <<jobPc, attempts, flush>>
            \/ /\ rpc.by = "close" /\ jobPc = (IF rpc.kind = "log" THEN "flushLog" ELSE "flushState")
               /\ FlushReturns(ok) /\ UNCHANGED daemonPc
<1> USE DEF EndInv, Types
<1>1. rpc' = NoRpc /\ rpc'.by = "nobody" /\ rpc'.kind = "none"
  BY DEF Return, NoRpc
<1>2. CallPlaces' /\ OutputsAsked'
  BY <1>1 DEF CallPlaces, OutputsAsked
<1>3. CASE rpc.by = "daemon"
  <2>1. /\ UNCHANGED <<jobPc, attempts, flush>> /\ daemonPc' \in {"check", "state"}
        /\ daemonPc # "exited"
    BY <1>3 DEF Return, AfterLog, CallPlaces
  <2> QED BY <1>1, <1>2, <1>3, <2>1 DEF Places, DaemonGone, GaveUpOnDaemon
<1>4. CASE rpc.by = "close"
  <2>1. /\ FlushReturns(ok) /\ UNCHANGED daemonPc
        /\ jobPc = IF rpc.kind = "log" THEN "flushLog" ELSE "flushState"
    BY <1>4 DEF Return, CallPlaces
  <2>2. Places'
    <3>1. flush = [log |-> flush.log, state |-> flush.state]
      BY DEF CloseTypes
    <3>2. CASE UNCHANGED <<jobPc, flush>>
      BY <3>2 DEF Places
    <3>3. CASE jobPc = "flushLog" /\ jobPc' = "flushState"
      <4>1. PICK how \in {"ok", "gaveup"} : flush' = [flush EXCEPT !["log"] = how]
        BY <2>1, <3>3 DEF FlushReturns
      <4>2. flush'.log = how /\ flush'.state = flush.state
        BY <3>1, <4>1
      <4> QED BY <3>3, <4>2 DEF Places, Ending
    <3>4. CASE jobPc = "flushState" /\ jobPc' = "done"
      <4>1. PICK how \in {"ok", "gaveup"} : flush' = [flush EXCEPT !["state"] = how]
        BY <2>1, <3>4 DEF FlushReturns
      <4>2. flush'.state = how /\ flush'.log = flush.log
        BY <3>1, <4>1
      <4> QED BY <3>4, <4>2 DEF Places, Ending
    <3> QED BY <2>1, <3>2, <3>3, <3>4 DEF FlushReturns
  <2> QED BY <1>1, <1>2, <1>4, <2>1, <2>2 DEF DaemonGone, GaveUpOnDaemon
<1> QED BY <1>3, <1>4 DEF Return

\* A flush's outcome is written once, where it belongs.
LEMMA FlushOutcome ==
  ASSUME CloseTypes, NEW ok \in BOOLEAN, FlushReturns(ok)
  PROVE  /\ jobPc = "flushLog" =>
              /\ flush'.state = flush.state
              /\ jobPc' \in {"flushLog", "flushState"}
              /\ flush'.log \in {flush.log, "ok", "gaveup"}
              /\ flush'.log = "ok" => ok \/ flush.log = "ok"
              /\ jobPc' = "flushLog" => ~ok
         /\ jobPc = "flushState" =>
              /\ flush'.log = flush.log
              /\ jobPc' \in {"flushState", "done"}
              /\ flush'.state \in {flush.state, "ok", "gaveup"}
              /\ flush'.state = "ok" => ok \/ flush.state = "ok"
<1>1. flush = [log |-> flush.log, state |-> flush.state]
  BY DEF CloseTypes
<1>2. CASE UNCHANGED <<jobPc, flush>> /\ ~ok
  BY <1>2
<1>3. CASE jobPc = "flushLog"
  <2>1. CASE ~UNCHANGED <<jobPc, flush>>
    <3>1. /\ jobPc' = "flushState"
          /\ flush' = [flush EXCEPT !["log"] = IF ok THEN "ok" ELSE "gaveup"]
      BY <1>3, <2>1 DEF FlushReturns
    <3>2. flush'.state = flush.state /\ flush'.log = IF ok THEN "ok" ELSE "gaveup"
      BY <1>1, <3>1
    <3> QED BY <1>3, <3>1, <3>2
  <2> QED BY <1>2, <1>3, <2>1 DEF FlushReturns
<1>4. CASE jobPc = "flushState"
  <2>1. CASE ~UNCHANGED <<jobPc, flush>>
    <3>1. /\ jobPc' = "done"
          /\ flush' = [flush EXCEPT !["state"] = IF ok THEN "ok" ELSE "gaveup"]
      BY <1>4, <2>1 DEF FlushReturns
    <3>2. flush'.log = flush.log /\ flush'.state = IF ok THEN "ok" ELSE "gaveup"
      BY <1>1, <3>1
    <3> QED BY <1>4, <3>1, <3>2
  <2> QED BY <1>2, <1>4, <2>1 DEF FlushReturns
<1> QED BY <1>3, <1>4

\* An attempt that fails has cost a fault, unless the end of r.ctx aborted it.
LEMMA AttemptPaid ==
  ASSUME Types, EndInv, rpc.kind \in {"log", "state"}, NEW ok \in BOOLEAN, Return(ok),
         faults' \in {faults, faults + 1}, faults' \in 0..MaxFaults,
         rpc.by = "close" /\ ~ok => faults' = faults + 1 \/ (~rpc.detached /\ ctx # "live"),
         ctx # "live" => ctx' # "live"
  PROVE  Patience'
<1>1. /\ attempts \in Nat /\ faults \in Nat /\ Aborts \in {0, 1} /\ Aborts \in Nat
      /\ MaxAttempts \in Nat /\ MaxFaults \in Nat
  BY ConstantsAssumption DEF Types, CloseTypes, Aborts
<1>2. PICK used \in Nat : faults' = used /\ faults <= used /\ used <= MaxFaults
  BY <1>1
<1>3. rpc'.kind = "none" /\ Patience /\ (ctx' = "live" => ctx = "live")
  BY DEF Return, NoRpc, EndInv
<1>4. CASE rpc.by = "daemon"
  <2>1. attempts' = attempts /\ flush' = flush
    BY <1>4 DEF Return
  <2>2. attempts <= used + Aborts /\ (ctx' = "live" => attempts <= used)
    BY <1>1, <1>2, <1>3 DEF Patience
  <2> QED BY <1>2, <1>3, <2>1, <2>2 DEF Patience
<1>5. CASE rpc.by = "close"
  <2>1. FlushReturns(ok) /\ jobPc \in {"flushLog", "flushState"}
    BY <1>5 DEF Return, CallPlaces, EndInv
  <2>2. ~ok => attempts + 1 <= used + Aborts /\ (ctx' = "live" => attempts + 1 <= used)
    <3> SUFFICES ASSUME ~ok
                 PROVE  attempts + 1 <= used + Aborts /\ (ctx' = "live" => attempts + 1 <= used)
      OBVIOUS
    <3>1. CASE used = faults + 1
      BY <1>1, <1>3, <3>1 DEF Patience
    <3>2. CASE ~rpc.detached /\ ctx # "live"
      <4>1. attempts <= faults /\ Aborts = 1
        BY <1>1, <1>3, <1>5, <3>2 DEF Patience
      <4> QED BY <1>1, <1>2, <3>2, <4>1
    <3> QED BY <1>2, <1>5, <3>1, <3>2
  <2>3. attempts' <= faults' + Aborts /\ (ctx' = "live" => attempts' <= faults')
    <3>1. CASE attempts' = 0
      <4>1. 0 <= used + Aborts /\ 0 <= used
        BY <1>1
      <4> QED BY <1>2, <3>1, <4>1
    <3>2. CASE ~ok /\ attempts' = attempts + 1
      BY <1>2, <2>2, <3>2
    <3> QED BY <2>1, <3>1, <3>2 DEF FlushReturns
  <2>4. ASSUME ~SlowRpc, MaxFaults + Aborts < MaxAttempts
        PROVE  flush'.log # "gaveup" /\ flush'.state # "gaveup"
    <3>1. flush.log # "gaveup" /\ flush.state # "gaveup"
      BY <1>3, <2>4 DEF Patience
    <3>2. CASE ok
      <4>1. PICK what \in {"log", "state"} : flush' = [flush EXCEPT ![what] = "ok"]
        BY <2>1, <3>2 DEF FlushReturns
      <4> QED BY <3>1, <4>1 DEF Types, CloseTypes
    <3>3. CASE ~ok
      <4>1. attempts + 1 <= used + Aborts
        BY <2>2, <3>3
      <4>2. attempts + 1 < MaxAttempts
        BY <1>1, <1>2, <2>4, <4>1
      <4>3. ~Spent
        BY <1>1, <4>2 DEF Spent
      <4> QED BY <2>1, <2>4, <3>1, <3>3, <4>3 DEF FlushReturns
    <3> QED BY <3>2, <3>3
  <2> QED BY <1>3, <2>3, <2>4 DEF Patience
<1> QED BY <1>4, <1>5 DEF Return

\* UpdateLog returns or fails: the server has the rows up to offset + k.
LEMMA LogReturnEnds ==
  ASSUME IInv, EndInv, NEW k \in Nat, LogReturned(k) \/ LogFailed(k)
  PROVE  EndInv'
<1>1. /\ rpc.kind = "log" /\ k \in 0..Len(rpc.rows) /\ ServerStores(k)
      /\ UNCHANGED <<produced, steps, result, stateChanged, outputs, closed, daemonClosed, crashed,
                     ctx>>
  BY DEF LogReturned, LogFailed, dataVars, bufVars, stateVars
<1>2. Types /\ EndInv
  BY DEF IInv
<1>3. PICK ok \in BOOLEAN :
        /\ Return(ok)
        /\ ok => LogReturned(k) /\ (rpc.noMore => k = Len(rpc.rows))
        /\ LogReturned(k) /\ ~ok => k < Len(rpc.rows)
  <2>1. CASE LogReturned(k)
    <3>1. (rpc.noMore => k = Len(rpc.rows)) \in BOOLEAN
      OBVIOUS
    <3>2. ~(rpc.noMore => k = Len(rpc.rows)) => k < Len(rpc.rows)
      BY <1>1, <1>2, CallFields, LenProperties DEF Types
    <3> QED BY <2>1, <3>1, <3>2 DEF LogReturned
  <2>2. CASE LogFailed(k) /\ ~LogReturned(k)
    BY <2>2 DEF LogFailed
  <2> QED BY <2>1, <2>2
<1>4. /\ Places' /\ CallPlaces' /\ OutputsAsked' /\ DaemonGone' /\ rpc' = NoRpc
      /\ GaveUpOnDaemon => GaveUpOnDaemon'
      /\ rpc.by = "daemon" /\ daemonClosed => GaveUpOnDaemon
      /\ \/ rpc.by = "daemon" /\ UNCHANGED <<jobPc, attempts, flush>>
         \/ rpc.by = "close" /\ jobPc = "flushLog" /\ FlushReturns(ok)
  BY <1>1, <1>2, <1>3, ReturnMoves
<1>5. rpc'.kind = "none" /\ rpc'.by = "nobody"
  BY <1>4 DEF NoRpc
<1>6. /\ jobPc' \in {jobPc} \cup (IF jobPc = "flushLog" THEN {"flushState"} ELSE {})
      /\ flush'.state = flush.state
      /\ flush'.log = "ok" => flush.log = "ok" \/ (ok /\ rpc.by = "close")
      /\ jobPc' = "flushLog" => rpc.by = "daemon" \/ ~ok
  BY <1>2, <1>4, FlushOutcome DEF Types
<1>7. /\ srv'.steps = srv.steps /\ srv'.result = srv.result /\ srv'.outputs = srv.outputs
      /\ srv'.transferred = (srv.transferred \/ (rpc.noMore /\ rpc.rows # <<>> /\ k = Len(rpc.rows)))
  BY <1>1, <1>2 DEF ServerStores, Types, ServerTypes, Server
<1>8. /\ Len(srv.log) \in Nat /\ Len(produced) \in Nat /\ logOffset \in Nat /\ Len(logRows) \in Nat
      /\ Len(srv'.log) = logOffset + k
      /\ Len(srv.log) <= logOffset + k /\ logOffset + k <= Len(produced)
      /\ logOffset + Len(logRows) = Len(produced)
  BY <1>1, <1>2, ServerFollows, LenProperties DEF IInv, LogKept, Types, BufferTypes, ServerTypes,
                                                  Server
<1>9. /\ rpc.noMore <=> rpc.by = "close"
      /\ rpc.by = "close" => jobPc = "flushLog" /\ rpc.rows = logRows
                             /\ (logRows # <<>> \/ GaveUpOnDaemon)
  BY <1>1, <1>2 DEF EndInv, CallPlaces, RowsLeft
<1>10. RowsLeft'
  <2> SUFFICES ASSUME jobPc' = "flushLog" PROVE logRows' # <<>> \/ GaveUpOnDaemon'
    BY <1>5 DEF RowsLeft
  <2>1. jobPc = "flushLog"
    BY <1>6
  <2>2. CASE rpc.by = "daemon"
    BY <1>2, <1>4, <2>1, <2>2 DEF EndInv, Places, Ending
  <2>3. CASE rpc.by = "close" /\ LogFailed(k)
    BY <1>4, <1>9, <2>3 DEF LogFailed, dataVars, bufVars
  <2>4. CASE rpc.by = "close" /\ LogReturned(k)
    <3>1. k < Len(logRows)
      BY <1>1, <1>3, <1>6, <1>8, <1>9, <2>4
    <3>2. IInv' /\ logOffset' = logOffset + k
      BY <1>1, <2>4, LogReturnedKeeps DEF LogReturned, Acknowledge, IInv, CallKept
    <3>3. Len(logRows') \in Nat /\ logOffset' + Len(logRows') = Len(produced)
      BY <1>1, <3>2, LenProperties DEF IInv, LogKept, Types, BufferTypes
    <3>4. Len(logRows') # 0
      BY <1>1, <1>8, <3>1, <3>2, <3>3
    <3> QED BY <3>4, EmptySeq
  <2> QED BY <1>4, <2>2, <2>3, <2>4
<1>11. LogDone'
  <2>1. ASSUME srv.transferred \/ flush.log = "ok" PROVE Len(srv'.log) = Len(produced')
    BY <1>1, <1>2, <1>8, <2>1 DEF EndInv, LogDone
  <2>2. ASSUME rpc.by = "close", k = Len(rpc.rows) PROVE Len(srv'.log) = Len(produced')
    BY <1>1, <1>8, <1>9, <2>2
  <2>3. srv'.transferred => jobPc' \in Ending \ {"wait", "sentinel"} /\ Len(srv'.log) = Len(produced')
    <3>1. CASE srv.transferred
      BY <1>2, <1>6, <2>1, <3>1 DEF EndInv, LogDone, Ending
    <3>2. CASE rpc.noMore /\ k = Len(rpc.rows)
      BY <1>6, <1>9, <2>2, <3>2 DEF Ending
    <3> QED BY <1>7, <3>1, <3>2
  <2>4. flush'.log = "ok" => /\ Len(srv'.log) = Len(produced')
                             /\ srv'.transferred \/ GaveUpOnDaemon'
    <3>1. CASE flush.log = "ok"
      BY <1>2, <1>4, <1>7, <2>1, <3>1 DEF EndInv, LogDone
    <3>2. CASE ok /\ rpc.by = "close"
      BY <1>3, <1>4, <1>7, <1>9, <2>2, <3>2
    <3> QED BY <1>6, <3>1, <3>2
  <2> QED BY <2>3, <2>4 DEF LogDone
<1>12. ResultLast' /\ AllResolved' /\ FinalSent' /\ OutputsDelivered' /\ NoChangeForgotten'
  <2>1. ResultLast'
    BY <1>1, <1>2, <1>5, <1>6, <1>7 DEF EndInv, ResultLast
  <2>2. jobPc' = "run" => jobPc = "run"
    BY <1>6
  <2>3. AllResolved'
    BY <1>1, <1>2, <2>2 DEF EndInv, AllResolved
  <2>4. FinalSent' /\ OutputsDelivered' /\ NoChangeForgotten'
    BY <1>1, <1>2, <1>5, <1>6, <1>7 DEF EndInv, FinalSent, OutputsDelivered, NoChangeForgotten
  <2> QED BY <2>1, <2>3, <2>4
<1>13. Patience'
  <2>1. faults' \in {faults, faults + 1}
    BY DEF LogReturned, LogFailed, Fault
  <2>2. faults' \in 0..MaxFaults
    BY LogReturnedKeeps, LogFailedKeeps DEF IInv, Types, CloseTypes
  <2>3. rpc.by = "close" /\ ~ok => faults' = faults + 1 \/ (~rpc.detached /\ ctx # "live")
    BY <1>3, <1>9 DEF LogReturned, LogFailed, Fault, Aborted
  <2> QED BY <1>1, <1>2, <1>3, <2>1, <2>2, <2>3, AttemptPaid
<1> QED BY <1>4, <1>10, <1>11, <1>12, <1>13 DEF EndInv

\* UpdateTask returns or fails.
LEMMA StateReturnEnds ==
  ASSUME IInv, EndInv, (\E sent \in SUBSET OutputKeys : StateReturned(sent))
                       \/ (\E handled \in BOOLEAN : StateFailed(handled))
  PROVE  EndInv'
<1>1. /\ rpc.kind = "state" /\ rpc.by \in Callers
      /\ UNCHANGED <<produced, logRows, steps, result, closed, daemonClosed, crashed>>
      /\ Types /\ EndInv
  BY CallFields DEF StateReturned, StateFailed, dataVars, bufVars, stateVars, IInv, Types
<1>2. PICK ok \in BOOLEAN, sent \in SUBSET rpc.outs :
        /\ Return(ok)
        /\ srv' = srv \/ ServerRecords(sent)
        /\ outputs' = outputs \/ (MarkSent(sent) /\ ServerRecords(sent))
        /\ ok => ServerRecords(sent) /\ \A x \in OutputKeys : outputs'[x] # "unsent"
        /\ stateChanged' \/ (UNCHANGED stateChanged /\ ServerRecords(sent))
        /\ rpc.by = "close" /\ ~ok => Fault(TRUE) \/ Aborted
  <2>1. ASSUME NEW sent \in SUBSET OutputKeys, StateReturned(sent)
        PROVE  \E ok \in BOOLEAN :
                 /\ Return(ok) /\ ServerRecords(sent) /\ MarkSent(sent) /\ UNCHANGED stateChanged
                 /\ ok => \A x \in OutputKeys : outputs'[x] # "unsent"
                 /\ rpc.by = "close" /\ ~ok => Fault(TRUE)
    <3>1. (\A x \in OutputKeys : outputs'[x] # "unsent") \in BOOLEAN
      OBVIOUS
    <3>2. PICK ok \in BOOLEAN : Return(ok) /\ (ok <=> \A x \in OutputKeys : outputs'[x] # "unsent")
      BY <2>1, <3>1 DEF StateReturned
    <3>3. rpc.by = "close" /\ ~ok => Fault(TRUE)
      <4>1. rpc.by = "close" => rpc.outs = {x \in OutputKeys : outputs[x] = "unsent"}
        BY <1>1 DEF EndInv, OutputsAsked
      <4>2. rpc.by = "close" /\ sent = rpc.outs => \A x \in OutputKeys : outputs'[x] # "unsent"
        BY <2>1, <4>1 DEF StateReturned, MarkSent
      <4> QED BY <2>1, <3>2, <4>2 DEF StateReturned, Fault
    <3> QED BY <2>1, <3>2, <3>3 DEF StateReturned, stateVars
  <2>2. CASE \E sent \in SUBSET OutputKeys : StateReturned(sent)
    BY <2>1, <2>2 DEF StateReturned
  <2>3. CASE \E handled \in BOOLEAN : StateFailed(handled)
    <3>1. rpc.outs \in SUBSET rpc.outs
      OBVIOUS
    <3>2. /\ Return(FALSE) /\ stateChanged' /\ outputs' = outputs
          /\ srv' = srv \/ ServerRecords(rpc.outs)
          /\ Fault(TRUE) \/ Aborted
      BY <2>3 DEF StateFailed, OweChange, Fault
    <3> QED BY <3>1, <3>2
  <2> QED BY <2>2, <2>3
<1>3. /\ Places' /\ CallPlaces' /\ OutputsAsked' /\ DaemonGone' /\ rpc' = NoRpc
      /\ GaveUpOnDaemon => GaveUpOnDaemon'
      /\ \/ rpc.by = "daemon" /\ UNCHANGED <<jobPc, attempts, flush>>
         \/ rpc.by = "close" /\ jobPc = "flushState" /\ FlushReturns(ok)
  BY <1>1, <1>2, ReturnMoves
<1>4. rpc'.kind = "none" /\ rpc'.by = "nobody"
  BY <1>3 DEF NoRpc
<1>5. /\ jobPc' \in {jobPc} \cup (IF jobPc = "flushState" THEN {"done"} ELSE {})
      /\ flush'.log = flush.log
      /\ flush'.state = "ok" => flush.state = "ok" \/ (ok /\ rpc.by = "close")
  BY <1>1, <1>3, FlushOutcome DEF Types
<1>6. /\ srv'.log = srv.log /\ srv'.transferred = srv.transferred
      /\ \A x \in srv.outputs : x \in srv'.outputs
      /\ srv' = srv \/ ServerRecords(sent)
      /\ ServerRecords(sent) =>
            /\ srv'.steps = rpc.steps
            /\ srv'.outputs = srv.outputs \cup sent
            /\ srv'.result = IF rpc.result = Unspecified THEN srv.result ELSE rpc.result
  <2>1. CASE ServerRecords(sent)
    BY <1>1, <2>1 DEF ServerRecords, Types, ServerTypes, Server
  <2>2. CASE srv' = srv /\ ~ServerRecords(sent)
    BY <2>2
  <2> QED BY <1>2, <2>1, <2>2
<1>7. RowsLeft' /\ LogDone'
  <2>1. jobPc' = "flushLog" => jobPc = "flushLog"
    BY <1>5
  <2>2. RowsLeft'
    BY <1>1, <1>3, <1>4, <2>1 DEF EndInv, RowsLeft
  <2>3. LogDone'
    BY <1>1, <1>3, <1>5, <1>6 DEF EndInv, LogDone, Ending
  <2> QED BY <2>2, <2>3
<1>8. /\ rpc.by = "close" => rpc.steps = steps /\ rpc.result = result /\ jobPc = "flushState"
      /\ jobPc = "done" => rpc.steps = steps
      /\ rpc.result # Unspecified => rpc.by = "close"
      /\ rpc.by = "close" => result # Unspecified
  BY <1>1, <1>3 DEF EndInv, FinalSent, ResultLast, AllResolved, Places, CallPlaces, Ending
<1>9. ResultLast'
  BY <1>1, <1>4, <1>5, <1>6, <1>8 DEF EndInv, ResultLast
<1>10. AllResolved'
  <2>1. jobPc' = "run" => jobPc = "run"
    BY <1>5
  <2> QED BY <1>1, <2>1 DEF EndInv, AllResolved
<1>11. FinalSent'
  <2>1. CASE flush.state = "ok"
    <3>1. jobPc = "done" /\ srv.steps = steps /\ srv.result = result
      BY <1>1, <2>1 DEF EndInv, Places, FinalSent
    <3> QED BY <1>1, <1>4, <1>6, <1>8, <3>1 DEF FinalSent
  <2>2. CASE ok /\ rpc.by = "close"
    BY <1>1, <1>2, <1>4, <1>6, <1>8, <2>2 DEF FinalSent
  <2>3. CASE flush'.state # "ok"
    BY <1>4, <2>3 DEF FinalSent
  <2> QED BY <1>5, <2>1, <2>2, <2>3
<1>12. OutputsDelivered'
  <2> SUFFICES ASSUME NEW x \in OutputKeys
               PROVE  /\ outputs'[x] = "sent" => x \in srv'.outputs
                      /\ flush'.state = "ok" => outputs'[x] # "unsent"
    BY DEF OutputsDelivered
  <2>1. /\ outputs[x] = "sent" => x \in srv.outputs
        /\ flush.state = "ok" => outputs[x] # "unsent"
    BY <1>1 DEF EndInv, OutputsDelivered
  <2>2. outputs'[x] = outputs[x] \/ (outputs'[x] = "sent" /\ x \in sent /\ ServerRecords(sent))
    BY <1>2 DEF MarkSent
  <2> QED BY <1>2, <1>5, <1>6, <2>1, <2>2
<1>13. NoChangeForgotten'
  BY <1>1, <1>2, <1>4, <1>6 DEF EndInv, NoChangeForgotten
<1>14. Patience'
  <2>1. IInv'
    BY StateReturnKeeps
  <2>2. faults' \in {faults, faults + 1} /\ (ctx # "live" => ctx' # "live")
    BY DEF StateReturned, StateFailed, Fault, ObeyAnswer
  <2>3. faults' \in 0..MaxFaults
    BY <2>1 DEF IInv, Types, CloseTypes
  <2>4. rpc.by = "close" /\ ~ok => faults' = faults + 1 \/ (~rpc.detached /\ ctx # "live")
    BY <1>2 DEF Fault, Aborted
  <2> QED BY <1>1, <1>2, <2>2, <2>3, <2>4, AttemptPaid
<1> QED BY <1>3, <1>7, <1>9, <1>10, <1>11, <1>12, <1>13, <1>14 DEF EndInv

-----------------------------------------------------------------------------
(* The theorems about the end.                                             *)

\* Nothing has been reported at first.
LEMMA InitEndInv == Init => EndInv
<1> SUFFICES ASSUME Init PROVE EndInv
  OBVIOUS
<1>1. rpc.kind = "none" /\ rpc.by = "nobody"
  BY DEF Init, NoRpc
<1>2. Places /\ CallPlaces /\ RowsLeft /\ LogDone
  BY <1>1 DEF Init, Places, CallPlaces, RowsLeft, LogDone, Ending
<1>3. ResultLast /\ AllResolved /\ FinalSent /\ OutputsAsked /\ OutputsDelivered
  BY <1>1 DEF Init, ResultLast, AllResolved, FinalSent, OutputsAsked, OutputsDelivered
<1>4. NoChangeForgotten
  BY <1>1 DEF Init, NoChangeForgotten
<1>5. DaemonGone /\ Patience
  <2>1. MaxFaults \in Nat /\ Aborts \in {0, 1} /\ MaxAttempts \in Nat
    BY ConstantsAssumption DEF Aborts
  <2> QED BY <1>1, <2>1 DEF Init, DaemonGone, Patience
<1> QED BY <1>2, <1>3, <1>4, <1>5 DEF EndInv

\* Both invariants hold throughout.
LEMMA EndInductive == Spec => [](IInv /\ EndInv)
<1>1. IInv /\ EndInv /\ [Next]_vars => EndInv'
  <2> SUFFICES ASSUME IInv, EndInv, [Next]_vars PROVE EndInv'
    OBVIOUS
  <2>1. CASE JobStep
    BY <2>1, JobStepEnds
  <2>2. CASE \E words \in BOOLEAN : CloseBegin(words)
    BY <2>2, CloseBeginEnds
  <2>3. CASE CloseStep
    BY <2>3, CloseMovesEnd, CallEnds DEF CloseStep, Callers
  <2>4. CASE DaemonStep
    BY <2>4, DaemonTurnEnds, CallEnds DEF DaemonStep, Callers
  <2>5. CASE RpcStep
    <3>1. \A k \in 0..(MaxRows + 2) : k \in Nat
      OBVIOUS
    <3> QED BY <2>5, <3>1, StateCallEnds, LogReturnEnds, StateReturnEnds DEF RpcStep
  <2>6. CASE Outside \/ Terminated \/ UNCHANGED vars
    BY <2>6, OutsideEnds
  <2> QED BY <2>1, <2>2, <2>3, <2>4, <2>5, <2>6 DEF Next
<1> QED BY InitEndInv, <1>1, Inductive, PTL DEF Spec

\* A step state that the server does not have, and that is not on its way, is
\* owed to it: whatever Fire changes during UpdateTask and however UpdateTask
\* fails (ReportState's stateChanged).
THEOREM ChangesRemembered == Spec => []NoChangeForgotten
<1>1. EndInv => NoChangeForgotten
  BY DEF EndInv
<1> QED BY <1>1, EndInductive, PTL

\* Equal lengths make the server's log the log that was produced.
LEMMA LogComplete ==
  ASSUME IInv, Len(srv.log) = Len(produced)
  PROVE  srv.log = produced
<1>1. produced \in Seq(RowType) /\ srv.log \in Seq(RowType)
  BY DEF IInv, Types, BufferTypes, ServerTypes, Server
<1>2. \A n \in 1..Len(produced) : srv.log[n] = produced[n]
  BY DEF IInv, LogKept
<1> QED BY <1>1, <1>2, SeqEqual

\* The result reaches the server after the log, and the last UpdateLog carries
\* a row, whatever fails or is retried (flushFinal, Close's sentinel).
THEOREM LogBeforeResult == Spec => []EndOfLog
<1>1. IInv /\ EndInv => ResultAfterLogs
  <2> SUFFICES ASSUME IInv, EndInv, srv.result # Unspecified
               PROVE  /\ closed /\ flush.log # "pending"
                      /\ flush.log = "ok" =>
                            srv.log = produced /\ (srv.transferred \/ GaveUpOnDaemon)
    BY DEF ResultAfterLogs
  <2>1. closed /\ flush.log # "pending"
    BY DEF EndInv, ResultLast, Places, Ending
  <2> QED BY <2>1, LogComplete DEF EndInv, LogDone
<1>2. IInv /\ EndInv => FinalLogCarriesRows
  BY DEF EndInv, CallPlaces, RowsLeft, FinalLogCarriesRows
<1>3. IInv /\ EndInv => EndOfLog
  BY <1>1, <1>2 DEF EndOfLog
<1> QED BY <1>3, EndInductive, PTL

\* A final flush that succeeds leaves the server with every output, every step's
\* state and result, and the task's result (Close, ReportState(true)).
THEOREM FinalReport == Spec => []FinalReportComplete
<1>1. IInv /\ EndInv => FinalReportComplete
  <2> SUFFICES ASSUME IInv, EndInv PROVE FinalStateComplete /\ OutputsDelivered
    BY DEF FinalReportComplete
  <2>1. flush.state = "ok" => closed
    BY DEF EndInv, Places, Ending
  <2> QED BY <2>1 DEF EndInv, FinalSent, AllResolved, FinalStateComplete
<1> QED BY <1>1, EndInductive, PTL

\* The channel r.daemon is closed twice only after a call that outlasted Close's
\* wait: otherwise the process survives, and with more attempts than can fail no
\* final flush gives up.
THEOREM OnlySlowCallsHurt ==
  ASSUME ~SlowRpc
  PROVE  Spec => [](SurvivesTimeout
                    /\ (Persistent => flush.log # "gaveup" /\ flush.state # "gaveup"))
<1>1. EndInv => SurvivesTimeout
                /\ (Persistent => flush.log # "gaveup" /\ flush.state # "gaveup")
  BY DEF EndInv, DaemonGone, Patience, Persistent, SurvivesTimeout
<1> QED BY <1>1, EndInductive, PTL

-----------------------------------------------------------------------------
(* The refinement of TaskReport.                                           *)

\* The rows of a log that the other begins with.
LEMMA Beginning ==
  ASSUME NEW s \in Seq(RowType), NEW t \in Seq(RowType), Len(s) <= Len(t),
         \A n \in 1..Len(s) : s[n] = t[n]
  PROVE  Report!Extends(t, s)
<1> DEFINE part == SubSeq(t, 1, Len(s))
<1>1. Len(s) \in Nat /\ Len(t) \in Nat
  BY LenProperties
<1>2. \A i \in 1..Len(s) : t[i] \in RowType
  BY <1>1, ElementOfSeq
<1>3. /\ part \in Seq(RowType)
      /\ Len(part) = IF 1 <= Len(s) THEN Len(s) - 1 + 1 ELSE 0
      /\ \A i \in 1..(Len(s) - 1 + 1) : part[i] = t[1 + i - 1]
  BY <1>1, <1>2, SubSeqProperties
<1>4. Len(part) = Len(s) /\ \A i \in 1..Len(s) : s[i] = part[i]
  BY <1>1, <1>3
<1> HIDE DEF part
<1>5. s = part
  BY <1>3, <1>4, SeqEqual
<1> QED BY <1>5 DEF part, Report!Extends

\* An entry, Logf, the last words and the sentinel produce a row, or nothing.
LEMMA Produces ==
  ASSUME IInv, EndInv, UNCHANGED srv, jobPc \notin Ending \ {"wait", "sentinel"},
         NEW row, row \in RowType, produced' \in {produced, Append(produced, row)}
  PROVE  [Report!Next]_Report!vars
<1>1. produced \in Seq(RowType)
  BY DEF IInv, Types, BufferTypes
<1>2. ~srv.transferred
  BY DEF EndInv, LogDone
<1>3. CASE produced' = Append(produced, row)
  <2>1. /\ produced' \in Seq(RowType) /\ Len(produced') = Len(produced) + 1
        /\ \A n \in 1..Len(produced) : produced'[n] = produced[n]
    BY <1>1, <1>3, AppendProperties
  <2>2. Len(produced) \in Nat /\ Len(produced) <= Len(produced) + 1
    BY <1>1, LenProperties
  <2>3. Report!Extends(produced', produced)
    BY <1>1, <2>1, <2>2, Beginning
  <2> QED BY <1>2, <2>1, <2>3 DEF Report!Next, Report!Produce
<1>4. CASE produced' = produced
  BY <1>4 DEF Report!vars
<1> QED BY <1>3, <1>4

\* UpdateLog brings more of the log, or the rest of it.
LEMMA Receives ==
  ASSUME IInv, EndInv, IInv', EndInv', UNCHANGED produced,
         NEW k \in Nat, LogReturned(k) \/ LogFailed(k)
  PROVE  [Report!Next]_Report!vars
<1>1. rpc.kind = "log" /\ k \in 0..Len(rpc.rows) /\ ServerStores(k)
  BY DEF LogReturned, LogFailed
<1>2. /\ srv.log \in Seq(RowType) /\ srv'.log \in Seq(RowType) /\ produced \in Seq(RowType)
      /\ srv.transferred \in BOOLEAN /\ srv'.transferred \in BOOLEAN
  BY DEF IInv, Types, BufferTypes, ServerTypes, Server
<1>3. /\ Len(srv.log) <= Len(srv'.log) /\ Len(srv'.log) <= Len(produced)
      /\ \A n \in 1..Len(srv'.log) : srv'.log[n] = produced[n]
      /\ \A n \in 1..Len(srv.log) : srv.log[n] = produced[n]
  BY <1>1, ServerFollows DEF IInv, LogKept
<1>4. srv'.result = srv.result /\ (srv.transferred => srv'.transferred)
  BY <1>1 DEF ServerStores, IInv, Types, ServerTypes, Server
<1>5. CASE srv'.transferred
  <2>1. Len(srv'.log) = Len(produced)
    BY <1>5 DEF EndInv, LogDone
  <2>2. srv'.log = produced
    BY <1>2, <1>3, <2>1, SeqEqual
  <2> QED BY <1>2, <1>4, <1>5, <2>2 DEF Report!Next, Report!Archive
<1>6. CASE ~srv'.transferred
  <2>1. Report!Extends(produced, srv'.log)
    BY <1>2, <1>3, Beginning
  <2>2. \A n \in 1..Len(srv.log) : srv.log[n] = srv'.log[n]
    <3>1. Len(srv.log) \in Nat /\ Len(srv'.log) \in Nat
      BY <1>2, LenProperties
    <3> QED BY <1>3, <3>1
  <2>3. Report!Extends(srv'.log, srv.log)
    BY <1>2, <1>3, <2>2, Beginning
  <2> QED BY <1>2, <1>4, <1>6, <2>1, <2>3 DEF Report!Next, Report!Receive
<1> QED BY <1>2, <1>5, <1>6

\* UpdateTask brings the result, once, when the log is archived.
LEMMA Concludes ==
  ASSUME ~SlowRpc, Persistent, IInv, EndInv, IInv', EndInv', UNCHANGED <<produced, result>>,
         srv'.log = srv.log, srv'.transferred = srv.transferred,
         srv.result # Unspecified => srv'.result # Unspecified
  PROVE  [Report!Next]_Report!vars
<1>1. srv'.result \in Results
  BY DEF IInv, Types, ServerTypes, Server
<1>2. CASE srv'.result = srv.result
  BY <1>2 DEF Report!vars
<1>3. CASE srv'.result # srv.result
  <2>1. srv.result = Unspecified
    BY <1>3 DEF EndInv, ResultLast
  <2>2. flush'.log = "ok"
    <3>1. flush'.log # "pending"
      BY <1>3, <2>1 DEF EndInv, ResultLast, Places
    <3>2. flush'.log # "gaveup"
      BY DEF EndInv, Patience, Persistent
    <3>3. flush'.log \in {"pending", "ok", "gaveup"}
      BY DEF IInv, Types, CloseTypes
    <3> QED BY <3>1, <3>2, <3>3
  <2>3. ~GaveUpOnDaemon'
    BY DEF EndInv, DaemonGone, GaveUpOnDaemon
  <2>4. srv.transferred
    BY <2>2, <2>3 DEF EndInv, LogDone
  <2> QED BY <1>1, <1>3, <2>1, <2>4 DEF Report!Next, Report!Conclude
<1> QED BY <1>2, <1>3

\* Every step is a step of TaskReport, or nothing the server sees.
LEMMA StepsReport ==
  ASSUME ~SlowRpc, Persistent, IInv, EndInv, IInv', EndInv', [Next]_vars
  PROVE  [Report!Next]_Report!vars
<1>1. Len(produced) + 1 \in Nat \ {0}
  BY LenProperties DEF IInv, Types, BufferTypes
<1>2. \A s \in 0..NSteps : Row(Len(produced) + 1, s) \in RowType
  BY <1>1 DEF Row, RowType
<1>3. 0 \in 0..NSteps
  BY ConstantsAssumption
<1>4. CASE JobStep
  <2>1. UNCHANGED srv /\ jobPc \in {"run", "outputs", "stopped"}
    BY <1>4 DEF JobStep, ResetSteps, FireJob, FireStep, NextStage, Logf, SetOutputs,
                StopHeartbeats, JobAlive, backVars, wireVars
  <2>2. \E s \in 0..NSteps : produced' \in {produced, Append(produced, Row(Len(produced) + 1, s))}
    <3>1. (\E yields, raw \in BOOLEAN, r \in StepResults \cup {Unspecified} :
              FireStep(yields, raw, r)) =>
             \E s \in 0..NSteps : produced' \in {produced, Append(produced, Row(Len(produced) + 1, s))}
      <4>1. \A i \in 1..NSteps : i \in 0..NSteps
        BY ConstantsAssumption
      <4> QED BY <1>3, <4>1 DEF FireStep, AppendRow
    <3> QED BY <1>3, <1>4, <3>1
            DEF JobStep, ResetSteps, FireJob, NextStage, Logf, SetOutputs, StopHeartbeats,
                AppendRow, bufVars, dataVars
  <2> QED BY <1>2, <2>1, <2>2, Produces DEF Ending
<1>5. CASE (\E words \in BOOLEAN : CloseBegin(words)) \/ Sentinel
  <2>1. /\ UNCHANGED srv /\ jobPc \in {"run", "stopped", "sentinel"}
        /\ produced' \in {produced, Append(produced, Row(Len(produced) + 1, 0))}
    BY <1>5 DEF CloseBegin, Sentinel, CloseMoves, AppendRow, wireVars
  <2> QED BY <1>2, <1>3, <2>1, Produces DEF Ending
<1>6. CASE \E k \in 0..(MaxRows + 2) : LogReturned(k) \/ LogFailed(k)
  <2>1. PICK k \in Nat : LogReturned(k) \/ LogFailed(k)
    BY <1>6
  <2>2. UNCHANGED produced
    BY <2>1 DEF LogReturned, LogFailed, dataVars, bufVars
  <2> QED BY <2>1, <2>2, Receives
<1>7. CASE (\E sent \in SUBSET OutputKeys : StateReturned(sent))
           \/ (\E handled \in BOOLEAN : StateFailed(handled))
  <2>1. UNCHANGED <<produced, result>> /\ rpc.kind = "state"
    BY <1>7 DEF StateReturned, StateFailed, bufVars, stateVars
  <2>2. srv' = srv \/ \E sent \in SUBSET OutputKeys : ServerRecords(sent)
    BY <1>7, <2>1, CallFields DEF StateReturned, StateFailed, IInv, Types
  <2>3. /\ srv'.log = srv.log /\ srv'.transferred = srv.transferred
        /\ srv.result # Unspecified => srv'.result # Unspecified
    <3>1. CASE srv' = srv
      BY <3>1
    <3>2. CASE \E sent \in SUBSET OutputKeys : ServerRecords(sent)
      BY <3>2 DEF ServerRecords, IInv, Types, ServerTypes, Server
    <3> QED BY <2>2, <3>1, <3>2
  <2> QED BY <2>1, <2>3, Concludes
<1>8. CASE \/ CloseAcknowledged \/ CloseTimeout \/ StateSkipped \/ StateSent
           \/ (\E who \in Callers : LogSent(who) \/ OutputsSnapshot(who))
           \/ LogTick \/ StateTick \/ LogNotified \/ StateNotified \/ LatencyTimer
           \/ CtxDone \/ HeartbeatStopped \/ Check \/ LogSkipped
           \/ Outside \/ Terminated \/ UNCHANGED vars
  <2>1. /\ produced' = produced
        /\ srv' = srv \/ srv' = [srv EXCEPT !.cancelled = TRUE]
    BY <1>8 DEF CloseAcknowledged, CloseTimeout, CloseMoves, StateSkipped, StateSent, LogSent,
                OutputsSnapshot, Call, LogTick, StateTick, LogNotified, StateNotified,
                LatencyTimer, CtxDone, HeartbeatStopped, Check, LogSkipped, Turn, Leave,
                DaemonMoves, Outside, UserCancels, CtxEnds, Terminated, vars, backVars, dataVars,
                bufVars, wireVars
  <2>2. srv'.log = srv.log /\ srv'.transferred = srv.transferred /\ srv'.result = srv.result
    BY <2>1 DEF IInv, Types, ServerTypes, Server
  <2> QED BY <2>1, <2>2 DEF Report!vars
<1> QED BY <1>4, <1>5, <1>6, <1>7, <1>8
        DEF Next, CloseStep, DaemonStep, RpcStep, Callers

\* With more attempts than can fail and no call outliving its time, the server
\* sees a TaskReport: rows in order, the log archived once and whole, and the
\* result once, after that (the safety of ImplementsFairReport).
THEOREM ImplementsReport ==
  ASSUME ~SlowRpc, Persistent
  PROVE  Spec => Report!Spec
<1>1. Init => Report!Init
  BY DEF Init, Report!Init
<1>2. IInv /\ EndInv /\ (IInv /\ EndInv)' /\ [Next]_vars => [Report!Next]_Report!vars
  BY StepsReport
<1> QED BY <1>1, <1>2, EndInductive, PTL DEF Spec, Report!Spec

=============================================================================
