---------------------------- MODULE PollerProofs ----------------------------
(***************************************************************************)
(* Proofs about Poller, for any tasks, runs, capacity and faults: its type *)
(* invariant, the capacity, what done means, that the runner's identity    *)
(* outlives its jobs, and that no request goes out once polling ended.     *)
(***************************************************************************)
EXTENDS Poller, FiniteSetTheorems, TLAPS

\* sem counts the runs that hold a slot, and the loop's own.
SlotCount ==
    ~once => /\ sem = Cardinality(Holders) + IF pollPc \in Taking THEN 1 ELSE 0
             /\ sem <= Capacity

\* PollOnce starts one run and then only waits for it.
OneRun ==
    once => /\ sem = 0
            /\ pollPc \notin {"drain", "done"} => \A r \in Runs : runPc[r] = "none"
            /\ \A r, s \in Runs : runPc[r] # "none" /\ runPc[s] # "none" => r = s

\* The main goroutine gets past Shutdown only when the poller is done.
Teardown ==
    /\ mainPc \in {"returned", "closed", "exited"} => pollPc = "done"
    /\ ~cacheOpen => mainPc \in {"closed", "exited"}
    /\ ~lockHeld => mainPc = "exited"

\* An unregistered runner has stopped polling.
Stopped == unregistered => ~polling

\* A run that was started was given a task.
HasTask == \A r \in Runs : runPc[r] # "none" => runTask[r] \in Tasks

IInv ==
    TypeOK /\ SlotCount /\ OneRun /\ DoneMeansOver /\ Teardown /\ Stopped /\ HasTask

-----------------------------------------------------------------------------
(* The runs that hold a slot.                                              *)

\* The runs that hold a slot are finitely many, whatever the runs do.
LEMMA HoldersFinite == IsFiniteSet(Holders) /\ Cardinality(Holders) \in Nat
<1>1. Holders \in SUBSET Runs
  BY DEF Holders
<1>2. IsFiniteSet(Holders)
  BY <1>1, FS_Subset, ConstantsAssumption
<1> QED BY <1>2, FS_CardinalityType

\* A run that was not started and is now spawned takes one more slot.
LEMMA HolderAdded ==
  ASSUME TypeOK, NEW r \in Runs, runPc[r] = "none",
         runPc' = [runPc EXCEPT ![r] = "spawned"]
  PROVE  Cardinality(Holders') = Cardinality(Holders) + 1
<1>1. Holders' = Holders \cup {r} /\ r \notin Holders
  BY DEF Holders, Holding, TypeOK
<1> QED BY <1>1, HoldersFinite, FS_AddElement

\* A run that leaves gives one slot back.
LEMMA HolderRemoved ==
  ASSUME TypeOK, NEW r \in Runs, runPc[r] \in Holding,
         runPc' = [runPc EXCEPT ![r] = "left"]
  PROVE  Cardinality(Holders') = Cardinality(Holders) - 1 /\ Cardinality(Holders') \in Nat
<1>1. Holders' = Holders \ {r} /\ r \in Holders
  BY DEF Holders, Holding, TypeOK
<1>2. IsFiniteSet(Holders') /\ Cardinality(Holders') = Cardinality(Holders) - 1
  BY <1>1, HoldersFinite, FS_RemoveElement
<1> QED BY <1>2, FS_CardinalityType

\* A run that holds a slot before and after a step keeps it.
LEMMA HoldersKept ==
  ASSUME TypeOK, NEW r \in Runs, NEW x, runPc' = [runPc EXCEPT ![r] = x],
         runPc[r] \in Holding <=> x \in Holding
  PROVE  Holders' = Holders
BY DEF Holders, TypeOK

-----------------------------------------------------------------------------
(* The invariant is inductive.                                             *)

\* It holds when the daemon starts.
LEMMA InitIInv == Init => IInv
<1> SUFFICES ASSUME Init PROVE IInv
  OBVIOUS
<1>1. TypeOK
  <2>1. runPc \in [Runs -> Live \cup {"none", "over"}]
    BY DEF Init
  <2>2. runTask \in [Runs -> Tasks \cup {NoTask}]
    BY DEF Init
  <2>3. faults \in 0..MaxFaults
    BY ConstantsAssumption DEF Init
  <2>4. /\ polling \in BOOLEAN /\ jobs \in BOOLEAN /\ unregistered \in BOOLEAN
        /\ cacheOpen \in BOOLEAN /\ lockHeld \in BOOLEAN
    BY DEF Init
  <2> QED BY <2>1, <2>2, <2>3, <2>4 DEF Init, TypeOK
<1>2. Holders = {}
  BY DEF Init, Holders, Holding
<1>3. SlotCount
  BY <1>2, FS_EmptySet, ConstantsAssumption DEF Init, SlotCount, Taking
<1>4. OneRun /\ DoneMeansOver /\ Teardown /\ Stopped /\ HasTask
  BY DEF Init, OneRun, DoneMeansOver, Teardown, Stopped, HasTask
<1> QED BY <1>1, <1>3, <1>4 DEF IInv

\* Poll does not become PollOnce.
LEMMA OnceStays == [Next]_vars => once' = once
BY DEF Next, LoopStep, Loop, Acquire, AcquireStopped, AvailableCached, ProbeBegin, ProbeEnd,
       FetchBegin, FetchTask, FetchEmpty, FetchFailed, FetchUnauthenticated, IdleClean,
       Release, BackoffOver, BackoffStopped, Drained, RunStep, Move, RunCheck, RunBegin,
       RunEnd, RunClosed, RunLeaves, RunDone, ShutdownBegin, ShutdownStep, ShutdownForced,
       ShutdownReturns, CloseRunner, ReleaseLock, Main, NewTask, Terminated, mainVars, vars

\* Steps of the loop that start no run.
LEMMA LoopOnlyStep ==
  ASSUME IInv,
         \/ Acquire \/ AcquireStopped \/ AvailableCached \/ ProbeBegin
         \/ \E ready \in BOOLEAN : ProbeEnd(ready)
         \/ IdleClean \/ Release \/ BackoffOver \/ BackoffStopped \/ Drained
  PROVE  IInv'
<1> USE DEF IInv
<1>0. once' = once
  BY OnceStays DEF Next, LoopStep
<1>1. Holders' = Holders
  BY DEF Holders, Loop, runVars, Acquire, AcquireStopped, AvailableCached,
         ProbeBegin, ProbeEnd, IdleClean, Release, BackoffOver, BackoffStopped, Drained
<1>2. SlotCount'
  BY <1>0, <1>1, HoldersFinite, ConstantsAssumption
     DEF SlotCount, Taking, TypeOK, Loop, SlotFree, GiveBack, Acquire, AcquireStopped,
         AvailableCached, ProbeBegin, ProbeEnd, IdleClean, Release, BackoffOver,
         BackoffStopped, Drained
<1>3. TypeOK'
  BY <1>0, HoldersFinite
     DEF TypeOK, SlotCount, OneRun, Taking, Loop, SlotFree, GiveBack, ctxVars, fetchVars, runVars,
         mainVars, serverVars, Acquire, AcquireStopped, AvailableCached, ProbeBegin,
         ProbeEnd, IdleClean, Release, BackoffOver, BackoffStopped, Drained
<1>4. OneRun' /\ DoneMeansOver' /\ Teardown' /\ Stopped' /\ HasTask'
  BY <1>0 DEF OneRun, DoneMeansOver, Teardown, Stopped, HasTask, AllOver, WaitOver, Loop,
         GiveBack, ctxVars, runVars, mainVars, Acquire, AcquireStopped, AvailableCached,
         ProbeBegin, ProbeEnd, IdleClean, Release, BackoffOver, BackoffStopped, Drained
<1> QED BY <1>2, <1>3, <1>4

\* Steps of the request that start no run.
LEMMA RequestStep ==
  ASSUME IInv,
         \/ FetchBegin \/ \E timedOut \in BOOLEAN : FetchEmpty(timedOut)
         \/ FetchFailed \/ FetchUnauthenticated
  PROVE  IInv'
<1> USE DEF IInv
<1>0. once' = once
  BY OnceStays DEF Next, LoopStep
<1>1. Holders' = Holders
  BY DEF Holders, runVars, FetchBegin, FetchEmpty, FetchFailed, FetchUnauthenticated
<1>2. SlotCount'
  BY <1>0, <1>1, HoldersFinite
     DEF SlotCount, Taking, FetchBegin, FetchEmpty, FetchFailed, FetchUnauthenticated
<1>3. pending' \subseteq Tasks /\ known' \subseteq Tasks /\ version' \in Nat
  BY DEF TypeOK, HandOut, serverVars, FetchBegin, FetchEmpty, FetchFailed,
         FetchUnauthenticated
<1>4. faults' \in 0..MaxFaults
  BY ConstantsAssumption
     DEF TypeOK, serverVars, FetchBegin, FetchEmpty, FetchFailed, FetchUnauthenticated
<1>5. polling' \in BOOLEAN /\ jobs' \in BOOLEAN /\ unregistered' \in BOOLEAN
  BY DEF TypeOK, ctxVars, StopUnregistered, FetchBegin, FetchEmpty, FetchFailed,
         FetchUnauthenticated
<1>6. TypeOK'
  BY <1>0, <1>3, <1>4, <1>5
     DEF TypeOK, fetchVars, runVars, mainVars, FetchBegin, FetchEmpty, FetchFailed,
         FetchUnauthenticated
<1>7. OneRun' /\ DoneMeansOver' /\ Teardown' /\ Stopped' /\ HasTask'
  BY <1>0 DEF OneRun, DoneMeansOver, Teardown, Stopped, HasTask, AllOver, ctxVars, runVars,
         mainVars, StopUnregistered, FetchBegin, FetchEmpty, FetchFailed,
         FetchUnauthenticated
<1> QED BY <1>2, <1>6, <1>7

\* The step that starts run r for task t.
LEMMA FetchTaskStep ==
  ASSUME IInv, NEW r \in Runs, NEW t \in Tasks, FetchTask(r, t)
  PROVE  IInv'
<1> USE DEF IInv
<1>0. once' = once
  BY OnceStays DEF Next, LoopStep
<1>1. Cardinality(Holders') = Cardinality(Holders) + 1
  BY HolderAdded DEF FetchTask
<1>2. SlotCount'
  BY <1>0, <1>1, HoldersFinite DEF SlotCount, Taking, FetchTask, HandOut
<1>3. TypeOK'
  <2>1. runPc' \in [Runs -> Live \cup {"none", "over"}]
    BY DEF TypeOK, FetchTask, Live, Holding
  <2>2. runTask' \in [Runs -> Tasks \cup {NoTask}]
    BY DEF TypeOK, FetchTask
  <2>3. tasksVersion' \in Nat
    BY DEF TypeOK, FetchTask, HandOut, ForceQuery
  <2> QED BY <1>0, <2>1, <2>2, <2>3 DEF TypeOK, FetchTask, HandOut, ctxVars, mainVars
<1>4. OneRun'
  BY <1>0 DEF OneRun, TypeOK, FetchTask, HandOut
<1>5. HasTask'
  BY DEF HasTask, TypeOK, FetchTask
<1>6. DoneMeansOver' /\ Teardown' /\ Stopped'
  BY DEF DoneMeansOver, Teardown, Stopped, FetchTask, HandOut, ctxVars, mainVars
<1> QED BY <1>2, <1>3, <1>4, <1>5, <1>6

\* The steps of a run.
LEMMA RunStepStep ==
  ASSUME IInv, NEW r \in Runs, RunStep(r)
  PROVE  IInv'
<1> USE DEF IInv
<1>0. once' = once
  BY OnceStays DEF Next
<1>1. runPc[r] \in Live /\ runPc' = [runPc EXCEPT ![r] = runPc'[r]]
      /\ runPc'[r] \in Live \cup {"over"}
  BY DEF TypeOK, RunStep, Move, RunCheck, RunBegin, RunEnd, RunClosed, RunLeaves, RunDone,
         Live, Holding
<1>2. UNCHANGED <<pollPc, ctxVars, fetchVars, runTask, health, mainVars, serverVars>>
  BY DEF RunStep, Move, RunCheck, RunBegin, RunEnd, RunClosed, RunLeaves, RunDone
<1>3. SlotCount' /\ sem' \in Nat
  <2>1. CASE RunLeaves(r)
    <3>1. Cardinality(Holders') = Cardinality(Holders) - 1 /\ Cardinality(Holders') \in Nat
      BY <2>1, HolderRemoved DEF RunLeaves, Move, Holding
    <3> QED BY <1>0, <2>1, <3>1, <1>2, HoldersFinite, ConstantsAssumption
            DEF TypeOK, SlotCount, Taking, RunLeaves, GiveBack
  <2>2. CASE RunCheck(r) \/ RunBegin(r) \/ RunEnd(r) \/ RunClosed(r) \/ RunDone(r)
    <3>1. Holders' = Holders
      BY <2>2 DEF TypeOK, Move, RunCheck, RunBegin, RunEnd, RunClosed, RunDone, Holding,
                  Holders
    <3> QED BY <1>0, <2>2, <3>1, <1>2
            DEF TypeOK, SlotCount, Taking, RunCheck, RunBegin, RunEnd, RunClosed, RunDone
  <2> QED BY <2>1, <2>2 DEF RunStep
<1>4. runTask[r] \in Tasks
  BY <1>1 DEF HasTask, Live, Holding
<1>5. runningTasks' \subseteq Tasks /\ runningCount' \in Int
  BY <1>4 DEF TypeOK, RunStep, RunCheck, RunBegin, RunEnd, RunClosed, RunLeaves, RunDone
<1>6. TypeOK'
  <2>1. runPc' \in [Runs -> Live \cup {"none", "over"}]
    BY <1>1 DEF TypeOK
  <2> QED BY <1>0, <2>1, <1>2, <1>3, <1>5
          DEF TypeOK, ctxVars, fetchVars, mainVars, serverVars
<1>7. OneRun'
  <2>1. ~once \/ sem' = 0
    BY DEF OneRun, RunStep, RunCheck, RunBegin, RunEnd, RunClosed, RunLeaves, RunDone,
           GiveBack
  <2> QED BY <1>0, <2>1, <1>1, <1>2 DEF OneRun, TypeOK, Live, Holding
<1>8. DoneMeansOver' /\ Teardown' /\ Stopped' /\ HasTask'
  BY <1>1, <1>2, <1>4
     DEF DoneMeansOver, AllOver, Teardown, Stopped, HasTask, TypeOK, ctxVars, mainVars
<1> QED BY <1>3, <1>6, <1>7, <1>8

\* The steps of the main goroutine, of the server and of nobody.
LEMMA OtherStep ==
  ASSUME IInv,
         \/ ShutdownBegin \/ ShutdownStep
         \/ \E t \in Tasks : NewTask(t)
         \/ UNCHANGED vars
  PROVE  IInv'
<1> USE DEF IInv
<1>0. once' = once
  BY OnceStays DEF Next
<1>1. UNCHANGED <<loopVars, unregistered, fetchVars, runVars, health, faults>>
  BY DEF ShutdownBegin, ShutdownStep, ShutdownForced, ShutdownReturns, CloseRunner,
         ReleaseLock, Main, NewTask, vars, ctxVars, serverVars
<1>2. SlotCount' /\ OneRun' /\ DoneMeansOver' /\ HasTask'
  BY <1>0, <1>1 DEF SlotCount, OneRun, DoneMeansOver, AllOver, HasTask, Holders, loopVars, runVars
<1>3. Teardown'
  BY <1>1 DEF Teardown, ShutdownBegin, ShutdownStep, ShutdownForced, ShutdownReturns,
              PollerDone, CloseRunner, ReleaseLock, Main, NewTask, vars, mainVars, loopVars
<1>4. Stopped'
  BY <1>1 DEF Stopped, ShutdownBegin, ShutdownStep, ShutdownForced, ShutdownReturns,
              CloseRunner, ReleaseLock, NewTask, vars, ctxVars
<1>5. mainPc' \in {"serve", "graceful", "forced", "returned", "closed", "exited"}
  BY DEF TypeOK, ShutdownBegin, ShutdownStep, ShutdownForced, ShutdownReturns,
         CloseRunner, ReleaseLock, Main, NewTask, vars, mainVars
<1>6. /\ polling' \in BOOLEAN /\ jobs' \in BOOLEAN
      /\ cacheOpen' \in BOOLEAN /\ lockHeld' \in BOOLEAN
  BY DEF TypeOK, ShutdownBegin, ShutdownStep, ShutdownForced, ShutdownReturns,
         CloseRunner, ReleaseLock, CancelJobs, NewTask, vars, ctxVars, mainVars
<1>7. pending' \subseteq Tasks /\ known' \subseteq Tasks /\ version' \in Nat
  BY DEF TypeOK, ShutdownBegin, ShutdownStep, ShutdownForced, ShutdownReturns,
         CloseRunner, ReleaseLock, Main, NewTask, vars, serverVars
<1>8. TypeOK'
  BY <1>0, <1>1, <1>5, <1>6, <1>7 DEF TypeOK, loopVars, fetchVars, runVars
<1> QED BY <1>2, <1>3, <1>4, <1>8

\* Every step, of whichever goroutine, keeps the invariant.
LEMMA NextIInv == IInv /\ [Next]_vars => IInv'
<1> SUFFICES ASSUME IInv, [Next]_vars PROVE IInv'
  OBVIOUS
<1>1. CASE LoopStep
  <2>1. CASE \E r \in Runs, t \in Tasks : FetchTask(r, t)
    BY <2>1, FetchTaskStep
  <2>2. CASE ~ \E r \in Runs, t \in Tasks : FetchTask(r, t)
    BY <1>1, <2>2, LoopOnlyStep, RequestStep DEF LoopStep
  <2> QED BY <2>1, <2>2
<1>2. CASE \E r \in Runs : RunStep(r)
  BY <1>2, RunStepStep
<1>3. CASE \/ ShutdownBegin \/ ShutdownStep
           \/ \E t \in Tasks : NewTask(t)
           \/ Terminated \/ UNCHANGED vars
  BY <1>3, OtherStep DEF Terminated
<1> QED BY <1>1, <1>2, <1>3 DEF Next

\* The invariant holds throughout.
LEMMA Inductive == Spec => []IInv
BY InitIInv, NextIInv, PTL DEF Spec

-----------------------------------------------------------------------------
(* The theorems.                                                           *)

\* Every variable of the poller keeps its type: in particular the number of
\* slots taken never gets below zero, in Poll or PollOnce.
THEOREM Typed == Spec => []TypeOK
<1>1. IInv => TypeOK
  BY DEF IInv
<1> QED BY <1>1, Inductive, PTL

\* Poll never runs more jobs at once than runner.capacity: the slots taken are
\* exactly those of the runs and the loop's own.  PollOnce runs one.
THEOREM CapacityIsRespected == Spec => []CapacityRespected
<1>1. IInv => CapacityRespected
  <2> SUFFICES ASSUME IInv PROVE CapacityRespected
    OBVIOUS
  <2>1. CASE ~once
    BY <2>1, HoldersFinite, ConstantsAssumption
       DEF IInv, SlotCount, CapacityRespected, TypeOK
  <2>2. CASE once /\ Holders = {}
    BY <2>2, FS_EmptySet, ConstantsAssumption DEF CapacityRespected
  <2>3. CASE once /\ Holders # {}
    <3>1. PICK r \in Runs : r \in Holders
      BY <2>3 DEF Holders
    <3>2. Holders = {r}
      BY <2>3, <3>1 DEF IInv, OneRun, Holders, Holding
    <3>3. pollPc \notin Taking
      BY <2>3, <3>1 DEF IInv, OneRun, Holders, Holding, Taking
    <3> QED BY <3>2, <3>3, FS_Singleton, ConstantsAssumption DEF CapacityRespected
  <2> QED BY <2>1, <2>2, <2>3, ConstantsAssumption
<1> QED BY <1>1, Inductive, PTL

\* When the poller says it is done, no job is left that could still report.
THEOREM DoneIsOver == Spec => []DoneMeansOver
<1>1. IInv => DoneMeansOver
  BY DEF IInv
<1> QED BY <1>1, Inductive, PTL

\* The daemon gives up its cache server and its runner file only when no job
\* is left, in a graceful and in a forced shutdown.
THEOREM IdentityIsKept == Spec => []IdentityOutlivesJobs
<1>1. IInv => IdentityOutlivesJobs
  BY DEF IInv, Teardown, DoneMeansOver, IdentityOutlivesJobs
<1> QED BY <1>1, Inductive, PTL

\* What a shutdown gives up, and when it says it is done.
THEOREM ShutdownIsOrderly == Spec => []ShutdownOrder
<1>1. DoneMeansOver /\ IdentityOutlivesJobs => ShutdownOrder
  BY DEF ShutdownOrder
<1> QED BY <1>1, DoneIsOver, IdentityIsKept, PTL

\* Once polling has ended no request for a task goes out.
THEOREM NoLateRequest == Spec => NoRequestAfterStop
<1> DEFINE Quiet == (~polling \/ unregistered) /\ pollPc # "reply" => pollPc' # "reply"
<1>1. IInv /\ [Next]_vars => [Quiet]_vars
  <2> SUFFICES ASSUME IInv, Next, ~polling, pollPc # "reply" PROVE pollPc' # "reply"
    BY DEF IInv, Stopped
  <2>1. CASE LoopStep
    BY <2>1 DEF LoopStep, Loop, Acquire, AcquireStopped, AvailableCached, ProbeBegin,
                ProbeEnd, FetchBegin, FetchTask, HandOut, FetchEmpty, FetchFailed,
                FetchUnauthenticated, IdleClean, Release, BackoffOver, BackoffStopped,
                Drained
  <2>2. CASE \E r \in Runs : RunStep(r)
    BY <2>2 DEF RunStep, Move, RunCheck, RunBegin, RunEnd, RunClosed, RunLeaves, RunDone
  <2>3. CASE \/ ShutdownBegin \/ ShutdownStep
             \/ \E t \in Tasks : NewTask(t)
             \/ Terminated
    BY <2>3 DEF ShutdownBegin, ShutdownStep, ShutdownForced, ShutdownReturns, CloseRunner,
                ReleaseLock, Main, NewTask, Terminated, loopVars, vars
  <2> QED BY <2>1, <2>2, <2>3 DEF Next
<1> QED BY <1>1, Inductive, PTL DEF Spec, NoRequestAfterStop

=============================================================================
