----------------------------- MODULE PlanProofs -----------------------------
(* Theorems about PlanExecutor for any plans, jobs and combinations: the   *)
(* type, that recorded failures stay, the order of the stages, and what the *)
(* end of a plan says of its jobs.                                         *)
EXTENDS PlanExecutor, TLAPS

\* Only a combination that holds the job's mutex is about to store.
Exclusive == \A c \in Combinations : combo[c].at = "store" => holder[c[1]] = c[2]

\* A combination has no value before it has had the mutex, and one of a job
\* that calls a workflow never has.
NoValueYet == \A c \in Combinations :
    /\ combo[c].at \in {"none", "queued", "decide", "body", "lock", "call", "tellBroken"}
           => combo[c].value = ""
    /\ combo[c].at \in {"body", "lock", "store", "tell"} \/ combo[c].value # "" => ~Calling(c)
    /\ combo[c].at = "call" => Calling(c)

\* A combination that has had the mutex has a value.
HasValue == \A c \in Combinations : combo[c].at \in {"store", "tell"} => combo[c].value # ""

\* What a combination is about to store is a failure if it failed itself, or
\* if another one of the job has recorded a failure.
StoreKeeps == \A c \in Combinations : combo[c].at = "store" =>
    /\ ~combo[c].ok => combo[c].value = "failure"
    /\ \A d \in Combinations : d[1] = c[1] /\ Failed(d) => combo[c].value = "failure"

KeptInv == TypeOK /\ Exclusive /\ NoValueYet /\ HasValue /\ StoreKeeps /\ FailureKept

-----------------------------------------------------------------------------
\* A combination is a job and the number of one of its combinations.
LEMMA CombinationShape ==
  ASSUME NEW c \in Combinations
  PROVE  /\ c[1] \in Jobs /\ c[2] \in 1..Combos[c[1]]
         /\ c = <<c[1], c[2]>>
         /\ c[2] \in Nat /\ Combos[c[1]] \in Nat
BY ConstantsAssumption DEF Combinations

\* Two combinations of a job make it a matrix of more than one.
LEMMA TwoCombinations ==
  ASSUME NEW c \in Combinations, NEW d \in Combinations, c[1] = d[1], c # d
  PROVE  Combos[c[1]] > 1 /\ c[2] # d[2]
<1>1. c = <<c[1], c[2]>> /\ d = <<d[1], d[2]>>
  BY CombinationShape
<1>2. c[2] # d[2]
  BY <1>1
<1>3. c[2] \in 1..Combos[c[1]] /\ d[2] \in 1..Combos[c[1]] /\ Combos[c[1]] \in Nat
  BY CombinationShape
<1> QED BY <1>2, <1>3

\* The initial states satisfy the invariant.
LEMMA InitKept == Init => KeptInv
<1> SUFFICES ASSUME Init PROVE KeptInv
  OBVIOUS
<1>1. TypeOK
  <2>1. /\ plan \in [Plans -> [at : {"none", "next", "stage", "done"}, stage : Nat, err : BOOLEAN]]
        /\ \A p \in Plans : plan[p].stage <= NStages[p]
    <3>1. ASSUME NEW p \in Plans
          PROVE  [at |-> IF p = Root THEN "next" ELSE "none", stage |-> 0, err |-> FALSE]
                     \in [at : {"none", "next", "stage", "done"}, stage : Nat, err : BOOLEAN]
      OBVIOUS
    <3>2. \A p \in Plans : plan[p].stage = 0
      BY DEF Init
    <3>3. \A p \in Plans : NStages[p] \in Nat
      BY ConstantsAssumption
    <3>4. plan \in [Plans -> [at : {"none", "next", "stage", "done"}, stage : Nat, err : BOOLEAN]]
      BY <3>1 DEF Init
    <3> QED BY <3>2, <3>3, <3>4
  <2>2. combo \in [Combinations -> [at : Places, ok : BOOLEAN, tolerated : BOOLEAN,
                                   value : Values, err : BOOLEAN]]
    BY DEF Init, Fresh, Places, Values
  <2>3. /\ result \in [Jobs -> Values] /\ latch \in [Jobs -> {"unset", "tolerated", "firm"}]
        /\ holder \in [Jobs -> Nat] /\ \A j \in Jobs : holder[j] <= Combos[j]
        /\ told \in [Jobs -> {"absent", "pending", "skipped", "success", "failure"}]
    <3>1. \A j \in Jobs : Combos[j] \in Nat
      BY ConstantsAssumption
    <3>2. holder \in [Jobs -> Nat] /\ \A j \in Jobs : holder[j] = 0
      BY DEF Init
    <3>3. result \in [Jobs -> Values]
      BY DEF Init, Values
    <3>4. latch \in [Jobs -> {"unset", "tolerated", "firm"}]
      BY DEF Init
    <3>5. told \in [Jobs -> {"absent", "pending", "skipped", "success", "failure"}]
      BY DEF Init
    <3> QED BY <3>1, <3>2, <3>3, <3>4, <3>5
  <2>4. ended \in BOOLEAN
    BY Zenon DEF Init
  <2> QED BY <2>1, <2>2, <2>3, <2>4 DEF TypeOK
<1>2. Exclusive /\ NoValueYet /\ HasValue /\ StoreKeeps /\ FailureKept
  BY DEF Init, Fresh, Exclusive, NoValueYet, HasValue, StoreKeeps, FailureKept, Failed
<1> QED BY <1>1, <1>2 DEF KeptInv

-----------------------------------------------------------------------------
(* The type.                                                               *)

\* The type of the combinations' states and of the result of the jobs.
ComboType == [Combinations -> [at : Places, ok : BOOLEAN, tolerated : BOOLEAN,
                               value : Values, err : BOOLEAN]]
ToldType == [Jobs -> {"absent", "pending", "skipped", "success", "failure"}]
PlanType == [Plans -> [at : {"none", "next", "stage", "done"}, stage : Nat, err : BOOLEAN]]

\* An executor that is over keeps the type of the combinations.
LEMMA OverType ==
  ASSUME combo \in ComboType, NEW c \in Combinations, NEW err \in BOOLEAN, Over(c, err)
  PROVE  combo' \in ComboType
BY DEF Over, ComboType, Places

\* So does a combination that goes to another place.
LEMMA GoesType ==
  ASSUME combo \in ComboType, NEW c \in Combinations, NEW to \in Places, Goes(c, to)
  PROVE  combo' \in ComboType
BY DEF Goes, ComboType, Places

\* A step of a combination keeps the type of the combinations.
LEMMA ComboStepComboType ==
  ASSUME TypeOK, NEW c \in Combinations, ComboStep(c)
  PROVE  combo' \in ComboType
<1>1. combo \in ComboType
  BY DEF TypeOK, ComboType
<1>2. CASE Take(c)
  BY <1>1, <1>2 DEF Take, ComboType, Places
<1>3. CASE Enabled(c)
  BY <1>1, <1>3, GoesType DEF Enabled, Places
<1>4. CASE Skipped(c) \/ Unsupported(c)
  BY <1>1, <1>4, OverType DEF Skipped, Unsupported
<1>5. CASE Undecidable(c)
  BY <1>1, <1>5 DEF Undecidable, ComboType, Places
<1>6. CASE TellBroken(c) \/ BodyFails(c) \/ CallFails(c)
  BY <1>1, <1>6, OverType DEF TellBroken, BodyFails, CallFails
<1>7. ASSUME NEW ok \in BOOLEAN, NEW tolerated \in BOOLEAN, BodyEnds(c, ok, tolerated)
      PROVE  combo' \in ComboType
  <2>1. combo' = [combo EXCEPT ![c].at = "lock", ![c].ok = ok, ![c].tolerated = tolerated]
    BY <1>7, Zenon DEF BodyEnds
  <2> DEFINE R == [at : Places, ok : BOOLEAN, tolerated : BOOLEAN, value : Values, err : BOOLEAN]
             x == [combo[c] EXCEPT !.at = "lock", !.ok = ok, !.tolerated = tolerated]
  <2>2. combo[c] \in R
    BY <1>1 DEF ComboType
  <2>3. x \in R
    BY <2>2, <1>7, Zenon DEF Places
  <2>4. combo' = [combo EXCEPT ![c] = x]
    BY <2>1, Zenon
  <2> HIDE DEF R, x
  <2> QED BY <1>1, <2>3, <2>4 DEF ComboType, R
<1>8. CASE LockJob(c)
  <2>1. result[c[1]] \in Values
    BY CombinationShape DEF TypeOK
  <2>2. PICK v \in Values : combo' = [combo EXCEPT ![c].at = "store", ![c].value = v]
    BY <1>8, <2>1 DEF LockJob, Values
  <2> QED BY <1>1, <2>2 DEF ComboType, Places
<1>9. CASE Store(c)
  BY <1>1, <1>9 DEF Store, ComboType, Places
<1>10. ASSUME NEW err \in BOOLEAN, Tell(c, err)
       PROVE  combo' \in ComboType
  BY <1>1, <1>10, OverType DEF Tell
<1>11. CASE Call(c)
  BY <1>1, <1>11 DEF Call
<1>12. CASE Return(c)
  <2>1. (plan[Callee[c]].err \/ ended) \in BOOLEAN
    BY Zenon
  <2> QED BY <1>1, <1>12, <2>1, OverType DEF Return
<1> QED BY <1>2, <1>3, <1>4, <1>5, <1>6, <1>7, <1>8, <1>9, <1>10, <1>11, <1>12 DEF ComboStep

\* The mutex and the result of a job keep their type in a combination's step.
LEMMA ComboStepJobTypes ==
  ASSUME TypeOK, HasValue, NEW c \in Combinations, ComboStep(c)
  PROVE  /\ result' \in [Jobs -> Values]
         /\ latch' \in [Jobs -> {"unset", "tolerated", "firm"}]
         /\ holder' \in [Jobs -> Nat] /\ \A j \in Jobs : holder'[j] <= Combos[j]
         /\ told' \in ToldType
         /\ UNCHANGED ended
<1>1. /\ c[1] \in Jobs /\ c[2] \in Nat /\ c[2] <= Combos[c[1]]
      /\ Combos[c[1]] \in Nat
  BY CombinationShape
<1>2. combo[c].value \in Values
  BY DEF TypeOK
<1>3. result' \in [Jobs -> Values]
  <2>1. CASE Undecidable(c)
    BY <1>1, <2>1 DEF Undecidable, TypeOK, Values
  <2>2. CASE Store(c)
    BY <1>1, <1>2, <2>2 DEF Store, TypeOK
  <2>3. CASE Return(c)
    BY <1>1, <2>3 DEF Return, CallerResult, TypeOK, Values
  <2>4. CASE UNCHANGED result
    BY <2>4 DEF TypeOK
  <2> QED BY <2>1, <2>2, <2>3, <2>4
          DEF ComboStep, Take, Enabled, Goes, Skipped, Unsupported, TellBroken, BodyFails,
              BodyEnds, LockJob, Tell, CallFails, Call
<1>4. latch' \in [Jobs -> {"unset", "tolerated", "firm"}]
  <2>1. CASE Store(c)
    BY <1>1, <2>1 DEF Store, Latched, TypeOK
  <2>2. CASE UNCHANGED latch
    BY <2>2 DEF TypeOK
  <2> QED BY <2>1, <2>2
          DEF ComboStep, Take, Enabled, Goes, Skipped, Unsupported, Undecidable, TellBroken,
              BodyFails, BodyEnds, LockJob, Tell, CallFails, Call, Return
<1>5. holder' \in [Jobs -> Nat] /\ \A j \in Jobs : holder'[j] <= Combos[j]
  <2>0. \A j \in Jobs : Combos[j] \in Nat
    BY ConstantsAssumption
  <2>1. CASE LockJob(c)
    BY <1>1, <2>1 DEF LockJob, TypeOK
  <2>2. CASE Store(c)
    BY <1>1, <2>0, <2>2 DEF Store, TypeOK
  <2>3. CASE UNCHANGED holder
    BY <2>3 DEF TypeOK
  <2> QED BY <2>1, <2>2, <2>3
          DEF ComboStep, Take, Enabled, Goes, Skipped, Unsupported, Undecidable, TellBroken,
              BodyFails, BodyEnds, Tell, CallFails, Call, Return
<1>6. told' \in ToldType
  <2>0. told \in ToldType
    BY DEF TypeOK, ToldType
  <2>1. CASE Skipped(c)
    BY <1>1, <2>0, <2>1 DEF Skipped, ToldType
  <2>2. CASE TellBroken(c)
    BY <1>1, <2>0, <2>2 DEF TellBroken, ToldType
  <2>3. ASSUME NEW err \in BOOLEAN, Tell(c, err)
        PROVE  told' \in ToldType
    <3>1. combo[c].value \in {"success", "failure"}
      BY <1>2, <2>3 DEF HasValue, Tell, Values
    <3> QED BY <1>1, <2>0, <2>3, <3>1 DEF Tell, ToldType
  <2>4. CASE Return(c)
    BY <1>1, <2>0, <2>4 DEF Return, CallerResult, ToldType
  <2>5. CASE UNCHANGED told
    BY <2>0, <2>5
  <2> QED BY <2>1, <2>2, <2>3, <2>4, <2>5
          DEF ComboStep, Take, Enabled, Goes, Unsupported, Undecidable, BodyFails, BodyEnds,
              LockJob, Store, CallFails, Call
<1>7. UNCHANGED ended
  BY DEF ComboStep, Take, Enabled, Goes, Skipped, Unsupported, Undecidable, TellBroken,
         BodyFails, BodyEnds, LockJob, Store, Tell, CallFails, Call, Return
<1> QED BY <1>3, <1>4, <1>5, <1>6, <1>7

\* A combination's step changes no plan, or begins the plan it calls.
LEMMA ComboStepPlan ==
  ASSUME NEW c \in Combinations, ComboStep(c)
  PROVE  UNCHANGED plan \/ Call(c)
BY DEF ComboStep, Take, Enabled, Goes, Skipped, Unsupported, Undecidable, TellBroken,
       BodyFails, BodyEnds, LockJob, Store, Tell, CallFails, Call, Return

\* Steps of a plan keep the type.
LEMMA PlanStepType ==
  ASSUME TypeOK, NEW p \in Plans, PlanStep(p)
  PROVE  TypeOK'
<1>1. plan \in PlanType /\ NStages[p] \in Nat /\ plan[p].stage \in Nat
  BY ConstantsAssumption DEF TypeOK, PlanType
<1>2. combo \in ComboType /\ told \in ToldType
  BY DEF TypeOK, ComboType, ToldType
<1>3. CASE BeginStage(p)
  <2>1. plan' \in PlanType
    BY <1>1, <1>3 DEF BeginStage, PlanType
  <2>2. \A q \in Plans : plan'[q].stage <= NStages[q]
    BY <1>1, <1>3 DEF BeginStage, MoreStages, PlanType, TypeOK
  <2>3. combo' \in ComboType
    BY <1>2, <1>3 DEF BeginStage, ComboType, Places
  <2>4. told' \in ToldType
    BY <1>2, <1>3 DEF BeginStage, ToldType
  <2>5. UNCHANGED <<result, latch, holder, ended>>
    BY <1>3 DEF BeginStage
  <2> QED BY <2>1, <2>2, <2>3, <2>4, <2>5 DEF TypeOK, PlanType, ComboType, ToldType
<1>4. CASE EndStage(p)
  <2>1. plan' \in PlanType
    BY <1>1, <1>4 DEF EndStage, PlanType
  <2>2. \A q \in Plans : plan'[q].stage = plan[q].stage
    BY <1>1, <1>4 DEF EndStage, PlanType
  <2>3. UNCHANGED <<combo, result, latch, holder, told, ended>>
    BY <1>4 DEF EndStage
  <2> QED BY <2>1, <2>2, <2>3 DEF TypeOK, PlanType
<1>5. CASE Conclude(p)
  <2>1. PICK b \in BOOLEAN : plan' = [plan EXCEPT ![p].at = "done", ![p].err = b]
    BY <1>5, Zenon DEF Conclude
  <2>2. plan' \in PlanType /\ \A q \in Plans : plan'[q].stage = plan[q].stage
    BY <1>1, <2>1 DEF PlanType
  <2>3. UNCHANGED <<combo, result, latch, holder, told, ended>>
    BY <1>5 DEF Conclude
  <2> QED BY <2>2, <2>3 DEF TypeOK, PlanType
<1> QED BY <1>3, <1>4, <1>5 DEF PlanStep

\* Steps of combinations keep the type.
LEMMA ComboStepType ==
  ASSUME TypeOK, HasValue, NEW c \in Combinations, ComboStep(c)
  PROVE  TypeOK'
<1>1. combo' \in ComboType
  BY ComboStepComboType
<1>2. plan' \in PlanType /\ \A q \in Plans : plan'[q].stage <= NStages[q]
  <2>1. plan \in PlanType
    BY DEF TypeOK, PlanType
  <2>2. CASE UNCHANGED plan
    BY <2>1, <2>2 DEF TypeOK
  <2>3. CASE Call(c)
    BY <2>1, <2>3 DEF Call, TypeOK, PlanType
  <2> QED BY <2>2, <2>3, ComboStepPlan
<1> QED BY <1>1, <1>2, ComboStepJobTypes DEF TypeOK, PlanType, ComboType, ToldType

-----------------------------------------------------------------------------
(* The order of the stages.                                                *)

\* Before its stage a combination has not begun, after its stage it is over
\* without an error, and a plan that has not begun is at no stage.
StageInv == \A c \in Combinations :
    LET p == PlanOf[c[1]] s == StageOf[c[1]] IN
    /\ s > plan[p].stage => combo[c].at = "none"
    /\ s < plan[p].stage \/ (s = plan[p].stage /\ plan[p].at = "next")
           => combo[c].at = "over" /\ ~combo[c].err

Unbegun == \A p \in Plans : plan[p].at = "none" => plan[p].stage = 0

\* A combination that takes a step has begun and is not over, and the other
\* combinations stay as they are.
LEMMA ComboStepOne ==
  ASSUME TypeOK, NEW c \in Combinations, ComboStep(c)
  PROVE  /\ combo[c].at \notin {"none", "over"}
         /\ \A d \in Combinations : d # c => combo'[d] = combo[d]
<1>1. combo[c].at \notin {"none", "over"}
  BY DEF ComboStep, Take, Enabled, Goes, Skipped, Unsupported, Undecidable, TellBroken,
         BodyFails, BodyEnds, LockJob, Store, Tell, CallFails, Call, Return
<1>2. \A d \in Combinations : d # c => combo'[d] = combo[d]
  BY DEF TypeOK, ComboStep, Take, Over, Enabled, Goes, Skipped, Unsupported, Undecidable,
         TellBroken, BodyFails, BodyEnds, LockJob, Store, Tell, CallFails, Call, Return
<1> QED BY <1>1, <1>2

\* A job has a plan and a stage, which is at least 1.
LEMMA JobShape ==
  ASSUME NEW c \in Combinations
  PROVE  /\ c[1] \in Jobs /\ PlanOf[c[1]] \in Plans
         /\ StageOf[c[1]] \in Nat /\ StageOf[c[1]] >= 1
<1>1. c[1] \in Jobs
  BY CombinationShape
<1>2. PlanOf \in [Jobs -> Plans] /\ StageOf \in [Jobs -> Nat \ {0}]
  BY ConstantsAssumption
<1> QED BY <1>1, <1>2

\* A combination's step keeps the order of the stages.
LEMMA ComboStepStages ==
  ASSUME TypeOK, StageInv, Unbegun, NEW c \in Combinations, ComboStep(c)
  PROVE  StageInv' /\ Unbegun'
<1>1. \A p \in Plans : /\ plan[p].stage \in Nat
                       /\ plan'[p].stage = plan[p].stage
                       /\ plan'[p].at = plan[p].at \/ (plan[p].stage = 0 /\ plan'[p].at = "next")
  <2>1. \A p \in Plans : plan[p].stage \in Nat
    BY DEF TypeOK
  <2>2. CASE UNCHANGED plan
    BY <2>1, <2>2
  <2>3. CASE Call(c)
    BY <2>1, <2>3 DEF Call, TypeOK, Unbegun
  <2> QED BY <2>2, <2>3, ComboStepPlan
<1>2. ASSUME NEW d \in Combinations
      PROVE  LET p == PlanOf[d[1]] s == StageOf[d[1]] IN
             /\ s > plan'[p].stage => combo'[d].at = "none"
             /\ s < plan'[p].stage \/ (s = plan'[p].stage /\ plan'[p].at = "next")
                    => combo'[d].at = "over" /\ ~combo'[d].err
  <2>1. CASE d = c
    BY <1>1, <2>1, ComboStepOne, JobShape DEF StageInv
  <2>2. CASE d # c
    BY <1>1, <2>2, ComboStepOne, JobShape DEF StageInv
  <2> QED BY <2>1, <2>2
<1>3. Unbegun'
  BY <1>1 DEF Unbegun
<1> QED BY <1>2, <1>3 DEF StageInv

\* A plan's step keeps the order of the stages.
LEMMA PlanStepStages ==
  ASSUME TypeOK, StageInv, Unbegun, NEW p \in Plans, PlanStep(p)
  PROVE  StageInv' /\ Unbegun'
<1>1. plan \in PlanType
  BY DEF TypeOK, PlanType
<1>2. CASE BeginStage(p)
  <2>1. /\ plan'[p].at = "stage" /\ plan'[p].stage = plan[p].stage + 1 /\ plan[p].at = "next"
        /\ \A q \in Plans : q # p => plan'[q] = plan[q]
    BY <1>1, <1>2 DEF BeginStage, PlanType
  <2>2. ASSUME NEW c \in Combinations,
               ~(PlanOf[c[1]] = p /\ StageOf[c[1]] = plan[p].stage + 1)
        PROVE  combo'[c] = combo[c]
    BY <1>2, <2>2 DEF BeginStage, JobsOf
  <2>3. plan[p].stage \in Nat /\ \A q \in Plans : plan[q].stage \in Nat
    BY <1>1 DEF PlanType
  <2>4. StageInv'
    BY <2>1, <2>2, <2>3, JobShape DEF StageInv
  <2>5. Unbegun'
    BY <2>1 DEF Unbegun
  <2> QED BY <2>4, <2>5
<1>3. CASE EndStage(p)
  <2>1. /\ plan'[p].at \in {"done", "next"} /\ plan'[p].stage = plan[p].stage
        /\ \A q \in Plans : q # p => plan'[q] = plan[q]
        /\ UNCHANGED combo
    BY <1>1, <1>3 DEF EndStage, PlanType
  <2>2. ASSUME NEW c \in Combinations, PlanOf[c[1]] = p, StageOf[c[1]] = plan[p].stage,
               plan'[p].at = "next"
        PROVE  combo[c].at = "over" /\ ~combo[c].err
    <3>1. c \in CombosOf(JobsOf(p, plan[p].stage))
      BY <2>2, CombinationShape DEF CombosOf, JobsOf
    <3>2. ~\E d \in CombosOf(JobsOf(p, plan[p].stage)) : combo[d].err
      BY <1>1, <1>3, <2>2 DEF EndStage, PlanType
    <3> QED BY <1>3, <3>1, <3>2 DEF EndStage, AllOver
  <2>3. StageInv'
    BY <2>1, <2>2, JobShape DEF StageInv
  <2>4. Unbegun'
    BY <2>1 DEF Unbegun
  <2> QED BY <2>3, <2>4
<1>4. CASE Conclude(p)
  <2>1. PICK b \in BOOLEAN : plan' = [plan EXCEPT ![p].at = "done", ![p].err = b]
    BY <1>4, Zenon DEF Conclude
  <2>2. /\ plan'[p].at = "done" /\ plan'[p].stage = plan[p].stage
        /\ \A q \in Plans : q # p => plan'[q] = plan[q]
    BY <1>1, <2>1 DEF PlanType
  <2>3. UNCHANGED combo
    BY <1>4 DEF Conclude
  <2> QED BY <2>2, <2>3, JobShape DEF StageInv, Unbegun
<1> QED BY <1>2, <1>3, <1>4 DEF PlanStep

-----------------------------------------------------------------------------
(* Failures that were recorded.                                            *)

\* LockJob finds the mutex free, and the result as others have recorded it.
LEMMA LockStepKept ==
  ASSUME KeptInv, NEW c \in Combinations, LockJob(c)
  PROVE  Exclusive' /\ StoreKeeps' /\ FailureKept'
<1>1. /\ c[1] \in Jobs /\ c[2] \in Nat /\ c[2] >= 1
      /\ \A d \in Combinations : d[1] \in Jobs /\ d[2] >= 1 /\ d[2] \in Nat
  BY CombinationShape
<1>2. \A d \in Combinations : d # c => combo'[d] = combo[d]
  BY DEF KeptInv, TypeOK, LockJob
<1>3. combo'[c].at = "store" /\ combo'[c].ok = combo[c].ok
  BY DEF KeptInv, TypeOK, LockJob
<1>4. UNCHANGED result
  BY DEF LockJob
<1>5. holder[c[1]] = 0 /\ holder' = [holder EXCEPT ![c[1]] = c[2]]
  BY DEF LockJob, LockFree
<1>6. Exclusive'
  <2>1. \A d \in Combinations : d # c /\ combo'[d].at = "store" => d[1] # c[1]
    BY <1>1, <1>2, <1>5 DEF KeptInv, Exclusive
  <2> QED BY <1>1, <1>2, <1>5, <2>1 DEF KeptInv, Exclusive, TypeOK
<1>7. \A d \in Combinations : Failed(d)' => d # c /\ Failed(d)
  BY <1>2, <1>3 DEF Failed
<1>8. FailureKept'
  BY <1>4, <1>7 DEF KeptInv, FailureKept
<1>9. ~combo[c].ok => combo'[c].value = "failure"
  BY DEF KeptInv, TypeOK, LockJob
<1>10. ASSUME NEW d \in Combinations, d[1] = c[1], Failed(d)'
       PROVE  combo'[c].value = "failure"
  <2>1. result[c[1]] = "failure" /\ Combos[c[1]] > 1
    BY <1>7, <1>10, TwoCombinations DEF KeptInv, FailureKept
  <2> QED BY <2>1 DEF KeptInv, TypeOK, LockJob
<1>11. ASSUME NEW b \in Combinations, b # c, combo'[b].at = "store"
       PROVE  /\ ~combo'[b].ok => combo'[b].value = "failure"
              /\ \A d \in Combinations : d[1] = b[1] /\ Failed(d)' => combo'[b].value = "failure"
  BY <1>2, <1>7, <1>11 DEF KeptInv, StoreKeeps
<1>12. StoreKeeps'
  BY <1>3, <1>9, <1>10, <1>11 DEF StoreKeeps
<1> QED BY <1>6, <1>8, <1>12

\* Store writes a failure if there has been one.
LEMMA StoreStepKept ==
  ASSUME KeptInv, NEW c \in Combinations, Store(c)
  PROVE  Exclusive' /\ StoreKeeps' /\ FailureKept'
<1>1. /\ c[1] \in Jobs /\ \A d \in Combinations : d[1] \in Jobs
      /\ \A d \in Combinations : d[1] = c[1] /\ d[2] = c[2] => d = c
  BY CombinationShape, TwoCombinations
<1>2. \A d \in Combinations : d # c => combo'[d] = combo[d]
  BY DEF KeptInv, TypeOK, Store
<1>3. /\ combo[c].at = "store" /\ combo'[c].at = "tell"
      /\ combo'[c].ok = combo[c].ok /\ combo'[c].value = combo[c].value
  BY DEF KeptInv, TypeOK, Store
<1>4. result' = [result EXCEPT ![c[1]] = combo[c].value]
  BY DEF Store
<1>5. holder' = [holder EXCEPT ![c[1]] = 0]
  BY DEF Store
<1>6. \A d \in Combinations : d # c /\ combo[d].at = "store" => d[1] # c[1]
  BY <1>1, <1>3 DEF KeptInv, Exclusive
<1>7. Exclusive'
  BY <1>1, <1>2, <1>3, <1>5, <1>6 DEF KeptInv, Exclusive, TypeOK
<1>8. \A d \in Combinations : d # c => (Failed(d)' <=> Failed(d))
  BY <1>2 DEF Failed
<1>9. FailureKept'
  <2>1. ASSUME NEW d \in Combinations, Failed(d)', d[1] = c[1]
        PROVE  combo[c].value = "failure"
    <3>1. CASE d = c
      BY <1>3, <2>1, <3>1 DEF KeptInv, StoreKeeps, Failed
    <3>2. CASE d # c
      BY <1>3, <1>8, <2>1, <3>2 DEF KeptInv, StoreKeeps
    <3> QED BY <3>1, <3>2
  <2>2. ASSUME NEW d \in Combinations, Failed(d)', d[1] # c[1]
        PROVE  result'[d[1]] = "failure"
    BY <1>1, <1>4, <1>8, <2>2 DEF KeptInv, FailureKept, TypeOK
  <2>3. ASSUME NEW d \in Combinations, Failed(d)', d[1] = c[1]
        PROVE  result'[d[1]] = "failure"
    BY <1>1, <1>4, <2>1, <2>3 DEF KeptInv, TypeOK
  <2> QED BY <2>2, <2>3 DEF FailureKept
<1>10. StoreKeeps'
  <2>1. ASSUME NEW b \in Combinations, combo'[b].at = "store"
        PROVE  b # c /\ b[1] # c[1] /\ combo[b].at = "store" /\ combo'[b] = combo[b]
    BY <1>2, <1>3, <1>6, <2>1
  <2> QED BY <1>8, <2>1 DEF KeptInv, StoreKeeps
<1> QED BY <1>7, <1>9, <1>10

\* Return writes the result of a calling job, no combination of which has one
\* of its own.
LEMMA ReturnStepKept ==
  ASSUME KeptInv, NEW c \in Combinations, Return(c)
  PROVE  Exclusive' /\ StoreKeeps' /\ FailureKept'
<1>1. \A d \in Combinations : d # c => combo'[d] = combo[d]
  BY DEF KeptInv, TypeOK, Return, Over
<1>2. combo'[c].at = "over" /\ combo'[c].value = ""
  <2>1. combo[c].value = ""
    BY DEF KeptInv, NoValueYet, Return
  <2>2. PICK e : combo' = [combo EXCEPT ![c].at = "over", ![c].err = e]
    BY DEF Return, Over
  <2> QED BY <2>1, <2>2 DEF KeptInv, TypeOK
<1>3. \A d \in Combinations : Failed(d)' => d # c /\ Failed(d)
  BY <1>1, <1>2 DEF Failed
<1>4. \A d \in Combinations : Failed(d) => d[1] # c[1]
  <2>1. c \in DOMAIN Callee
    BY DEF KeptInv, NoValueYet, Return, Calling
  <2>2. \A d \in Combinations : c[1] = d[1] => d \in DOMAIN Callee
    BY <2>1, ConstantsAssumption
  <2> QED BY <2>2 DEF KeptInv, NoValueYet, Failed, Calling
<1>5. \A j \in Jobs : j # c[1] => result'[j] = result[j]
  BY DEF KeptInv, TypeOK, Return, CallerResult
<1>6. UNCHANGED holder
  BY DEF Return
<1>7. FailureKept'
  BY <1>3, <1>4, <1>5, CombinationShape DEF KeptInv, FailureKept
<1>8. Exclusive' /\ StoreKeeps'
  BY <1>1, <1>2, <1>3, <1>6 DEF KeptInv, Exclusive, StoreKeeps
<1> QED BY <1>7, <1>8

\* A failure that is written without the mutex does no harm to another.
LEMMA UndecidableStepKept ==
  ASSUME KeptInv, NEW c \in Combinations, Undecidable(c)
  PROVE  Exclusive' /\ StoreKeeps' /\ FailureKept'
<1>1. \A d \in Combinations : d # c => combo'[d] = combo[d]
  BY DEF KeptInv, TypeOK, Undecidable
<1>2. combo'[c].at = "tellBroken"
  BY DEF KeptInv, TypeOK, Undecidable
<1>3. \A d \in Combinations : Failed(d)' => d # c /\ Failed(d)
  BY <1>1, <1>2 DEF Failed
<1>4. \A j \in Jobs : result[j] = "failure" => result'[j] = "failure"
  BY DEF KeptInv, TypeOK, Undecidable
<1>5. UNCHANGED holder
  BY DEF Undecidable
<1>6. FailureKept'
  BY <1>3, <1>4, CombinationShape DEF KeptInv, FailureKept
<1>7. Exclusive' /\ StoreKeeps'
  BY <1>1, <1>2, <1>3, <1>5 DEF KeptInv, Exclusive, StoreKeeps
<1> QED BY <1>6, <1>7

\* A combination whose executor is over keeps its value.
OverNow(c) ==
    combo'[c].at = "over" /\ combo'[c].value = combo[c].value /\ combo'[c].ok = combo[c].ok

\* The end of an executor is such a step.
LEMMA OverKeeps ==
  ASSUME combo \in ComboType, NEW c \in Combinations, NEW err \in BOOLEAN, Over(c, err)
  PROVE  OverNow(c)
<1>1. combo' = [combo EXCEPT ![c].at = "over", ![c].err = err]
  BY DEF Over
<1> QED BY <1>1 DEF OverNow, ComboType

\* What a combination's step can be, as far as its place and value go.
LEMMA ComboStepPlaces ==
  ASSUME combo \in ComboType, NEW c \in Combinations, ComboStep(c)
  PROVE  \/ Take(c) \/ Enabled(c) \/ Undecidable(c) \/ LockJob(c) \/ Store(c) \/ Call(c)
         \/ /\ combo[c].at = "body" /\ combo'[c].at = "lock"
            /\ combo'[c].value = combo[c].value
         \/ OverNow(c)
<1>1. ASSUME NEW ok \in BOOLEAN, NEW tolerated \in BOOLEAN, BodyEnds(c, ok, tolerated)
      PROVE  /\ combo[c].at = "body" /\ combo'[c].at = "lock"
             /\ combo'[c].value = combo[c].value
  <2>1. /\ combo[c].at = "body"
        /\ combo' = [combo EXCEPT ![c].at = "lock", ![c].ok = ok, ![c].tolerated = tolerated]
    BY <1>1, Zenon DEF BodyEnds
  <2> QED BY <2>1 DEF ComboType
<1>2. CASE Skipped(c) \/ Unsupported(c) \/ TellBroken(c) \/ BodyFails(c) \/ CallFails(c)
  BY <1>2, OverKeeps DEF Skipped, Unsupported, TellBroken, BodyFails, CallFails
<1>3. ASSUME NEW err \in BOOLEAN, Tell(c, err)
      PROVE  OverNow(c)
  BY <1>3, OverKeeps DEF Tell
<1>4. CASE Return(c)
  <2>1. (plan[Callee[c]].err \/ ended) \in BOOLEAN
    BY Zenon
  <2> QED BY <1>4, <2>1, OverKeeps DEF Return
<1> QED BY <1>1, <1>2, <1>3, <1>4 DEF ComboStep

\* The remaining steps of a combination leave result and mutex alone.
LEMMA OtherComboStepKept ==
  ASSUME KeptInv, NEW c \in Combinations, ComboStep(c),
         ~LockJob(c), ~Store(c), ~Return(c), ~Undecidable(c)
  PROVE  Exclusive' /\ StoreKeeps' /\ FailureKept'
<1>1. UNCHANGED <<result, holder>>
  BY DEF ComboStep, Take, Enabled, Goes, Skipped, Unsupported, TellBroken, BodyFails,
         BodyEnds, Tell, CallFails, Call
<1>0. combo \in ComboType
  BY DEF KeptInv, TypeOK, ComboType
<1>2. combo'[c].at # "store"
  BY <1>0, ComboStepPlaces
     DEF ComboType, OverNow, Take, Enabled, Goes, Call, KeptInv, NoValueYet
<1>3. Failed(c)' => Failed(c)
  <2>1. CASE OverNow(c)
    <3>1. combo[c].value # "" => combo[c].at \in {"store", "tell", "over"}
      BY <1>0 DEF KeptInv, NoValueYet, ComboType, Places
    <3>2. combo[c].at \notin {"store", "over"}
      BY ComboStepOne, <2>1 DEF KeptInv, ComboStep, OverNow, Take, Skipped, Unsupported,
         TellBroken, BodyFails, Enabled, Goes, BodyEnds, Tell, CallFails, Call
    <3> QED BY <2>1, <3>1, <3>2 DEF Failed, OverNow
  <2>2. CASE ~OverNow(c)
    BY <1>0, <2>2, ComboStepPlaces
       DEF ComboType, Take, Enabled, Goes, Call, Failed, KeptInv, NoValueYet
  <2> QED BY <2>1, <2>2
<1>4. \A d \in Combinations : d # c => combo'[d] = combo[d] /\ (Failed(d)' <=> Failed(d))
  BY ComboStepOne DEF KeptInv, Failed
<1> QED BY <1>1, <1>2, <1>3, <1>4 DEF KeptInv, Exclusive, StoreKeeps, FailureKept

\* A combination gets its value with the mutex, and keeps it.
LEMMA ComboStepValues ==
  ASSUME KeptInv, NEW c \in Combinations, ComboStep(c)
  PROVE  NoValueYet' /\ HasValue'
<1>1. \A d \in Combinations : d # c => combo'[d] = combo[d]
  BY ComboStepOne DEF KeptInv
<1>2. combo \in ComboType
  BY DEF KeptInv, TypeOK, ComboType
<1>3. /\ combo'[c].at \in {"none", "queued", "decide", "body", "lock", "call", "tellBroken"}
             => combo'[c].value = ""
      /\ combo'[c].at \in {"body", "lock", "store", "tell"} \/ combo'[c].value # "" => ~Calling(c)
      /\ combo'[c].at = "call" => Calling(c)
      /\ combo'[c].at \in {"store", "tell"} => combo'[c].value # ""
  <2>1. CASE LockJob(c)
    BY <1>2, <2>1 DEF LockJob, ComboType, KeptInv, NoValueYet
  <2>2. CASE Store(c)
    BY <1>2, <2>2 DEF Store, ComboType, KeptInv, NoValueYet, HasValue
  <2>3. CASE combo[c].at = "body" /\ combo'[c].at = "lock" /\ combo'[c].value = combo[c].value
    BY <2>3 DEF KeptInv, NoValueYet
  <2>4. CASE Take(c) \/ Enabled(c) \/ Undecidable(c) \/ Call(c)
    <3>1. combo[c].at \in {"queued", "decide", "call"} /\ combo[c].value = ""
      BY <2>4 DEF Take, Enabled, Undecidable, Call, KeptInv, NoValueYet
    <3>2. combo'[c].value = combo[c].value
      BY <1>2, <2>4 DEF Take, Enabled, Goes, Undecidable, Call, ComboType
    <3>3. \/ combo'[c].at \in {"decide", "tellBroken"}
          \/ combo'[c].at = "call" /\ Calling(c)
          \/ combo'[c].at = "body" /\ ~Calling(c)
      <4>1. CASE Take(c)
        BY <1>2, <4>1 DEF Take, ComboType
      <4>2. CASE Enabled(c)
        BY <1>2, <4>2 DEF Enabled, Goes, ComboType
      <4>3. CASE Undecidable(c)
        BY <1>2, <4>3 DEF Undecidable, ComboType
      <4>4. CASE Call(c)
        BY <4>4 DEF Call, KeptInv, NoValueYet
      <4> QED BY <2>4, <4>1, <4>2, <4>3, <4>4
    <3> QED BY <3>1, <3>2, <3>3
  <2>5. CASE OverNow(c)
    <3>1. combo[c].value # "" => ~Calling(c)
      BY DEF KeptInv, NoValueYet
    <3> QED BY <2>5, <3>1 DEF OverNow
  <2> QED BY <1>2, <2>1, <2>2, <2>3, <2>4, <2>5, ComboStepPlaces
<1>4. ASSUME NEW d \in Combinations
      PROVE  /\ combo'[d].at \in {"none", "queued", "decide", "body", "lock", "call", "tellBroken"}
                    => combo'[d].value = ""
             /\ combo'[d].at \in {"body", "lock", "store", "tell"} \/ combo'[d].value # ""
                    => ~Calling(d)
             /\ combo'[d].at = "call" => Calling(d)
             /\ combo'[d].at \in {"store", "tell"} => combo'[d].value # ""
  <2>1. CASE d = c
    BY <1>3, <2>1, Zenon
  <2>2. CASE d # c
    <3>1. combo'[d] = combo[d]
      BY <1>1, <2>2
    <3> QED BY <3>1 DEF KeptInv, NoValueYet, HasValue
  <2> QED BY <2>1, <2>2
<1> QED BY <1>4, Zenon DEF NoValueYet, HasValue, Calling

-----------------------------------------------------------------------------
(* The invariant and the theorems.                                         *)

\* The inductive invariant.
IInv == KeptInv /\ StageInv /\ Unbegun

\* A combination's step keeps the invariant.
LEMMA ComboStepIInv ==
  ASSUME IInv, NEW c \in Combinations, ComboStep(c)
  PROVE  IInv'
<1>1. KeptInv /\ TypeOK /\ HasValue /\ StageInv /\ Unbegun
  BY DEF IInv, KeptInv
<1>2. TypeOK'
  BY <1>1, ComboStepType
<1>3. NoValueYet' /\ HasValue'
  BY <1>1, ComboStepValues
<1>4. Exclusive' /\ StoreKeeps' /\ FailureKept'
  BY <1>1, LockStepKept, StoreStepKept, ReturnStepKept, UndecidableStepKept,
     OtherComboStepKept
<1>5. StageInv' /\ Unbegun'
  BY <1>1, ComboStepStages
<1> QED BY <1>2, <1>3, <1>4, <1>5 DEF IInv, KeptInv

\* A plan's step keeps the invariant: what it begins had not begun.
LEMMA PlanStepIInv ==
  ASSUME IInv, NEW p \in Plans, PlanStep(p)
  PROVE  IInv'
<1>1. KeptInv /\ TypeOK /\ StageInv /\ Unbegun
  BY DEF IInv, KeptInv
<1>2. TypeOK' /\ StageInv' /\ Unbegun'
  BY <1>1, PlanStepType, PlanStepStages
<1>3. UNCHANGED <<result, holder>>
  BY DEF PlanStep, BeginStage, EndStage, Conclude
<1>4. ASSUME NEW c \in Combinations
      PROVE  \/ combo'[c] = combo[c]
             \/ /\ combo[c].at = "none" /\ combo'[c].at = "queued"
                /\ combo'[c].value = combo[c].value
  <2>1. CASE BeginStage(p)
    <3>1. combo[c] \in [at : Places, ok : BOOLEAN, tolerated : BOOLEAN, value : Values,
                        err : BOOLEAN]
      BY <1>1 DEF TypeOK
    <3>2. CASE c[1] \in JobsOf(p, plan[p].stage + 1)
      <4>1. PlanOf[c[1]] = p /\ StageOf[c[1]] = plan[p].stage + 1 /\ plan[p].stage \in Nat
        BY <1>1, <3>2 DEF JobsOf, TypeOK
      <4>2. combo[c].at = "none"
        BY <1>1, <4>1 DEF StageInv
      <4>3. combo'[c] = [combo[c] EXCEPT !.at = "queued"]
        BY <2>1, <3>2 DEF BeginStage
      <4> QED BY <3>1, <4>2, <4>3
    <3>3. CASE c[1] \notin JobsOf(p, plan[p].stage + 1)
      BY <2>1, <3>3 DEF BeginStage
    <3> QED BY <3>2, <3>3
  <2>2. CASE UNCHANGED combo
    BY <2>2
  <2> QED BY <2>1, <2>2 DEF PlanStep, EndStage, Conclude
<1>5. \A c \in Combinations : Failed(c)' <=> Failed(c)
  BY <1>4 DEF Failed
<1>6. NoValueYet' /\ HasValue'
  BY <1>1, <1>4 DEF KeptInv, NoValueYet, HasValue, Calling
<1>7. Exclusive' /\ FailureKept'
  BY <1>1, <1>3, <1>4, <1>5 DEF KeptInv, Exclusive, FailureKept
<1>8. StoreKeeps'
  <2>1. \A c \in Combinations : combo'[c].at = "store" => combo'[c] = combo[c]
    BY <1>4
  <2> QED BY <1>1, <1>5, <2>1 DEF KeptInv, StoreKeeps
<1> QED BY <1>2, <1>6, <1>7, <1>8 DEF IInv, KeptInv

\* The initial states satisfy the invariant.
LEMMA InitIInv == Init => IInv
<1> SUFFICES ASSUME Init PROVE IInv
  OBVIOUS
<1>1. StageInv
  <2>1. \A p \in Plans : plan[p].stage = 0
    BY DEF Init
  <2>2. \A c \in Combinations : combo[c].at = "none"
    BY DEF Init, Fresh
  <2> QED BY <2>1, <2>2, JobShape DEF StageInv
<1>2. Unbegun
  BY DEF Init, Unbegun
<1> QED BY <1>1, <1>2, InitKept DEF IInv

\* Every step keeps the invariant.
LEMMA NextIInv == IInv /\ [Next]_vars => IInv'
<1> SUFFICES ASSUME IInv, [Next]_vars PROVE IInv'
  OBVIOUS
<1>1. CASE \E p \in Plans : PlanStep(p)
  BY <1>1, PlanStepIInv
<1>2. CASE \E c \in Combinations : ComboStep(c)
  BY <1>2, ComboStepIInv
<1>3. CASE CtxEnds \/ UNCHANGED vars
  <2>1. UNCHANGED <<plan, combo, result, latch, holder, told>>
    BY <1>3 DEF CtxEnds, vars
  <2>2. ended' \in BOOLEAN
    <3>1. ended \in BOOLEAN
      BY DEF IInv, KeptInv, TypeOK
    <3>2. ended' = TRUE \/ ended' = ended
      BY <1>3 DEF CtxEnds, vars
    <3> QED BY <3>1, <3>2, Zenon
  <2>3. TypeOK'
    BY <2>1, <2>2 DEF IInv, KeptInv, TypeOK
  <2>4. \A c \in Combinations : Failed(c)' <=> Failed(c)
    BY <2>1 DEF Failed
  <2>5. Exclusive' /\ NoValueYet' /\ HasValue' /\ StoreKeeps' /\ FailureKept'
    BY <2>1, <2>4 DEF IInv, KeptInv, Exclusive, NoValueYet, HasValue, StoreKeeps, FailureKept,
                      Calling
  <2>6. StageInv' /\ Unbegun'
    BY <2>1 DEF IInv, StageInv, Unbegun
  <2> QED BY <2>3, <2>5, <2>6 DEF IInv, KeptInv
<1> QED BY <1>1, <1>2, <1>3 DEF Next

\* The invariant holds in every reachable state.
LEMMA Inductive == Spec => []IInv
BY InitIInv, NextIInv, PTL DEF Spec

\* Every variable of the plan executor keeps its type.
THEOREM Typed == Spec => []TypeOK
<1>1. IInv => TypeOK
  BY DEF IInv, KeptInv
<1> QED BY <1>1, Inductive, PTL

\* setJobResult loses no failure: for any number of combinations, workers and
\* jobs, with results also written without the mutex when an `if` cannot be
\* evaluated and by called workflows.
THEOREM FailuresStay == Spec => []FailureKept
<1>1. IInv => FailureKept
  BY DEF IInv, KeptInv
<1> QED BY <1>1, Inductive, PTL

\* Stages run in their order for any plans: a stage begins when all executors
\* of the earlier ones have ended without an error.
THEOREM StagesAreOrdered == Spec => []StagesInOrder
<1>1. IInv => StagesInOrder
  BY DEF IInv, StageInv, StagesInOrder
<1> QED BY <1>1, Inductive, PTL

-----------------------------------------------------------------------------
(* The end of a plan.                                                      *)

\* Only combinations of the stage a plan is in are under way.
InStage == \A c \in Combinations :
    combo[c].at \notin {"none", "over"} => plan[PlanOf[c[1]]].at = "stage"

Running(p) == plan[p].at \in {"next", "stage"}

\* A plan that was called has its caller wait for it.
CallersWait == \A c \in DOMAIN Callee :
    /\ Running(Callee[c]) => combo[c].at = "call"
    /\ combo[c].at \in {"none", "queued", "decide", "tellBroken"} => plan[Callee[c]].at = "none"

\* Whatever runs is called, over any number of calls, from the plan of the
\* task: plans without it are not all called from among themselves.
Rooted == \A S \in SUBSET Plans :
    S # {} /\ Root \notin S /\ (\A p \in S : Running(p)) =>
        \E c \in DOMAIN Callee : Callee[c] \in S /\ PlanOf[c[1]] \notin S

Quiet == InStage /\ CallersWait /\ Rooted

\* What calls a plan is a combination, and it is not the plan of the task.
LEMMA CalleeShape ==
  ASSUME NEW c \in DOMAIN Callee
  PROVE  c \in Combinations /\ Callee[c] \in Plans /\ Callee[c] # Root
<1>1. PICK D \in SUBSET Combinations : Callee \in [D -> Plans \ {Root}]
  BY ConstantsAssumption
<1> QED BY <1>1

\* How a step of a combination meets the plan it calls.
LEMMA ComboStepCalls ==
  ASSUME IInv, NEW c \in Combinations, ComboStep(c)
  PROVE  /\ combo'[c].at \notin {"none", "queued"}
         /\ combo'[c].at \in {"decide", "tellBroken"} => combo[c].at \in {"queued", "decide"}
         /\ combo[c].at = "call" =>
               Call(c) \/ (combo'[c].at = "over" /\ UNCHANGED plan /\ ~Running(Callee[c]))
         /\ combo[c].at # "call" => UNCHANGED plan
<1>0. combo \in ComboType
  BY DEF IInv, KeptInv, TypeOK, ComboType
<1>1. CASE Take(c) \/ Enabled(c) \/ Undecidable(c) \/ LockJob(c) \/ Store(c)
  <2>1. UNCHANGED plan /\ combo[c].at \in {"queued", "decide", "lock", "store"}
    BY <1>1 DEF Take, Enabled, Goes, Undecidable, LockJob, Store
  <2>2. CASE Take(c) \/ Undecidable(c)
    BY <1>0, <2>1, <2>2 DEF Take, Undecidable, ComboType
  <2>3. CASE Enabled(c)
    BY <1>0, <2>1, <2>3 DEF Enabled, Goes, ComboType
  <2>4. CASE LockJob(c)
    BY <1>0, <2>1, <2>4 DEF LockJob, ComboType
  <2>5. CASE Store(c)
    BY <1>0, <2>1, <2>5 DEF Store, ComboType
  <2> QED BY <1>1, <2>2, <2>3, <2>4, <2>5
<1>2. CASE Call(c)
  BY <1>2 DEF Call
<1>3. ASSUME NEW ok \in BOOLEAN, NEW tolerated \in BOOLEAN, BodyEnds(c, ok, tolerated)
      PROVE  combo[c].at = "body" /\ combo'[c].at = "lock" /\ UNCHANGED plan
  <2>1. /\ combo[c].at = "body" /\ UNCHANGED plan
        /\ combo' = [combo EXCEPT ![c].at = "lock", ![c].ok = ok, ![c].tolerated = tolerated]
    BY <1>3, Zenon DEF BodyEnds
  <2> QED BY <1>0, <2>1 DEF ComboType
<1>4. CASE Skipped(c) \/ Unsupported(c) \/ TellBroken(c) \/ BodyFails(c)
  <2>1. combo'[c].at = "over"
    BY <1>0, <1>4, OverKeeps DEF Skipped, Unsupported, TellBroken, BodyFails, OverNow
  <2> QED BY <1>4, <2>1 DEF Skipped, Unsupported, TellBroken, BodyFails
<1>5. ASSUME NEW err \in BOOLEAN, Tell(c, err)
      PROVE  combo'[c].at = "over" /\ combo[c].at = "tell" /\ UNCHANGED plan
  BY <1>0, <1>5, OverKeeps DEF Tell, OverNow
<1>6. CASE CallFails(c)
  <2>1. combo'[c].at = "over"
    BY <1>0, <1>6, OverKeeps DEF CallFails, OverNow
  <2> QED BY <1>6, <2>1 DEF CallFails, Running
<1>7. CASE Return(c)
  <2>1. (plan[Callee[c]].err \/ ended) \in BOOLEAN
    BY Zenon
  <2>2. combo'[c].at = "over"
    BY <1>0, <1>7, <2>1, OverKeeps DEF Return, OverNow
  <2> QED BY <1>7, <2>2 DEF Return, Running
<1> QED BY <1>1, <1>2, <1>3, <1>4, <1>5, <1>6, <1>7, Zenon DEF ComboStep

\* A combination's step begins at most the plan it calls, which had not begun.
LEMMA ComboStepQuiet ==
  ASSUME IInv, Quiet, NEW c \in Combinations, ComboStep(c)
  PROVE  Quiet'
<1>0. /\ TypeOK /\ InStage /\ CallersWait /\ Rooted
      /\ combo[c].at \notin {"none", "over"}
      /\ \A d \in Combinations : d # c => combo'[d] = combo[d]
  BY ComboStepOne DEF IInv, KeptInv, Quiet
<1>1. /\ c[1] \in Jobs /\ PlanOf[c[1]] \in Plans /\ plan[PlanOf[c[1]]].at = "stage"
  BY <1>0, JobShape DEF InStage
<1>2. CASE Call(c)
  <2> DEFINE q == Callee[c]
  <2>1. /\ c \in DOMAIN Callee /\ q \in Plans /\ q # Root /\ q # PlanOf[c[1]]
        /\ plan[q].at = "none" /\ combo[c].at = "call"
    <3>1. c \in DOMAIN Callee
      BY <1>2 DEF Call, IInv, KeptInv, NoValueYet, Calling
    <3> QED BY <1>1, <1>2, <3>1, CalleeShape DEF Call
  <2>2. /\ UNCHANGED combo /\ plan'[q].at = "next"
        /\ \A p \in Plans : p # q => plan'[p] = plan[p]
    BY <1>0, <1>2, <2>1 DEF Call, TypeOK
  <2>3. InStage'
    BY <1>0, <2>1, <2>2, JobShape DEF InStage
  <2>4. CallersWait'
    <3>1. ASSUME NEW d \in DOMAIN Callee
          PROVE  /\ plan'[Callee[d]].at \in {"next", "stage"} => combo'[d].at = "call"
                 /\ combo'[d].at \in {"none", "queued", "decide", "tellBroken"}
                        => plan'[Callee[d]].at = "none"
      <4>1. CASE d = c
        BY <2>1, <2>2, <4>1
      <4>2. CASE d # c
        <5>1. Callee[d] # q /\ Callee[d] \in Plans
          BY <2>1, <4>2, ConstantsAssumption, CalleeShape
        <5> QED BY <1>0, <2>2, <5>1 DEF CallersWait, Running
      <4> QED BY <4>1, <4>2
    <3> QED BY <3>1 DEF CallersWait, Running
  <2>5. ASSUME NEW S \in SUBSET Plans, S # {}, Root \notin S,
               \A p \in S : plan'[p].at \in {"next", "stage"}
        PROVE  \E d \in DOMAIN Callee : Callee[d] \in S /\ PlanOf[d[1]] \notin S
    <3> DEFINE T == S \ {q}
    <3>1. \A p \in T : Running(p)
      BY <2>2, <2>5 DEF Running
    <3>2. CASE T = {}
      <4>1. S = {q}
        BY <2>5, <3>2
      <4> QED BY <2>1, <4>1
    <3>3. CASE T # {}
      <4>1. PICK d \in DOMAIN Callee : Callee[d] \in T /\ PlanOf[d[1]] \notin T
        BY <1>0, <2>5, <3>1, <3>3 DEF Rooted
      <4>2. combo[d].at = "call" /\ d \in Combinations
        BY <1>0, <3>1, <4>1, CalleeShape DEF CallersWait
      <4>3. plan[PlanOf[d[1]]].at = "stage"
        BY <1>0, <4>2 DEF InStage
      <4>4. PlanOf[d[1]] # q
        BY <2>1, <4>3
      <4> QED BY <4>1, <4>4
    <3> QED BY <3>2, <3>3
  <2>6. Rooted'
    BY <2>5 DEF Rooted, Running
  <2> QED BY <2>3, <2>4, <2>6 DEF Quiet
<1>3. CASE ~Call(c)
  <2>1. UNCHANGED plan
    BY <1>3, ComboStepPlan
  <2>2. InStage'
    BY <1>0, <1>1, <2>1 DEF InStage
  <2>3. CallersWait'
    <3>1. ASSUME NEW d \in DOMAIN Callee
          PROVE  /\ plan'[Callee[d]].at \in {"next", "stage"} => combo'[d].at = "call"
                 /\ combo'[d].at \in {"none", "queued", "decide", "tellBroken"}
                        => plan'[Callee[d]].at = "none"
      <4>1. CASE d = c
        <5>1. combo'[c].at \in {"none", "queued", "decide", "tellBroken"}
                 => plan[Callee[c]].at = "none"
          BY <1>0, <4>1, ComboStepCalls DEF CallersWait
        <5>2. ~Running(Callee[c])
          BY <1>0, <1>3, <4>1, ComboStepCalls DEF CallersWait
        <5> QED BY <2>1, <4>1, <5>1, <5>2 DEF Running
      <4>2. CASE d # c
        BY <1>0, <2>1, <4>2, CalleeShape DEF CallersWait, Running
      <4> QED BY <4>1, <4>2
    <3> QED BY <3>1 DEF CallersWait, Running
  <2>4. Rooted'
    BY <1>0, <2>1 DEF Rooted, Running
  <2> QED BY <2>2, <2>3, <2>4 DEF Quiet
<1> QED BY <1>2, <1>3

\* What a step of a plan does to the plans and the combinations.
LEMMA PlanStepShape ==
  ASSUME IInv, NEW p \in Plans, PlanStep(p)
  PROVE  /\ Running(p) /\ plan'[p].at # "none"
         /\ \A q \in Plans : q # p => plan'[q] = plan[q]
         /\ \A c \in Combinations :
               \/ combo'[c] = combo[c]
               \/ /\ combo[c].at = "none" /\ combo'[c].at = "queued" /\ PlanOf[c[1]] = p
                  /\ combo'[c].err = combo[c].err /\ combo'[c].value = combo[c].value
                  /\ plan'[p].at = "stage"
         /\ \A c \in Combinations : PlanOf[c[1]] = p /\ plan'[p].at # "stage" =>
               combo[c].at \in {"none", "over"}
         /\ UNCHANGED <<result, latch, ended>>
<1>0. TypeOK /\ StageInv /\ plan \in PlanType /\ plan[p].stage \in Nat
  BY DEF IInv, KeptInv, TypeOK, PlanType
<1>1. CASE BeginStage(p)
  <2>1. /\ plan[p].at = "next" /\ plan'[p].at = "stage"
        /\ \A q \in Plans : q # p => plan'[q] = plan[q]
        /\ UNCHANGED <<result, latch, ended>>
    BY <1>0, <1>1 DEF BeginStage, PlanType
  <2>2. ASSUME NEW c \in Combinations
        PROVE  \/ combo'[c] = combo[c]
               \/ /\ combo[c].at = "none" /\ combo'[c].at = "queued" /\ PlanOf[c[1]] = p
                  /\ combo'[c].err = combo[c].err /\ combo'[c].value = combo[c].value
    <3>1. combo[c] \in [at : Places, ok : BOOLEAN, tolerated : BOOLEAN, value : Values,
                        err : BOOLEAN]
      BY <1>0 DEF TypeOK
    <3>2. CASE c[1] \in JobsOf(p, plan[p].stage + 1)
      <4>1. PlanOf[c[1]] = p /\ StageOf[c[1]] = plan[p].stage + 1
        BY <3>2 DEF JobsOf
      <4>2. combo[c].at = "none"
        BY <1>0, <4>1 DEF StageInv
      <4>3. combo'[c] = [combo[c] EXCEPT !.at = "queued"]
        BY <1>1, <3>2 DEF BeginStage
      <4> QED BY <3>1, <4>1, <4>2, <4>3
    <3>3. CASE c[1] \notin JobsOf(p, plan[p].stage + 1)
      BY <1>1, <3>3 DEF BeginStage
    <3> QED BY <3>2, <3>3
  <2> QED BY <2>1, <2>2 DEF Running
<1>2. CASE EndStage(p)
  <2>1. /\ plan[p].at = "stage" /\ plan'[p].at \in {"done", "next"}
        /\ \A q \in Plans : q # p => plan'[q] = plan[q]
        /\ UNCHANGED <<combo, result, latch, ended>>
    BY <1>0, <1>2 DEF EndStage, PlanType
  <2>2. ASSUME NEW c \in Combinations, PlanOf[c[1]] = p
        PROVE  combo[c].at \in {"none", "over"}
    <3>1. CASE StageOf[c[1]] = plan[p].stage
      <4>1. c \in CombosOf(JobsOf(p, plan[p].stage))
        BY <2>2, <3>1, CombinationShape DEF CombosOf, JobsOf
      <4> QED BY <1>2, <4>1 DEF EndStage, AllOver
    <3>2. CASE StageOf[c[1]] # plan[p].stage
      BY <1>0, <2>2, <3>2, JobShape DEF StageInv
    <3> QED BY <3>1, <3>2
  <2> QED BY <2>1, <2>2 DEF Running
<1>3. CASE Conclude(p)
  <2>1. PICK b \in BOOLEAN : plan' = [plan EXCEPT ![p].at = "done", ![p].err = b]
    BY <1>3, Zenon DEF Conclude
  <2>2. /\ plan[p].at = "next" /\ plan'[p].at = "done"
        /\ \A q \in Plans : q # p => plan'[q] = plan[q]
        /\ UNCHANGED <<combo, result, latch, ended>>
    BY <1>0, <1>3, <2>1 DEF Conclude, PlanType
  <2>3. \A c \in Combinations : PlanOf[c[1]] = p => combo[c].at \in {"none", "over"}
    BY <1>0, <2>2, JobShape DEF StageInv
  <2> QED BY <2>2, <2>3 DEF Running
<1> QED BY <1>1, <1>2, <1>3 DEF PlanStep

\* No step of a plan begins another plan.
LEMMA PlanStepQuiet ==
  ASSUME IInv, Quiet, NEW p \in Plans, PlanStep(p)
  PROVE  Quiet'
<1>0. InStage /\ CallersWait /\ Rooted
  BY DEF Quiet
<1>1. \A q \in Plans : /\ plan'[q].at \in {"next", "stage"} => Running(q)
                       /\ plan[q].at = "none" => plan'[q].at = "none"
  BY PlanStepShape DEF Running
<1>2. InStage'
  <2>1. ASSUME NEW c \in Combinations, combo'[c].at \notin {"none", "over"}
        PROVE  plan'[PlanOf[c[1]]].at = "stage"
    BY <1>0, <2>1, PlanStepShape, JobShape DEF InStage
  <2> QED BY <2>1 DEF InStage
<1>3. CallersWait'
  <2>1. ASSUME NEW d \in DOMAIN Callee
        PROVE  /\ plan'[Callee[d]].at \in {"next", "stage"} => combo'[d].at = "call"
               /\ combo'[d].at \in {"none", "queued", "decide", "tellBroken"}
                      => plan'[Callee[d]].at = "none"
    BY <1>0, <1>1, PlanStepShape, CalleeShape DEF CallersWait, Running
  <2> QED BY <2>1 DEF CallersWait, Running
<1>4. Rooted'
  BY <1>0, <1>1 DEF Rooted, Running
<1> QED BY <1>2, <1>3, <1>4 DEF Quiet

\* When the plan of the task is done, nothing runs any more.
LEMMA QuietAtTheEnd == IInv /\ Quiet => DoneMeansQuiet
<1> SUFFICES ASSUME IInv, Quiet, plan[Root].at = "done"
             PROVE  /\ \A p \in Plans : plan[p].at \in {"none", "done"}
                    /\ \A c \in Combinations : combo[c].at \in {"none", "over"}
  BY DEF DoneMeansQuiet
<1> DEFINE S == {p \in Plans : Running(p)}
<1>1. S = {}
  <2>1. SUFFICES ASSUME S # {} PROVE FALSE
    OBVIOUS
  <2>2. PICK c \in DOMAIN Callee : Callee[c] \in S /\ PlanOf[c[1]] \notin S
    BY <2>1 DEF Quiet, Rooted, Running
  <2>3. combo[c].at = "call" /\ c \in Combinations
    BY <2>2, CalleeShape DEF Quiet, CallersWait
  <2> QED BY <2>2, <2>3, JobShape DEF Quiet, InStage, Running
<1>2. \A p \in Plans : plan[p].at \in {"none", "done"}
  BY <1>1 DEF Running, IInv, KeptInv, TypeOK
<1> QED BY <1>2, JobShape DEF Quiet, InStage

-----------------------------------------------------------------------------
(* The verdict of a plan.                                                  *)

\* Only an executor that is over has returned an error.
ErrOver == \A c \in Combinations : combo[c].err => combo[c].at = "over"

\* A recorded failure has set the latch, to "firm" if it was not tolerated, and
\* the latch is firm for a reason.
Firmly(c) == Failed(c) /\ ~combo[c].tolerated
Latches ==
    /\ \A c \in Combinations : /\ Failed(c) => latch[c[1]] # "unset"
                               /\ Firmly(c) => latch[c[1]] = "firm"
    /\ \A j \in Jobs : latch[j] = "firm" => \E c \in Combinations : c[1] = j /\ Firmly(c)

\* A failure that is written, heard of or about to be written comes from some
\* combination of the job.
Broken(c) == combo[c].at = "tellBroken" \/ combo[c].err \/ Failed(c) \/ Calling(c)
Blames(j) == \E c \in Combinations : c[1] = j /\ Broken(c)
Blamed ==
    /\ \A j \in Jobs : result[j] = "failure" \/ told[j] = "failure" => Blames(j)
    /\ \A c \in Combinations :
          \/ combo[c].at = "store" /\ combo[c].ok /\ combo[c].value = "failure"
          \/ combo[c].at = "tell" /\ combo[c].value = "failure"
          => Blames(c[1])

Reasons == ErrOver /\ Latches /\ Blamed

\* The steps of a combination by the places they lead from and to.
LEMMA ComboStepKinds ==
  ASSUME combo \in ComboType, NEW c \in Combinations, ComboStep(c)
  PROVE  \/ /\ combo[c].at \in {"queued", "decide", "body", "call"}
            /\ combo'[c].at \in {"decide", "body", "lock", "call"}
            /\ combo'[c].err = combo[c].err
         \/ /\ combo[c].at = "decide" /\ combo'[c].at = "tellBroken"
            /\ combo'[c].err = combo[c].err
         \/ /\ LockJob(c) /\ combo[c].at = "lock" /\ combo'[c].at = "store"
            /\ combo'[c].ok = combo[c].ok /\ combo'[c].err = combo[c].err
         \/ /\ Store(c) /\ combo[c].at = "store" /\ combo'[c].at = "tell"
            /\ combo'[c].value = combo[c].value /\ combo'[c].ok = combo[c].ok
            /\ combo'[c].tolerated = combo[c].tolerated /\ combo'[c].err = combo[c].err
         \/ /\ combo[c].at \in {"decide", "body", "call", "tell", "tellBroken"}
            /\ combo'[c].at = "over"
            /\ combo'[c].value = combo[c].value /\ combo'[c].ok = combo[c].ok
            /\ combo'[c].tolerated = combo[c].tolerated
            /\ combo[c].at = "tellBroken" => combo'[c].err
<1>1. CASE Take(c)
  BY <1>1 DEF Take, ComboType
<1>2. CASE Enabled(c)
  BY <1>2 DEF Enabled, Goes, ComboType
<1>3. CASE Undecidable(c)
  BY <1>3 DEF Undecidable, ComboType
<1>4. CASE LockJob(c)
  BY <1>4 DEF LockJob, ComboType
<1>5. CASE Store(c)
  BY <1>5 DEF Store, ComboType
<1>6. CASE Call(c)
  BY <1>6 DEF Call
<1>7. ASSUME NEW ok \in BOOLEAN, NEW tolerated \in BOOLEAN, BodyEnds(c, ok, tolerated)
      PROVE  /\ combo[c].at = "body" /\ combo'[c].at = "lock"
             /\ combo'[c].err = combo[c].err
  <2>1. /\ combo[c].at = "body"
        /\ combo' = [combo EXCEPT ![c].at = "lock", ![c].ok = ok, ![c].tolerated = tolerated]
    BY <1>7, Zenon DEF BodyEnds
  <2> QED BY <2>1 DEF ComboType
<1>8. ASSUME NEW err \in BOOLEAN, Over(c, err)
      PROVE  /\ combo'[c].at = "over" /\ combo'[c].err = err
             /\ combo'[c].value = combo[c].value /\ combo'[c].ok = combo[c].ok
             /\ combo'[c].tolerated = combo[c].tolerated
  BY <1>8 DEF Over, ComboType
<1>9. CASE Skipped(c) \/ Unsupported(c) \/ BodyFails(c) \/ CallFails(c) \/ TellBroken(c)
  <2>1. CASE Skipped(c) \/ Unsupported(c)
    BY <1>8, <2>1 DEF Skipped, Unsupported
  <2>2. CASE BodyFails(c) \/ CallFails(c)
    BY <1>8, <2>2 DEF BodyFails, CallFails
  <2>3. CASE TellBroken(c)
    BY <1>8, <2>3 DEF TellBroken
  <2> QED BY <1>9, <2>1, <2>2, <2>3
<1>10. ASSUME NEW err \in BOOLEAN, Tell(c, err)
       PROVE  /\ combo[c].at = "tell" /\ combo'[c].at = "over"
              /\ combo'[c].value = combo[c].value /\ combo'[c].ok = combo[c].ok
              /\ combo'[c].tolerated = combo[c].tolerated
  BY <1>8, <1>10 DEF Tell
<1>11. CASE Return(c)
  <2>1. (plan[Callee[c]].err \/ ended) \in BOOLEAN
    BY Zenon
  <2>2. PICK err \in BOOLEAN : Over(c, err)
    BY <1>11, <2>1 DEF Return
  <2> QED BY <1>8, <1>11, <2>2 DEF Return
<1> QED
  BY <1>1, <1>2, <1>3, <1>4, <1>5, <1>6, <1>7, <1>9, <1>10, <1>11, Zenon DEF ComboStep

\* How a combination's step takes it towards its end.
LEMMA ComboStepEnds ==
  ASSUME IInv, ErrOver, NEW c \in Combinations, ComboStep(c)
  PROVE  /\ combo'[c].err => combo'[c].at = "over"
         /\ Broken(c) => Broken(c)'
         /\ Failed(c) => Failed(c)' /\ combo'[c].tolerated = combo[c].tolerated
         /\ ~Store(c) /\ Failed(c)' => Failed(c)
         /\ Undecidable(c) \/ TellBroken(c) \/ Return(c) => Broken(c)'
         /\ Store(c) => /\ combo'[c].at = "tell" /\ combo'[c].value = combo[c].value
                        /\ combo'[c].ok = combo[c].ok
                        /\ combo'[c].tolerated = combo[c].tolerated
         /\ LockJob(c) => combo'[c].at = "store" /\ combo'[c].ok = combo[c].ok
         /\ ~LockJob(c) => combo'[c].at # "store"
         /\ ~Store(c) => combo'[c].at # "tell"
<1>0. /\ combo \in ComboType /\ NoValueYet /\ NoValueYet'
      /\ combo[c].at \notin {"none", "over"}
  BY ComboStepOne, ComboStepValues DEF IInv, KeptInv, TypeOK, ComboType
<1>1. ~combo[c].err
  BY <1>0 DEF ErrOver
<1>2. /\ combo[c].at # "tell" => ~Failed(c)
      /\ combo[c].at \in {"decide", "body", "call", "tellBroken"} => combo[c].value = ""
      /\ combo[c].at = "call" => Calling(c)
      /\ combo'[c].value = "" => ~Failed(c)'
  BY <1>0 DEF Failed, NoValueYet
<1>3. /\ Store(c) => combo[c].at = "store"
      /\ LockJob(c) => combo[c].at = "lock"
      /\ Undecidable(c) => combo'[c].at = "tellBroken"
      /\ TellBroken(c) => combo[c].at = "tellBroken"
      /\ Return(c) => combo[c].at = "call"
  BY <1>0 DEF Store, LockJob, Undecidable, ComboType, TellBroken, Return
<1>4. Failed(c) => Failed(c)' /\ combo'[c].tolerated = combo[c].tolerated
  <2>1. SUFFICES ASSUME Failed(c) PROVE Failed(c)' /\ combo'[c].tolerated = combo[c].tolerated
    OBVIOUS
  <2>2. combo[c].at = "tell"
    BY <1>2, <2>1
  <2> QED BY <1>0, <2>1, <2>2, ComboStepKinds DEF Failed
<1>5. ~Store(c) /\ Failed(c)' => Failed(c)
  <2>1. SUFFICES ASSUME ~Store(c), Failed(c)' PROVE Failed(c)
    OBVIOUS
  <2>2. combo'[c].at \in {"tell", "over"} /\ combo'[c].value # "" /\ ~combo'[c].ok
    BY <2>1 DEF Failed
  <2> QED BY <1>0, <1>2, <2>1, <2>2, ComboStepKinds DEF Failed
<1>6. Broken(c) => Broken(c)'
  BY <1>0, <1>1, <1>3, <1>4, ComboStepKinds DEF Broken, Calling
<1>7. Undecidable(c) \/ TellBroken(c) \/ Return(c) => Broken(c)'
  BY <1>0, <1>2, <1>3, ComboStepKinds DEF Broken, Calling
<1>8. combo'[c].err => combo'[c].at = "over"
  BY <1>0, <1>1, ComboStepKinds
<1>9. Store(c) => /\ combo'[c].at = "tell" /\ combo'[c].value = combo[c].value
                  /\ combo'[c].ok = combo[c].ok /\ combo'[c].tolerated = combo[c].tolerated
  BY <1>0, <1>3, ComboStepKinds
<1>10. /\ LockJob(c) => combo'[c].at = "store" /\ combo'[c].ok = combo[c].ok
       /\ ~LockJob(c) => combo'[c].at # "store"
       /\ ~Store(c) => combo'[c].at # "tell"
  BY <1>0, <1>3, ComboStepKinds
<1> QED BY <1>4, <1>5, <1>6, <1>7, <1>8, <1>9, <1>10

\* What a combination's step writes.
LEMMA ComboStepWrites ==
  ASSUME IInv, NEW c \in Combinations, ComboStep(c)
  PROVE  /\ \A j \in Jobs : j # c[1] => result'[j] = result[j] /\ told'[j] = told[j]
         /\ result' = result \/ Undecidable(c) \/ Store(c) \/ Return(c)
         /\ latch' = latch \/ Store(c)
         /\ Store(c) => /\ result' = [result EXCEPT ![c[1]] = combo[c].value]
                        /\ combo[c].at = "store"
                        /\ latch' = IF combo[c].ok THEN latch
                              ELSE [latch EXCEPT ![c[1]] = Latched(c[1], combo[c].tolerated)]
         /\ \/ told' = told \/ TellBroken(c) \/ Return(c)
            \/ told' = [told EXCEPT ![c[1]] = "skipped"]
            \/ combo[c].at = "tell" /\ told' = [told EXCEPT ![c[1]] = combo[c].value]
<1>0. result \in [Jobs -> Values] /\ told \in ToldType
  BY DEF IInv, KeptInv, TypeOK, ToldType
<1>7. Store(c) => /\ result' = [result EXCEPT ![c[1]] = combo[c].value]
                  /\ combo[c].at = "store" /\ UNCHANGED told
                  /\ latch' = IF combo[c].ok THEN latch
                              ELSE [latch EXCEPT ![c[1]] = Latched(c[1], combo[c].tolerated)]
  BY DEF Store
<1>1. CASE Store(c)
  BY <1>0, <1>1, <1>7
<1>2. CASE Return(c)
  <2>1. /\ UNCHANGED latch
        /\ \A j \in Jobs : j # c[1] => result'[j] = result[j] /\ told'[j] = told[j]
    BY <1>0, <1>2 DEF Return, CallerResult, ToldType
  <2> QED BY <1>2, <1>7, <2>1
<1>3. CASE Skipped(c) \/ TellBroken(c)
  <2>1. /\ UNCHANGED <<result, latch>>
        /\ told' = told \/ TellBroken(c) \/ told' = [told EXCEPT ![c[1]] = "skipped"]
        /\ \A j \in Jobs : j # c[1] => told'[j] = told[j]
    BY <1>0, <1>3 DEF Skipped, TellBroken, ToldType
  <2> QED BY <1>7, <2>1
<1>4. ASSUME NEW err \in BOOLEAN, Tell(c, err)
      PROVE  /\ combo[c].at = "tell" /\ UNCHANGED <<result, latch>>
             /\ told' = told \/ told' = [told EXCEPT ![c[1]] = combo[c].value]
             /\ \A j \in Jobs : j # c[1] => told'[j] = told[j]
  BY <1>0, <1>4 DEF Tell, ToldType
<1>5. CASE Undecidable(c)
  <2>1. /\ UNCHANGED <<latch, told>>
        /\ \A j \in Jobs : j # c[1] => result'[j] = result[j]
    BY <1>0, <1>5 DEF Undecidable
  <2> QED BY <1>5, <1>7, <2>1
<1>6. CASE UNCHANGED <<result, latch, told>>
  BY <1>6, <1>7
<1> QED
  BY <1>1, <1>2, <1>3, <1>4, <1>5, <1>6, <1>7
     DEF ComboStep, Take, Enabled, Goes, Unsupported, BodyFails, BodyEnds, LockJob, CallFails, Call

\* A combination's step keeps the reasons.
LEMMA ComboStepReasons ==
  ASSUME IInv, Reasons, NEW c \in Combinations, ComboStep(c)
  PROVE  Reasons'
<1> DEFINE j == c[1]
<1>0. /\ TypeOK /\ HasValue /\ ErrOver /\ Latches /\ Blamed /\ c[1] \in Jobs
      /\ \A d \in Combinations : d # c => combo'[d] = combo[d]
  BY ComboStepOne, CombinationShape DEF IInv, KeptInv, Reasons
<1>1. \A d \in Combinations : /\ d # c => (Failed(d)' <=> Failed(d))
                              /\ d # c => (Broken(d)' <=> Broken(d))
                              /\ Broken(d) => Broken(d)'
  BY <1>0, ComboStepEnds DEF Failed, Broken, Calling
<1>2. \A i \in Jobs : Blames(i) => Blames(i)'
  BY <1>1 DEF Blames
<1>3. ErrOver'
  BY <1>0, ComboStepEnds DEF ErrOver
<1>4. Latches'
  <2>1. CASE Store(c) /\ ~combo[c].ok
    <3>1. /\ latch' = [latch EXCEPT ![j] = Latched(j, combo[c].tolerated)]
          /\ latch \in [Jobs -> {"unset", "tolerated", "firm"}]
      BY <1>0, <2>1, ComboStepWrites DEF TypeOK
    <3>2. Failed(c)' /\ combo'[c].tolerated = combo[c].tolerated
      <4>1. combo[c].at = "store" /\ combo[c].value # ""
        BY <1>0, <2>1, ComboStepWrites DEF HasValue
      <4>2. /\ combo'[c].at = "tell" /\ combo'[c].value = combo[c].value
            /\ combo'[c].ok = combo[c].ok /\ combo'[c].tolerated = combo[c].tolerated
        BY <1>0, <2>1, ComboStepEnds
      <4> QED BY <2>1, <4>1, <4>2 DEF Failed
    <3>3. latch'[j] = IF combo[c].tolerated /\ latch[j] # "firm" THEN "tolerated" ELSE "firm"
      BY <1>0, <3>1 DEF Latched
    <3>4. \A d \in Combinations : /\ Failed(d)' => latch'[d[1]] # "unset"
                                  /\ Firmly(d)' => latch'[d[1]] = "firm"
      <4>1. ASSUME NEW d \in Combinations, Failed(d)'
            PROVE  /\ latch'[d[1]] # "unset"
                   /\ ~combo'[d].tolerated => latch'[d[1]] = "firm"
        <5>1. CASE d = c
          BY <3>2, <3>3, <5>1
        <5>2. CASE d # c
          <6>1. /\ Failed(d) /\ combo'[d].tolerated = combo[d].tolerated /\ d[1] \in Jobs
                /\ latch[d[1]] # "unset" /\ (~combo[d].tolerated => latch[d[1]] = "firm")
            BY <1>0, <1>1, <4>1, <5>2, CombinationShape DEF Latches, Firmly
          <6> QED BY <3>1, <3>3, <6>1
        <5> QED BY <5>1, <5>2
      <4> QED BY <4>1 DEF Firmly
    <3>5. ASSUME NEW i \in Jobs, latch'[i] = "firm"
          PROVE  \E d \in Combinations : d[1] = i /\ Firmly(d)'
      <4>1. CASE i = j /\ ~combo[c].tolerated
        BY <3>2, <4>1 DEF Firmly
      <4>2. CASE ~(i = j /\ ~combo[c].tolerated)
        <5>1. latch[i] = "firm"
          BY <1>0, <3>1, <3>3, <3>5, <4>2
        <5>2. PICK d \in Combinations : d[1] = i /\ Firmly(d)
          BY <1>0, <5>1 DEF Latches
        <5>3. d # c
          BY <1>0, <2>1, <5>2, ComboStepWrites DEF Firmly, Failed
        <5> QED BY <1>0, <1>1, <5>2, <5>3 DEF Firmly
      <4> QED BY <4>1, <4>2
    <3> QED BY <3>4, <3>5 DEF Latches
  <2>2. CASE ~(Store(c) /\ ~combo[c].ok)
    <3>1. UNCHANGED latch
      BY <2>2, ComboStepWrites
    <3>2. \A d \in Combinations : (Failed(d)' <=> Failed(d)) /\ (Firmly(d)' <=> Firmly(d))
      <4>1. Failed(c)' <=> Failed(c)
        BY <1>0, <2>2, ComboStepEnds DEF Failed
      <4>2. Failed(c) => combo'[c].tolerated = combo[c].tolerated
        BY <1>0, ComboStepEnds
      <4> QED BY <1>0, <1>1, <4>1, <4>2 DEF Firmly
    <3> QED BY <1>0, <3>1, <3>2 DEF Latches
  <2> QED BY <2>1, <2>2
<1>5. Store(c) /\ combo[c].value = "failure" => Blames(j)'
  <2>1. SUFFICES ASSUME Store(c), combo[c].value = "failure" PROVE Blames(j)'
    OBVIOUS
  <2>2. CASE combo[c].ok
    <3>1. Blames(j)
      BY <1>0, <2>1, <2>2, ComboStepWrites DEF Blamed
    <3> QED BY <1>0, <1>2, <3>1
  <2>3. CASE ~combo[c].ok
    <3>1. Failed(c)'
      BY <1>0, <2>1, <2>3, ComboStepEnds DEF Failed
    <3> QED BY <3>1 DEF Blames, Broken
  <2> QED BY <2>2, <2>3
<1>6. Undecidable(c) \/ TellBroken(c) \/ Return(c) => Blames(j)'
  BY <1>0, ComboStepEnds DEF Blames
<1>7. ASSUME NEW i \in Jobs, result'[i] = "failure" \/ told'[i] = "failure"
      PROVE  Blames(i)'
  <2>1. CASE i # j
    BY <1>0, <1>2, <1>7, <2>1, ComboStepWrites DEF Blamed
  <2>2. CASE i = j
    <3>1. CASE result'[j] = "failure"
      <4>1. CASE result' = result
        BY <1>0, <1>2, <2>2, <3>1, <4>1 DEF Blamed
      <4>2. CASE Store(c)
        <5>1. combo[c].value = "failure"
          BY <1>0, <3>1, <4>2, ComboStepWrites DEF TypeOK
        <5> QED BY <1>5, <2>2, <4>2, <5>1
      <4> QED BY <1>6, <2>2, <4>1, <4>2, ComboStepWrites
    <3>2. CASE told'[j] = "failure"
      <4>1. CASE told' = told
        BY <1>0, <1>2, <2>2, <3>2, <4>1 DEF Blamed
      <4>2. CASE told' = [told EXCEPT ![j] = "skipped"]
        BY <1>0, <3>2, <4>2 DEF TypeOK
      <4>3. CASE combo[c].at = "tell" /\ told' = [told EXCEPT ![j] = combo[c].value]
        <5>1. combo[c].value = "failure"
          BY <1>0, <3>2, <4>3 DEF TypeOK
        <5> QED BY <1>0, <1>2, <2>2, <4>3, <5>1 DEF Blamed
      <4> QED BY <1>6, <2>2, <4>1, <4>2, <4>3, ComboStepWrites
    <3> QED BY <1>7, <2>2, <3>1, <3>2
  <2> QED BY <2>1, <2>2
<1>8. ASSUME NEW d \in Combinations,
             \/ combo'[d].at = "store" /\ combo'[d].ok /\ combo'[d].value = "failure"
             \/ combo'[d].at = "tell" /\ combo'[d].value = "failure"
      PROVE  Blames(d[1])'
  <2>0. d[1] \in Jobs
    BY CombinationShape
  <2>1. CASE d # c
    BY <1>0, <1>2, <1>8, <2>0, <2>1 DEF Blamed
  <2>2. CASE d = c /\ combo'[c].at = "tell"
    BY <1>5, <1>8, <2>2, <1>0, ComboStepEnds
  <2>3. CASE d = c /\ combo'[c].at = "store"
    <3>1. LockJob(c) /\ combo'[c].ok /\ combo'[c].value = "failure"
      BY <1>0, <1>8, <2>3, ComboStepEnds
    <3>2. combo[c].ok
      BY <1>0, <3>1, ComboStepEnds
    <3>3. result[j] = "failure"
      <4>1. combo'[c].value = IF ~combo[c].ok THEN "failure"
                              ELSE IF Combos[j] > 1 /\ result[j] # "" THEN result[j]
                              ELSE "success"
        <5>1. combo \in ComboType
          BY <1>0 DEF TypeOK, ComboType
        <5>2. combo' = [combo EXCEPT ![c].at = "store",
                  ![c].value = IF ~combo[c].ok THEN "failure"
                               ELSE IF Combos[j] > 1 /\ result[j] # "" THEN result[j]
                               ELSE "success"]
          BY <3>1 DEF LockJob
        <5> QED BY <5>1, <5>2 DEF ComboType
      <4> QED BY <3>1, <3>2, <4>1
    <3> QED BY <1>0, <1>2, <2>3, <3>3 DEF Blamed
  <2> QED BY <1>8, <2>1, <2>2, <2>3
<1>9. Blamed'
  BY <1>7, <1>8 DEF Blamed
<1> QED BY <1>3, <1>4, <1>9 DEF Reasons

\* So does a step of a plan: what it begins has neither failed nor ended.
LEMMA PlanStepReasons ==
  ASSUME IInv, Reasons, NEW p \in Plans, PlanStep(p)
  PROVE  Reasons'
<1>0. ErrOver /\ Latches /\ Blamed
  BY DEF Reasons
<1>1. UNCHANGED <<result, latch>>
  BY PlanStepShape
<1>2. \A j \in Jobs : told'[j] = "failure" => told[j] = "failure"
  BY DEF PlanStep, BeginStage, EndStage, Conclude
<1>3. ASSUME NEW c \in Combinations
      PROVE  /\ combo'[c] = combo[c] \/ combo'[c].at = "queued"
             /\ combo'[c].err => combo'[c].at = "over"
             /\ Failed(c)' <=> Failed(c)
             /\ Firmly(c)' <=> Firmly(c)
             /\ Broken(c)' <=> Broken(c)
  <2>1. CASE combo'[c] = combo[c]
    BY <1>0, <2>1 DEF ErrOver, Failed, Firmly, Broken, Calling
  <2>2. CASE combo'[c] # combo[c]
    <3>1. combo[c].at = "none" /\ combo'[c].at = "queued" /\ combo'[c].err = combo[c].err
      BY <2>2, PlanStepShape
    <3> QED BY <1>0, <3>1 DEF ErrOver, Failed, Firmly, Broken, Calling
  <2> QED BY <2>1, <2>2
<1>4. ErrOver' /\ Latches'
  BY <1>0, <1>1, <1>3 DEF ErrOver, Latches
<1>5. \A j \in Jobs : Blames(j)' <=> Blames(j)
  BY <1>3 DEF Blames
<1>6. Blamed'
  BY <1>0, <1>1, <1>2, <1>3, <1>5, CombinationShape DEF Blamed
<1> QED BY <1>4, <1>6 DEF Reasons

\* The verdict of the plan p.
Verdict(p) ==
    LET C == {c \in Combinations : PlanOf[c[1]] = p} IN
    /\ ~plan[p].err => \A c \in C : ~combo[c].err /\ (Failed(c) => combo[c].tolerated)
    /\ plan[p].err => \/ ended
                      \/ \E c \in C : combo[c].err \/ (Failed(c) /\ ~combo[c].tolerated)
                      \/ \E c \in C : Calling(c) /\ result[c[1]] = "failure"

LEMMA VerdictIs == VerdictSound <=> \A p \in Plans : plan[p].at = "done" => Verdict(p)
BY DEF VerdictSound, Verdict

\* A verdict stays while the plan's combinations and their jobs' results do.
LEMMA VerdictStays ==
  ASSUME NEW p \in Plans, Verdict(p), plan'[p] = plan[p], ended => ended',
         \A c \in Combinations : PlanOf[c[1]] = p =>
             combo'[c] = combo[c] /\ result'[c[1]] = result[c[1]]
  PROVE  Verdict(p)'
<1>1. \A c \in Combinations : PlanOf[c[1]] = p => (Failed(c)' <=> Failed(c))
  BY DEF Failed
<1> QED BY <1>1 DEF Verdict, Calling

\* A combination that takes a step is in a plan that is not done.
LEMMA ComboStepVerdict ==
  ASSUME IInv, Quiet, VerdictSound, NEW c \in Combinations, ComboStep(c)
  PROVE  VerdictSound'
<1>1. /\ TypeOK /\ combo[c].at \notin {"none", "over"}
      /\ \A d \in Combinations : d # c => combo'[d] = combo[d]
      /\ UNCHANGED ended
  BY ComboStepOne, ComboStepJobTypes DEF IInv, KeptInv
<1>2. plan[PlanOf[c[1]]].at = "stage"
  BY <1>1 DEF Quiet, InStage
<1>3. ASSUME NEW p \in Plans, plan'[p].at = "done"
      PROVE  Verdict(p)'
  <2>1. plan'[p] = plan[p]
    <3>1. CASE UNCHANGED plan
      BY <3>1
    <3>2. CASE Call(c)
      BY <1>1, <1>3, <3>2 DEF Call, TypeOK
    <3> QED BY <3>1, <3>2, ComboStepPlan
  <2>2. Verdict(p) /\ p # PlanOf[c[1]]
    BY <1>2, <1>3, <2>1, VerdictIs
  <2>3. ASSUME NEW d \in Combinations, PlanOf[d[1]] = p
        PROVE  combo'[d] = combo[d] /\ result'[d[1]] = result[d[1]]
    <3>1. d # c /\ d[1] # c[1] /\ d[1] \in Jobs
      BY <2>2, <2>3, CombinationShape
    <3> QED BY <1>1, <3>1, ComboStepWrites
  <2> QED BY <1>1, <2>1, <2>2, <2>3, VerdictStays
<1> QED
  <2>1. \A p \in Plans : plan'[p].at = "done" => Verdict(p)'
    BY <1>3
  <2> QED BY <2>1 DEF VerdictSound, Verdict

\* A plan ends with the verdict its combinations deserve.
LEMMA PlanStepVerdict ==
  ASSUME IInv, Quiet, Reasons, VerdictSound, NEW p \in Plans, PlanStep(p)
  PROVE  VerdictSound'
<1>0. /\ TypeOK /\ StageInv /\ FailureKept /\ ErrOver /\ Latches /\ Blamed
      /\ plan \in PlanType
  BY DEF IInv, KeptInv, Reasons, TypeOK, PlanType
<1>1. ASSUME NEW q \in Plans, q # p, plan'[q].at = "done"
      PROVE  Verdict(q)'
  <2>1. plan'[q] = plan[q] /\ Verdict(q) /\ UNCHANGED <<result, ended>>
    BY <1>1, PlanStepShape, VerdictIs
  <2>2. \A d \in Combinations : PlanOf[d[1]] = q => combo'[d] = combo[d]
    BY <1>1, PlanStepShape
  <2> QED BY <2>1, <2>2, VerdictStays
<1>2. ASSUME plan'[p].at = "done"
      PROVE  Verdict(p)'
  <2>1. CASE EndStage(p)
    <3> DEFINE C == CombosOf(JobsOf(p, plan[p].stage))
    <3>1. plan'[p].err /\ UNCHANGED <<combo, result, ended>> /\ (ended \/ \E c \in C : combo[c].err)
      BY <1>0, <1>2, <2>1 DEF EndStage, PlanType
    <3>2. \A c \in C : c \in Combinations /\ PlanOf[c[1]] = p
      BY DEF CombosOf, JobsOf
    <3> QED BY <3>1, <3>2 DEF Verdict
  <2>2. CASE Conclude(p)
    <3> DEFINE bad == \E j \in Jobs : PlanOf[j] = p /\ result[j] = "failure" /\ ~ContinueOnError(j)
    <3>1. bad \in BOOLEAN /\ plan' = [plan EXCEPT ![p].at = "done", ![p].err = bad]
      BY <2>2, Zenon DEF Conclude
    <3>2. UNCHANGED <<combo, result, latch, ended>> /\ plan[p].at = "next"
      BY <2>2 DEF Conclude
    <3>3. plan'[p].err = bad
      <4> HIDE DEF bad
      <4> QED BY <1>0, <3>1 DEF PlanType
    <3>4. ASSUME NEW c \in Combinations, PlanOf[c[1]] = p
          PROVE  combo[c].at = "over" /\ ~combo[c].err
      <4>1. /\ ~(plan[p].stage < NStages[p]) /\ plan[p].stage \in Nat /\ NStages[p] \in Nat
            /\ StageOf[c[1]] <= NStages[p] /\ StageOf[c[1]] \in Nat
        <5>1. ~(plan[p].stage < NStages[p])
          BY <2>2 DEF Conclude, MoreStages
        <5>2. c[1] \in Jobs /\ StageOf[c[1]] \in Nat
          BY JobShape
        <5>3. NStages[p] \in Nat /\ StageOf[c[1]] <= NStages[PlanOf[c[1]]]
          BY <5>2, ConstantsAssumption
        <5> QED BY <1>0, <3>4, <5>1, <5>2, <5>3 DEF TypeOK
      <4> QED BY <1>0, <3>2, <3>4, <4>1 DEF StageInv
    <3>5. ASSUME ~bad, NEW c \in Combinations, PlanOf[c[1]] = p, Failed(c)
          PROVE  combo[c].tolerated
      <4>1. c[1] \in Jobs /\ result[c[1]] = "failure"
        BY <1>0, <3>5, CombinationShape DEF FailureKept
      <4>2. latch[c[1]] = "tolerated"
        BY <3>5, <4>1 DEF ContinueOnError
      <4> QED BY <1>0, <3>5, <4>2 DEF Latches, Firmly
    <3>6. ASSUME bad
          PROVE  \E c \in Combinations : PlanOf[c[1]] = p /\
                     \/ Failed(c) /\ ~combo[c].tolerated
                     \/ Calling(c) /\ result[c[1]] = "failure"
      <4>1. PICK j \in Jobs : PlanOf[j] = p /\ result[j] = "failure" /\ latch[j] # "tolerated"
        BY <3>6 DEF ContinueOnError
      <4>2. PICK c \in Combinations : c[1] = j /\ Broken(c)
        BY <1>0, <4>1 DEF Blamed, Blames
      <4>3. Failed(c) \/ Calling(c)
        BY <3>4, <4>1, <4>2 DEF Broken
      <4>4. CASE Calling(c)
        BY <4>1, <4>2, <4>4
      <4>5. CASE Failed(c)
        <5>1. latch[j] = "firm"
          BY <1>0, <4>1, <4>2, <4>5 DEF Latches, TypeOK
        <5> QED BY <1>0, <4>1, <5>1 DEF Latches, Firmly
      <4> QED BY <4>3, <4>4, <4>5
    <3>7. \A c \in Combinations : Failed(c)' <=> Failed(c)
      BY <3>2 DEF Failed
    <3> HIDE DEF bad
    <3> QED BY <3>2, <3>3, <3>4, <3>5, <3>6, <3>7 DEF Verdict, Calling
  <2>3. CASE BeginStage(p)
    BY <1>0, <1>2, <2>3 DEF BeginStage, PlanType
  <2> QED BY <2>1, <2>2, <2>3 DEF PlanStep
<1> QED
  <2>1. \A q \in Plans : plan'[q].at = "done" => Verdict(q)'
    BY <1>1, <1>2
  <2> QED BY <2>1 DEF VerdictSound, Verdict

-----------------------------------------------------------------------------
(* The jobs that call a workflow.                                          *)

\* The job of a single combination has no result, and none is heard of, before
\* its call is over.
CallsFresh == \A c \in DOMAIN Callee :
    Combos[c[1]] = 1 /\ combo[c].at \in {"none", "queued", "decide", "call"} =>
        result[c[1]] = "" /\ told[c[1]] \in {"absent", "pending"}

Callers == CallsFresh /\ CallerResultSound

\* What is said of one call.
CallSound(c) ==
    LET p == Callee[c] IN
    Combos[c[1]] = 1 /\ combo[c].at = "over" /\ plan[p].at = "done" =>
        /\ Outcome(c[1]) = "failure" =>
              \E d \in Combinations : PlanOf[d[1]] = p /\ FailedWithin(d)
        /\ Outcome(c[1]) = "success" => ~plan[p].err /\ "pending" \notin Heard(p)

\* The outcome of a call stays while the called plan, its jobs and the calling
\* job are as they were.
LEMMA CallStays ==
  ASSUME NEW c \in DOMAIN Callee, CallSound(c), combo'[c] = combo[c],
         c[1] \in Jobs,
         plan'[Callee[c]] = plan[Callee[c]], result'[c[1]] = result[c[1]], told'[c[1]] = told[c[1]],
         \A d \in Combinations : PlanOf[d[1]] = Callee[c] => combo'[d] = combo[d],
         \A j \in Jobs : PlanOf[j] = Callee[c] => told'[j] = told[j]
  PROVE  CallSound(c)'
<1>1. Outcome(c[1])' = Outcome(c[1])
  BY DEF Outcome, Called
<1>2. \A d \in Combinations : PlanOf[d[1]] = Callee[c] => (FailedWithin(d)' <=> FailedWithin(d))
  BY CombinationShape DEF FailedWithin, Failed, Calling
<1>3. "pending" \in Heard(Callee[c])' <=> "pending" \in Heard(Callee[c])
  BY DEF Heard
<1> QED BY <1>1, <1>2, <1>3 DEF CallSound

\* The call of a combination is over: its outcome says what became of the plan.
LEMMA ReturnSound ==
  ASSUME IInv, Quiet, Reasons, VerdictSound, CallsFresh,
         NEW c \in Combinations, Return(c), c \in DOMAIN Callee, Combos[c[1]] = 1
  PROVE  CallSound(c)'
<1> DEFINE p == Callee[c]
           j == c[1]
<1>0. /\ TypeOK /\ Blamed /\ InStage /\ p \in Plans /\ j \in Jobs
      /\ combo[c].at = "call" /\ plan[p].at = "done" /\ UNCHANGED plan
      /\ result[j] = "" /\ told[j] \in {"absent", "pending"}
      /\ \A d \in Combinations : d # c => combo'[d] = combo[d]
  BY CalleeShape, CombinationShape, ComboStepOne
     DEF IInv, KeptInv, Quiet, Reasons, Return, CallsFresh, ComboStep
<1>1. PlanOf[j] # p
  BY <1>0 DEF InStage
<1>2. CASE plan[p].err \/ ended \/ ~AllJobDone(p)
  <2>1. UNCHANGED <<result, told>>
    BY <1>2 DEF Return, CallerResult
  <2>2. Outcome(j)' \notin {"failure", "success"}
    BY <1>0, <2>1 DEF Outcome, Called
  <2> QED BY <2>2 DEF CallSound
<1>3. CASE ~(plan[p].err \/ ended \/ ~AllJobDone(p))
  <2> DEFINE value == IF "failure" \in Heard(p) THEN "failure" ELSE "success"
  <2>1. \/ Called(j) /\ told' = [told EXCEPT ![j] = value] /\ UNCHANGED result
        \/ ~Called(j) /\ result' = [result EXCEPT ![j] = value] /\ UNCHANGED told
    BY <1>3 DEF Return, CallerResult
  <2>2. Outcome(j)' = value /\ \A i \in Jobs : PlanOf[i] = p => told'[i] = told[i]
    BY <1>0, <1>1, <2>1 DEF Outcome, Called, TypeOK
  <2>3. ~plan'[p].err /\ "pending" \notin Heard(p)'
    <3>1. \A i \in Jobs : PlanOf[i] = p => told'[i] # "pending"
      BY <1>3, <2>2 DEF AllJobDone
    <3> QED BY <1>0, <1>3, <3>1 DEF Heard
  <2>4. ASSUME Outcome(j)' = "failure"
        PROVE  \E d \in Combinations : PlanOf[d[1]] = p /\ FailedWithin(d)'
    <3>1. PICK i \in Jobs : PlanOf[i] = p /\ told[i] = "failure"
      BY <2>2, <2>4 DEF Heard
    <3>2. PICK d \in Combinations : d[1] = i /\ Broken(d)
      BY <1>0, <3>1 DEF Blamed, Blames
    <3>3. combo[d].at \in {"none", "over"} /\ d # c
      BY <1>0, <1>1, <3>1, <3>2 DEF InStage
    <3>4. ~combo[d].err
      BY <1>0, <1>3, <3>1, <3>2 DEF VerdictSound
    <3>5. Failed(d) \/ Calling(d)
      BY <3>2, <3>3, <3>4 DEF Broken
    <3>6. Failed(d)' <=> Failed(d)
      BY <1>0, <3>3 DEF Failed
    <3>7. told'[i] = "failure"
      BY <2>2, <3>1
    <3> QED BY <3>1, <3>2, <3>5, <3>6, <3>7 DEF FailedWithin, Calling
  <2> QED BY <2>3, <2>4 DEF CallSound
<1> QED BY <1>2, <1>3

\* A combination's step tells of its own call only.
LEMMA ComboStepCallers ==
  ASSUME IInv, Quiet, Reasons, VerdictSound, Callers, NEW e \in Combinations, ComboStep(e)
  PROVE  Callers'
<1>0. /\ TypeOK /\ InStage /\ CallersWait /\ CallsFresh /\ e[1] \in Jobs /\ NoValueYet
      /\ combo[e].at \notin {"none", "over"} /\ plan[PlanOf[e[1]]].at = "stage"
      /\ \A d \in Combinations : d # e => combo'[d] = combo[d]
      /\ \A c \in DOMAIN Callee : CallSound(c)
  BY ComboStepOne, CombinationShape
     DEF IInv, KeptInv, Quiet, InStage, Callers, CallerResultSound, CallSound
<1>1. ASSUME NEW c \in DOMAIN Callee, Combos[c[1]] = 1
      PROVE  c \in Combinations /\ (c # e => c[1] # e[1] /\ c[1] \in Jobs)
  <2>1. c \in Combinations
    BY CalleeShape
  <2>2. c # e => c[1] # e[1]
    BY <1>1, <2>1, TwoCombinations
  <2> QED BY <2>1, <2>2, CombinationShape
<1>2. ASSUME NEW c \in DOMAIN Callee, Combos[c[1]] = 1,
             combo'[c].at \in {"none", "queued", "decide", "call"}
      PROVE  result'[c[1]] = "" /\ told'[c[1]] \in {"absent", "pending"}
  <2>1. CASE c # e
    BY <1>0, <1>1, <1>2, <2>1, ComboStepWrites DEF CallsFresh
  <2>2. CASE c = e
    <3>0. combo \in ComboType
      BY <1>0 DEF TypeOK, ComboType
    <3>1. combo[e].at \in {"queued", "decide", "call"}
      BY <1>2, <2>2, <3>0, <1>0, ComboStepKinds, Zenon DEF NoValueYet, Calling
    <3>2. UNCHANGED <<result, told>>
      <4>1. ~Undecidable(e) /\ ~Store(e) /\ ~Return(e) /\ ~TellBroken(e)
        <5>1. ~Undecidable(e)
          BY <1>2, <2>2, <3>0 DEF Undecidable, ComboType
        <5>2. ~Store(e) /\ ~TellBroken(e)
          BY <3>1 DEF Store, TellBroken
        <5>3. ~Return(e)
          <6>1. SUFFICES ASSUME Return(e) PROVE FALSE
            OBVIOUS
          <6>2. (plan[Callee[e]].err \/ ended) \in BOOLEAN
            BY Zenon
          <6>3. combo'[e].at = "over"
            BY <3>0, <6>1, <6>2, OverKeeps DEF Return, OverNow
          <6> QED BY <1>2, <2>2, <6>3
        <5> QED BY <5>1, <5>2, <5>3
      <4>2. ~Skipped(e)
        BY <1>2, <2>2, <3>0, OverKeeps DEF Skipped, OverNow
      <4>3. \A err \in BOOLEAN : ~Tell(e, err)
        BY <3>1 DEF Tell
      <4> QED
        BY <4>1, <4>2, <4>3 DEF ComboStep, Take, Enabled, Goes, Unsupported, BodyFails, BodyEnds,
                                LockJob, CallFails, Call
    <3> QED BY <1>0, <1>1, <2>2, <3>1, <3>2, <1>2 DEF CallsFresh
  <2> QED BY <2>1, <2>2
<1>3. CallsFresh'
  BY <1>2 DEF CallsFresh
<1>4. ASSUME NEW c \in DOMAIN Callee
      PROVE  CallSound(c)'
  <2>1. SUFFICES ASSUME Combos[c[1]] = 1, combo'[c].at = "over", plan'[Callee[c]].at = "done"
                 PROVE  CallSound(c)'
    BY DEF CallSound
  <2>2. plan'[Callee[c]] = plan[Callee[c]] /\ PlanOf[e[1]] # Callee[c]
    <3>1. Callee[c] \in Plans
      BY CalleeShape
    <3>2. plan'[Callee[c]] = plan[Callee[c]]
      <4>1. CASE UNCHANGED plan
        BY <4>1
      <4>2. CASE Call(e)
        <5>1. plan' = [plan EXCEPT ![Callee[e]].at = "next"]
          BY <4>2 DEF Call
        <5>2. Callee[c] # Callee[e]
          BY <1>0, <2>1, <3>1, <5>1 DEF TypeOK
        <5> QED BY <1>0, <3>1, <5>1, <5>2 DEF TypeOK
      <4> QED BY <4>1, <4>2, ComboStepPlan
    <3> QED BY <1>0, <2>1, <3>2
  <2>3. CASE c = e
    <3>1. combo[e].at = "call"
      <4>1. plan[Callee[e]].at = "done" /\ Calling(e)
        BY <2>1, <2>2, <2>3 DEF Calling
      <4>2. combo[e].at \notin {"none", "queued", "decide", "tellBroken"}
        BY <1>0, <2>3, <4>1 DEF CallersWait
      <4>3. combo[e].at \notin {"body", "lock", "store", "tell"}
        BY <1>0, <4>1 DEF NoValueYet
      <4> QED BY <1>0, <4>2, <4>3 DEF TypeOK, Places
    <3>2. Return(e)
      BY <1>0, <2>1, <2>2, <2>3, <3>1
         DEF ComboStep, Take, Enabled, Skipped, Unsupported, Undecidable, TellBroken,
             BodyFails, BodyEnds, LockJob, Store, Tell, CallFails, Call
    <3> QED BY <1>0, <2>1, <2>3, <3>2, ReturnSound
  <2>4. CASE c # e
    <3>1. /\ combo'[c] = combo[c] /\ c[1] \in Jobs
          /\ result'[c[1]] = result[c[1]] /\ told'[c[1]] = told[c[1]]
      BY <1>0, <1>1, <2>1, <2>4, ComboStepWrites
    <3>2. \A d \in Combinations : PlanOf[d[1]] = Callee[c] => combo'[d] = combo[d]
      BY <1>0, <2>2
    <3>3. \A j \in Jobs : PlanOf[j] = Callee[c] => told'[j] = told[j]
      BY <2>2, ComboStepWrites
    <3> QED BY <1>0, <2>2, <3>1, <3>2, <3>3, CallStays
  <2> QED BY <2>3, <2>4
<1>5. CallerResultSound'
  BY <1>4 DEF CallerResultSound, CallSound
<1> QED BY <1>3, <1>5 DEF Callers

\* A step of a plan touches no call that is over.
LEMMA PlanStepCallers ==
  ASSUME IInv, Quiet, Callers, NEW p \in Plans, PlanStep(p)
  PROVE  Callers'
<1>0. /\ TypeOK /\ InStage /\ CallersWait /\ CallsFresh
      /\ \A c \in DOMAIN Callee : CallSound(c)
  BY DEF IInv, KeptInv, Quiet, Callers, CallerResultSound, CallSound
<1>1. \A j \in Jobs : \/ told'[j] = told[j]
                      \/ told'[j] = "pending" /\ j \in JobsOf(p, plan[p].stage + 1) /\ BeginStage(p)
  BY <1>0 DEF PlanStep, BeginStage, EndStage, Conclude, TypeOK
<1>2. CallsFresh'
  <2>1. ASSUME NEW c \in DOMAIN Callee, Combos[c[1]] = 1,
               combo'[c].at \in {"none", "queued", "decide", "call"}
        PROVE  result'[c[1]] = "" /\ told'[c[1]] \in {"absent", "pending"}
    <3>1. c \in Combinations /\ c[1] \in Jobs
      BY CalleeShape, CombinationShape
    <3>2. combo[c].at \in {"none", "queued", "decide", "call"}
      BY <2>1, <3>1, PlanStepShape
    <3>3. result' = result
      BY PlanStepShape
    <3>4. result[c[1]] = "" /\ told[c[1]] \in {"absent", "pending"}
      BY <1>0, <2>1, <3>2 DEF CallsFresh
    <3> QED BY <1>1, <3>1, <3>3, <3>4
  <2> QED BY <2>1 DEF CallsFresh
<1>3. ASSUME NEW c \in DOMAIN Callee
      PROVE  CallSound(c)'
  <2>1. SUFFICES ASSUME combo'[c].at = "over", plan'[Callee[c]].at = "done"
                 PROVE  CallSound(c)'
    BY DEF CallSound
  <2>2. c \in Combinations /\ c[1] \in Jobs /\ Callee[c] \in Plans
    BY CalleeShape, CombinationShape
  <2>3. combo'[c] = combo[c] /\ combo[c].at = "over"
    BY <2>1, <2>2, PlanStepShape
  <2>4. Callee[c] # p
    BY <1>0, <2>3, PlanStepShape DEF CallersWait
  <2>5. told'[c[1]] = told[c[1]]
    <3>1. SUFFICES ASSUME c[1] \in JobsOf(p, plan[p].stage + 1), BeginStage(p) PROVE FALSE
      BY <1>1, <2>2
    <3>2. PlanOf[c[1]] = p /\ StageOf[c[1]] = plan[p].stage + 1 /\ plan[p].stage \in Nat
      BY <1>0, <3>1 DEF JobsOf, TypeOK
    <3> QED BY <2>2, <2>3, <3>2 DEF IInv, StageInv
  <2>6. \A j \in Jobs : PlanOf[j] = Callee[c] => told'[j] = told[j]
    BY <1>1, <2>4 DEF JobsOf
  <2>7. /\ plan'[Callee[c]] = plan[Callee[c]] /\ result'[c[1]] = result[c[1]]
        /\ \A d \in Combinations : PlanOf[d[1]] = Callee[c] => combo'[d] = combo[d]
    BY <2>2, <2>4, PlanStepShape
  <2> QED BY <1>0, <2>2, <2>3, <2>5, <2>6, <2>7, CallStays
<1>4. CallerResultSound'
  BY <1>3 DEF CallerResultSound, CallSound
<1> QED BY <1>2, <1>4 DEF Callers

\* The invariant of the ends of plans.
EndInv == Quiet /\ Reasons /\ VerdictSound /\ Callers

LEMMA InitEnd == Init => EndInv
<1> SUFFICES ASSUME Init PROVE EndInv
  OBVIOUS
<1>1. /\ \A c \in Combinations : /\ combo[c].at = "none" /\ ~combo[c].err
                                   /\ combo[c].value = ""
      /\ \A p \in Plans : plan[p].at = IF p = Root THEN "next" ELSE "none"
      /\ \A j \in Jobs : result[j] = "" /\ told[j] = "absent" /\ latch[j] = "unset"
  BY DEF Init, Fresh
<1>2. Quiet
  <2>1. InStage /\ CallersWait
    BY <1>1, CalleeShape DEF InStage, CallersWait, Running
  <2>2. Rooted
    BY <1>1 DEF Rooted, Running
  <2> QED BY <2>1, <2>2 DEF Quiet
<1>3. Reasons
  BY <1>1 DEF Reasons, ErrOver, Latches, Blamed, Failed, Firmly
<1>4. VerdictSound
  BY <1>1 DEF VerdictSound
<1>5. Callers
  <2>1. \A c \in DOMAIN Callee : combo[c].at = "none" /\ result[c[1]] = "" /\ told[c[1]] = "absent"
    BY <1>1, CalleeShape, CombinationShape
  <2> QED BY <2>1 DEF Callers, CallsFresh, CallerResultSound
<1> QED BY <1>2, <1>3, <1>4, <1>5 DEF EndInv

LEMMA NextEnd == IInv /\ EndInv /\ [Next]_vars => EndInv'
<1> SUFFICES ASSUME IInv, EndInv, [Next]_vars PROVE EndInv'
  OBVIOUS
<1>1. ASSUME NEW p \in Plans, PlanStep(p)
      PROVE  EndInv'
  BY <1>1, PlanStepQuiet, PlanStepReasons, PlanStepVerdict, PlanStepCallers DEF EndInv
<1>2. ASSUME NEW c \in Combinations, ComboStep(c)
      PROVE  EndInv'
  BY <1>2, ComboStepQuiet, ComboStepReasons, ComboStepVerdict, ComboStepCallers DEF EndInv
<1>3. CASE CtxEnds \/ UNCHANGED vars
  <2>1. UNCHANGED <<plan, combo, result, latch, holder, told>> /\ (ended => ended')
    BY <1>3 DEF CtxEnds, vars
  <2>2. Quiet'
    BY <2>1 DEF EndInv, Quiet, InStage, CallersWait, Rooted, Running
  <2>3. \A c \in Combinations : (Failed(c)' <=> Failed(c)) /\ (Firmly(c)' <=> Firmly(c))
                                /\ (Broken(c)' <=> Broken(c)) /\ (FailedWithin(c)' <=> FailedWithin(c))
    BY <2>1 DEF Failed, Firmly, Broken, FailedWithin, Calling
  <2>4. Reasons'
    BY <2>1, <2>3 DEF EndInv, Reasons, ErrOver, Latches, Blamed, Blames
  <2>5. VerdictSound'
    <3>1. ASSUME NEW p \in Plans, plan'[p].at = "done"
          PROVE  Verdict(p)'
      BY <2>1, <3>1, VerdictIs, VerdictStays DEF EndInv
    <3> QED BY <3>1 DEF VerdictSound, Verdict
  <2>6. Callers'
    <3>1. CallsFresh'
      BY <2>1 DEF EndInv, Callers, CallsFresh
    <3>2. ASSUME NEW c \in DOMAIN Callee
          PROVE  CallSound(c)'
      BY <2>1, CallStays, CalleeShape, CombinationShape
         DEF EndInv, Callers, CallerResultSound, CallSound
    <3> QED BY <3>1, <3>2 DEF Callers, CallerResultSound, CallSound
  <2> QED BY <2>2, <2>4, <2>5, <2>6 DEF EndInv
<1> QED BY <1>1, <1>2, <1>3 DEF Next

\* What the end of a plan says of its jobs is so, for any plans, nested to any
\* depth: nothing outlives the plan of the task, no verdict and no outcome of a
\* called workflow is without its reason, and none hides a failure.
THEOREM EndsAreSound == Spec => []EndSound
<1>1. Init => IInv /\ EndInv
  BY InitIInv, InitEnd
<1>2. IInv /\ EndInv /\ [Next]_vars => IInv' /\ EndInv'
  BY NextIInv, NextEnd
<1>3. IInv /\ EndInv => EndSound
  BY QuietAtTheEnd DEF EndInv, Callers, EndSound
<1> QED BY <1>1, <1>2, <1>3, PTL DEF Spec

=============================================================================
