--------------------------- MODULE MCPlanExecutor ---------------------------
(* A small instance of PlanExecutor for TLC: a job that calls a workflow,   *)
(* then one that does not; in the workflow a job of two combinations beside *)
(* one that calls another workflow in turn, then a third.                   *)
EXTENDS PlanExecutor, TLC

PlansOfJobs == <<"task", "called", "called", "inner", "called", "task">>
StagesOfJobs == <<1, 1, 1, 1, 2, 2>>
Stages == [p \in Plans |-> IF p = "inner" THEN 1 ELSE 2]
CombosOfJobs == <<1, 2, 1, 1, 1, 1>>
WorkersOfJobs == <<1, 2, 1, 1, 1, 1>>
Calls == (<<1, 1>> :> "called") @@ (<<3, 1>> :> "inner")

=============================================================================
