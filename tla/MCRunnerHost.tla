--------------------------- MODULE MCRunnerHost ----------------------------
(* Two tasks that share one runtime token; two jobs that use one action;   *)
(* two processes on one runner file.                                       *)
EXTENDS RunnerHost

CONSTANTS t1, t2, tok, l1, l2

MCTasks == {t1, t2}
MCTokens == {tok}
MCTokenOf == [t \in MCTasks |-> tok]
MCPatchable == {1, 2}
MCLabelSets == {l1, l2}
=============================================================================
