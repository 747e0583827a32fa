--------------------------- MODULE MCJobExecutor ---------------------------
(* Steps by default and one for clean-up.                                  *)
EXTENDS JobExecutor

CleanUpJob ==
    [cond : {[s \in Steps |-> IF s = N THEN "always" ELSE "success"]},
     pre : {{}}, post : {Steps}]
=============================================================================
