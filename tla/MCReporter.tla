----------------------------- MODULE MCReporter -----------------------------
(* Small instances of Reporter for TLC, and the bound of ReporterLog.cfg.  *)
EXTENDS Reporter

One(happened) == IF happened THEN 1 ELSE 0

HasOutputs == \E k \in OutputKeys : outputs[k] # "absent"
JobResultKnown == result \in JobResults

\* Before Close, two events: a row, an output, a job result, the end of r.ctx.
\* In all, two of: a fault, the end of r.ctx, a daemon that Close does not
\* wait for, a job result of its own.
Bounds ==
    /\ JobAlive => Len(produced) + One(HasOutputs) + One(JobResultKnown)
                     + One(ctx # "live") <= 2
    /\ One(faults > 0) + One(ctx # "live") + One(GaveUpOnDaemon)
         + One(JobResultKnown) <= 2

=============================================================================
