----------------------------- MODULE TaskReport -----------------------------
(***************************************************************************)
(* What the reporter of internal/pkg/report promises of one task, seen     *)
(* from the server when final flushes succeed: it receives the produced    *)
(* log in order and whole, the log is archived once, and only then the     *)
(* outcome is known, once.                                                 *)
(***************************************************************************)
EXTENDS Naturals, Sequences

CONSTANT Outcomes, NoOutcome

VARIABLES
    produced,   \* rows the task has produced
    received,   \* rows the server has
    archived,   \* the server was told there is no more and moved the log
    outcome     \* the task's result as the server knows it

vars == <<produced, received, archived, outcome>>

Init ==
    /\ produced = <<>> /\ received = <<>>
    /\ archived = FALSE /\ outcome = NoOutcome

Extends(longer, s) == s = SubSeq(longer, 1, Len(s))

\* The task produces a row.
Produce ==
    /\ ~archived
    /\ Len(produced') = Len(produced) + 1
    /\ Extends(produced', produced)
    /\ UNCHANGED <<received, archived, outcome>>

\* The server receives more of the log.
Receive ==
    /\ ~archived /\ archived' = FALSE
    /\ Extends(received', received) /\ Extends(produced, received')
    /\ UNCHANGED <<produced, outcome>>

\* The server receives what was missing and archives the log.
Archive ==
    /\ archived' = TRUE
    /\ received' = produced
    /\ UNCHANGED <<produced, outcome>>

\* The server learns the outcome.
Conclude ==
    /\ archived /\ outcome = NoOutcome
    /\ outcome' \in Outcomes
    /\ UNCHANGED <<produced, received, archived>>

Next == Produce \/ Receive \/ Archive \/ Conclude

Spec == Init /\ [][Next]_vars

FairSpec == Spec /\ WF_vars(Conclude)

=============================================================================
