------------------------------ MODULE MCJobRun ------------------------------
(* Small instances of JobExecutor and of StepTree.                         *)
EXTENDS JobRun

\* Every condition on steps that have a pre and a post stage, and a job whose
\* second step has no post stage.
EveryJob ==
    [cond : [Steps -> Conditions], pre : {Steps}, post : {Steps}]
        \cup [cond : {[s \in Steps |-> "always"]}, pre : {{}}, post : {{1}}]

MCStepIds == {"s1", "s2", "A", "B", "a1", "a2"}

Tree(children, scripts, composites, always, lenient, limited, local, talks) ==
    [child |-> [s \in {"job"} \cup MCStepIds |->
                    IF s \in DOMAIN children THEN children[s] ELSE <<>>],
     kind |-> [s \in MCStepIds |-> IF s \in scripts THEN "script"
                                   ELSE IF s \in composites THEN "composite" ELSE "action"],
     cond |-> [s \in MCStepIds |-> IF s \in always THEN "always" ELSE "success"],
     local |-> local, talks |-> talks, lenient |-> lenient, limited |-> limited]

Flat == [job |-> <<"s1", "A", "s2">>, A |-> <<"a1", "a2">>]
Deep == [job |-> <<"A", "s2">>, A |-> <<"B">>, B |-> <<"a1", "a2">>]

\* A composite action between two scripts, with a timeout or forgiven; one
\* inside another, local or remote.
MCTrees == {
    Tree(Flat, {"s1", "s2"}, {"A"}, {"s2", "a2"}, {}, {"A"}, {"a2"}, {"s1", "a1", "a2"}),
    Tree(Flat, {"s1", "a1", "s2"}, {"A"}, {}, {"A"}, {}, {}, {"s1", "a1", "a2"}),
    Tree(Deep, {"a2", "s2"}, {"A", "B"}, {}, {}, {}, {"B"}, {"a1", "a2"}),
    Tree(Deep, {"s2"}, {"A", "B"}, {}, {"B"}, {}, {}, {"a2"}) }
=============================================================================
