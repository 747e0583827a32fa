-------------------------- MODULE MCArtifactCache --------------------------
(* Small instances of ArtifactCache for TLC.                               *)
EXTENDS ArtifactCache, TLC

BothV2 == [j \in Jobs |-> "v2"]
Mixed  == [j \in Jobs |-> IF j = 1 THEN "v1" ELSE "v2"]

OneRepo  == [j \in Jobs |-> {"r"}]
OneOrTwoRepos == [j \in Jobs |-> IF j = 1 THEN {"r"} ELSE {"r", "other"}]

OneKey == [j \in Jobs |-> {"key-ab"}]
OneOrTwoKeys == [j \in Jobs |-> IF j = 1 THEN {"key-ab"} ELSE {"key-ab", "key-a"}]

\* A job looks for the longer key, and then for anything that begins with "key-a".
Fallback == [j \in Jobs |-> <<"key-ab", "key-a">>]
Prefixes == {<<"key-a", "key-a">>, <<"key-a", "key-ab">>, <<"key-ab", "key-ab">>}

HandlersAlike == Permutations(Handlers)

\* Jobs that save the same key of the same repository either have two requests
\* under way at once, or exactly one of them repeats its requests.  Requests that
\* are repeated may overtake each other while the other job is still looking for
\* its keys; when it saves its archive as well they take turns.  Jobs with
\* different keys, or with one key in two repositories, take turns and repeat
\* nothing.  Time stands still where requests are repeated or there are two
\* repositories.
SameKey == \A j, k \in Jobs : job[j].repo = job[k].repo /\ job[j].key = job[k].key
Repeating == \E j \in Jobs : job[j].repeats
TakeTurns == \A s, t \in Handlers : s # t => h[s].at = "idle" \/ h[t].at = "idle"
Overtaking == \A j \in Jobs : ~job[j].repeats =>
    job[j].st = "new" /\ \A s \in Handlers : h[s].job # j
Few ==
    IF Repeating
    THEN /\ SameKey /\ Cardinality({j \in Jobs : job[j].repeats}) = 1
         /\ Overtaking \/ TakeTurns
    ELSE SameKey \/ TakeTurns

Still ==
    \/ now = 0
    \/ ~Repeating /\ \A j, k \in Jobs : job[j].repo = job[k].repo

OneDifference == \A j, k \in Jobs : job[j].repo = job[k].repo \/ job[j].key = job[k].key

Bounds == OneCommitEach /\ Few /\ Still /\ OneDifference

=============================================================================
