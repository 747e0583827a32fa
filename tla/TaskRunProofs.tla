--------------------------- MODULE TaskRunProofs ---------------------------
(***************************************************************************)
(* Proofs about TaskRun, for any tasks, tokens, ages and faults: its type  *)
(* invariant, that registrations of a token follow the tasks that hold it, *)
(* and that no sweep takes anything from a live job.                       *)
(***************************************************************************)
EXTENDS TaskRun, FiniteSetTheorems, TLAPS

Places == {"new", "setup", "prepared", "running", "attached", "script",
           "revoking", "leaving", "reporting", "over", "lost"}
Early == {"new", "setup", "prepared"}
Counted == {t \in Tasks : pc[t] \in {"setup", "prepared", "running", "attached",
                                     "script", "revoking", "leaving"}}
SweepType == [kind : Kinds \cup {"off"}, todo : SUBSET Tasks, expired : SUBSET Tasks]

\* The types that no counting is needed for.
Types ==
    /\ mode \in {"embedded", "external"}
    /\ alive \in BOOLEAN
    /\ pc \in [Tasks -> Places]
    /\ runningTasks \subseteq Tasks
    /\ refs \in [Tokens -> Nat]
    /\ late \subseteq ({"register", "revoke"} \X Tasks)
    /\ age \in [Tasks -> [Kinds -> {None} \cup (0..CleanupAge)]]
    /\ attached \subseteq Tasks
    /\ idleFor \in 0..CleanupEvery
    /\ sweep \in SweepType
    /\ faults \in 0..MaxFaults

\* runningCount counts the tasks between their start and Leave.
CountKept == runningCount = Cardinality(Counted)

\* Without faults, and with an embedded server, no request is ever late.
NothingLate == mode = "embedded" \/ faults = 0 => late = {}

Faithful == mode = "embedded" \/ faults = 0
TokensKept == Faithful => \A tok \in Tokens : refs[tok] = Cardinality(Holders(tok))

\* A directory and a network are there from the start of a job to its end; the
\* network is young until the job's container is on it.
JobHolds ==
    \A t \in Tasks :
        /\ pc[t] \in Early => \A k \in Kinds : age[t][k] = None
        /\ pc[t] \in InJob => \A k \in Kinds : age[t][k] # None
        /\ pc[t] = "running" => age[t]["net"] < CleanupAge
        /\ pc[t] = "attached" => t \in attached

\* What a pass has found expired is of a task that is past its job, or a
\* network in use.
SweepSpares ==
    \A t \in sweep.expired :
        /\ pc[t] \notin Early \cup {"running"}
        /\ sweep.kind = "dir" => pc[t] \notin InJob

IInv == Types /\ CountKept /\ NothingLate /\ TokensKept /\ JobHolds /\ SweepSpares

-----------------------------------------------------------------------------
(* Counting tasks.                                                         *)

\* Every set of tasks is finite.
LEMMA TasksFinite ==
  ASSUME NEW S \in SUBSET Tasks
  PROVE  IsFiniteSet(S) /\ Cardinality(S) \in Nat /\ Cardinality(S) <= Cardinality(Tasks)
<1>1. IsFiniteSet(S)
  BY TaskRunAssumption, FS_Subset
<1> QED BY <1>1, TaskRunAssumption, FS_Subset, FS_CardinalityType

\* A task that is not in a set adds one to it.
LEMMA OneMore ==
  ASSUME NEW S \in SUBSET Tasks, NEW t \in Tasks, t \notin S
  PROVE  Cardinality(S \cup {t}) = Cardinality(S) + 1
BY TasksFinite, FS_AddElement

\* A task that is in a set takes one from it.
LEMMA OneLess ==
  ASSUME NEW S \in SUBSET Tasks, NEW t \in S
  PROVE  Cardinality(S \ {t}) = Cardinality(S) - 1
BY TasksFinite, FS_RemoveElement

\* A set without tasks.
LEMMA NoTask ==
  ASSUME NEW S \in SUBSET Tasks
  PROVE  Cardinality(S) = 0 <=> S = {}
BY TasksFinite, FS_EmptySet

-----------------------------------------------------------------------------
(* The initial state.                                                      *)

\* Nothing runs, nothing is registered and nothing is left.
LEMMA InitIInv == Init => IInv
<1> SUFFICES ASSUME Init PROVE IInv
  OBVIOUS
<1>1. Types
  BY TaskRunAssumption DEF Init, Types, Places, Kinds, None, Off, SweepType
<1>2. Counted = {} /\ \A tok \in Tokens : Holders(tok) = {}
  BY DEF Init, Counted, Holders, Revocable
<1>3. CountKept /\ TokensKept
  BY <1>2, FS_EmptySet DEF Init, CountKept, TokensKept
<1>4. JobHolds /\ SweepSpares
  BY DEF Init, JobHolds, SweepSpares, Early, InJob, Kinds, Off
<1> QED BY <1>1, <1>3, <1>4 DEF Init, IInv, NothingLate

-----------------------------------------------------------------------------
(* The types.                                                              *)

\* A task that moves moves to a place.
LEMMA GotoType ==
  ASSUME Types, NEW t \in Tasks, NEW where \in Places, Goto(t, where)
  PROVE  /\ pc' \in [Tasks -> Places]
         /\ pc'[t] = where
         /\ \A u \in Tasks \ {t} : pc'[u] = pc[u]
BY DEF Types, Goto

\* A request changes one count by one, or none.
LEMMA PostType ==
  ASSUME Types, NEW t \in Tasks, NEW op \in {"register", "revoke"}, Post(op, t)
  PROVE  /\ refs' \in [Tokens -> Nat]
         /\ late' \subseteq ({"register", "revoke"} \X Tasks)
         /\ faults' \in 0..MaxFaults
         /\ faults' # faults => faults' > 0 /\ mode = "external"
         /\ faults' = faults => refs' = Handle(op, TokenOf[t]) /\ late' = late
<1>1. TokenOf[t] \in Tokens
  BY TaskRunAssumption
<1>2. Handle(op, TokenOf[t]) \in [Tokens -> Nat]
  BY <1>1 DEF Types, Handle, Plus, Minus
<1> QED BY <1>2, TaskRunAssumption DEF Types, Post, Fault, NoFault

\* Every step keeps the types.
LEMMA NextTypes == Types /\ [Next]_vars => Types'
<1> SUFFICES ASSUME Types, [Next]_vars PROVE Types'
  OBVIOUS
<1> USE DEF taskVars, credVars, hostVars, sweepVars
<1>1. CASE HandleLate
  <2>1. PICK r \in late : /\ late' = late \ {r}
                          /\ refs' = Handle(r[1], TokenOf[r[2]])
    BY <1>1 DEF HandleLate
  <2>2. r[2] \in Tasks /\ TokenOf[r[2]] \in Tokens
    BY <2>1, TaskRunAssumption DEF Types
  <2>3. refs' \in [Tokens -> Nat]
    BY <2>1, <2>2 DEF Types, Handle, Plus, Minus
  <2> QED BY <1>1, <2>1, <2>3 DEF HandleLate, Types
<1>2. CASE ServerRestarts
  BY <1>2, TaskRunAssumption DEF ServerRestarts, Fault, Types
<1>3. ASSUME NEW t \in Tasks, Begin(t) PROVE Types'
  <2>1. pc' \in [Tasks -> Places]
    BY <1>3, GotoType DEF Begin, Places
  <2> QED BY <1>3, <2>1 DEF Begin, Types
<1>4. ASSUME NEW t \in Tasks,
             SetupFails(t) \/ PreparationFails(t) \/ PostTaskScript(t) \/ Leave(t) \/ Reported(t)
      PROVE  Types'
  <2>1. pc' \in [Tasks -> Places]
    BY <1>4, GotoType DEF SetupFails, PreparationFails, PostTaskScript, Leave, Reported, Places
  <2> QED BY <1>4, <2>1 DEF SetupFails, PreparationFails, PostTaskScript, Leave, Reported, Types
<1>5. ASSUME NEW t \in Tasks, Register(t) \/ Revoke(t) PROVE Types'
  <2>1. pc' \in [Tasks -> Places]
    BY <1>5, GotoType DEF Register, Revoke, Places
  <2>2. /\ refs' \in [Tokens -> Nat]
        /\ late' \subseteq ({"register", "revoke"} \X Tasks)
        /\ faults' \in 0..MaxFaults
    BY <1>5, PostType DEF Register, Revoke
  <2> QED BY <1>5, <2>1, <2>2 DEF Register, Revoke, Types
<1>6. ASSUME NEW t \in Tasks, StartJob(t) PROVE Types'
  <2>1. pc' \in [Tasks -> Places]
    BY <1>6, GotoType DEF StartJob, Places
  <2>2. age' \in [Tasks -> [Kinds -> {None} \cup (0..CleanupAge)]]
    BY <1>6, TaskRunAssumption DEF StartJob, Types
  <2> QED BY <1>6, <2>1, <2>2 DEF StartJob, Types
<1>7. ASSUME NEW t \in Tasks, Attach(t) PROVE Types'
  <2>1. pc' \in [Tasks -> Places]
    BY <1>7, GotoType DEF Attach, Places
  <2> QED BY <1>7, <2>1 DEF Attach, Types
<1>8. ASSUME NEW t \in Tasks, EndJob(t) PROVE Types'
  <2>1. pc' \in [Tasks -> Places]
    BY <1>8, GotoType DEF EndJob, Places
  <2>2. faults' \in 0..MaxFaults
    BY <1>8, TaskRunAssumption DEF EndJob, Fault, NoFault, Types
  <2>3. age' \in [Tasks -> [Kinds -> {None} \cup (0..CleanupAge)]]
    BY <1>8 DEF EndJob, Types
  <2> QED BY <1>8, <2>1, <2>2, <2>3 DEF EndJob, Types
<1>9. ASSUME NEW t \in Tasks, ContainerExpires(t) PROVE Types'
  BY <1>9 DEF ContainerExpires, Types
<1>10. CASE OnIdle
  <2>1. sweep' \in SweepType
    BY <1>10 DEF OnIdle, Pass, Present, Expired, SweepType, Kinds
  <2> QED BY <1>10, <2>1, TaskRunAssumption DEF OnIdle, Types
<1>11. CASE SweepOne
  <2>1. PICK t \in sweep.todo :
          /\ sweep' = [sweep EXCEPT !.todo = @ \ {t}]
          /\ age' = [age EXCEPT ![t][sweep.kind] = None] \/ age' = age
          /\ faults' = faults \/ Fault
    BY <1>11 DEF SweepOne, NoFault
  <2>2. sweep' \in SweepType
    BY <2>1 DEF Types, SweepType
  <2>3. age' \in [Tasks -> [Kinds -> {None} \cup (0..CleanupAge)]]
    BY <2>1 DEF Types
  <2>4. faults' \in 0..MaxFaults
    BY <2>1, TaskRunAssumption DEF Fault, Types
  <2> QED BY <1>11, <2>2, <2>3, <2>4 DEF SweepOne, Types
<1>12. CASE SweepNext
  <2>1. sweep' \in SweepType
    BY <1>12 DEF SweepNext, Pass, Present, Expired, Off, SweepType, Kinds
  <2>2. faults' \in 0..MaxFaults
    BY <1>12, TaskRunAssumption DEF SweepNext, Fault, NoFault, Types
  <2> QED BY <1>12, <2>1, <2>2 DEF SweepNext, Types
<1>13. CASE Tick
  <2>1. \A n \in {None} \cup (0..CleanupAge) :
           Older(n, CleanupAge) \in {None} \cup (0..CleanupAge)
    BY TaskRunAssumption DEF Older, None
  <2>2. age' \in [Tasks -> [Kinds -> {None} \cup (0..CleanupAge)]]
    BY <1>13, <2>1 DEF Tick, Types
  <2>3. idleFor' \in 0..CleanupEvery
    BY <1>13, TaskRunAssumption DEF Tick, Older, None, Types
  <2> QED BY <1>13, <2>2, <2>3 DEF Tick, Types
<1>14. CASE Crash
  <2>1. pc' \in [Tasks -> Places]
    BY <1>14 DEF Crash, Types, Places
  <2>2. refs' \in [Tokens -> Nat]
    BY <1>14 DEF Crash, Types
  <2>3. faults' \in 0..MaxFaults
    BY <1>14, TaskRunAssumption DEF Crash, Fault, Types
  <2>4. sweep' \in SweepType /\ idleFor' \in 0..CleanupEvery
    BY <1>14, TaskRunAssumption DEF Crash, Off, SweepType
  <2> QED BY <1>14, <2>1, <2>2, <2>3, <2>4 DEF Crash, Types
<1>15. CASE Restart
  BY <1>15 DEF Restart, Types
<1>16. CASE UNCHANGED vars
  BY <1>16 DEF vars, Types
<1> QED
  BY <1>1, <1>2, <1>3, <1>4, <1>5, <1>6, <1>7, <1>8, <1>9, <1>10, <1>11, <1>12, <1>13,
     <1>14, <1>15, <1>16 DEF Next
-----------------------------------------------------------------------------
(* The running count.                                                      *)

\* A task that moves without entering or leaving the counted places.
LEMMA CountedStays ==
  ASSUME Types, NEW t \in Counted, NEW where \in Places, Goto(t, where),
         where \in {"setup", "prepared", "running", "attached", "script", "revoking", "leaving"}
  PROVE  Counted' = Counted
BY GotoType DEF Counted

\* Begin takes the count up, Leave takes it down, a crash clears it.
LEMMA NextCount == Types /\ CountKept /\ [Next]_vars => CountKept'
<1> SUFFICES ASSUME Types, CountKept, [Next]_vars PROVE CountKept'
  OBVIOUS
<1> USE DEF taskVars, credVars, hostVars, sweepVars
<1>1. CASE pc' = pc /\ runningCount' = runningCount
  BY <1>1 DEF CountKept, Counted
<1>2. ASSUME NEW t \in Tasks, Begin(t) PROVE CountKept'
  <2>1. t \notin Counted /\ Counted' = Counted \cup {t}
    BY <1>2, GotoType DEF Begin, Counted, Places
  <2>2. Counted \in SUBSET Tasks
    BY DEF Counted
  <2> QED BY <1>2, <2>1, <2>2, OneMore DEF Begin, CountKept
<1>3. ASSUME NEW t \in Tasks, Leave(t) PROVE CountKept'
  <2>1. t \in Counted /\ Counted' = Counted \ {t}
    BY <1>3, GotoType DEF Leave, Counted, Places
  <2>2. Counted \in SUBSET Tasks
    BY DEF Counted
  <2> QED BY <1>3, <2>1, <2>2, OneLess DEF Leave, CountKept
<1>4. ASSUME NEW t \in Tasks,
             \/ SetupFails(t) \/ Register(t) \/ PreparationFails(t) \/ StartJob(t)
             \/ Attach(t) \/ EndJob(t) \/ PostTaskScript(t) \/ Revoke(t)
      PROVE  CountKept'
  <2>1. t \in Counted /\ runningCount' = runningCount
    BY <1>4 DEF Counted, SetupFails, Register, PreparationFails, StartJob, Attach, EndJob,
                InJob, PostTaskScript, Revoke
  <2>2. PICK where \in {"setup", "prepared", "running", "attached", "script", "revoking",
                        "leaving"} : Goto(t, where)
    BY <1>4 DEF SetupFails, Register, PreparationFails, StartJob, Attach, EndJob,
                PostTaskScript, Revoke
  <2>3. where \in Places
    BY DEF Places
  <2> QED BY <2>1, <2>2, <2>3, CountedStays DEF CountKept
<1>5. ASSUME NEW t \in Tasks, Reported(t) PROVE CountKept'
  <2>1. Counted' = Counted
    BY <1>5, GotoType DEF Reported, Counted, Places
  <2> QED BY <1>5, <2>1 DEF Reported, CountKept
<1>6. CASE Crash
  <2>1. Counted' = {}
    BY <1>6 DEF Crash, Counted, Types, Places
  <2> QED BY <1>6, <2>1, FS_EmptySet DEF Crash, CountKept
<1>7. CASE \/ HandleLate \/ ServerRestarts \/ \E t \in Tasks : ContainerExpires(t)
           \/ OnIdle \/ SweepOne \/ SweepNext \/ Tick \/ Restart \/ UNCHANGED vars
  BY <1>1, <1>7 DEF HandleLate, ServerRestarts, ContainerExpires, OnIdle, SweepOne,
                    SweepNext, Tick, Restart, vars
<1> QED BY <1>2, <1>3, <1>4, <1>5, <1>6, <1>7 DEF Next

-----------------------------------------------------------------------------
(* Registrations.                                                          *)

\* A task whose place is not among those that hold a token, before and after,
\* or is among them before and after, leaves the holders as they were.
LEMMA HoldersStay ==
  ASSUME Types, NEW t \in Tasks, NEW where \in Places, Goto(t, where),
         where \in Revocable <=> pc[t] \in Revocable
  PROVE  \A tok \in Tokens : Holders(tok)' = Holders(tok)
BY GotoType DEF Holders

\* A task that takes hold of its token.
LEMMA HolderComes ==
  ASSUME Types, NEW t \in Tasks, pc[t] \notin Revocable, Goto(t, "prepared"),
         NEW tok \in Tokens
  PROVE  Cardinality(Holders(tok)') = Cardinality(Holders(tok)) + (IF TokenOf[t] = tok THEN 1 ELSE 0)
<1>1. pc'[t] = "prepared" /\ \A u \in Tasks \ {t} : pc'[u] = pc[u]
  BY GotoType DEF Places
<1>2. Holders(tok) \in SUBSET Tasks /\ t \notin Holders(tok)
  BY DEF Holders
<1>3. CASE TokenOf[t] = tok
  <2>1. Holders(tok)' = Holders(tok) \cup {t}
    BY <1>1, <1>3 DEF Holders, Revocable
  <2> QED BY <2>1, <1>2, <1>3, OneMore
<1>4. CASE TokenOf[t] # tok
  <2>1. Holders(tok)' = Holders(tok)
    BY <1>1, <1>4 DEF Holders
  <2> QED BY <2>1, <1>2, <1>4, TasksFinite
<1> QED BY <1>3, <1>4

\* A task that lets go of its token.
LEMMA HolderGoes ==
  ASSUME Types, NEW t \in Tasks, pc[t] \in Revocable, Goto(t, "leaving"),
         NEW tok \in Tokens
  PROVE  Cardinality(Holders(tok)') = Cardinality(Holders(tok)) - (IF TokenOf[t] = tok THEN 1 ELSE 0)
<1>1. pc'[t] = "leaving" /\ \A u \in Tasks \ {t} : pc'[u] = pc[u]
  BY GotoType DEF Places
<1>2. Holders(tok) \in SUBSET Tasks
  BY DEF Holders
<1>3. CASE TokenOf[t] = tok
  <2>1. Holders(tok)' = Holders(tok) \ {t} /\ t \in Holders(tok)
    BY <1>1, <1>3 DEF Holders, Revocable
  <2> QED BY <2>1, <1>2, <1>3, OneLess
<1>4. CASE TokenOf[t] # tok
  <2>1. Holders(tok)' = Holders(tok)
    BY <1>1, <1>4 DEF Holders
  <2> QED BY <2>1, <1>2, <1>4, TasksFinite
<1> QED BY <1>3, <1>4

\* Only a fault leaves a request on its way.
LEMMA NextLate == Types /\ NothingLate /\ [Next]_vars => NothingLate'
<1> SUFFICES ASSUME Types, NothingLate, [Next]_vars PROVE NothingLate'
  OBVIOUS
<1> USE DEF taskVars, credVars, hostVars, sweepVars
<1>1. mode' = mode
  BY DEF Next, HandleLate, ServerRestarts, Begin, SetupFails, Register, PreparationFails,
         StartJob, Attach, EndJob, PostTaskScript, Revoke, Leave, Reported,
         ContainerExpires, OnIdle, SweepOne, SweepNext, Tick, Crash, Restart, vars
<1>2. faults' = faults \/ faults' = faults + 1
  BY DEF Next, HandleLate, ServerRestarts, Begin, SetupFails, Register, PreparationFails,
         StartJob, Attach, EndJob, PostTaskScript, Revoke, Leave, Reported,
         ContainerExpires, OnIdle, SweepOne, SweepNext, Tick, Crash, Restart, vars,
         Post, Fault, NoFault
<1>3. late' = late \/ HandleLate \/ \E t \in Tasks : Register(t) \/ Revoke(t)
  BY DEF Next, ServerRestarts, Begin, SetupFails, PreparationFails,
         StartJob, Attach, EndJob, PostTaskScript, Leave, Reported,
         ContainerExpires, OnIdle, SweepOne, SweepNext, Tick, Crash, Restart, vars
<1>4. faults \in Nat
  BY TaskRunAssumption DEF Types
<1>5. CASE late' = late
  BY <1>1, <1>2, <1>4, <1>5 DEF NothingLate
<1>6. CASE HandleLate
  BY <1>1, <1>2, <1>4, <1>6 DEF NothingLate, HandleLate
<1>7. ASSUME NEW t \in Tasks, Register(t) \/ Revoke(t) PROVE NothingLate'
  <2>1. \E op \in {"register", "revoke"} : Post(op, t)
    BY <1>7 DEF Register, Revoke
  <2> QED BY <1>1, <1>4, <1>7, <2>1, PostType DEF NothingLate
<1> QED BY <1>3, <1>5, <1>6, <1>7
\* Registrations follow the tasks through every step.
LEMMA NextTokens ==
  Types /\ NothingLate /\ TokensKept /\ [Next]_vars => TokensKept'
<1> SUFFICES ASSUME Types, NothingLate, TokensKept, [Next]_vars, Faithful' PROVE
      \A tok \in Tokens : refs'[tok] = Cardinality(Holders(tok)')
  BY DEF TokensKept
<1> USE DEF taskVars, credVars, hostVars, sweepVars
<1>1. mode' = mode /\ (faults' = 0 => faults = 0)
  <2>1. mode' = mode
    BY DEF Next, HandleLate, ServerRestarts, Begin, SetupFails, Register, PreparationFails,
           StartJob, Attach, EndJob, PostTaskScript, Revoke, Leave, Reported,
           ContainerExpires, OnIdle, SweepOne, SweepNext, Tick, Crash, Restart, vars
  <2>2. faults' = faults \/ faults' = faults + 1
    BY DEF Next, HandleLate, ServerRestarts, Begin, SetupFails, Register, PreparationFails,
           StartJob, Attach, EndJob, PostTaskScript, Revoke, Leave, Reported,
           ContainerExpires, OnIdle, SweepOne, SweepNext, Tick, Crash, Restart, vars,
           Post, Fault, NoFault
  <2> QED BY <2>1, <2>2, TaskRunAssumption DEF Types
<1>2. Faithful /\ late = {} /\ \A tok \in Tokens : refs[tok] = Cardinality(Holders(tok))
  BY <1>1 DEF Faithful, NothingLate, TokensKept
<1>3. CASE pc' = pc /\ refs' = refs
  BY <1>2, <1>3 DEF Holders
<1>4. ASSUME NEW t \in Tasks, NEW where \in Places, Goto(t, where), refs' = refs,
             where \in Revocable <=> pc[t] \in Revocable
      PROVE  \A tok \in Tokens : refs'[tok] = Cardinality(Holders(tok)')
  BY <1>2, <1>4, HoldersStay
<1>5. ASSUME NEW t \in Tasks, Register(t)
      PROVE  \A tok \in Tokens : refs'[tok] = Cardinality(Holders(tok)')
  <2>1. faults' = faults
    BY <1>1, <1>2, <1>5, PostType DEF Register, Faithful
  <2>2. refs' = Plus(TokenOf[t])
    BY <2>1, <1>5, PostType DEF Register, Handle
  <2>3. \A tok \in Tokens :
           Cardinality(Holders(tok)') = Cardinality(Holders(tok)) + (IF TokenOf[t] = tok THEN 1 ELSE 0)
    BY <1>5, HolderComes DEF Register, Revocable
  <2> QED BY <1>2, <2>2, <2>3 DEF Plus, Types
<1>6. ASSUME NEW t \in Tasks, Revoke(t)
      PROVE  \A tok \in Tokens : refs'[tok] = Cardinality(Holders(tok)')
  <2>1. faults' = faults
    BY <1>1, <1>2, <1>6, PostType DEF Revoke, Faithful
  <2>2. refs' = Minus(TokenOf[t])
    BY <2>1, <1>6, PostType DEF Revoke, Handle
  <2>3. \A tok \in Tokens :
           Cardinality(Holders(tok)') = Cardinality(Holders(tok)) - (IF TokenOf[t] = tok THEN 1 ELSE 0)
    BY <1>6, HolderGoes DEF Revoke, Revocable
  <2>4. refs[TokenOf[t]] > 0
    <3>1. t \in Holders(TokenOf[t]) /\ Holders(TokenOf[t]) \in SUBSET Tasks
      BY <1>6 DEF Revoke, Revocable, Holders
    <3>2. Cardinality(Holders(TokenOf[t])) # 0 /\ Cardinality(Holders(TokenOf[t])) \in Nat
      BY <3>1, NoTask, TasksFinite
    <3>3. TokenOf[t] \in Tokens
      BY TaskRunAssumption
    <3> QED BY <1>2, <3>2, <3>3
  <2> QED BY <1>2, <2>2, <2>3, <2>4 DEF Minus, Types
<1>7. CASE Crash
  <2>1. mode = "embedded"
    BY <1>1, <1>7, TaskRunAssumption DEF Crash, Fault, Faithful, Types
  <2>2. \A tok \in Tokens : Holders(tok)' = {}
    BY <1>7 DEF Crash, Holders, Revocable, Types, Places
  <2> QED BY <1>7, <2>1, <2>2, FS_EmptySet DEF Crash
<1>8. CASE ServerRestarts
  BY <1>1, <1>8, TaskRunAssumption DEF ServerRestarts, Fault, Faithful, Types
<1>9. CASE HandleLate
  BY <1>2, <1>9 DEF HandleLate
<1>10. ASSUME NEW t \in Tasks,
              \/ Begin(t) \/ SetupFails(t) \/ PreparationFails(t) \/ StartJob(t) \/ Attach(t)
              \/ EndJob(t) \/ PostTaskScript(t) \/ Leave(t) \/ Reported(t)
       PROVE  \A tok \in Tokens : refs'[tok] = Cardinality(Holders(tok)')
  <2>1. refs' = refs
    BY <1>10 DEF Begin, SetupFails, PreparationFails, StartJob, Attach, EndJob,
                 PostTaskScript, Leave, Reported
  <2>2. \E where \in Places :
           Goto(t, where) /\ (where \in Revocable <=> pc[t] \in Revocable)
    BY <1>10 DEF Begin, SetupFails, PreparationFails, StartJob, Attach, EndJob,
                 PostTaskScript, Leave, Reported, Places, Revocable, InJob
  <2> QED BY <2>1, <2>2, <1>4
<1>11. CASE \/ \E t \in Tasks : ContainerExpires(t)
            \/ OnIdle \/ SweepOne \/ SweepNext \/ Tick \/ Restart \/ UNCHANGED vars
  BY <1>3, <1>11 DEF ContainerExpires, OnIdle, SweepOne, SweepNext, Tick, Restart, vars
<1> QED BY <1>5, <1>6, <1>7, <1>8, <1>9, <1>10, <1>11 DEF Next

-----------------------------------------------------------------------------
(* What jobs hold, and the sweep.                                          *)

\* When the runner counts no task, none is in its job or on its way there.
LEMMA IdleMeansIdle ==
  ASSUME Types, CountKept, runningCount = 0, NEW t \in Tasks
  PROVE  pc[t] \notin InJob /\ pc[t] \notin {"setup", "prepared"}
<1>1. Counted \in SUBSET Tasks
  BY DEF Counted
<1>2. Counted = {}
  BY <1>1, NoTask DEF CountKept
<1> QED BY <1>2 DEF Counted, InJob
\* A job keeps what it holds, and the sweep what it spares.
LEMMA NextJob ==
  Types /\ CountKept /\ JobHolds /\ SweepSpares /\ [Next]_vars => JobHolds' /\ SweepSpares'
<1> SUFFICES ASSUME Types, CountKept, JobHolds, SweepSpares, [Next]_vars
             PROVE  JobHolds' /\ SweepSpares'
  OBVIOUS
<1> USE DEF taskVars, credVars, hostVars, sweepVars
<1>1. CASE pc' = pc /\ age' = age /\ attached' = attached /\ sweep' = sweep
  BY <1>1 DEF JobHolds, SweepSpares
<1>2. ASSUME NEW t \in Tasks,
             \/ Begin(t) \/ SetupFails(t) \/ Register(t) \/ PreparationFails(t)
             \/ PostTaskScript(t) \/ Revoke(t) \/ Leave(t) \/ Reported(t)
      PROVE  JobHolds' /\ SweepSpares'
  <2>1. age' = age /\ attached' = attached /\ sweep' = sweep
    BY <1>2 DEF Begin, SetupFails, Register, PreparationFails, PostTaskScript, Revoke,
                Leave, Reported
  <2>2. PICK where \in Places :
           /\ Goto(t, where)
           /\ where \notin InJob
           /\ where \in Early => pc[t] \in Early
    BY <1>2 DEF Begin, SetupFails, Register, PreparationFails, PostTaskScript, Revoke,
                Leave, Reported, Places, InJob, Early
  <2>3. pc'[t] = where /\ \A u \in Tasks \ {t} : pc'[u] = pc[u]
    BY <2>2, GotoType
  <2>4. JobHolds'
    BY <2>1, <2>2, <2>3 DEF JobHolds, InJob
  <2>5. sweep.expired \subseteq Tasks
    BY DEF Types, SweepType
  <2>6. SweepSpares'
    BY <2>1, <2>2, <2>3, <2>5 DEF SweepSpares, InJob
  <2> QED BY <2>4, <2>6
<1>3. ASSUME NEW t \in Tasks, StartJob(t) PROVE JobHolds' /\ SweepSpares'
  <2>1. pc'[t] = "running" /\ \A u \in Tasks \ {t} : pc'[u] = pc[u]
    BY <1>3, GotoType DEF StartJob, Places
  <2>2. /\ \A k \in Kinds : age'[t][k] = 0
        /\ \A u \in Tasks \ {t} : age'[u] = age[u]
    BY <1>3 DEF StartJob, Types
  <2>3. attached' = attached /\ sweep' = sweep
    BY <1>3 DEF StartJob
  <2>4. JobHolds'
    BY <2>1, <2>2, <2>3, TaskRunAssumption DEF JobHolds, Early, InJob, Kinds, None
  <2>5. t \notin sweep.expired /\ sweep.expired \subseteq Tasks
    BY <1>3 DEF StartJob, SweepSpares, Early, Types, SweepType
  <2>6. SweepSpares'
    BY <2>1, <2>3, <2>5 DEF SweepSpares
  <2> QED BY <2>4, <2>6
<1>4. ASSUME NEW t \in Tasks, Attach(t) PROVE JobHolds' /\ SweepSpares'
  <2>1. pc'[t] = "attached" /\ \A u \in Tasks \ {t} : pc'[u] = pc[u]
    BY <1>4, GotoType DEF Attach, Places
  <2>2. age' = age /\ attached' = attached \cup {t} /\ sweep' = sweep /\ pc[t] = "running"
    BY <1>4 DEF Attach
  <2>3. JobHolds'
    BY <2>1, <2>2 DEF JobHolds, Early, InJob
  <2>4. t \notin sweep.expired /\ sweep.expired \subseteq Tasks
    BY <2>2 DEF SweepSpares, Types, SweepType
  <2>5. SweepSpares'
    BY <2>1, <2>2, <2>4 DEF SweepSpares
  <2> QED BY <2>3, <2>5
<1>5. ASSUME NEW t \in Tasks, EndJob(t) PROVE JobHolds' /\ SweepSpares'
  <2>1. pc'[t] = "script" /\ \A u \in Tasks \ {t} : pc'[u] = pc[u]
    BY <1>5, GotoType DEF EndJob, Places
  <2>2. /\ \A u \in Tasks \ {t} : age'[u] = age[u]
        /\ attached' = attached \ {t} /\ sweep' = sweep
    BY <1>5 DEF EndJob, Types
  <2>3. JobHolds'
    BY <2>1, <2>2 DEF JobHolds, Early, InJob
  <2>4. sweep.expired \subseteq Tasks
    BY DEF Types, SweepType
  <2>5. SweepSpares'
    BY <2>1, <2>2, <2>4 DEF SweepSpares, Early, InJob
  <2> QED BY <2>3, <2>5
<1>6. ASSUME NEW t \in Tasks, ContainerExpires(t) PROVE JobHolds' /\ SweepSpares'
  BY <1>6 DEF ContainerExpires, JobHolds, SweepSpares
<1>7. CASE OnIdle
  <2>1. JobHolds'
    BY <1>7 DEF OnIdle, JobHolds
  <2>2. ASSUME NEW t \in sweep'.expired PROVE pc'[t] \notin Early \cup InJob
    <3>1. t \in Tasks /\ age[t]["dir"] = CleanupAge
      BY <1>7, <2>2 DEF OnIdle, Pass, Expired
    <3>2. pc[t] \notin Early
      BY <3>1, TaskRunAssumption DEF JobHolds, Kinds, None
    <3>3. pc[t] \notin InJob
      BY <1>7, <3>1, IdleMeansIdle DEF OnIdle
    <3> QED BY <1>7, <3>2, <3>3 DEF OnIdle
  <2> QED BY <2>1, <2>2 DEF SweepSpares, InJob
<1>8. CASE SweepOne
  <2>1. PICK t \in sweep.todo :
          /\ sweep' = [sweep EXCEPT !.todo = @ \ {t}]
          /\ \/ /\ t \in sweep.expired /\ (sweep.kind = "dir" \/ t \notin attached)
                /\ age' = [age EXCEPT ![t][sweep.kind] = None]
             \/ age' = age
    BY <1>8 DEF SweepOne
  <2>2. /\ sweep'.kind = sweep.kind /\ sweep'.expired = sweep.expired
        /\ sweep.kind \in Kinds \cup {"off"} /\ t \in Tasks
    BY <2>1 DEF Types, SweepType
  <2>3. pc' = pc /\ attached' = attached
    BY <1>8 DEF SweepOne
  <2>4. CASE age' = age
    BY <2>2, <2>3, <2>4 DEF JobHolds, SweepSpares
  <2>5. CASE /\ t \in sweep.expired /\ (sweep.kind = "dir" \/ t \notin attached)
             /\ age' = [age EXCEPT ![t][sweep.kind] = None]
    <3>1. pc[t] \notin InJob
      BY <2>2, <2>5 DEF JobHolds, SweepSpares, Early, InJob
    <3>2. pc[t] \notin Early
      BY <2>5 DEF SweepSpares
    <3>3. \A u \in Tasks \ {t} : age'[u] = age[u]
      BY <2>2, <2>5 DEF Types
    <3>4. JobHolds'
      BY <2>3, <3>1, <3>2, <3>3 DEF JobHolds, InJob
    <3> QED BY <2>2, <2>3, <3>4 DEF SweepSpares
  <2> QED BY <2>1, <2>4, <2>5
<1>9. CASE SweepNext
  <2>1. pc' = pc /\ age' = age /\ attached' = attached
    BY <1>9 DEF SweepNext
  <2>2. JobHolds'
    BY <2>1 DEF JobHolds
  <2>3. CASE sweep' = Off
    BY <2>2, <2>3 DEF SweepSpares, Off
  <2>4. CASE sweep' = Pass("net")
    <3> SUFFICES ASSUME NEW t \in sweep'.expired PROVE pc'[t] \notin Early \cup {"running"}
      BY <2>2, <2>4 DEF SweepSpares, Pass
    <3>1. t \in Tasks /\ age[t]["net"] = CleanupAge
      BY <2>4 DEF Pass, Expired
    <3> QED BY <2>1, <3>1, TaskRunAssumption DEF JobHolds, Kinds, None
  <2> QED BY <1>9, <2>2, <2>3, <2>4 DEF SweepNext
<1>10. CASE Tick
  <2>1. pc' = pc /\ attached' = attached /\ sweep' = sweep
    BY <1>10 DEF Tick
  <2>2. \A t \in Tasks, k \in Kinds : age'[t][k] = Older(age[t][k], CleanupAge)
    BY <1>10 DEF Tick
  <2>3. \A t \in Tasks, k \in Kinds : age[t][k] \in {None} \cup (0..CleanupAge)
    BY DEF Types
  <2>4. \A t \in Tasks, k \in Kinds : age'[t][k] = None <=> age[t][k] = None
    BY <2>2, <2>3, TaskRunAssumption DEF Older, None
  <2>5. \A t \in Tasks : pc[t] = "running" => age'[t]["net"] < CleanupAge
    BY <1>10, <2>2, <2>3, TaskRunAssumption DEF Tick, StartsTakeLess, Older, None, Kinds
  <2>6. JobHolds'
    BY <2>1, <2>4, <2>5 DEF JobHolds
  <2> QED BY <2>1, <2>6 DEF SweepSpares
<1>11. CASE Crash
  <2>1. age' = age /\ sweep' = Off
    BY <1>11 DEF Crash
  <2>2. \A t \in Tasks : pc'[t] \in {"new", "over", "lost"} /\ (pc'[t] = "new" => pc[t] = "new")
    BY <1>11 DEF Crash, Types
  <2>3. JobHolds'
    BY <2>1, <2>2 DEF JobHolds, Early, InJob
  <2> QED BY <2>1, <2>3 DEF SweepSpares, Off
<1>12. CASE HandleLate \/ ServerRestarts \/ Restart \/ UNCHANGED vars
  BY <1>1, <1>12 DEF HandleLate, ServerRestarts, Restart, vars
<1> QED BY <1>2, <1>3, <1>4, <1>5, <1>6, <1>7, <1>8, <1>9, <1>10, <1>11, <1>12 DEF Next

-----------------------------------------------------------------------------
(* The theorems.                                                           *)

\* The invariant holds throughout.
LEMMA Inductive == Init /\ [][Next]_vars => []IInv
<1>1. IInv /\ [Next]_vars => IInv'
  BY NextTypes, NextCount, NextLate, NextTokens, NextJob DEF IInv
<1> QED BY InitIInv, <1>1, PTL

\* The invariant implies the types that the run checks.
LEMMA IInvTyped == IInv => TypeOK
<1> SUFFICES ASSUME IInv PROVE TypeOK
  OBVIOUS
<1>1. Types /\ Counted \in SUBSET Tasks
  BY DEF IInv, Counted
<1>2. runningCount \in 0..Cardinality(Tasks)
  BY <1>1, TasksFinite, FS_CardinalityType, TaskRunAssumption DEF IInv, CountKept
<1>3. /\ sweep.kind \in Kinds \cup {"off"}
      /\ sweep.todo \subseteq Tasks /\ sweep.expired \subseteq Tasks
  BY <1>1 DEF Types, SweepType
<1> QED BY <1>1, <1>2, <1>3 DEF TypeOK, Types, Places

\* Every variable keeps its type: no task ends twice for the running count, and
\* the registrations of a token are never fewer than none.
THEOREM Typed == Spec => []TypeOK
BY IInvTyped, Inductive, PTL DEF Spec

\* A token is accepted for exactly the tasks that hold it, however many share
\* it and in whatever order they come and go: with an embedded server through
\* every fault, with an external one until the first.
THEOREM TokensFollowTasks == Spec => []TokenFollowsTask
<1>1. IInv => TokenFollowsTask
  BY DEF IInv, TokensKept, Faithful, TokenFollowsTask
<1> QED BY <1>1, Inductive, PTL DEF Spec

\* The sweep of an idle runner never takes anything from a live job, although
\* the running count it has seen is out of date as soon as a task begins.
THEOREM LiveJobsAreLeftAlone == Spec => []LiveJobsLeftAlone
<1>1. IInv => LiveJobsLeftAlone
  BY DEF IInv, JobHolds, LiveJobsLeftAlone
<1> QED BY <1>1, Inductive, PTL DEF Spec
=============================================================================
