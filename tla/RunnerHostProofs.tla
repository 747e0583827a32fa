-------------------------- MODULE RunnerHostProofs --------------------------
(***************************************************************************)
(* Theorems about what the tasks of a runner share on its host: the        *)
(* directory of an action (ActionDir), for any number of jobs, commits,    *)
(* failures and deaths of the runner; the runner file (RunnerFile), for    *)
(* any processes, labels and troubles; and both beside the tasks.          *)
(***************************************************************************)
EXTENDS RunnerHost, TaskRunProofs

-----------------------------------------------------------------------------
(* The directory of an action.                                             *)

\* Where a job has the lock, and where it relies on a worktree it has prepared.
Critical == {"open", "download", "fetch", "checkout", "reset", "read", "pair", "original",
             "write", "copying", "revert"}
Prepared == {"toRead", "read", "marker", "toPatch", "pair", "original", "write", "copy",
             "copying"}

\* Who is in a section has the lock.
LockHeld == \A j \in Jobs : stage[j] \in Critical => owner = j

\* What the job in a section has found, which stays so until it leaves it.
Finds(j) ==
    /\ stage[j] = "download" => repo = Action!Empty
    /\ stage[j] \in {"fetch", "checkout"} => repo # Action!NoRepo
    /\ stage[j] = "reset" => ~tree.whole /\ repo \in Action!Versions
    /\ stage[j] \in {"original", "write"} =>
           ~script.patched /\ script.whole /\ script.ver \in Patchable
    /\ stage[j] = "write" => original = script.ver
Working == \A j \in Jobs : Finds(j)

\* A patched bundle has its original; the bundle of a whole worktree is of its
\* commit.
PairKept ==
    /\ script.patched => script.whole /\ script.ver \in Patchable /\ original = script.ver
    /\ tree.whole => script.ver = tree.ver

\* Once a job has prepared the worktree it is whole, except while another one
\* is at it.
StaysWhole ==
    failures = 0 => \A j \in Jobs : stage[j] \in Prepared =>
        /\ repo \in Action!Versions
        /\ (tree.whole /\ script.whole) \/ \E k \in Jobs : stage[k] = "reset"

ActionInv == Action!TypeOK /\ LockHeld /\ Working /\ PairKept /\ StaysWhole /\ Action!CopiesWhole

JobStages == {"prepare", "open", "download", "fetch", "checkout", "reset", "toRead",
           "read", "marker", "toPatch", "pair", "original", "write", "copy",
           "copying", "run", "stat", "toRevert", "revert", "passed", "failed"}

-----------------------------------------------------------------------------
(* Facts about its operators.                                              *)

\* A job that moves, moves alone.
LEMMA Moves ==
  ASSUME Action!TypeOK, NEW j \in Jobs, NEW where \in JobStages, Action!Goto(j, where)
  PROVE  /\ stage' \in [Jobs -> JobStages] /\ stage'[j] = where
         /\ \A k \in Jobs \ {j} : stage'[k] = stage[k]
BY DEF Action!TypeOK, Action!Goto, JobStages

\* The values of the bundle.
LEMMA Bundles ==
  /\ \A s \in Action!Scripts : \A v : s = Action!Patched(v) <=> s.ver = v /\ s.patched /\ s.whole
  /\ \A v \in 0..MaxVersion :
        /\ Action!Shipped(v) \in Action!Scripts /\ Action!Patched(v) \in Action!Scripts
        /\ Action!Shipped(v).ver = v /\ ~Action!Shipped(v).patched /\ Action!Shipped(v).whole
        /\ Action!Patched(v).ver = v /\ Action!Patched(v).patched /\ Action!Patched(v).whole
BY DEF Action!Scripts, Action!Shipped, Action!Patched

\* Nobody else is in a section.
LEMMA Alone ==
  ASSUME LockHeld, NEW j \in Jobs, stage[j] \in Critical
  PROVE  owner = j /\ \A k \in Jobs \ {j} : stage[k] \notin Critical
BY DEF LockHeld

\* A step that fails is counted.
LEMMA FailureCounted ==
  ASSUME Action!TypeOK
  PROVE  /\ Action!Fails => failures' \in 0..MaxFailures /\ failures' # 0
         /\ Action!Works => failures' = failures
BY HostAssumption DEF Action!TypeOK, Action!Fails, Action!Works

\* Nothing has been prepared at first.
LEMMA ActionInit == Action!Init => ActionInv
<1> SUFFICES ASSUME Action!Init PROVE ActionInv
  OBVIOUS
<1>1. Action!NotCopied \in [tree : Action!Trees, script : Action!Scripts]
  BY HostAssumption DEF Action!NotCopied, Action!Trees, Action!Scripts, Action!Shipped
<1>2. copied \in [Jobs -> [tree : Action!Trees, script : Action!Scripts]]
  BY <1>1 DEF Action!Init
<1>3. tree \in Action!Trees /\ script \in Action!Scripts
  BY HostAssumption DEF Action!Init, Action!Trees, Action!Scripts
<1>4. /\ upstream \in Action!Versions
      /\ repo \in {Action!NoRepo, Action!Empty} \cup Action!Versions
      /\ original \in {Action!Half, Action!Nothing} \cup Action!Versions
      /\ failures \in 0..MaxFailures /\ crashes \in 0..MaxCrashes
  BY HostAssumption DEF Action!Init, Action!Versions, Action!NoRepo, Action!Empty,
     Action!Nothing, Action!Half
<1>6. /\ sidecar \in BOOLEAN /\ marker \in BOOLEAN
      /\ owner \in Jobs \cup {Action!Free} /\ stage \in [Jobs -> JobStages]
  BY DEF Action!Init, JobStages
<1>7. Action!TypeOK
  BY <1>2, <1>3, <1>4, <1>6 DEF Action!TypeOK, JobStages
<1>5. LockHeld /\ Working /\ PairKept /\ StaysWhole /\ Action!CopiesWhole
  BY DEF Action!Init, LockHeld, Critical, Working, Finds, PairKept, StaysWhole, Prepared,
     Action!CopiesWhole
<1> QED BY <1>7, <1>5 DEF ActionInv
-----------------------------------------------------------------------------
(* What each kind of step of a job does to each part.                      *)

\* Steps that touch nothing but the job's place and the lock.
Passing(j) ==
    \/ Action!AcquireToClone(j) \/ Action!AcquireToRead(j) \/ Action!AcquireToPatch(j)
    \/ Action!AcquireToCopy(j) \/ Action!AcquireToRevert(j) \/ Action!LookForMarker(j)
    \/ Action!Run(j) \/ Action!LookForSidecar(j)

\* A step of a job keeps the types.
LEMMA StepTyped ==
  ASSUME ActionInv, NEW j \in Jobs, Action!Step(j)
  PROVE  Action!TypeOK'
<1> USE DEF ActionInv
<1>1. CASE Passing(j)
  <2>1. \E where \in JobStages : Action!Goto(j, where)
    BY <1>1 DEF Passing, Action!AcquireToClone, Action!AcquireToRead, Action!AcquireToPatch,
       Action!AcquireToCopy, Action!AcquireToRevert, Action!LookForMarker, Action!Run,
       Action!LookForSidecar, Action!Lock, JobStages
  <2>2. stage' \in [Jobs -> JobStages]
    BY <2>1, Moves
  <2>3. owner' \in Jobs \cup {Action!Free} /\ UNCHANGED <<Action!clone, Action!bundle, copied, Action!bounds>>
    BY <1>1 DEF Passing, Action!AcquireToClone, Action!AcquireToRead, Action!AcquireToPatch,
       Action!AcquireToCopy, Action!AcquireToRevert, Action!LookForMarker, Action!Run,
       Action!LookForSidecar, Action!Lock, Action!lock, Action!TypeOK
  <2> QED BY <2>2, <2>3 DEF Action!TypeOK, JobStages, Action!clone, Action!bundle,
             Action!bounds
<1>2. CASE Action!OpenClone(j)
  <2>1. stage' \in [Jobs -> JobStages]
    BY <1>2, Moves DEF Action!OpenClone, JobStages
  <2>2. failures' \in 0..MaxFailures
    BY <1>2, FailureCounted DEF Action!OpenClone, Action!TypeOK
  <2> QED BY <1>2, <2>1, <2>2 DEF Action!OpenClone, Action!TypeOK, JobStages, Action!bundle,
             Action!Unlock
<1>3. CASE Action!Download(j)
  <2>1. stage' \in [Jobs -> JobStages]
    BY <1>3, Moves DEF Action!Download, JobStages
  <2>2. tree' \in Action!Trees /\ script' \in Action!Scripts /\ repo' \in Action!Versions
    BY HostAssumption, <1>3, Bundles DEF Action!Download, Action!TypeOK, Action!Trees,
       Action!Versions
  <2> QED BY <1>3, <2>1, <2>2 DEF Action!Download, Action!TypeOK, JobStages, Action!bounds
<1>4. CASE Action!Fetch(j)
  <2>1. stage' \in [Jobs -> JobStages]
    BY <1>4, Moves DEF Action!Fetch, JobStages
  <2>2. failures' \in 0..MaxFailures
    BY <1>4, FailureCounted DEF Action!Fetch, Action!TypeOK
  <2> QED BY <1>4, <2>1, <2>2 DEF Action!Fetch, Action!TypeOK, JobStages, Action!bundle,
             Action!Unlock
<1>5. CASE Action!Checkout(j)
  <2>1. stage' \in [Jobs -> JobStages]
    BY <1>5, Moves DEF Action!Checkout, JobStages
  <2>2. tree' \in Action!Trees
    <3>1. repo # Action!NoRepo
      BY <1>5 DEF Action!Checkout, Working, Finds
    <3>2. repo # Action!Empty => repo \in 0..MaxVersion
      BY HostAssumption, <3>1 DEF Action!TypeOK, Action!Versions
    <3>3. repo # Action!Empty => [ver |-> repo, whole |-> FALSE] \in Action!Trees
      BY <3>2 DEF Action!Trees
    <3>4. tree \in Action!Trees
      BY DEF Action!TypeOK
    <3> QED BY <1>5, <3>3, <3>4 DEF Action!Checkout
  <2> QED BY <1>5, <2>1, <2>2 DEF Action!Checkout, Action!TypeOK, JobStages, Action!bundle,
             Action!bounds, Action!Unlock
<1>6. CASE Action!Reset(j)
  <2>1. stage' \in [Jobs -> JobStages]
    BY <1>6, Moves DEF Action!Reset, JobStages
  <2>2. failures' \in 0..MaxFailures
    BY <1>6, FailureCounted DEF Action!Reset, Action!TypeOK
  <2>3. tree' \in Action!Trees /\ script' \in Action!Scripts
    BY <1>6, Bundles DEF Action!Reset, Action!TypeOK, Action!Trees
  <2> QED BY <1>6, <2>1, <2>2, <2>3 DEF Action!Reset, Action!TypeOK, JobStages, Action!Unlock
<1>7. CASE Action!ReadAction(j)
  <2>1. stage' \in [Jobs -> JobStages]
    BY <1>7, Moves DEF Action!ReadAction, JobStages
  <2>2. failures' \in 0..MaxFailures
    BY <1>7, FailureCounted DEF Action!ReadAction, Action!TypeOK
  <2> QED BY <1>7, <2>1, <2>2 DEF Action!ReadAction, Action!TypeOK, JobStages, Action!clone,
             Action!bundle, Action!Unlock
<1>8. CASE Action!PairUp(j)
  <2>1. stage' \in [Jobs -> JobStages]
    BY <1>8, Moves DEF Action!PairUp, JobStages
  <2> QED BY <1>8, <2>1 DEF Action!PairUp, Action!TypeOK, JobStages, Action!clone,
             Action!bounds, Action!Unlock
<1>9. CASE Action!WriteOriginal(j)
  <2>1. stage' \in [Jobs -> JobStages]
    BY <1>9, Moves DEF Action!WriteOriginal, JobStages
  <2>2. failures' \in 0..MaxFailures
    BY <1>9, FailureCounted DEF Action!WriteOriginal, Action!TypeOK
  <2>3. original' \in {Action!Half, Action!Nothing} \cup Action!Versions
    BY HostAssumption, <1>9 DEF Action!WriteOriginal, Action!TypeOK, Action!Scripts,
       Action!Versions, Action!Nothing
  <2> QED BY <1>9, <2>1, <2>2, <2>3 DEF Action!WriteOriginal, Action!TypeOK, JobStages,
             Action!clone, Action!Unlock
<1>10. CASE Action!WriteBundle(j)
  <2>1. stage' \in [Jobs -> JobStages]
    BY <1>10, Moves DEF Action!WriteBundle, JobStages
  <2>2. failures' \in 0..MaxFailures
    BY <1>10, FailureCounted DEF Action!WriteBundle, Action!TypeOK
  <2>3. script.ver \in 0..MaxVersion /\ original = script.ver
    BY <1>10 DEF Action!WriteBundle, Working, Finds, Action!TypeOK, Action!Scripts
  <2>4. script' \in Action!Scripts
    BY <1>10, <2>3, Bundles DEF Action!WriteBundle
  <2> QED BY <1>10, <2>1, <2>2, <2>4 DEF Action!WriteBundle, Action!TypeOK, JobStages,
             Action!clone, Action!Unlock
<1>11. CASE Action!Copy(j)
  <2>1. stage' \in [Jobs -> JobStages]
    BY <1>11, Moves DEF Action!Copy, JobStages
  <2>2. copied' \in [Jobs -> [tree : Action!Trees, script : Action!Scripts]]
    BY <1>11 DEF Action!Copy, Action!TypeOK
  <2> QED BY <1>11, <2>1, <2>2 DEF Action!Copy, Action!TypeOK, JobStages, Action!clone,
             Action!bundle, Action!bounds, Action!Unlock
<1>12. CASE Action!Revert(j)
  <2>1. stage' \in [Jobs -> JobStages]
    BY <1>12, Moves DEF Action!Revert, JobStages
  <2>2. Action!IsPatchOf => original \in 0..MaxVersion
    BY Bundles DEF Action!IsPatchOf, Action!TypeOK, Action!Scripts
  <2>3. script' \in Action!Scripts
    BY <1>12, <2>2, Bundles DEF Action!Revert, Action!TypeOK
  <2> QED BY <1>12, <2>1, <2>3 DEF Action!Revert, Action!TypeOK, JobStages, Action!clone,
             Action!bounds, Action!Unlock
<1> QED
  BY <1>1, <1>2, <1>3, <1>4, <1>5, <1>6, <1>7, <1>8, <1>9, <1>10, <1>11, <1>12
  DEF Action!Step, Passing

\* Others stay where they are.
LEMMA OthersStay ==
  ASSUME Action!TypeOK, NEW j \in Jobs, Action!Step(j)
  PROVE  \A k \in Jobs \ {j} : stage'[k] = stage[k]
<1>1. \E where \in JobStages : Action!Goto(j, where)
  BY DEF Action!Step, Action!AcquireToClone, Action!AcquireToRead, Action!AcquireToPatch,
     Action!AcquireToCopy, Action!AcquireToRevert, Action!Lock, Action!OpenClone,
     Action!Download, Action!Fetch, Action!Checkout, Action!Reset, Action!ReadAction,
     Action!LookForMarker, Action!PairUp, Action!WriteOriginal, Action!WriteBundle,
     Action!Copy, Action!Run, Action!LookForSidecar, Action!Revert, JobStages
<1> QED BY <1>1, Moves

\* The lock is given back with the last step of a section.
LEMMA StepLock ==
  ASSUME ActionInv, NEW j \in Jobs, Action!Step(j)
  PROVE  LockHeld'
<1> USE DEF ActionInv
<1>1. \A k \in Jobs \ {j} : stage'[k] = stage[k]
  BY OthersStay
<1>2. CASE Action!AcquireToClone(j) \/ Action!AcquireToRead(j) \/ Action!AcquireToPatch(j) \/ Action!AcquireToCopy(j)
           \/ Action!AcquireToRevert(j)
  <2>1. owner = Action!Free /\ owner' = j
    BY <1>2 DEF Action!AcquireToClone, Action!AcquireToRead, Action!AcquireToPatch,
       Action!AcquireToCopy, Action!AcquireToRevert, Action!Lock
  <2> QED BY HostAssumption, <1>1, <2>1 DEF LockHeld
<1>3. CASE Action!LookForMarker(j) \/ Action!Run(j) \/ Action!LookForSidecar(j)
  <2>1. stage'[j] \notin Critical /\ owner' = owner
    BY <1>3, Moves DEF Action!LookForMarker, Action!Run, Action!LookForSidecar, Action!lock,
       JobStages, Critical
  <2> QED BY <1>1, <2>1 DEF LockHeld
<1>4. CASE Action!OpenClone(j) \/ Action!Download(j) \/ Action!Fetch(j) \/ Action!Checkout(j) \/ Action!Reset(j)
           \/ Action!ReadAction(j)
  <2>1. stage[j] \in Critical
    BY <1>4 DEF Action!OpenClone, Action!Download, Action!Fetch, Action!Checkout,
       Action!Reset, Action!ReadAction, Critical
  <2>2. owner' = owner \/ stage'[j] \notin Critical
    BY <1>4, Moves DEF Action!OpenClone, Action!Download, Action!Fetch, Action!Checkout,
       Action!Reset, Action!ReadAction, JobStages, Critical
  <2> QED BY <1>1, <2>1, <2>2, Alone DEF LockHeld
<1>5. CASE Action!PairUp(j) \/ Action!WriteOriginal(j) \/ Action!WriteBundle(j) \/ Action!Copy(j) \/ Action!Revert(j)
  <2>1. stage[j] \in Critical
    BY <1>5 DEF Action!PairUp, Action!WriteOriginal, Action!WriteBundle, Action!Copy,
       Action!Revert, Critical
  <2>2. owner' = owner \/ stage'[j] \notin Critical
    BY <1>5, Moves DEF Action!PairUp, Action!WriteOriginal, Action!WriteBundle, Action!Copy,
       Action!Revert, JobStages, Critical
  <2> QED BY <1>1, <2>1, <2>2, Alone DEF LockHeld
<1> QED BY <1>2, <1>3, <1>4, <1>5 DEF Action!Step

\* What is on the disk changes only under the job that has the lock.
LEMMA StepWorking ==
  ASSUME ActionInv, NEW j \in Jobs, Action!Step(j)
  PROVE  Working'
<1> USE DEF ActionInv
<1>1. \A k \in Jobs \ {j} : stage'[k] = stage[k]
  BY OthersStay
<1>2. CASE Passing(j)
  <2>1. stage'[j] \notin {"download", "fetch", "checkout", "reset", "original", "write"}
    BY <1>2, Moves DEF Passing, Action!AcquireToClone, Action!AcquireToRead,
       Action!AcquireToPatch, Action!AcquireToCopy, Action!AcquireToRevert,
       Action!LookForMarker, Action!Run, Action!LookForSidecar, Action!Lock, JobStages
  <2>2. UNCHANGED <<repo, tree, script, original>>
    BY <1>2 DEF Passing, Action!AcquireToClone, Action!AcquireToRead, Action!AcquireToPatch,
       Action!AcquireToCopy, Action!AcquireToRevert, Action!LookForMarker, Action!Run,
       Action!LookForSidecar, Action!Lock, Action!clone, Action!bundle
  <2> QED BY <1>1, <2>1, <2>2 DEF Working, Finds
<1>3. CASE ~Passing(j)
  <2>1. stage[j] \in Critical
    BY <1>3 DEF Passing, Action!Step, Action!OpenClone, Action!Download, Action!Fetch,
       Action!Checkout, Action!Reset, Action!ReadAction, Action!PairUp, Action!WriteOriginal,
       Action!WriteBundle, Action!Copy, Action!Revert, Critical
  <2>2. \A k \in Jobs \ {j} : stage'[k] \notin Critical
    BY <1>1, <2>1, Alone
  <2>3. Finds(j)
    BY DEF Working
  <2> SUFFICES Finds(j)'
    BY <2>2 DEF Working, Finds, Critical
  <2>4. CASE Action!OpenClone(j)
    <3>1. \/ stage'[j] = "fetch" /\ repo # Action!NoRepo /\ repo' = repo
          \/ stage'[j] = "download" /\ repo' = Action!Empty
          \/ stage'[j] = "failed"
      BY <2>4, Moves DEF Action!OpenClone, JobStages
    <3> QED BY <3>1 DEF Finds
  <2>5. CASE Action!Download(j)
    <3>1. stage'[j] = "fetch" /\ repo' = upstream
      BY <2>5, Moves DEF Action!Download, JobStages
    <3>2. repo' # Action!NoRepo
      BY HostAssumption, <3>1 DEF Action!TypeOK, Action!Versions, Action!NoRepo
    <3> QED BY <3>1, <3>2 DEF Finds
  <2>6. CASE Action!Fetch(j)
    <3>1. stage'[j] \in {"checkout", "failed"} /\ repo' \in {repo, upstream}
      BY <2>6, Moves DEF Action!Fetch, JobStages
    <3>2. repo # Action!NoRepo
      BY <2>3, <2>6 DEF Action!Fetch, Finds
    <3>3. upstream # Action!NoRepo
      BY HostAssumption DEF Action!TypeOK, Action!Versions, Action!NoRepo
    <3> QED BY <3>1, <3>2, <3>3 DEF Finds
  <2>7. CASE Action!Checkout(j)
    <3>1. \/ stage'[j] = "failed"
          \/ stage'[j] = "reset" /\ repo # Action!Empty /\ repo' = repo /\ ~tree'.whole
      BY <2>7, Moves DEF Action!Checkout, JobStages
    <3>2. repo # Action!Empty => repo \in Action!Versions
      BY <2>3, <2>7 DEF Action!Checkout, Finds, Action!TypeOK
    <3> QED BY <3>1, <3>2 DEF Finds
  <2>8. CASE Action!Reset(j) \/ Action!ReadAction(j) \/ Action!Copy(j) \/ Action!Revert(j) \/ Action!WriteBundle(j)
    <3>1. stage'[j] \in {"toRead", "marker", "failed", "run", "copy"}
      BY <2>8, Moves DEF Action!Reset, Action!ReadAction, Action!Copy, Action!Revert,
         Action!WriteBundle, JobStages
    <3> QED BY <3>1 DEF Finds
  <2>9. CASE Action!PairUp(j)
    <3>1. \/ stage'[j] = "copy"
          \/ stage'[j] = "original" /\ script.whole /\ ~script.patched
             /\ script.ver \in Patchable /\ script' = script
      BY <2>9, Moves DEF Action!PairUp, JobStages
    <3> QED BY <3>1 DEF Finds
  <2>10. CASE Action!WriteOriginal(j)
    <3>1. \/ stage'[j] = "copy"
          \/ stage'[j] = "write" /\ original' = script.ver /\ script' = script
      BY <2>10, Moves DEF Action!WriteOriginal, JobStages
    <3>2. ~script.patched /\ script.whole /\ script.ver \in Patchable
      BY <2>3, <2>10 DEF Action!WriteOriginal, Finds
    <3> QED BY <3>1, <3>2 DEF Finds
  <2> QED BY <1>3, <2>4, <2>5, <2>6, <2>7, <2>8, <2>9, <2>10 DEF Passing, Action!Step
<1> QED BY <1>2, <1>3

\* The bundle and its original are changed together, or lose each other.
LEMMA StepPairs ==
  ASSUME ActionInv, NEW j \in Jobs, Action!Step(j)
  PROVE  PairKept'
<1> USE DEF ActionInv
<1>1. Finds(j)
  BY DEF Working
<1>2. CASE Passing(j) \/ Action!OpenClone(j) \/ Action!Fetch(j) \/ Action!ReadAction(j) \/ Action!Copy(j)
  <2>1. UNCHANGED <<tree, script, original>>
    BY <1>2 DEF Passing, Action!AcquireToClone, Action!AcquireToRead, Action!AcquireToPatch,
       Action!AcquireToCopy, Action!AcquireToRevert, Action!LookForMarker, Action!Run,
       Action!LookForSidecar, Action!Lock, Action!OpenClone, Action!Fetch, Action!ReadAction,
       Action!Copy, Action!clone, Action!bundle
  <2> QED BY <2>1 DEF PairKept
<1>3. CASE Action!Download(j)
  BY <1>3 DEF Action!Download, PairKept, Action!Shipped
<1>4. CASE Action!Checkout(j)
  BY <1>4 DEF Action!Checkout, PairKept, Action!bundle
<1>5. CASE Action!Reset(j)
  <2>1. ~tree.whole /\ tree \in Action!Trees
    BY <1>1, <1>5 DEF Action!Reset, Finds, Action!TypeOK
  <2>2. CASE Action!Works
    BY <1>5, <2>1, <2>2, Bundles DEF Action!Reset, PairKept, Action!Trees, Action!Fails,
       Action!Works, Action!Shipped
  <2>3. CASE tree' = tree /\ script' \in {script, Action!Shipped(tree.ver)}
    BY <1>5, <2>1, <2>3 DEF Action!Reset, PairKept, Action!Shipped
  <2> QED BY <1>5, <2>2, <2>3 DEF Action!Reset
<1>6. CASE Action!PairUp(j)
  <2>1. script.patched => Action!IsPatchOf
    BY Bundles DEF PairKept, Action!IsPatchOf, Action!TypeOK
  <2> QED BY <1>6, <2>1 DEF Action!PairUp, PairKept, Action!clone
<1>7. CASE Action!WriteOriginal(j)
  BY <1>1, <1>7 DEF Action!WriteOriginal, PairKept, Finds, Action!clone
<1>8. CASE Action!WriteBundle(j)
  BY <1>1, <1>8 DEF Action!WriteBundle, PairKept, Finds, Action!clone, Action!Patched,
     Action!Shipped
<1>9. CASE Action!Revert(j)
  BY <1>9 DEF Action!Revert, PairKept, Action!IsPatchOf, Action!clone, Action!Patched,
     Action!Shipped
<1> QED
  BY <1>2, <1>3, <1>4, <1>5, <1>6, <1>7, <1>8, <1>9 DEF Action!Step, Passing

\* Without a failure so far there was none before, and the step is none.
LEMMA NoFailure ==
  ASSUME Action!TypeOK, NEW j \in Jobs, Action!Step(j), failures' = 0
  PROVE  failures = 0 /\ ~Action!Fails
<1>1. ~Action!Fails
  BY FailureCounted
<1>2. Action!Works \/ Action!Fails \/ failures' = failures
  BY DEF Action!Step, Action!AcquireToClone, Action!AcquireToRead, Action!AcquireToPatch,
     Action!AcquireToCopy, Action!AcquireToRevert, Action!Lock, Action!OpenClone,
     Action!Download, Action!Fetch, Action!Checkout, Action!Reset, Action!ReadAction,
     Action!LookForMarker, Action!PairUp, Action!WriteOriginal, Action!WriteBundle,
     Action!Copy, Action!Run, Action!LookForSidecar, Action!Revert, Action!Works,
     Action!bounds
<1> QED BY <1>1, <1>2, FailureCounted

\* A worktree is replaced only by a job that leaves it whole, or half-made and
\* locked.
LEMMA StepWhole ==
  ASSUME ActionInv, NEW j \in Jobs, Action!Step(j)
  PROVE  StaysWhole'
<1> USE DEF ActionInv
<1> SUFFICES ASSUME failures' = 0, NEW i \in Jobs, stage'[i] \in Prepared
             PROVE  /\ repo' \in Action!Versions
                    /\ \/ tree'.whole /\ script'.whole
                       \/ \E k \in Jobs : stage'[k] = "reset"
  BY DEF StaysWhole
<1>1. \A k \in Jobs \ {j} : stage'[k] = stage[k]
  BY OthersStay
<1>2. failures = 0 /\ ~Action!Fails
  BY NoFailure
<1>3. ASSUME stage[i] \in Prepared
      PROVE  repo \in Action!Versions
             /\ ((tree.whole /\ script.whole) \/ \E k \in Jobs : stage[k] = "reset")
  BY <1>2, <1>3 DEF StaysWhole
<1>4. Action!NoRepo \notin Action!Versions /\ Action!Empty \notin Action!Versions
  BY DEF Action!NoRepo, Action!Empty, Action!Versions
<1>5. Finds(j)
  BY DEF Working
<1>6. CASE Action!OpenClone(j) \/ Action!Download(j) \/ Action!Fetch(j)
  <2>1. stage'[j] \in {"fetch", "download", "failed", "checkout"} /\ stage[j] # "reset"
    BY <1>6, Moves DEF Action!OpenClone, Action!Download, Action!Fetch, JobStages
  <2>2. stage[i] \in Prepared
    BY <1>1, <2>1 DEF Prepared
  <2>3. ~Action!Download(j)
    BY <1>3, <1>4, <1>5, <2>2 DEF Action!Download, Finds
  <2>4. tree' = tree /\ script' = script
    BY <1>6, <2>3 DEF Action!OpenClone, Action!Fetch, Action!bundle
  <2>5. repo' \in Action!Versions
    BY <1>3, <1>4, <1>6, <2>2, <2>3 DEF Action!OpenClone, Action!Fetch, Action!TypeOK
  <2> QED BY <1>1, <1>3, <2>1, <2>2, <2>4, <2>5
<1>7. CASE Action!Checkout(j)
  <2>1. stage'[j] \in {"reset", "failed"} /\ (stage'[j] = "failed" => repo = Action!Empty)
    BY <1>7, Moves DEF Action!Checkout, JobStages
  <2>2. stage[i] \in Prepared
    BY <1>1, <2>1 DEF Prepared
  <2> QED BY <1>3, <1>4, <1>7, <2>1, <2>2 DEF Action!Checkout
<1>8. CASE Action!Reset(j)
  <2>1. repo' \in Action!Versions /\ tree \in Action!Trees
    BY <1>5, <1>8 DEF Action!Reset, Finds, Action!TypeOK
  <2> QED BY <1>2, <1>8, <2>1 DEF Action!Reset, Action!Trees, Action!Shipped
<1>9. CASE Passing(j) \/ Action!ReadAction(j) \/ Action!PairUp(j) \/ Action!WriteOriginal(j) \/ Action!WriteBundle(j)
           \/ Action!Copy(j) \/ Action!Revert(j)
  <2>1. stage[j] # "reset" /\ (stage'[j] \in Prepared => stage[j] \in Prepared)
    BY <1>9, Moves DEF Passing, Action!AcquireToClone, Action!AcquireToRead,
       Action!AcquireToPatch, Action!AcquireToCopy, Action!AcquireToRevert, Action!Lock,
       Action!LookForMarker, Action!Run, Action!LookForSidecar, Action!ReadAction,
       Action!PairUp, Action!WriteOriginal, Action!WriteBundle, Action!Copy, Action!Revert,
       JobStages, Prepared
  <2>2. repo' = repo /\ tree' = tree /\ (script' = script \/ script'.whole)
    BY <1>9 DEF Passing, Action!AcquireToClone, Action!AcquireToRead, Action!AcquireToPatch,
       Action!AcquireToCopy, Action!AcquireToRevert, Action!Lock, Action!LookForMarker,
       Action!Run, Action!LookForSidecar, Action!ReadAction, Action!PairUp,
       Action!WriteOriginal, Action!WriteBundle, Action!Copy, Action!Revert, Action!clone,
       Action!bundle, Action!Patched, Action!Shipped
  <2>3. stage[i] \in Prepared
    BY <1>1, <2>1
  <2> QED BY <1>1, <1>3, <2>1, <2>2, <2>3
<1> QED BY <1>6, <1>7, <1>8, <1>9 DEF Action!Step, Passing

\* What is copied has been prepared, and nobody is at it.
LEMMA StepCopies ==
  ASSUME ActionInv, NEW j \in Jobs, Action!Step(j)
  PROVE  Action!CopiesWhole'
<1> USE DEF ActionInv
<1> SUFFICES ASSUME failures' = 0 PROVE Action!CopiesWhole'
  BY DEF Action!CopiesWhole
<1>1. failures = 0
  BY NoFailure
<1>2. CASE Action!Copy(j)
  <2>1. stage[j] = "copying" /\ copied' = [copied EXCEPT ![j] = [tree |-> tree, script |-> script]]
    BY <1>2 DEF Action!Copy
  <2>2. \A k \in Jobs : stage[k] # "reset"
    BY <2>1, Alone DEF Critical
  <2>3. tree.whole /\ script.whole /\ script.ver = tree.ver
    BY <1>1, <2>1, <2>2 DEF StaysWhole, Prepared, PairKept
  <2> QED BY <1>1, <2>1, <2>3 DEF Action!CopiesWhole, Action!TypeOK
<1>3. CASE ~Action!Copy(j)
  <2>1. copied' = copied
    BY <1>3 DEF Action!Step, Action!AcquireToClone, Action!AcquireToRead,
       Action!AcquireToPatch, Action!AcquireToCopy, Action!AcquireToRevert, Action!Lock,
       Action!OpenClone, Action!Download, Action!Fetch, Action!Checkout, Action!Reset,
       Action!ReadAction, Action!LookForMarker, Action!PairUp, Action!WriteOriginal,
       Action!WriteBundle, Action!Run, Action!LookForSidecar, Action!Revert
  <2> QED BY <1>1, <2>1 DEF Action!CopiesWhole
<1> QED BY <1>2, <1>3

-----------------------------------------------------------------------------
(* The surroundings of the directory.                                      *)

\* A push is seen by nobody until the next fetch.
LEMMA PushKeeps == ASSUME ActionInv, Action!Push PROVE ActionInv'
<1>1. UNCHANGED <<repo, tree, script, original, sidecar, marker, owner, stage, copied,
                  failures, crashes>>
  BY DEF Action!Push, Action!bundle, Action!lock, Action!bounds
<1>2. upstream' \in Action!Versions
  BY HostAssumption DEF Action!Push, ActionInv, Action!TypeOK, Action!Versions
<1> QED
  BY <1>1, <1>2 DEF ActionInv, Action!TypeOK, LockHeld, Working, Finds, PairKept, StaysWhole,
     Action!CopiesWhole

\* After a death of the runner everyone begins anew; what was cut off had no
\* patch yet.
LEMMA CrashKeeps == ASSUME ActionInv, Action!Crash PROVE ActionInv'
<1> USE DEF ActionInv
<1>1. stage' \in [Jobs -> JobStages] /\ \A j \in Jobs : stage'[j] \in {"passed", "failed", "prepare"}
  BY DEF Action!Crash, JobStages
<1>2. UNCHANGED <<upstream, repo, tree, marker, failures>>
  BY DEF Action!Crash, Action!clone
<1>3. script' \in Action!Scripts
  BY DEF Action!Crash, Action!TypeOK, Action!Scripts
<1>4. Action!NotCopied \in [tree : Action!Trees, script : Action!Scripts]
  BY HostAssumption DEF Action!NotCopied, Action!Trees, Action!Scripts, Action!Shipped
<1>5. copied' = [j \in Jobs |-> Action!NotCopied]
  BY DEF Action!Crash
<1>6. copied' \in [Jobs -> [tree : Action!Trees, script : Action!Scripts]]
  BY <1>4, <1>5
<1>7. original' \in {Action!Half, Action!Nothing} \cup Action!Versions
  BY DEF Action!Crash, Action!TypeOK
<1>8. crashes' \in 0..MaxCrashes /\ owner' = Action!Free /\ sidecar' \in BOOLEAN
  BY HostAssumption DEF Action!Crash, Action!TypeOK
<1>9. Action!TypeOK'
  BY <1>1, <1>2, <1>3, <1>6, <1>7, <1>8 DEF Action!TypeOK, JobStages
<1>10. LockHeld' /\ Working' /\ StaysWhole'
  BY <1>1 DEF LockHeld, Working, Finds, StaysWhole, Critical, Prepared
<1>11. Action!CopiesWhole'
  BY <1>5 DEF Action!CopiesWhole
<1>12. script.patched => Action!Writing("original") = {} /\ Action!Writing("write") = {}
  BY DEF Action!Writing, Working, Finds
<1>13. PairKept'
  <2>1. CASE script.patched
    BY <1>2, <1>12, <2>1 DEF Action!Crash, PairKept
  <2>2. CASE ~script.patched
    BY <1>2, <2>2 DEF Action!Crash, PairKept, Action!TypeOK, Action!Scripts
  <2> QED BY <2>1, <2>2
<1> QED BY <1>9, <1>10, <1>11, <1>13

-----------------------------------------------------------------------------
(* The theorems about the directory.                                       *)

\* The invariant holds throughout.
LEMMA ActionInductive == Action!Init /\ [][Action!Next]_(Action!vars) => []ActionInv
<1>1. Action!Init => ActionInv
  BY ActionInit
<1>2. ActionInv /\ [Action!Next]_(Action!vars) => ActionInv'
  <2>1. ASSUME ActionInv, NEW j \in Jobs, Action!Step(j) PROVE ActionInv'
    BY <2>1, StepTyped, StepLock, StepWorking, StepPairs, StepWhole, StepCopies DEF ActionInv
  <2>2. ASSUME ActionInv, UNCHANGED Action!vars PROVE ActionInv'
    BY <2>2 DEF ActionInv, Action!TypeOK, LockHeld, Working, Finds, PairKept, StaysWhole,
       Action!CopiesWhole, Action!vars
  <2> QED BY <2>1, <2>2, PushKeeps, CrashKeeps DEF Action!Next
<1> QED BY <1>1, <1>2, PTL

\* However many jobs prepare, patch, copy and revert one action while its ref
\* moves and the runner dies, each copies one whole commit, as long as no fetch,
\* checkout or write fails (AcquireCloneLock).
THEOREM CopiesAreWhole == Action!Spec => []Action!CopiesWhole
<1>1. ActionInv => Action!CopiesWhole
  BY DEF ActionInv
<1> QED BY <1>1, ActionInductive, PTL DEF Action!Spec

\* A patched bundle never loses its original, and no original is restored over
\* another commit, whatever fails (patchBundle, revertToolkit).
THEOREM OriginalsAreKept == Action!Spec => []Action!OriginalRestores
<1>1. ActionInv => Action!OriginalRestores
  BY DEF ActionInv, PairKept, Action!OriginalRestores, Action!IsPatchOf, Action!Patched
<1> QED BY <1>1, ActionInductive, PTL DEF Action!Spec

-----------------------------------------------------------------------------
(* The runner file.                                                        *)

ProcStages == {"idle", "lock", "ask", "truncate", "encode", "labels", "declare", "run", "drain"}

\* What a process does with the lock, or, without a lock file, as if it had it.
Locked == {"ask", "truncate", "encode", "labels", "declare", "run", "drain"}

Registration == [id : -1..MaxIds, labels : LabelSets \cup {Unset}]
Process == [cmd : {"none", "register", "daemon"}, at : ProcStages,
            reg : [id : 0..MaxIds, labels : LabelSets \cup {Unset}], overtaken : BOOLEAN]

FileTypes ==
    /\ guarded \in BOOLEAN
    /\ file \in Registration
    /\ lockedBy \in Procs \cup {Unset}
    /\ proc \in [Procs -> Process]
    /\ ids \in 0..MaxIds
    /\ declared \in [1..MaxIds -> LabelSets \cup {Unset}]
    /\ troubles \in 0..MaxFailures

\* With a lock file, what is done with the lock is done by its holder.
HolderLocks == guarded => \A p \in Procs : proc[p].at \in Locked => lockedBy = p

\* A daemon that was not overtaken has in memory what the file holds; and the
\* server knows its labels once it has declared them.
InMemory ==
    guarded => \A p \in Procs : proc[p].cmd = "daemon" /\ ~proc[p].overtaken =>
        /\ proc[p].at \in {"labels", "declare", "run", "drain"} => file = proc[p].reg
        /\ proc[p].at \in {"run", "drain"} => declared[file.id] = file.labels

\* Only a daemon serves, and it has an identity.
Serving ==
    \A p \in Procs :
        /\ proc[p].at \in {"labels", "declare", "run", "drain"} => proc[p].cmd = "daemon"
        /\ proc[p].at = "ask" => proc[p].cmd = "register"
        /\ proc[p].at \in {"truncate", "encode"} => proc[p].cmd # "none"
        /\ proc[p].cmd = "daemon" => proc[p].reg.id > 0

FileInv == FileTypes /\ HolderLocks /\ InMemory /\ Serving

\* What a process does by itself.
ProcStep(p) ==
    \/ File!RegisterBegins(p) \/ File!RegisterLocks(p) \/ File!Ask(p)
    \/ File!Truncate(p) \/ File!Encode(p)
    \/ File!Load(p) \/ File!DaemonLocks(p) \/ File!Prepare(p) \/ File!Declare(p) \/ File!Stop(p) \/ File!Drained(p)
    \/ File!Kill(p)

-----------------------------------------------------------------------------
(* The types of the file and of the processes.                             *)

\* No process runs at first.
LEMMA FileInit == File!Init => FileInv
<1> SUFFICES ASSUME File!Init PROVE FileInv
  OBVIOUS
<1>1. \A p \in Procs : proc[p] = File!NoProc
  BY DEF File!Init
<1>2. File!NoProc \in Process
  BY HostAssumption DEF File!NoProc, File!Absent, Process, ProcStages
<1>3. proc \in [Procs -> Process]
  BY <1>2 DEF File!Init
<1>4. file \in Registration
  BY HostAssumption DEF File!Init, File!Absent, Registration
<1>5. FileTypes
  BY HostAssumption, <1>3, <1>4 DEF File!Init, FileTypes
<1>6. HolderLocks /\ InMemory /\ Serving
  BY <1>1 DEF HolderLocks, InMemory, Serving, Locked, File!NoProc
<1> QED BY <1>5, <1>6 DEF FileInv

\* A trouble is counted.
LEMMA TroubleCounted ==
  ASSUME FileTypes, File!Trouble
  PROVE  troubles' \in 0..MaxFailures
BY HostAssumption DEF FileTypes, File!Trouble

\* A process that moves keeps all but its place.
LEMMA ProcMoves ==
  ASSUME FileTypes, NEW p \in Procs, NEW at \in ProcStages, File!Goto(p, at)
  PROVE  /\ proc' \in [Procs -> Process]
         /\ proc'[p].at = at /\ proc'[p].cmd = proc[p].cmd /\ proc'[p].reg = proc[p].reg
         /\ proc'[p].overtaken = proc[p].overtaken
         /\ \A q \in Procs \ {p} : proc'[q] = proc[q]
<1>1. proc' = [proc EXCEPT ![p] = [proc[p] EXCEPT !.at = at]]
  BY DEF FileTypes, File!Goto, Process
<1>2. proc[p] \in Process
  BY DEF FileTypes
<1> DEFINE next == [proc[p] EXCEPT !.at = at]
<1>3. next \in Process /\ next.at = at /\ next.cmd = proc[p].cmd /\ next.reg = proc[p].reg
  BY <1>2 DEF Process
<1>4. next.overtaken = proc[p].overtaken
  BY <1>2, Zenon DEF Process
<1> HIDE DEF next
<1>5. proc' \in [Procs -> Process] /\ proc'[p] = next /\ \A q \in Procs \ {p} : proc'[q] = proc[q]
  BY <1>1, <1>3 DEF FileTypes, next
<1> QED BY <1>3, <1>4, <1>5

\* A process that ends leaves its slot and its lock.
LEMMA ProcExits ==
  ASSUME FileTypes, NEW p \in Procs, File!Exit(p)
  PROVE  /\ proc' \in [Procs -> Process]
         /\ lockedBy' \in Procs \cup {Unset}
         /\ proc'[p] = File!NoProc
         /\ \A q \in Procs \ {p} : proc'[q] = proc[q] /\ (lockedBy = q => lockedBy' = q)
<1>1. File!NoProc \in Process
  BY HostAssumption DEF File!NoProc, File!Absent, Process, ProcStages
<1> QED BY <1>1 DEF FileTypes, File!Exit

\* A process that tries the lock ends, or goes on with it.
LEMMA ProcTriesLock ==
  ASSUME FileTypes, NEW p \in Procs, NEW at \in ProcStages, File!TryLock(p, at)
  PROVE  /\ proc' \in [Procs -> Process]
         /\ lockedBy' \in Procs \cup {Unset}
         /\ \A q \in Procs \ {p} : proc'[q] = proc[q] /\ (lockedBy = q => lockedBy' = q)
         /\ \/ proc'[p] = File!NoProc
            \/ /\ proc'[p].at = at /\ proc'[p].cmd = proc[p].cmd /\ proc'[p].reg = proc[p].reg
               /\ proc[p].cmd = "daemon" /\ file # proc[p].reg => proc'[p].overtaken
               /\ guarded => lockedBy = Unset /\ lockedBy' = p
<1>1. CASE guarded /\ lockedBy # Unset
  BY <1>1, ProcExits DEF File!TryLock
<1>2. CASE ~(guarded /\ lockedBy # Unset)
  <2> DEFINE over == (proc[p].cmd = "daemon" /\ file # proc[p].reg)
  <2>1. over \in BOOLEAN
    OBVIOUS
  <2>2. /\ lockedBy' = IF guarded THEN p ELSE lockedBy
        /\ proc' = [proc EXCEPT ![p] = [proc[p] EXCEPT !.at = at, !.overtaken = over]]
    BY <1>2 DEF File!TryLock, FileTypes
  <2> HIDE DEF over
  <2>3. [proc[p] EXCEPT !.at = at, !.overtaken = over] \in Process
    BY <2>1 DEF FileTypes, Process
  <2>4. proc' \in [Procs -> Process]
    BY <2>2, <2>3 DEF FileTypes
  <2> DEFINE next == [proc[p] EXCEPT !.at = at, !.overtaken = over]
  <2>5. /\ next.at = at /\ next.cmd = proc[p].cmd /\ next.reg = proc[p].reg
        /\ over => next.overtaken
    BY <2>3 DEF FileTypes, Process
  <2>7. proc'[p] = next
    BY <2>2 DEF FileTypes
  <2>6. \A q \in Procs \ {p} : proc'[q] = proc[q] /\ (lockedBy = q => lockedBy' = q)
    BY HostAssumption, <1>2, <2>2 DEF FileTypes
  <2> HIDE DEF next
  <2> QED BY <1>2, <2>2, <2>4, <2>5, <2>6, <2>7 DEF FileTypes, over
<1> QED BY <1>1, <1>2

\* A step of a process leaves the others, and their lock, alone.
LEMMA ProcOthers ==
  ASSUME FileTypes, NEW p \in Procs, ProcStep(p)
  PROVE  /\ guarded' = guarded
         /\ proc' \in [Procs -> Process]
         /\ lockedBy' \in Procs \cup {Unset}
         /\ \A q \in Procs \ {p} : proc'[q] = proc[q] /\ (lockedBy = q => lockedBy' = q)
<1>1. guarded' = guarded
  BY DEF ProcStep, File!RegisterBegins, File!RegisterLocks, File!Ask, File!Truncate,
     File!Encode, File!Load, File!DaemonLocks, File!Prepare, File!Declare, File!Stop,
     File!Drained, File!Kill
<1>2. CASE File!RegisterBegins(p)
  <2>1. PICK l \in File!LabelsToRegister :
           proc' = [proc EXCEPT ![p] = [cmd |-> "register", at |-> "lock",
                       reg |-> [id |-> 0, labels |-> l], overtaken |-> FALSE]]
    BY <1>2 DEF File!RegisterBegins
  <2>2. l \in LabelSets \cup {Unset}
    BY HostAssumption DEF File!LabelsToRegister
  <2> QED BY HostAssumption, <1>1, <1>2, <2>1, <2>2 DEF File!RegisterBegins, FileTypes,
             Process, ProcStages
<1>3. CASE File!RegisterLocks(p) \/ File!DaemonLocks(p)
  <2>1. PICK at \in ProcStages : File!TryLock(p, at)
    BY <1>3 DEF File!RegisterLocks, File!DaemonLocks, ProcStages
  <2> QED BY <1>1, <2>1, ProcTriesLock
<1>4. CASE File!Exit(p)
  BY <1>1, <1>4, ProcExits
<1>5. CASE lockedBy' = lockedBy /\ \E at \in ProcStages : File!Goto(p, at)
  BY <1>1, <1>5, ProcMoves DEF FileTypes
<1>6. CASE File!Ask(p)
  <2>1. CASE /\ ids < MaxIds /\ ids' = ids + 1 /\ lockedBy' = lockedBy
             /\ proc' = [proc EXCEPT ![p].at = "truncate", ![p].reg.id = ids']
    <3>1. ids' \in 0..MaxIds
      BY HostAssumption, <2>1 DEF FileTypes
    <3> DEFINE next == [proc[p] EXCEPT !.at = "truncate", !.reg = [proc[p].reg EXCEPT !.id = ids']]
    <3>2. proc' = [proc EXCEPT ![p] = next]
      BY <2>1 DEF FileTypes, Process
    <3>3. next \in Process
      BY <3>1 DEF FileTypes, Process, ProcStages
    <3> HIDE DEF next
    <3> QED BY <1>1, <2>1, <3>2, <3>3 DEF FileTypes
  <2> QED BY <1>4, <1>6, <2>1 DEF File!Ask
<1>7. CASE File!Load(p)
  <2>1. [cmd |-> "daemon", at |-> "lock", reg |-> file, overtaken |-> FALSE] \in Process
    BY <1>7 DEF File!Load, FileTypes, Registration, Process, ProcStages
  <2> QED BY <1>1, <1>7, <2>1 DEF File!Load, FileTypes
<1>8. CASE File!Prepare(p)
  <2>1. ASSUME NEW l \in File!Resolved(p), lockedBy' = lockedBy,
               proc' = [proc EXCEPT ![p].reg.labels = l,
                            ![p].at = IF l = proc[p].reg.labels THEN "declare" ELSE "truncate"]
        PROVE  /\ proc' \in [Procs -> Process]
               /\ \A q \in Procs \ {p} : proc'[q] = proc[q] /\ (lockedBy = q => lockedBy' = q)
    <3> DEFINE to == IF l = proc[p].reg.labels THEN "declare" ELSE "truncate"
               next == [proc[p] EXCEPT !.at = to, !.reg = [proc[p].reg EXCEPT !.labels = l]]
    <3>1. l \in LabelSets \cup {Unset} /\ to \in ProcStages
      BY HostAssumption DEF File!Resolved, FileTypes, Process, ProcStages
    <3>2. proc' = [proc EXCEPT ![p] = next]
      BY <2>1 DEF FileTypes, Process
    <3> HIDE DEF to
    <3>3. next \in Process
      BY <3>1 DEF FileTypes, Process
    <3> HIDE DEF next
    <3> QED BY <2>1, <3>2, <3>3 DEF FileTypes
  <2> QED BY <1>1, <1>4, <1>8, <2>1 DEF File!Prepare, FileTypes
<1>9. CASE File!Truncate(p) \/ File!Encode(p) \/ File!Declare(p) \/ File!Stop(p) \/ File!Drained(p) \/ File!Kill(p)
  BY <1>4, <1>5, <1>9 DEF File!Truncate, File!Encode, File!Declare, File!Stop, File!Drained,
     File!Kill, ProcStages
<1> QED BY <1>2, <1>3, <1>6, <1>7, <1>8, <1>9 DEF ProcStep

\* What a process does to the file and to the server.
LEMMA ProcTyped ==
  ASSUME FileInv, NEW p \in Procs, ProcStep(p)
  PROVE  FileTypes'
<1> USE DEF FileInv
<1>1. troubles' = troubles \/ File!Trouble
  BY DEF ProcStep, File!RegisterBegins, File!RegisterLocks, File!Ask, File!Truncate,
     File!Encode, File!Load, File!DaemonLocks, File!Prepare, File!Declare, File!Stop,
     File!Drained, File!Kill
<1>2. troubles' \in 0..MaxFailures
  BY <1>1, TroubleCounted DEF FileTypes
<1>3. proc[p] \in Process
  BY DEF FileTypes
<1>4. file' \in {file, File!Torn, proc[p].reg}
  BY DEF ProcStep, File!RegisterBegins, File!RegisterLocks, File!Ask, File!Truncate,
     File!Encode, File!Load, File!DaemonLocks, File!Prepare, File!Declare, File!Stop,
     File!Drained, File!Kill
<1>5. file' \in Registration
  BY HostAssumption, <1>3, <1>4 DEF FileTypes, Registration, Process, File!Torn
<1>6. ids' \in 0..MaxIds
  BY HostAssumption DEF ProcStep, File!RegisterBegins, File!RegisterLocks, File!Ask,
     File!Truncate, File!Encode, File!Load, File!DaemonLocks, File!Prepare, File!Declare,
     File!Stop, File!Drained, File!Kill, FileTypes
<1>7. declared' = declared \/ \E i \in 1..MaxIds : declared' = [declared EXCEPT ![i] = proc[p].reg.labels]
  <2>1. CASE File!Ask(p)
    BY <1>6, <2>1 DEF File!Ask, FileTypes
  <2>2. CASE File!Declare(p)
    BY <1>3, <2>2 DEF File!Declare, Serving, Process
  <2>3. CASE ~File!Ask(p) /\ ~File!Declare(p)
    BY <2>3 DEF ProcStep, File!RegisterBegins, File!RegisterLocks, File!Truncate, File!Encode,
       File!Load, File!DaemonLocks, File!Prepare, File!Stop, File!Drained, File!Kill
  <2> QED BY <2>1, <2>2, <2>3
<1>8. proc[p].reg.labels \in LabelSets \cup {Unset}
  BY <1>3 DEF Process
<1>9. declared' \in [1..MaxIds -> LabelSets \cup {Unset}]
  BY <1>7, <1>8 DEF FileTypes
<1> QED BY <1>2, <1>5, <1>6, <1>9, ProcOthers DEF FileTypes

-----------------------------------------------------------------------------
(* The lock.                                                               *)

\* A process that has the lock, or goes on without, keeps it until it ends.
LEMMA ProcHolder ==
  ASSUME FileInv, NEW p \in Procs, ProcStep(p)
  PROVE  HolderLocks'
<1> SUFFICES ASSUME guarded, NEW q \in Procs, proc'[q].at \in Locked PROVE lockedBy' = q
  BY ProcOthers DEF HolderLocks, FileInv
<1> USE DEF FileInv
<1>1. CASE q # p
  BY <1>1, ProcOthers DEF HolderLocks
<1>2. CASE q = p /\ (File!RegisterLocks(p) \/ File!DaemonLocks(p))
  <2>1. PICK at \in ProcStages : File!TryLock(p, at)
    BY <1>2 DEF File!RegisterLocks, File!DaemonLocks, ProcStages
  <2> QED BY <1>2, <2>1, ProcTriesLock DEF File!NoProc, Locked
<1>3. CASE q = p /\ File!Exit(p)
  BY <1>3, ProcExits DEF File!NoProc, Locked
<1>4. CASE q = p /\ proc[p].at \in Locked /\ lockedBy' = lockedBy
  BY <1>4 DEF HolderLocks
<1>5. CASE q = p /\ (File!RegisterBegins(p) \/ File!Load(p))
  <2>1. ASSUME File!RegisterBegins(p) PROVE proc'[p].at = "lock"
    BY <2>1 DEF File!RegisterBegins, FileTypes
  <2>2. ASSUME File!Load(p) PROVE proc'[p].at = "lock"
    BY <2>2 DEF File!Load, FileTypes
  <2>3. proc'[p].at = "lock"
    BY <1>5, <2>1, <2>2
  <2> QED BY <1>5, <2>3 DEF Locked
<1>6. CASE File!Ask(p) \/ File!Truncate(p) \/ File!Encode(p) \/ File!Prepare(p) \/ File!Declare(p) \/ File!Stop(p)
           \/ File!Drained(p) \/ File!Kill(p)
  BY <1>1, <1>3, <1>4, <1>6 DEF File!Ask, File!Truncate, File!Encode, File!Prepare,
     File!Declare, File!Stop, File!Drained, File!Kill, Locked
<1> QED BY <1>1, <1>2, <1>5, <1>6 DEF ProcStep

\* A process without the lock touches neither the file nor the server.
LEMMA OutsideLock ==
  ASSUME NEW p \in Procs, ProcStep(p), proc[p].at \notin Locked
  PROVE  file' = file /\ declared' = declared
BY DEF ProcStep, File!RegisterBegins, File!RegisterLocks, File!Ask, File!Truncate,
   File!Encode, File!Load, File!DaemonLocks, File!Prepare, File!Declare, File!Stop,
   File!Drained, File!Kill, Locked

-----------------------------------------------------------------------------
(* What a daemon runs as.                                                  *)

\* Only what has been loaded serves.
LEMMA ProcServing ==
  ASSUME FileInv, NEW p \in Procs, ProcStep(p)
  PROVE  Serving'
<1> USE DEF FileInv
<1> DEFINE Sound(r) == /\ r.at \in {"labels", "declare", "run", "drain"} => r.cmd = "daemon"
                       /\ r.at = "ask" => r.cmd = "register"
                       /\ r.at \in {"truncate", "encode"} => r.cmd # "none"
                       /\ r.cmd = "daemon" => r.reg.id > 0
<1>1. \A q \in Procs \ {p} : Sound(proc'[q])
  BY ProcOthers DEF Serving
<1>2. proc[p] \in Process /\ Sound(proc[p])
  BY DEF FileTypes, Serving
<1>3. CASE File!Exit(p)
  BY <1>1, <1>3, ProcExits DEF File!NoProc, Serving
<1>4. ASSUME NEW at \in ProcStages, File!Goto(p, at), at # "ask",
             at \in {"labels", "declare", "run", "drain"} => proc[p].cmd = "daemon",
             at \in {"truncate", "encode"} => proc[p].cmd # "none"
      PROVE  Serving'
  BY <1>1, <1>2, <1>4, ProcMoves DEF Serving, Process
<1>5. CASE File!RegisterBegins(p)
  <2>1. proc'[p].cmd = "register" /\ proc'[p].at = "lock"
    BY <1>5 DEF File!RegisterBegins, FileTypes
  <2> QED BY <1>1, <2>1 DEF Serving
<1>6. CASE File!Load(p)
  <2>1. proc'[p].cmd = "daemon" /\ proc'[p].at = "lock" /\ proc'[p].reg = file /\ file.id > 0
    BY <1>6 DEF File!Load, FileTypes
  <2> QED BY <1>1, <2>1 DEF Serving
<1>7. CASE File!RegisterLocks(p) \/ File!DaemonLocks(p)
  <2>1. PICK at \in ProcStages : /\ File!TryLock(p, at)
                             /\ \/ at = "ask" /\ proc[p].cmd = "register"
                                \/ at = "labels" /\ proc[p].cmd = "daemon"
    BY <1>7 DEF File!RegisterLocks, File!DaemonLocks, ProcStages
  <2>2. CASE proc'[p] = File!NoProc
    BY <1>1, <2>2 DEF File!NoProc, Serving
  <2>3. CASE proc'[p] # File!NoProc
    <3>1. proc'[p].at = at /\ proc'[p].cmd = proc[p].cmd /\ proc'[p].reg = proc[p].reg
      BY <1>2, <2>1, <2>3, ProcTriesLock DEF Process
    <3> QED BY <1>1, <1>2, <2>1, <3>1 DEF Serving
  <2> QED BY <2>2, <2>3
<1>8. CASE File!Ask(p)
  <2>1. CASE proc' = [proc EXCEPT ![p].at = "truncate", ![p].reg.id = ids']
    <3>1. proc'[p].at = "truncate" /\ proc'[p].cmd = proc[p].cmd
      BY <1>2, <2>1 DEF FileTypes, Process
    <3>2. proc[p].cmd = "register"
      BY <1>2, <1>8 DEF File!Ask
    <3> QED BY <1>1, <3>1, <3>2 DEF Serving
  <2> QED BY <1>3, <1>8, <2>1 DEF File!Ask
<1>9. CASE File!Prepare(p)
  <2>1. ASSUME NEW l \in File!Resolved(p),
               proc' = [proc EXCEPT ![p].reg.labels = l,
                            ![p].at = IF l = proc[p].reg.labels THEN "declare" ELSE "truncate"]
        PROVE  Serving'
    <3>1. /\ proc'[p].at \in {"declare", "truncate"} /\ proc'[p].cmd = proc[p].cmd
          /\ proc'[p].reg.id = proc[p].reg.id
      BY <1>2, <2>1 DEF FileTypes, Process
    <3>2. proc[p].cmd = "daemon"
      BY <1>2, <1>9 DEF File!Prepare
    <3> QED BY <1>1, <1>2, <3>1, <3>2 DEF Serving
  <2> QED BY <1>3, <1>9, <2>1 DEF File!Prepare
<1>10. CASE File!Drained(p) \/ File!Kill(p)
  BY <1>3, <1>10 DEF File!Drained, File!Kill
<1>11. CASE File!Truncate(p) \/ File!Encode(p) \/ File!Declare(p) \/ File!Stop(p)
  <2>1. CASE File!Truncate(p) /\ File!Goto(p, "encode")
    BY <1>2, <1>4, <2>1 DEF File!Truncate, ProcStages
  <2>2. CASE File!Encode(p) /\ proc[p].cmd # "register" /\ File!Goto(p, "declare")
    BY <1>2, <1>4, <2>2 DEF File!Encode, ProcStages, Process
  <2>3. CASE File!Declare(p) /\ File!Goto(p, "run")
    BY <1>2, <1>4, <2>3 DEF File!Declare, ProcStages
  <2>4. CASE File!Stop(p)
    BY <1>2, <1>4, <2>4 DEF File!Stop, ProcStages
  <2> QED BY <1>3, <1>11, <2>1, <2>2, <2>3, <2>4 DEF File!Truncate, File!Encode, File!Declare
<1> QED BY <1>5, <1>6, <1>7, <1>8, <1>9, <1>10, <1>11 DEF ProcStep

\* Nobody rewrites the file, or speaks for its identity, under a daemon.
LEMMA ProcMemory ==
  ASSUME FileInv, NEW p \in Procs, ProcStep(p)
  PROVE  InMemory'
<1> USE DEF FileInv
<1> SUFFICES ASSUME guarded, NEW q \in Procs, proc'[q].cmd = "daemon", ~proc'[q].overtaken,
                    proc'[q].at \in {"labels", "declare", "run", "drain"}
             PROVE  /\ file' = proc'[q].reg
                    /\ proc'[q].at \in {"run", "drain"} => declared'[file'.id] = file'.labels
  BY ProcOthers DEF InMemory
<1>1. CASE q # p
  <2>1. proc'[q] = proc[q]
    BY <1>1, ProcOthers
  <2>2. lockedBy = q
    BY <2>1 DEF HolderLocks, Locked
  <2>3. proc[p].at \notin Locked
    BY <1>1, <2>2 DEF HolderLocks
  <2>4. file' = file /\ declared' = declared
    BY <2>3, OutsideLock
  <2> QED BY <2>1, <2>4 DEF InMemory
<1>2. ASSUME q = p, File!Exit(p) PROVE FALSE
  BY <1>2, ProcExits DEF File!NoProc
<1>3. ASSUME q = p, File!RegisterBegins(p) \/ File!Load(p) PROVE FALSE
  <2>1. CASE File!RegisterBegins(p)
    BY <1>3, <2>1 DEF File!RegisterBegins, FileTypes
  <2>2. CASE File!Load(p)
    BY <1>3, <2>2 DEF File!Load, FileTypes
  <2> QED BY <1>3, <2>1, <2>2
<1>4. CASE q = p /\ (File!RegisterLocks(p) \/ File!DaemonLocks(p))
  <2>1. PICK at \in {"ask", "labels"} : File!TryLock(p, at) /\ file' = file
    BY <1>4 DEF File!RegisterLocks, File!DaemonLocks
  <2>2. proc'[p].at = at /\ proc'[p].cmd = proc[p].cmd /\ proc'[p].reg = proc[p].reg
    BY <1>4, <2>1, ProcTriesLock DEF File!NoProc, ProcStages
  <2>3. ~(proc[p].cmd = "daemon" /\ file # proc[p].reg)
    BY <1>4, <2>1, ProcTriesLock DEF File!NoProc, ProcStages
  <2> QED BY <1>4, <2>1, <2>2, <2>3
<1>5. ASSUME q = p, File!Ask(p) PROVE FALSE
  <2>1. proc' = [proc EXCEPT ![p].at = "truncate", ![p].reg.id = ids']
    BY <1>2, <1>5 DEF File!Ask
  <2> QED BY <1>5, <2>1 DEF FileTypes, Process
<1>6. ASSUME q = p, File!Truncate(p) PROVE FALSE
  BY <1>2, <1>6, ProcMoves DEF File!Truncate, ProcStages
<1>7. CASE q = p /\ File!Encode(p)
  <2>1. file' = proc[p].reg /\ File!Goto(p, "declare")
    BY <1>2, <1>7 DEF File!Encode
  <2> QED BY <1>7, <2>1, ProcMoves DEF ProcStages
<1>8. CASE q = p /\ File!Prepare(p)
  <2>1. PICK l \in File!Resolved(p) :
           proc' = [proc EXCEPT ![p].reg.labels = l,
                       ![p].at = IF l = proc[p].reg.labels THEN "declare" ELSE "truncate"]
    BY <1>2, <1>8 DEF File!Prepare
  <2>2. /\ proc'[p].at = IF l = proc[p].reg.labels THEN "declare" ELSE "truncate"
        /\ proc'[p].cmd = proc[p].cmd /\ proc'[p].reg.id = proc[p].reg.id
        /\ proc'[p].reg.labels = l /\ proc'[p].overtaken = proc[p].overtaken
    BY <2>1 DEF FileTypes, Process
  <2>3. proc'[p].reg = proc[p].reg
    <3>1. proc'[p] \in Process /\ proc[p] \in Process
      BY ProcOthers DEF FileTypes
    <3> QED BY <1>8, <2>2, <3>1 DEF Process
  <2>4. file' = file /\ file = proc[p].reg
    BY <1>8, <2>2 DEF File!Prepare, InMemory
  <2> QED BY <1>8, <2>2, <2>3, <2>4
<1>9. CASE q = p /\ File!Declare(p)
  <2>1. /\ declared' = [declared EXCEPT ![proc[p].reg.id] = proc[p].reg.labels]
        /\ File!Goto(p, "run") /\ file' = file
    BY <1>2, <1>9 DEF File!Declare
  <2>2. proc'[p].reg = proc[p].reg /\ file = proc[p].reg
    BY <1>9, <2>1, ProcMoves DEF ProcStages, File!Declare, InMemory
  <2>3. proc[p].reg.id \in 1..MaxIds
    BY <1>9, <2>1, ProcMoves DEF Serving, FileTypes, Process, ProcStages
  <2> QED BY <1>9, <2>1, <2>2, <2>3 DEF FileTypes
<1>10. CASE q = p /\ File!Stop(p)
  BY <1>10, ProcMoves DEF File!Stop, InMemory, ProcStages
<1>11. ASSUME q = p, File!Drained(p) \/ File!Kill(p) PROVE FALSE
  BY <1>2, <1>11 DEF File!Drained, File!Kill
<1> QED BY <1>1, <1>3, <1>4, <1>5, <1>6, <1>7, <1>8, <1>9, <1>10, <1>11 DEF ProcStep

-----------------------------------------------------------------------------
(* The theorems about the file.                                            *)

\* The invariant holds throughout.
LEMMA FileInductive == File!Init /\ [][File!Next]_(File!fileVars) => []FileInv
<1>1. File!Init => FileInv
  BY FileInit
<1>2. FileInv /\ [File!Next]_(File!fileVars) => FileInv'
  <2>1. ASSUME FileInv, NEW p \in Procs, ProcStep(p) PROVE FileInv'
    BY <2>1, ProcTyped, ProcHolder, ProcServing, ProcMemory DEF FileInv
  <2>2. ASSUME FileInv, UNCHANGED File!fileVars PROVE FileInv'
    BY <2>2 DEF FileInv, FileTypes, HolderLocks, InMemory, Serving, File!fileVars
  <2> QED BY <2>1, <2>2 DEF File!Next, ProcStep
<1> QED BY <1>1, <1>2, PTL

\* No two processes serve under one identity, whatever registers, restarts, is
\* killed or loses a connection beside them, when the lock file can be made.
THEOREM NoTwinsEver == File!Spec => []File!NoTwins
<1>1. FileInv => File!NoTwins
  BY DEF FileInv, HolderLocks, File!NoTwins, File!Connected, Locked
<1> QED BY <1>1, FileInductive, PTL DEF File!Spec

\* A daemon whose file was not rewritten between its load and its lock runs as
\* what the file says until it is drained, under labels the server knows.
THEOREM DaemonsRunWhatFileSays == File!Spec => []File!RunsWhatFileSays
<1>1. FileInv => File!RunsWhatFileSays
  BY DEF FileInv, InMemory, Serving, File!RunsWhatFileSays
<1> QED BY <1>1, FileInductive, PTL DEF File!Spec

-----------------------------------------------------------------------------
(* All of it side by side.                                                 *)

\* A file that is cut short is being written, or a trouble has been.
LEMMA ProcTears ==
  ASSUME FileInv, NEW p \in Procs, ProcStep(p), File!TornOnlyByTrouble
  PROVE  File!TornOnlyByTrouble'
<1> SUFFICES ASSUME file' = File!Torn PROVE troubles' > 0 \/ \E q \in Procs : proc'[q].at = "encode"
  BY DEF File!TornOnlyByTrouble, File!Torn
<1>1. FileTypes /\ troubles \in Nat
  BY HostAssumption DEF FileInv, FileTypes
<1>2. CASE File!Trouble
  BY <1>1, <1>2 DEF File!Trouble
<1>3. CASE file = File!Torn /\ troubles > 0 /\ troubles' = troubles
  BY <1>3
<1>4. ASSUME ~File!Trouble PROVE troubles' = troubles
  BY <1>4 DEF ProcStep, File!RegisterBegins, File!RegisterLocks, File!Ask, File!Truncate,
     File!Encode, File!Load, File!DaemonLocks, File!Prepare, File!Declare, File!Stop,
     File!Drained, File!Kill
<1>5. CASE file = File!Torn /\ ~(troubles > 0) /\ ~File!Trouble
  <2>1. PICK q \in Procs : proc[q].at = "encode"
    BY <1>5 DEF File!TornOnlyByTrouble
  <2>2. CASE q # p
    BY <2>1, <2>2, <1>1, ProcOthers
  <2>3. CASE q = p
    <3>1. proc[p].cmd # "none"
      BY <2>1, <2>3 DEF FileInv, Serving
    <3>2. File!Encode(p)
      BY <2>1, <2>3, <3>1, <1>5 DEF ProcStep, File!RegisterBegins, File!RegisterLocks,
         File!Ask, File!Truncate, File!Load, File!DaemonLocks, File!Prepare, File!Declare,
         File!Stop, File!Drained, File!Kill
    <3>3. file' = proc[p].reg /\ proc[p].reg.id \in 0..MaxIds
      BY <3>2, <1>5, <1>1 DEF File!Encode, FileTypes, Process
    <3> QED BY <3>3, HostAssumption DEF File!Torn
  <2> QED BY <2>2, <2>3
<1>6. CASE file # File!Torn /\ ~File!Trouble
  <2>1. File!Truncate(p) \/ File!Encode(p)
    BY <1>6 DEF ProcStep, File!RegisterBegins, File!RegisterLocks, File!Ask, File!Load,
       File!DaemonLocks, File!Prepare, File!Declare, File!Stop, File!Drained, File!Kill
  <2>2. CASE File!Truncate(p)
    <3>1. File!Goto(p, "encode")
      BY <2>2, <1>6 DEF File!Truncate
    <3> QED BY <3>1, <1>1, ProcMoves DEF ProcStages
  <2>3. CASE File!Encode(p)
    <3>1. file' = proc[p].reg /\ proc[p].reg.id \in 0..MaxIds
      BY <2>3, <1>6, <1>1 DEF File!Encode, FileTypes, Process
    <3> QED BY <3>1, HostAssumption DEF File!Torn
  <2> QED BY <2>1, <2>2, <2>3
<1> QED BY <1>2, <1>3, <1>4, <1>5, <1>6

\* A runner file that cannot be read has been cut short by a call that failed
\* or a process that was killed, or is just being written (SaveRegistration).
THEOREM TornByTroubleOnly ==
    File!Init /\ [][File!Next]_(File!fileVars) => []File!TornOnlyByTrouble
<1>1. File!Init => File!TornOnlyByTrouble
  BY DEF File!Init, File!TornOnlyByTrouble, File!Torn, File!Absent
<1>2. FileInv /\ File!TornOnlyByTrouble /\ [File!Next]_(File!fileVars)
        => File!TornOnlyByTrouble'
  <2>1. ASSUME FileInv, File!TornOnlyByTrouble, UNCHANGED File!fileVars
        PROVE  File!TornOnlyByTrouble'
    BY <2>1 DEF File!TornOnlyByTrouble, File!fileVars
  <2> QED BY <2>1, ProcTears DEF File!Next, ProcStep
<1> QED BY <1>1, <1>2, FileInductive, PTL

\* A behaviour of the host is one of the tasks, one of the action and one of
\* the file: those it is not about stand still.
LEMMA HostBehaves ==
    HostSpec => /\ Init /\ [][Next]_vars
                /\ Action!Init /\ [][Action!Next]_(Action!vars)
                /\ File!Init /\ [][File!Next]_(File!fileVars)
<1>1. HostInit => Init /\ Action!Init /\ File!Init
  BY DEF HostInit, Unlocked, File!Init
<1>2. [HostNext]_everything => [Next]_vars
  BY DEF HostNext, everything, OfTasks, OfAction, OfFile
<1>3. [HostNext]_everything => [Action!Next]_(Action!vars)
  BY DEF HostNext, everything, OfTasks, OfAction, OfFile, ofAction, Action!vars
<1>4. [HostNext]_everything => [File!Next]_(File!fileVars)
  BY DEF HostNext, everything, OfTasks, OfAction, OfFile, ofFile, File!fileVars
<1> QED BY <1>1, <1>2, <1>3, <1>4, PTL DEF HostSpec

\* Every variable of the host keeps its type.
THEOREM HostTyped == HostSpec => []HostTypeOK
<1>1. ActionInv => Action!TypeOK
  BY DEF ActionInv
<1>2. FileInv => File!TypeOK
  BY DEF FileInv, FileTypes, File!TypeOK, Registration, Process, ProcStages
<1> QED BY <1>1, <1>2, HostBehaves, ActionInductive, FileInductive, Inductive, IInvTyped, PTL
        DEF HostTypeOK

\* What the tasks of a host share on its disk stays whole, whichever of them
\* comes, goes, fails or dies beside the others: jobs run whole commits of an
\* action, a patched bundle has its original, no two processes serve under one
\* identity, and each runs as what the runner file says.
THEOREM SharedFilesAreSound == HostSpec => []SharedFilesSound
<1>1. ActionInv => ActionsWhole
  BY DEF ActionInv, PairKept, ActionsWhole, Action!OriginalRestores, Action!IsPatchOf,
     Action!Patched
<1>2. FileInv /\ File!TornOnlyByTrouble => IdentityOwned
  BY DEF FileInv, HolderLocks, InMemory, Serving, Locked, IdentityOwned, File!NoTwins,
     File!Connected, File!RunsWhatFileSays
<1> QED BY <1>1, <1>2, HostBehaves, ActionInductive, FileInductive, TornByTroubleOnly, PTL
        DEF SharedFilesSound

\* The properties of the tasks hold of the host that runs them.
THEOREM HostTasksAreSound == HostSpec => [](TokenFollowsTask /\ LiveJobsLeftAlone)
<1>1. IInv => TokenFollowsTask /\ LiveJobsLeftAlone
  BY DEF IInv, TokensKept, Faithful, TokenFollowsTask, JobHolds, LiveJobsLeftAlone
<1> QED BY <1>1, HostBehaves, Inductive, PTL
=============================================================================
