----------------------------- MODULE ActionDir -----------------------------
(***************************************************************************)
(* The directory of one remote action, shared by every job of a runner     *)
(* that uses it: cloned and refreshed by each of them                      *)
(* (act/common/git/git.go), its bundle edited for Gitea                    *)
(* (act/runner/toolkit_patch.go), read and copied into the job containers  *)
(* (act/runner/step_action_remote.go, action.go).                          *)
(*                                                                         *)
(* AcquireCloneLock serialises the sections that touch it, but a job takes *)
(* and gives back the lock several times, and looks at the marker, the     *)
(* sidecar and the revision without it.  The ref the jobs name moves       *)
(* upstream; the runner may die in any section and start again.            *)
(***************************************************************************)
EXTENDS Integers

CONSTANTS
    Jobs,
    MaxVersion,     \* commits the ref names, one after the other
    Patchable,      \* those whose bundle the runner can account for
    Offline,        \* ActionOfflineMode
    MaxFailures,    \* bound on failed fetches, checkouts and writes
    MaxCrashes      \* bound on deaths of the runner

VARIABLES
    upstream,   \* the commit the ref names
    repo,       \* the commit the local clone knows for it, NoRepo or Empty
    tree,       \* the worktree: the commit of its files, and whether they all are
    script,     \* the bundle: commit, whether patched and whether complete
    original,   \* the sidecar's untouched bundle, Nothing or Half
    sidecar,    \* the sidecar's directory exists
    marker,     \* its skip marker exists
    owner,      \* who holds the clone lock
    stage,      \* where each job stands
    copied,     \* what each job has copied into its container
    failures,
    crashes

lock == <<owner>>
clone == <<upstream, repo, tree>>
bundle == <<script, original, sidecar, marker>>
bounds == <<failures, crashes>>
vars == <<upstream, repo, tree, script, original, sidecar, marker, owner, stage, copied,
          failures, crashes>>

NoRepo == -1
Empty == 0          \* a repository nothing was fetched into
Nothing == 0        \* no original beside the bundle
Half == -1          \* one that was written in part
Free == "free"
Versions == 1..MaxVersion
Shipped(v) == [ver |-> v, patched |-> FALSE, whole |-> TRUE]
Patched(v) == [ver |-> v, patched |-> TRUE, whole |-> TRUE]
NotCopied == [tree |-> [ver |-> 0, whole |-> FALSE], script |-> Shipped(0)]

Init ==
    /\ upstream = 1
    /\ repo = NoRepo
    /\ tree = [ver |-> 0, whole |-> FALSE]
    /\ script = [ver |-> 0, patched |-> FALSE, whole |-> FALSE]
    /\ original = Nothing
    /\ sidecar = FALSE
    /\ marker = FALSE
    /\ owner = Free
    /\ stage = [j \in Jobs |-> "prepare"]
    /\ copied = [j \in Jobs |-> NotCopied]
    /\ failures = 0
    /\ crashes = 0

Fails == failures < MaxFailures /\ failures' = failures + 1
Works == UNCHANGED failures
Goto(j, where) == stage' = [stage EXCEPT ![j] = where]

-----------------------------------------------------------------------------
(* The clone lock: waiting for it cannot be cancelled.                     *)

Lock(j, from, to) ==
    /\ stage[j] = from
    /\ owner = Free
    /\ owner' = j
    /\ Goto(j, to)
    /\ UNCHANGED <<clone, bundle, copied, bounds>>

(* Seeded defect: the lock is given back by nobody.                        *)
StaysLocked == UNCHANGED owner

Unlock == owner' = Free

AcquireToClone(j) == Lock(j, "prepare", "open")
AcquireToRead(j) == Lock(j, "toRead", "read")
AcquireToPatch(j) == Lock(j, "toPatch", "pair")
AcquireToCopy(j) == Lock(j, "copy", "copying")
AcquireToRevert(j) == Lock(j, "toRevert", "revert")

-----------------------------------------------------------------------------
(* NewGitCloneExecutor.                                                    *)

(* CloneIfRequired: a clone of this URL is reused; a new one leaves        *)
(* nothing behind when it fails.                                           *)
OpenClone(j) ==
    /\ stage[j] = "open"
    /\ \/ /\ repo # NoRepo /\ Works
          /\ Goto(j, "fetch")
          /\ UNCHANGED <<repo, owner>>
       \/ /\ repo = NoRepo /\ Works
          /\ repo' = Empty
          /\ Goto(j, "download")
          /\ UNCHANGED owner
       \/ /\ repo = NoRepo /\ Fails
          /\ Goto(j, "failed")
          /\ Unlock
          /\ UNCHANGED repo
    /\ UNCHANGED <<upstream, tree, bundle, copied, crashes>>

(* cloneAtDepth: the objects arrive and some worktree is checked out.      *)
Download(j) ==
    /\ stage[j] = "download"
    /\ repo' = upstream
    /\ tree' = [ver |-> upstream, whole |-> FALSE]
    /\ script' = Shipped(upstream)
    /\ Goto(j, "fetch")
    /\ UNCHANGED <<upstream, original, sidecar, marker, owner, copied, bounds>>

(* Fetch and, in a full clone, Pull, whose failure is only logged.         *)
Fetch(j) ==
    /\ stage[j] = "fetch"
    /\ \/ /\ ~Offline /\ Works
          /\ repo' = upstream
          /\ Goto(j, "checkout")
          /\ UNCHANGED owner
       \/ /\ IF Offline THEN Works ELSE repo # Empty /\ Fails
          /\ Goto(j, "checkout")
          /\ UNCHANGED <<repo, owner>>
       \/ /\ ~Offline /\ Fails
          /\ Goto(j, "failed")
          /\ Unlock
          /\ UNCHANGED repo
    /\ UNCHANGED <<upstream, tree, bundle, copied, crashes>>

(* Checkout with force begins to replace the files, unless the ref cannot  *)
(* be resolved.                                                            *)
Checkout(j) ==
    /\ stage[j] = "checkout"
    /\ IF repo = Empty
         THEN Goto(j, "failed") /\ Unlock /\ UNCHANGED tree
         ELSE /\ tree' = [ver |-> repo, whole |-> FALSE]
              /\ Goto(j, "reset")
              /\ UNCHANGED owner
    /\ UNCHANGED <<upstream, repo, bundle, copied, bounds>>

(* ... and, with the hard reset, ends: the bundle is as shipped again.     *)
Reset(j) ==
    /\ stage[j] = "reset"
    /\ Unlock
    /\ \/ /\ Works
          /\ tree' = [tree EXCEPT !.whole = TRUE]
          /\ script' = Shipped(tree.ver)
          /\ Goto(j, "toRead")
       \/ /\ Fails
          /\ script' \in {script, Shipped(tree.ver)}
          /\ Goto(j, "failed")
          /\ UNCHANGED tree
    /\ UNCHANGED <<upstream, repo, original, sidecar, marker, copied, crashes>>

(* readAction, under the lock again; then patchToolkit looks for the       *)
(* marker before it has the lock for itself.                               *)
ReadAction(j) ==
    /\ stage[j] = "read"
    /\ Unlock
    /\ \/ Works /\ Goto(j, "marker")
       \/ ~tree.whole /\ Works /\ Goto(j, "failed")
       \/ Fails /\ Goto(j, "failed")
    /\ UNCHANGED <<clone, bundle, copied, crashes>>

-----------------------------------------------------------------------------
(* patchToolkit.                                                           *)

LookForMarker(j) ==
    /\ stage[j] = "marker"
    /\ Goto(j, IF marker THEN "copy" ELSE "toPatch")
    /\ UNCHANGED <<clone, bundle, lock, copied, bounds>>

(* isPatchOf: the bundle is exactly what patching the original produced.   *)
IsPatchOf == original \in Patchable /\ script = Patched(original)

(* patchBundle: a pair that belongs together is left alone, a stale        *)
(* original is removed, and only a bundle that is accounted for goes on.   *)
PairUp(j) ==
    /\ stage[j] = "pair"
    /\ original' = IF IsPatchOf THEN original ELSE Nothing
    /\ IF ~IsPatchOf /\ script.whole /\ ~script.patched /\ script.ver \in Patchable
         THEN Goto(j, "original") /\ UNCHANGED owner
         ELSE Goto(j, "copy") /\ Unlock
    /\ UNCHANGED <<clone, script, sidecar, marker, copied, bounds>>

(* The untouched copy first, ...                                           *)
WriteOriginal(j) ==
    /\ stage[j] = "original"
    /\ sidecar' = TRUE
    /\ \/ Works /\ original' = script.ver /\ Goto(j, "write") /\ UNCHANGED owner
       \/ Fails /\ original' = Half /\ Goto(j, "copy") /\ Unlock
    /\ UNCHANGED <<clone, script, marker, copied, crashes>>

(* ... then the bundle; a failed write puts the copy back.                 *)
WriteBundle(j) ==
    /\ stage[j] = "write"
    /\ \/ Works /\ script' = Patched(script.ver) /\ UNCHANGED original
       \/ Fails /\ script' = Shipped(original) /\ original' = Nothing
    /\ Goto(j, "copy")
    /\ Unlock
    /\ UNCHANGED <<clone, sidecar, marker, copied, crashes>>

-----------------------------------------------------------------------------
(* maybeCopyToActionDir and the run of the action.                         *)

Copy(j) ==
    /\ stage[j] = "copying"
    /\ copied' = [copied EXCEPT ![j] = [tree |-> tree, script |-> script]]
    /\ Goto(j, "run")
    /\ Unlock
    /\ UNCHANGED <<clone, bundle, bounds>>

Run(j) ==
    /\ stage[j] = "run"
    /\ \E how \in {"passed", "stat"} : Goto(j, how)
    /\ UNCHANGED <<clone, bundle, lock, copied, bounds>>

(* revertToolkitOnFailure looks for the sidecar, again without the lock.   *)
LookForSidecar(j) ==
    /\ stage[j] = "stat"
    /\ Goto(j, IF sidecar THEN "toRevert" ELSE "failed")
    /\ UNCHANGED <<clone, bundle, lock, copied, bounds>>

(* revertToolkit: the original takes the place of its patch, for good.     *)
Revert(j) ==
    /\ stage[j] = "revert"
    /\ IF IsPatchOf
         THEN script' = Shipped(original) /\ original' = Nothing /\ marker' = TRUE
         ELSE UNCHANGED <<script, original, marker>>
    /\ Goto(j, "failed")
    /\ Unlock
    /\ UNCHANGED <<clone, sidecar, copied, bounds>>

-----------------------------------------------------------------------------
(* The surroundings.                                                       *)

(* The ref moves.                                                          *)
Push ==
    /\ upstream < MaxVersion
    /\ upstream' = upstream + 1
    /\ UNCHANGED <<repo, tree, bundle, lock, stage, copied, bounds>>

(* The runner dies, what it was writing may be written in part, and starts *)
(* again with other jobs that use the action.  Nothing is cleaned up.      *)
Writing(file) == {j \in Jobs : stage[j] = file}
Crash ==
    /\ crashes < MaxCrashes
    /\ crashes' = crashes + 1
    /\ original' \in {original} \cup {Half : j \in Writing("original")}
    /\ sidecar' = (sidecar \/ Writing("original") # {})
    /\ \/ UNCHANGED script
       \/ Writing("write") # {} /\ script' = [script EXCEPT !.whole = FALSE]
    /\ owner' = Free
    /\ stage' = [j \in Jobs |-> IF stage[j] \in {"passed", "failed"} THEN stage[j] ELSE "prepare"]
    /\ copied' = [j \in Jobs |-> NotCopied]
    /\ UNCHANGED <<clone, marker, failures>>

Step(j) ==
    \/ AcquireToClone(j) \/ OpenClone(j) \/ Download(j) \/ Fetch(j) \/ Checkout(j)
    \/ Reset(j) \/ AcquireToRead(j) \/ ReadAction(j) \/ LookForMarker(j)
    \/ AcquireToPatch(j) \/ PairUp(j) \/ WriteOriginal(j) \/ WriteBundle(j)
    \/ AcquireToCopy(j) \/ Copy(j) \/ Run(j) \/ LookForSidecar(j)
    \/ AcquireToRevert(j) \/ Revert(j)

Next == (\E j \in Jobs : Step(j)) \/ Push \/ Crash

(* Each job's own goroutine goes on; its git calls return.                 *)
Fairness == \A j \in Jobs : WF_vars(Step(j))

Spec == Init /\ [][Next]_vars /\ Fairness

-----------------------------------------------------------------------------
(* Every variable keeps its type.                                          *)
Scripts == [ver : 0..MaxVersion, patched : BOOLEAN, whole : BOOLEAN]
Trees == [ver : 0..MaxVersion, whole : BOOLEAN]
TypeOK ==
    /\ upstream \in Versions
    /\ repo \in {NoRepo, Empty} \cup Versions
    /\ tree \in Trees
    /\ script \in Scripts
    /\ original \in {Half, Nothing} \cup Versions
    /\ sidecar \in BOOLEAN
    /\ marker \in BOOLEAN
    /\ owner \in Jobs \cup {Free}
    /\ stage \in [Jobs -> {"prepare", "open", "download", "fetch", "checkout", "reset", "toRead",
                        "read", "marker", "toPatch", "pair", "original", "write", "copy",
                        "copying", "run", "stat", "toRevert", "revert", "passed", "failed"}]
    /\ copied \in [Jobs -> [tree : Trees, script : Scripts]]
    /\ failures \in 0..MaxFailures
    /\ crashes \in 0..MaxCrashes

(* While no fetch, checkout or write fails, a job runs one commit of the   *)
(* action and all of it: no other job's checkout shows through, no bundle  *)
(* of an older commit comes back, and nothing a crash left half-written    *)
(* outlives the next prepare.                                              *)
CopiesWhole ==
    failures = 0 =>
        \A j \in Jobs : copied[j] # NotCopied =>
            copied[j].tree.whole /\ copied[j].script.whole
            /\ copied[j].script.ver = copied[j].tree.ver

(* A pair that is left alone belongs together: a patched bundle has its    *)
(* own original beside it, to be restored from, and an original that a     *)
(* revert would restore is of the commit that is checked out.              *)
OriginalRestores ==
    owner = Free =>
        /\ script.patched => original = script.ver
        /\ IsPatchOf /\ tree.whole => original = tree.ver

(* Nobody waits for the clone lock for ever: every job gets to run the     *)
(* action, or fails.                                                       *)
JobsGetThrough == \A j \in Jobs : <>(stage[j] \in {"passed", "failed"})
=============================================================================
