---------------------------- MODULE RunnerHost -----------------------------
(***************************************************************************)
(* What the tasks of one runner share outside of any of them: the cache    *)
(* registrations, scratch directories and networks of TaskRun, the         *)
(* directory of an action of ActionDir, and the runner file of RunnerFile. *)
(* None looks at the state of another, so that a behaviour is about one of *)
(* them, and what holds of each holds of all side by side.                 *)
(***************************************************************************)
EXTENDS TaskRun

CONSTANTS Jobs, MaxVersion, Patchable, Offline, MaxFailures, MaxCrashes   \* see ActionDir
CONSTANTS Procs, LabelSets, Configured, Unset, MaxIds                    \* see RunnerFile

VARIABLES
    shared,     \* which of the three the behaviour is about
    upstream, repo, tree, script, original, sidecar, marker, owner, stage, copied,
    failures, crashes,
    guarded, file, lockedBy, proc, ids, declared, troubles

Action == INSTANCE ActionDir
File == INSTANCE RunnerFile

ASSUME HostAssumption ==
    /\ MaxVersion \in Nat \ {0} /\ MaxFailures \in Nat /\ MaxCrashes \in Nat
    /\ MaxIds \in Nat \ {0}
    /\ Action!Free \notin Jobs
    /\ Unset \notin Procs
    /\ Configured \in LabelSets \cup {Unset}

ofAction == <<upstream, repo, tree, script, original, sidecar, marker, owner, stage,
              copied, failures, crashes>>
ofFile == <<guarded, file, lockedBy, proc, ids, declared, troubles>>
everything == <<shared, vars, ofAction, ofFile>>

Unlocked ==
    /\ guarded = TRUE /\ file = File!Absent /\ lockedBy = Unset
    /\ proc = [p \in Procs |-> File!NoProc] /\ ids = 0
    /\ declared = [i \in 1..MaxIds |-> Unset] /\ troubles = 0

HostInit ==
    \/ shared = "tasks" /\ Init /\ Action!Init /\ Unlocked
    \/ shared = "action" /\ Init /\ mode = "embedded" /\ Action!Init /\ Unlocked
    \/ shared = "file" /\ Init /\ mode = "embedded" /\ Action!Init /\ File!Init

OfTasks(A) == shared = "tasks" /\ A /\ UNCHANGED <<shared, ofAction, ofFile>>
OfAction(A) == shared = "action" /\ A /\ UNCHANGED <<shared, vars, ofFile>>
OfFile(A) == shared = "file" /\ A /\ UNCHANGED <<shared, vars, ofAction>>

HostNext == OfTasks(Next) \/ OfAction(Action!Next) \/ OfFile(File!Next)

(* The fairness of TaskRun and ActionDir, see there.                       *)
HostFairness ==
    /\ \A t \in Tasks : WF_everything(OfTasks(Progress(t)))
    /\ WF_everything(OfTasks(SomeContainerExpires))
    /\ WF_everything(OfTasks(Sweeping))
    /\ WF_everything(OfTasks(Tick))
    /\ WF_everything(OfTasks(Restart))
    /\ \A j \in Jobs : WF_everything(OfAction(Action!Step(j)))

HostSpec == HostInit /\ [][HostNext]_everything /\ HostFairness

-----------------------------------------------------------------------------
(* Every variable keeps its type.                                          *)
HostTypeOK == TypeOK /\ Action!TypeOK /\ File!TypeOK

(* Jobs that share the directory of an action run whole commits of it, and *)
(* the bundle and the original beside it belong together (AcquireCloneLock,*)
(* isPatchOf): see CopiesWhole and OriginalRestores of ActionDir.          *)
ActionsWhole == Action!CopiesWhole /\ Action!OriginalRestores

(* Processes that share the runner file do not share its identity, run as  *)
(* what it says and leave it whole (TryLock, SaveRegistration): see        *)
(* NoTwins, RunsWhatFileSays and TornOnlyByTrouble of RunnerFile.          *)
IdentityOwned == File!NoTwins /\ File!RunsWhatFileSays /\ File!TornOnlyByTrouble

(* What is shared on the disk stays whole.                                 *)
SharedFilesSound == ActionsWhole /\ IdentityOwned

(* No job waits for the clone lock for ever.                               *)
JobsGetThrough ==
    <>(shared = "action" => \A j \in Jobs : stage[j] \in {"passed", "failed"})

(* Neither the leftovers of a task nor the lock of a job last for ever.    *)
NothingStays == LeftoversReclaimed /\ JobsGetThrough
=============================================================================
