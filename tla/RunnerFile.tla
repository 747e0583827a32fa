----------------------------- MODULE RunnerFile -----------------------------
(***************************************************************************)
(* The runner file (.runner), which holds the identity the server gave a   *)
(* runner, and the processes that share it: `register`, which writes it    *)
(* (internal/app/cmd/register.go, internal/pkg/config/registration.go),    *)
(* and `daemon`, which runs with it and rewrites it when the labels change *)
(* (internal/app/cmd/daemon.go).  A lock on a file beside it is to keep    *)
(* them apart (internal/pkg/lock).                                         *)
(*                                                                         *)
(* Processes are started at any time, calls fail, processes are killed;    *)
(* the lock of a dead process is gone.                                     *)
(***************************************************************************)
EXTENDS Integers

CONSTANTS
    Procs,          \* slots for processes
    LabelSets,      \* what a runner may be labelled with
    Configured,     \* runner.labels of the configuration, or Unset
    Unset,
    MaxIds,         \* bound on the runners the server registers
    MaxFailures     \* bound on calls that fail and processes that are killed

VARIABLES
    guarded,    \* the lock file can be created
    file,       \* what the runner file holds
    lockedBy,   \* the process that holds the lock
    proc,       \* each process: its command, how far it is, the registration it has
                \* in memory, and whether the file had changed when it got the lock
    ids,        \* the server: how many runners it has registered
    declared,   \* the server: the labels it was last told of each runner
    troubles

fileVars == <<guarded, file, lockedBy, proc, ids, declared, troubles>>

Absent == [id |-> 0, labels |-> Unset]
Torn == [id |-> -1, labels |-> Unset]
NoProc == [cmd |-> "none", at |-> "idle", reg |-> Absent, overtaken |-> FALSE]

Init ==
    /\ guarded \in BOOLEAN
    /\ lockedBy = Unset
    /\ proc = [p \in Procs |-> NoProc]
    /\ ids \in {0, 1}
    /\ file \in IF ids = 0 THEN {Absent} ELSE {[id |-> 1, labels |-> l] : l \in LabelSets}
    /\ declared = [i \in 1..MaxIds |-> Unset]
    /\ troubles = 0

Trouble == troubles < MaxFailures /\ troubles' = troubles + 1

Goto(p, at) == proc' = [proc EXCEPT ![p].at = at]

(* The process ends, and its lock with it.                                 *)
Exit(p) ==
    /\ proc' = [proc EXCEPT ![p] = NoProc]
    /\ lockedBy' = IF lockedBy = p THEN Unset ELSE lockedBy

(* lock.TryLock: another process has it, this one gets it, or, when the    *)
(* lock file cannot be created, the process goes on without.               *)
TryLock(p, at) ==
    IF guarded /\ lockedBy # Unset THEN Exit(p)
    ELSE /\ lockedBy' = IF guarded THEN p ELSE lockedBy
         /\ proc' = [proc EXCEPT ![p].at = at,
                        ![p].overtaken = (proc[p].cmd = "daemon" /\ file # proc[p].reg)]

-----------------------------------------------------------------------------
(* register                                                                *)

(* The inputs come from the arguments, the configuration and, in a         *)
(* dialogue, the user, who is asked again for labels that do not parse.    *)
(* What is refused, and a file the user will not overwrite, change nothing.*)
LabelsToRegister == IF Configured # Unset THEN {Configured} ELSE LabelSets
RegisterBegins(p) ==
    /\ proc[p].cmd = "none"
    /\ \E l \in LabelsToRegister :
          proc' = [proc EXCEPT ![p] = [cmd |-> "register", at |-> "lock",
                      reg |-> [id |-> 0, labels |-> l], overtaken |-> FALSE]]
    /\ UNCHANGED <<guarded, file, lockedBy, ids, declared, troubles>>

RegisterLocks(p) ==
    /\ proc[p].cmd = "register" /\ proc[p].at = "lock"
    /\ TryLock(p, "ask")
    /\ UNCHANGED <<guarded, file, ids, declared, troubles>>

(* doRegister pings until the server answers, then asks once; the answer   *)
(* may be lost after the server has registered a runner.                   *)
Ask(p) ==
    /\ proc[p].at = "ask"
    /\ \/ /\ ids < MaxIds
          /\ ids' = ids + 1
          /\ proc' = [proc EXCEPT ![p].at = "truncate", ![p].reg.id = ids']
          /\ declared' = [declared EXCEPT ![ids'] = proc[p].reg.labels]
          /\ UNCHANGED <<lockedBy, troubles>>
       \/ Trouble /\ Exit(p) /\ ids' \in {ids, ids + 1} \cap 0..MaxIds /\ UNCHANGED declared
    /\ UNCHANGED <<guarded, file>>

-----------------------------------------------------------------------------
(* SaveRegistration, for both commands: the file is created anew, which    *)
(* empties it, and then encoded into.                                      *)

Truncate(p) ==
    /\ proc[p].at = "truncate"
    /\ \/ file' = Torn /\ Goto(p, "encode") /\ UNCHANGED <<lockedBy, troubles>>
       \/ Trouble /\ Exit(p) /\ UNCHANGED file
    /\ UNCHANGED <<guarded, ids, declared>>

Encode(p) ==
    /\ proc[p].at = "encode"
    /\ \/ /\ file' = proc[p].reg
          /\ IF proc[p].cmd = "register" THEN Exit(p) ELSE Goto(p, "declare") /\ UNCHANGED lockedBy
          /\ UNCHANGED troubles
       \/ Trouble /\ Exit(p) /\ UNCHANGED file
    /\ UNCHANGED <<guarded, ids, declared>>

-----------------------------------------------------------------------------
(* daemon                                                                  *)

(* LoadRegistration comes before the lock; a file that is not there, or    *)
(* does not decode, ends the daemon.                                       *)
Load(p) ==
    /\ proc[p].cmd = "none" /\ file.id > 0
    /\ proc' = [proc EXCEPT ![p] = [cmd |-> "daemon", at |-> "lock", reg |-> file,
                                    overtaken |-> FALSE]]
    /\ UNCHANGED <<guarded, file, lockedBy, ids, declared, troubles>>

DaemonLocks(p) ==
    /\ proc[p].cmd = "daemon" /\ proc[p].at = "lock"
    /\ TryLock(p, "labels")
    /\ UNCHANGED <<guarded, file, ids, declared, troubles>>

(* resolveLabels: those of the command line, else of the configuration,    *)
(* else of the file; then the backends they need are waited for, and the   *)
(* file is rewritten if the labels are not those it was loaded with.       *)
Resolved(p) == LabelSets \cup {IF Configured # Unset THEN Configured ELSE proc[p].reg.labels}

Prepare(p) ==
    /\ proc[p].at = "labels"
    /\ \/ /\ \E l \in Resolved(p) :
                proc' = [proc EXCEPT ![p].reg.labels = l,
                            ![p].at = IF l = proc[p].reg.labels THEN "declare" ELSE "truncate"]
          /\ UNCHANGED <<lockedBy, troubles>>
       \/ Trouble /\ Exit(p)
    /\ UNCHANGED <<guarded, file, ids, declared>>

Declare(p) ==
    /\ proc[p].at = "declare"
    /\ \/ /\ declared' = [declared EXCEPT ![proc[p].reg.id] = proc[p].reg.labels]
          /\ Goto(p, "run")
          /\ UNCHANGED <<lockedBy, troubles>>
       \/ Trouble /\ Exit(p) /\ UNCHANGED declared
    /\ UNCHANGED <<guarded, file, ids>>

(* Seeded defect: the lock is released before the jobs have drained.       *)
StopUnlocked(p) ==
    /\ proc[p].at = "run"
    /\ Goto(p, "drain")
    /\ lockedBy' = IF lockedBy = p THEN Unset ELSE lockedBy
    /\ UNCHANGED <<guarded, file, ids, declared, troubles>>

(* The daemon is told to stop and drains its jobs; the lock is "held until *)
(* shutdown finishes".                                                     *)
Stop(p) ==
    /\ proc[p].at = "run"
    /\ Goto(p, "drain")
    /\ UNCHANGED <<guarded, file, lockedBy, ids, declared, troubles>>

Drained(p) ==
    /\ proc[p].at = "drain"
    /\ Exit(p)
    /\ UNCHANGED <<guarded, file, ids, declared, troubles>>

Kill(p) ==
    /\ proc[p].at # "idle"
    /\ Trouble /\ Exit(p)
    /\ UNCHANGED <<guarded, file, ids, declared>>

Next ==
    \E p \in Procs :
        \/ RegisterBegins(p) \/ RegisterLocks(p) \/ Ask(p)
        \/ Truncate(p) \/ Encode(p)
        \/ Load(p) \/ DaemonLocks(p) \/ Prepare(p) \/ Declare(p) \/ Stop(p) \/ Drained(p)
        \/ Kill(p)

Spec == Init /\ [][Next]_fileVars

-----------------------------------------------------------------------------
(* Every variable keeps its type.                                          *)
TypeOK ==
    /\ guarded \in BOOLEAN
    /\ file \in [id : -1..MaxIds, labels : LabelSets \cup {Unset}]
    /\ lockedBy \in Procs \cup {Unset}
    /\ \A p \in Procs :
          /\ proc[p].cmd \in {"none", "register", "daemon"}
          /\ proc[p].at \in {"idle", "lock", "ask", "truncate", "encode", "labels", "declare",
                             "run", "drain"}
          /\ proc[p].reg.id \in 0..MaxIds
          /\ proc[p].overtaken \in BOOLEAN
    /\ ids \in 0..MaxIds
    /\ declared \in [1..MaxIds -> LabelSets \cup {Unset}]
    /\ troubles \in 0..MaxFailures

(* "Guard against a second runner process sharing this runner file": no    *)
(* two processes are connected to the server under one identity, from the  *)
(* declaration until the last job has drained, if they can lock.           *)
Connected(p) == proc[p].cmd = "daemon" /\ proc[p].at \in {"declare", "run", "drain"}
NoTwins ==
    guarded => \A p, q \in Procs :
        p # q /\ Connected(p) /\ Connected(q) => proc[p].reg.id # proc[q].reg.id

(* A daemon runs as what the file says, under labels the server knows:     *)
(* nobody rewrites the file under it.  The exception is a daemon that had  *)
(* loaded the file before a `register` or another daemon rewrote it and    *)
(* got the lock after: it runs as, and may write back, what it had loaded. *)
RunsWhatFileSays ==
    guarded => \A p \in Procs :
        proc[p].at \in {"run", "drain"} /\ ~proc[p].overtaken =>
            file = proc[p].reg /\ declared[file.id] = file.labels

(* A file that is empty or cut short is being written, or a write to it    *)
(* was cut off: SaveRegistration writes in place.                          *)
TornOnlyByTrouble ==
    file = Torn => troubles > 0 \/ \E p \in Procs : proc[p].at = "encode"
=============================================================================
