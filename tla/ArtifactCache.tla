--------------------------- MODULE ArtifactCache ---------------------------
(***************************************************************************)
(* act/artifactcache: the cache server a runner gives its jobs, with both  *)
(* API versions, its store of entries and its files.  Handlers run         *)
(* concurrently; what happens under one open store is atomic, since bolt's *)
(* file lock admits one opener, and is one step here.  A handler closes    *)
(* the store before it touches files, so that every file operation is a    *)
(* step of its own.                                                        *)
(*                                                                         *)
(* A key stands for a key with its version.  Archives have N parts of the  *)
(* same size.  A signed URL with a passed deadline is a request that is    *)
(* never made.                                                             *)
(***************************************************************************)
EXTENDS Integers, FiniteSets, Sequences

CONSTANTS
    Jobs,              \* the jobs of the runner
    API,               \* of each job: its API version
    Repos, Keys,       \* the repositories it may be of, the keys it may save
    Restore,           \* and the keys it looks for, in order
    Prefix,            \* <<p, k>>: the key k begins with p
    N,                 \* the number of parts of an archive
    Handlers,          \* handlers that can be under way at once
    Repeats,           \* whether clients repeat a request that failed or timed out
    GcEvery, KeepTemp, KeepUnused, KeepUsed, KeepOld,   \* durations of gcCache
    MaxId, MaxTime     \* bounds: reservations made, and the clock

Parts == 1..N
AllRepos == UNION {Repos[j] : j \in Jobs}
AllKeys == UNION {Keys[j] : j \in Jobs}
Ids == 1..MaxId
Files == {"part", "block"} \X Parts   \* the file names of an entry's temporary directory
Requests == ({"upload"} \X Parts) \cup {<<"order", 0>>, <<"commit", 0>>, <<"get", 0>>}

ASSUME ConstantsAssumption ==
    /\ API \in [Jobs -> {"v1", "v2"}]
    /\ {N, GcEvery, MaxId} \subseteq Nat \ {0}
    /\ {KeepTemp, KeepUnused, KeepUsed, KeepOld, MaxTime} \subseteq Nat
    /\ Repeats \subseteq BOOLEAN

VARIABLES
    db,      \* the store: entries by id
    seq,     \* its sequence
    tmp,     \* of each id, the files of its temporary directory
    blob,    \* of each id, its file: whether it exists and the parts in it
    now, gcAt,
    job,     \* of each job: its repository and key, what it has done, its id, the parts it has uploaded
    h,       \* of each handler: its request, where it is, and its local variables
    served,  \* history: what jobs were served for a hit
    unsized  \* history: the entries committed without their size being known

disk == <<db, seq, tmp, blob>>
time == <<now, gcAt>>
history == <<served, unsized>>
vars == <<disk, time, job, h, history>>

Empty == [f \in Files |-> "none"]
NoEntry == [repo |-> "none", key |-> "none", size |-> -1, complete |-> FALSE, createdAt |-> 0, usedAt |-> 0]
Idle == [at |-> "idle", job |-> 0, req |-> <<"get", 0>>, id |-> 0, entry |-> NoEntry,
         names |-> {}, written |-> 0, open |-> FALSE]

Init ==
    /\ db = <<>> /\ seq = 0
    /\ tmp = [i \in Ids |-> Empty] /\ blob = [i \in Ids |-> [file |-> FALSE, data |-> {}]]
    /\ now = 0 /\ gcAt = -GcEvery
    /\ \E repo \in [Jobs -> AllRepos], key \in [Jobs -> AllKeys], again \in [Jobs -> Repeats] :
          /\ \A j \in Jobs : repo[j] \in Repos[j] /\ key[j] \in Keys[j]
          /\ job = [j \in Jobs |-> [repo |-> repo[j], key |-> key[j], st |-> "new",
                                   id |-> 0, up |-> {}, repeats |-> again[j]]]
    /\ h = [s \in Handlers |-> Idle]
    /\ served = {} /\ unsized = {}

-----------------------------------------------------------------------------
(* The store.                                                              *)

Put(i, e) == db' = [x \in DOMAIN db \cup {i} |-> IF x = i THEN e ELSE db[x]]
Without(D) == [x \in DOMAIN db \ D |-> db[x]]

\* touchCache of an entry; a missing one is left alone.
Touch(i) == IF i \in DOMAIN db THEN Put(i, [db[i] EXCEPT !.usedAt = now]) ELSE UNCHANGED db

\* Its callers that ignore its error when the store is busy for too long.
TryTouch(i) == Touch(i) \/ UNCHANGED db

Newest(S, when) == {i \in S : \A x \in S : db[x][when] <= db[i][when]}

\* findExactCache
Exact(r, k, complete) ==
    Newest({i \in DOMAIN db : db[i].repo = r /\ db[i].key = k /\ db[i].complete = complete},
           IF complete THEN "createdAt" ELSE "usedAt")

\* Seeded defect: an entry that is still being uploaded is a hit as well.
MatchAny(r, k) ==
    Newest({i \in DOMAIN db : db[i].repo = r /\ <<k, db[i].key>> \in Prefix}, "createdAt")

\* The entries one key matches: exactly, or else as a prefix.
Match(r, k) ==
    IF Exact(r, k, TRUE) # {} THEN Exact(r, k, TRUE)
    ELSE Newest({i \in DOMAIN db : db[i].repo = r /\ <<k, db[i].key>> \in Prefix
                                   /\ db[i].complete}, "createdAt")

\* findCache: the first key that matches anything.
Found(r, keys) ==
    UNION {Match(r, keys[n]) : n \in {n \in DOMAIN keys :
        \A m \in 1..(n - 1) : Match(r, keys[m]) = {}}}

-----------------------------------------------------------------------------
(* Requests and answers.                                                   *)

Sends(s, j, req) ==
    /\ h[s].at = "idle"
    /\ job[j].repeats \/ \A t \in Handlers : h[t].at = "idle" \/ h[t].job # j \/ h[t].req # req

Handle(s, j, req, at, i, entry) ==
    h' = [h EXCEPT ![s] = [Idle EXCEPT !.at = at, !.job = j, !.req = req, !.id = i,
                                       !.entry = entry]]

Goto(s, at) == h' = [h EXCEPT ![s].at = at]

\* The client is told of an error: it gives up, or repeats the request.
Refuse(j) ==
    \/ job' = [job EXCEPT ![j].st = "closed"]
    \/ job[j].repeats /\ UNCHANGED job

Fail(s) == h' = [h EXCEPT ![s] = Idle] /\ Refuse(h[s].job)

\* The client is told of success, unless it has given up or gone further.
Heard(r, req) ==
    CASE req[1] = "upload" /\ r.st = "reserved" -> [r EXCEPT !.up = @ \cup {req[2]}]
      [] req[1] = "order" /\ r.st = "reserved"  -> [r EXCEPT !.st = "ordered"]
      [] req[1] = "commit" /\ r.st # "closed"   -> [r EXCEPT !.st = "saved"]
      [] OTHER -> r

Succeed(s) == /\ h' = [h EXCEPT ![s] = Idle]
              /\ job' = [job EXCEPT ![h[s].job] = Heard(@, h[s].req)]

\* openDB gives up after its timeout, and the request is refused.
StoreBusy(j) ==
    /\ job[j].st \in {"reserved", "ordered"} /\ Refuse(j)
    /\ UNCHANGED <<disk, time, h, history>>

\* Seeded defect: insertCache does not write the id back.
UnsetId == 0

NewId == seq + 1

\* reserve and CreateCacheEntry; the answer may be lost, and asked for again.
Reserve(j) ==
    /\ job[j].st = "new" /\ seq < MaxId
    /\ IF API[j] = "v2" /\ Exact(job[j].repo, job[j].key, TRUE) # {}
       THEN job' = [job EXCEPT ![j].st = "closed"] /\ UNCHANGED <<db, seq>>
       ELSE /\ \E size \in IF API[j] = "v1" THEN {N, -1} ELSE {-1} :
                 Put(NewId, [repo |-> job[j].repo, key |-> job[j].key, size |-> size,
                             complete |-> FALSE, createdAt |-> now, usedAt |-> now])
            /\ seq' = seq + 1
            /\ \/ job' = [job EXCEPT ![j].st = "reserved", ![j].id = NewId]
               \/ job[j].repeats /\ UNCHANGED job
    /\ UNCHANGED <<tmp, blob, time, h, history>>

\* upload and v2UploadBlob, as far as the store is open; v2 accepts an id that
\* is no longer in the store, and touches the entry before it writes.
Upload(s, j, p) ==
    LET i == job[j].id
        known == i \in DOMAIN db
        accepted == IF API[j] = "v1" THEN known /\ db[i].repo = job[j].repo /\ ~db[i].complete
                                     ELSE known => ~db[i].complete
    IN  /\ Sends(s, j, <<"upload", p>>)
        /\ job[j].st = "reserved" /\ p \notin job[j].up
        /\ IF accepted
           THEN Handle(s, j, <<"upload", p>>, "write", i, NoEntry) /\ UNCHANGED job
           ELSE Refuse(j) /\ UNCHANGED h
        /\ IF accepted /\ API[j] = "v2" THEN Touch(i) ELSE UNCHANGED db
        /\ UNCHANGED <<seq, tmp, blob, time, history>>

\* Storage.Write and WriteBlock: a body that breaks off leaves a short file.
UploadWrite(s) ==
    LET file == <<IF API[h[s].job] = "v2" /\ N > 1 THEN "block" ELSE "part", h[s].req[2]>>
    IN  /\ h[s].at = "write"
        /\ \/ tmp' = [tmp EXCEPT ![h[s].id][file] = "short"] /\ Fail(s)
           \/ /\ tmp' = [tmp EXCEPT ![h[s].id][file] = "full"]
              /\ IF API[h[s].job] = "v1" THEN Goto(s, "touch") /\ UNCHANGED job ELSE Succeed(s)
        /\ UNCHANGED <<db, seq, blob, time, history>>

UploadTouch(s) ==
    /\ h[s].at = "touch" /\ TryTouch(h[s].id) /\ Succeed(s)
    /\ UNCHANGED <<seq, tmp, blob, time, history>>

\* v2UploadBlob with a block list.
Order(s, j) ==
    LET i == job[j].id
        accepted == i \in DOMAIN db => ~db[i].complete
    IN  /\ API[j] = "v2" /\ N > 1 /\ Sends(s, j, <<"order", 0>>)
        /\ job[j].st = "reserved" /\ job[j].up = Parts
        /\ IF accepted
           THEN Handle(s, j, <<"order", 0>>, "order", i, NoEntry) /\ Touch(i) /\ UNCHANGED job
           ELSE Refuse(j) /\ UNCHANGED <<h, db>>
        /\ UNCHANGED <<seq, tmp, blob, time, history>>

\* OrderBlocks renames one block after the other; a missing block is an error.
OrderBlock(s) ==
    LET i == h[s].id  p == h[s].written + 1
    IN  /\ h[s].at = "order"
        /\ IF p > N THEN Succeed(s) /\ UNCHANGED tmp
           ELSE IF tmp[i][<<"block", p>>] = "none" THEN Fail(s) /\ UNCHANGED tmp
           ELSE /\ tmp' = [tmp EXCEPT ![i][<<"part", p>>] = tmp[i][<<"block", p>>],
                                      ![i][<<"block", p>>] = "none"]
                /\ h' = [h EXCEPT ![s].written = p] /\ UNCHANGED job
        /\ UNCHANGED <<db, seq, blob, time, history>>

-----------------------------------------------------------------------------
(* Commit.                                                                 *)

\* commit, and FinalizeCacheEntryUpload, which looks for the reservation that
\* was written to last, be it this job's or another's.
Commit(s, j) ==
    LET candidates == IF API[j] = "v1"
                      THEN {i \in {job[j].id} \cap DOMAIN db : db[i].repo = job[j].repo /\ ~db[i].complete}
                      ELSE Exact(job[j].repo, job[j].key, FALSE)
    IN  /\ Sends(s, j, <<"commit", 0>>)
        /\ \/ job[j].st = "reserved" /\ job[j].up = Parts /\ (API[j] = "v1" \/ N = 1)
           \/ job[j].st = "ordered"
        /\ IF candidates = {} THEN Refuse(j) /\ UNCHANGED h
           ELSE \E i \in candidates :
                  /\ Handle(s, j, <<"commit", 0>>, "list", i,
                            IF API[j] = "v1" THEN db[i] ELSE [db[i] EXCEPT !.size = N])
                  /\ UNCHANGED job
        /\ UNCHANGED <<disk, time, history>>

\* tempNames: the ordered parts, or an error when the directory is gone.
CommitList(s) ==
    /\ h[s].at = "list"
    /\ IF tmp[h[s].id] = Empty THEN Fail(s)
       ELSE /\ h' = [h EXCEPT ![s].at = "assemble",
                              ![s].names = {p \in Parts : tmp[h[s].id][<<"part", p>>] # "none"}]
            /\ UNCHANGED job
    /\ UNCHANGED <<disk, time, history>>

\* When the file of an id is removed or replaced, handlers that write to it
\* go on with a file nobody sees.
Detached(i) == [t \in Handlers |-> IF h[t].id = i THEN [h[t] EXCEPT !.open = FALSE] ELSE h[t]]

Size(S, i) == Cardinality({p \in S : tmp[i][<<"part", p>>] = "full"})

\* assemble: a single part is moved.
Move(s) ==
    LET i == h[s].id  p == CHOOSE q \in h[s].names : TRUE
    IN  /\ h[s].at = "assemble" /\ Cardinality(h[s].names) = 1
        /\ IF tmp[i][<<"part", p>>] = "none"
           THEN Goto(s, "abort") /\ UNCHANGED <<tmp, blob>>
           ELSE /\ blob' = [blob EXCEPT ![i] = [file |-> TRUE,
                                data |-> {q \in {p} : tmp[i][<<"part", q>>] = "full"}]]
                /\ tmp' = [tmp EXCEPT ![i][<<"part", p>>] = "none"]
                /\ h' = [Detached(i) EXCEPT ![s].at = "check", ![s].written = Size({p}, i)]
        /\ UNCHANGED <<db, seq, time, job, history>>

\* assemble: otherwise the file is created or truncated,
Create(s) ==
    /\ h[s].at = "assemble" /\ Cardinality(h[s].names) # 1
    /\ blob' = [blob EXCEPT ![h[s].id] = [file |-> TRUE, data |-> {}]]
    /\ h' = [h EXCEPT ![s].at = "copy", ![s].open = TRUE]
    /\ UNCHANGED <<db, seq, tmp, time, job, history>>

\* and the parts are copied into it in order; it stays when one cannot be opened.
Copy(s) ==
    LET i == h[s].id
    IN  /\ h[s].at = "copy"
        /\ IF h[s].names = {} THEN Goto(s, "check") /\ UNCHANGED blob
           ELSE LET p == CHOOSE q \in h[s].names : \A r \in h[s].names : q <= r
                IN  IF tmp[i][<<"part", p>>] = "none"
                    THEN Goto(s, "abort") /\ UNCHANGED blob
                    ELSE /\ blob' = IF h[s].open /\ Size({p}, i) = 1
                                    THEN [blob EXCEPT ![i].data = @ \cup {p}] ELSE blob
                         /\ h' = [h EXCEPT ![s].names = @ \ {p},
                                           ![s].written = @ + Size({p}, i)]
        /\ UNCHANGED <<db, seq, tmp, time, job, history>>

Broken(s) == h[s].entry.size >= 0 /\ h[s].written # h[s].entry.size

\* The file is removed if it does not have the size it should have.
CheckSize(s) ==
    LET i == h[s].id
    IN  /\ h[s].at = "check"
        /\ IF Broken(s)
           THEN /\ blob' = [blob EXCEPT ![i] = [file |-> FALSE, data |-> {}]]
                /\ h' = [Detached(i) EXCEPT ![s].at = "abort"]
           ELSE Goto(s, "clean") /\ UNCHANGED blob
        /\ UNCHANGED <<db, seq, tmp, time, job, history>>

\* The deferred removal of the temporary directory, and the error if there was one.
Clean(s) ==
    /\ h[s].at \in {"clean", "abort"}
    /\ tmp' = [tmp EXCEPT ![h[s].id] = Empty]
    /\ IF h[s].at = "abort" THEN Fail(s) ELSE Goto(s, "update") /\ UNCHANGED job
    /\ UNCHANGED <<db, seq, blob, time, history>>

\* Seeded defect: an entry that is gone from the store is written again.
StillThere(i) == TRUE

InStore(i) == i \in DOMAIN db

\* commitCache writes the entry it read back, complete and with its size; the
\* store may be busy for too long, or the entry be gone.
Update(s) ==
    /\ h[s].at = "update"
    /\ \/ Fail(s) /\ UNCHANGED <<db, unsized>>
       \/ /\ InStore(h[s].id)
          /\ Put(h[s].id, [h[s].entry EXCEPT !.size = h[s].written, !.complete = TRUE])
          /\ unsized' = IF h[s].entry.size >= 0 THEN unsized ELSE unsized \cup {h[s].id}
          /\ Succeed(s)
    /\ UNCHANGED <<seq, tmp, blob, time, served>>

-----------------------------------------------------------------------------
(* Restore, clean-up and restart.                                          *)

\* find and GetCacheEntryDownloadURL; an entry without its file is dropped.
Lookup(s, j) ==
    /\ job[j].st = "new" /\ Sends(s, j, <<"get", 0>>)
    /\ \E i \in Found(job[j].repo, Restore[j]) :
         IF blob[i].file THEN Handle(s, j, <<"get", 0>>, "get", i, db[i]) /\ UNCHANGED db
                         ELSE db' = Without({i}) /\ UNCHANGED h
    /\ UNCHANGED <<seq, tmp, blob, time, job, history>>

\* get: the entry is touched,
GetTouch(s) ==
    /\ h[s].at = "get" /\ TryTouch(h[s].id) /\ Goto(s, "serve")
    /\ UNCHANGED <<seq, tmp, blob, time, job, history>>

\* and then its file is served, if it is still there.
Serve(s) ==
    /\ h[s].at = "serve"
    /\ h' = [h EXCEPT ![s] = Idle]
    /\ served' = IF ~blob[h[s].id].file THEN served
                 ELSE served \cup {[job |-> h[s].job, id |-> h[s].id, repo |-> h[s].entry.repo,
                                    key |-> h[s].entry.key, data |-> blob[h[s].id].data]}
    /\ UNCHANGED <<disk, time, job, unsized>>

\* The entries gcCache removes: abandoned uploads, unused and old entries,
Expired == {i \in DOMAIN db :
    \/ ~db[i].complete /\ db[i].usedAt < now - KeepTemp
    \/ db[i].usedAt < now - KeepUnused
    \/ db[i].createdAt < now - KeepUsed}

Same(i, x) == db[i].repo = db[x].repo /\ db[i].key = db[x].key

\* Seeded defect: the first of the entries of a key goes like the others.
NoneKept(live) == {{}}

\* and of the complete entries that are left for the same key all but a
\* newest one, except those used recently: W holds the newest ones.
NewestOf(live) == {W \in SUBSET live : \A i \in live :
    \E w \in W : {x \in W : Same(i, x)} = {w} /\ db[w].createdAt >= db[i].createdAt}

Garbage ==
    LET live == {i \in DOMAIN db \ Expired : db[i].complete}
    IN  {Expired \cup {i \in live \ W : now - db[i].usedAt >= KeepOld} : W \in NewestOf(live)}

\* gcCache, which holds the store open throughout, removes the entries D.
Collect(D) ==
    /\ db' = Without(D)
    /\ tmp' = [i \in Ids |-> IF i \in D THEN Empty ELSE tmp[i]]
    /\ blob' = [i \in Ids |-> IF i \in D THEN [file |-> FALSE, data |-> {}] ELSE blob[i]]
    /\ gcAt' = now
    /\ UNCHANGED <<seq, now, history>>

Gc ==
    /\ now - gcAt >= GcEvery
    /\ \E D \in Garbage :
         /\ Collect(D)
         /\ h' = [s \in Handlers |-> IF h[s].id \in D THEN [h[s] EXCEPT !.open = FALSE] ELSE h[s]]
    /\ UNCHANGED job

\* The server stops in the middle of its handlers and is started again, which
\* collects garbage first.
Restart ==
    /\ \E s \in Handlers : h[s].at # "idle"
    /\ \E D \in Garbage : Collect(D)
    /\ h' = [s \in Handlers |-> Idle]
    /\ LET cut == {j \in Jobs : \E s \in Handlers : h[s].at # "idle" /\ h[s].job = j}
       IN  \E givesUp \in SUBSET cut :
             /\ \A j \in cut : job[j].repeats \/ j \in givesUp
             /\ job' = [j \in Jobs |-> IF j \in givesUp THEN [job[j] EXCEPT !.st = "closed"]
                                                         ELSE job[j]]

Tick == now < MaxTime /\ now' = now + 1 /\ UNCHANGED <<disk, gcAt, job, h, history>>

FileStep(s) ==
    \/ UploadWrite(s) \/ UploadTouch(s) \/ OrderBlock(s)
    \/ CommitList(s) \/ Move(s) \/ Create(s) \/ Copy(s) \/ CheckSize(s) \/ Clean(s) \/ Update(s)
    \/ GetTouch(s) \/ Serve(s)

Next ==
    \/ \E j \in Jobs : Reserve(j) \/ StoreBusy(j)
    \/ \E s \in Handlers, j \in Jobs :
         Order(s, j) \/ Commit(s, j) \/ Lookup(s, j) \/ \E p \in Parts : Upload(s, j, p)
    \/ \E s \in Handlers : FileStep(s)
    \/ Gc \/ Restart \/ Tick

Spec == Init /\ [][Next]_vars

-----------------------------------------------------------------------------
Entry == [repo : AllRepos, key : AllKeys, size : -1..N,
          complete : BOOLEAN, createdAt : 0..MaxTime, usedAt : 0..MaxTime]

\* Every variable keeps its type; in particular the store has no entry without
\* an id of its own.
TypeOK ==
    /\ DOMAIN db \subseteq 1..seq /\ seq \in 0..MaxId
    /\ \A i \in DOMAIN db : db[i] \in Entry
    /\ tmp \in [Ids -> [Files -> {"none", "short", "full"}]]
    /\ blob \in [Ids -> [file : BOOLEAN, data : SUBSET Parts]]
    /\ now \in 0..MaxTime /\ gcAt \in -GcEvery..MaxTime
    /\ job \in [Jobs -> [repo : AllRepos, key : AllKeys,
                         st : {"new", "reserved", "ordered", "saved", "closed"},
                         id : 0..MaxId, up : SUBSET Parts, repeats : BOOLEAN]]
    /\ \A s \in Handlers :
         /\ h[s].at \in {"idle", "write", "touch", "order", "list", "assemble", "copy",
                         "check", "clean", "abort", "update", "get", "serve"}
         /\ h[s].job \in Jobs \cup {0} /\ h[s].id \in 0..MaxId /\ h[s].req \in Requests
         /\ h[s].entry \in Entry \cup {NoEntry} /\ h[s].names \subseteq Parts
         /\ h[s].written \in 0..N /\ h[s].open \in BOOLEAN
    /\ \A r \in served : r.job \in Jobs /\ r.id \in Ids /\ r.data \subseteq Parts
    /\ unsized \subseteq Ids

\* Two commits of one entry at once break its file; whatever else happens
\* leaves the archives as they should be.
Committing(s) == h[s].at \in {"list", "assemble", "copy", "check", "clean", "abort", "update"}
OneCommitEach ==
    \A s, t \in Handlers : s # t /\ Committing(s) /\ Committing(t) => h[s].id # h[t].id

\* "overwriting a finished entry would leave the blob other jobs restore no
\* longer matching its recorded size" (touchCache): the file of a complete
\* entry holds as much as the entry says.
BlobMatchesSize == \A i \in DOMAIN db :
    db[i].complete /\ blob[i].file => Cardinality(blob[i].data) = db[i].size

\* What a job restores was saved by its own repository under a key it asked for,
\* or one that begins with such a key, and is a whole archive unless its client
\* had not said how large it is ("We can't check the size of the file, just skip
\* the check", Storage.Commit).
RestoresWholeArchives == \A r \in served :
    /\ r.id \notin unsized => r.data = Parts
    /\ r.repo = job[r.job].repo
    /\ \E n \in DOMAIN Restore[r.job] :
         r.key = Restore[r.job][n] \/ <<Restore[r.job][n], r.key>> \in Prefix

\* What is stored and what is handed out (commit, touchCache, find, get).
ArchivesTrue == BlobMatchesSize /\ RestoresWholeArchives

\* A job that was told its archive is saved finds one under its key, as long
\* as the entries of that key are neither too old nor unused for too long.
SavedIsFound == \A j \in Jobs :
    job[j].st = "saved" /\ now <= KeepUnused /\ now <= KeepUsed
        => \E i \in Exact(job[j].repo, job[j].key, TRUE) : blob[i].file

\* gcCache never takes the newest usable entry of a key: a complete entry that
\* is neither too old nor unused for too long only goes if one at least as new
\* of the same key stays (or a lookup misses its file).
GcKeepsNewest == [][ \A i \in DOMAIN db :
    /\ db[i].complete /\ blob[i].file
    /\ db[i].usedAt >= now - KeepUnused /\ db[i].createdAt >= now - KeepUsed
    => \E x \in DOMAIN db' : /\ db'[x].complete
                             /\ db'[x].repo = db[i].repo /\ db'[x].key = db[i].key
                             /\ db'[x].createdAt >= db[i].createdAt ]_vars

=============================================================================
