------------------------ MODULE ArtifactCacheProofs ------------------------
(***************************************************************************)
(* What ArtifactCache promises, for any number of jobs, handlers, parts    *)
(* and ids, whatever the durations of gcCache.  Sound is inductive by      *)
(* itself; Whole, about the archives, is so as long as no two handlers     *)
(* commit one entry at once.                                               *)
(***************************************************************************)
EXTENDS ArtifactCache, FiniteSetTheorems, WellFoundedInduction, TLAPS

-----------------------------------------------------------------------------
(* The shape of the state.                                                 *)

Stages == {"idle", "write", "touch", "order", "list", "assemble", "copy",
           "check", "clean", "abort", "update", "get", "serve"}

JobRecord == [repo : AllRepos, key : AllKeys,
              st : {"new", "reserved", "ordered", "saved", "closed"},
              id : 0..MaxId, up : SUBSET Parts, repeats : BOOLEAN]
HandlerRecord == [at : Stages, job : Jobs \cup {0}, req : Requests, id : 0..MaxId,
                  entry : Entry \cup {NoEntry}, names : SUBSET Parts,
                  written : 0..N, open : BOOLEAN]

StoreShape ==
    /\ seq \in 0..MaxId /\ DOMAIN db \subseteq 1..seq
    /\ \A i \in DOMAIN db : db[i] \in Entry
TimeShape == now \in 0..MaxTime /\ gcAt \in -GcEvery..MaxTime
TmpShape == tmp \in [Ids -> [Files -> {"none", "short", "full"}]]
BlobShape == blob \in [Ids -> [file : BOOLEAN, data : SUBSET Parts]]
JobShape == job \in [Jobs -> JobRecord]
HandlerShape == h \in [Handlers -> HandlerRecord]
HistoryShape ==
    /\ \A r \in served : r.job \in Jobs /\ r.id \in Ids /\ r.data \subseteq Parts
    /\ unsized \subseteq Ids

Shape == /\ StoreShape /\ TimeShape /\ TmpShape /\ BlobShape
         /\ JobShape /\ HandlerShape /\ HistoryShape

\* A job that uploads has an id, under which the store has nobody else's entry.
JobOwns(j) ==
    /\ job[j].id <= seq
    /\ job[j].st \in {"reserved", "ordered"} => job[j].id >= 1
    /\ job[j].id \in DOMAIN db => db[job[j].id].repo = job[j].repo /\ db[job[j].id].key = job[j].key

\* A handler works for a job on an id that was once reserved, and its request
\* is the one its stage belongs to.
HandlerOwns(s) ==
    /\ h[s].at # "idle" => h[s].job \in Jobs /\ h[s].id \in 1..seq
    /\ h[s].at \in {"write", "touch"} => h[s].req \in {"upload"} \X Parts
    /\ h[s].at = "order" => h[s].req = <<"order", 0>>
    /\ Committing(s) => h[s].req = <<"commit", 0>>

Reading(s) == h[s].at \in {"get", "serve"}
Wanted(j, key) ==
    \E n \in DOMAIN Restore[j] : key = Restore[j][n] \/ <<Restore[j][n], key>> \in Prefix

\* The entry a handler has read is still what it was, as far as it matters.
EntryOwns(s) ==
    /\ Committing(s) \/ Reading(s) => h[s].entry \in Entry
    /\ Committing(s) => h[s].entry.repo = job[h[s].job].repo /\ h[s].entry.key = job[h[s].job].key
    /\ Reading(s) => h[s].entry.repo = job[h[s].job].repo /\ Wanted(h[s].job, h[s].entry.key)
    /\ Committing(s) /\ h[s].id \in DOMAIN db =>
           /\ db[h[s].id].repo = h[s].entry.repo
           /\ db[h[s].id].key = h[s].entry.key
           /\ db[h[s].id].createdAt = h[s].entry.createdAt

\* The parts copied and those still to be copied are at most N.
Copies(s) ==
    /\ h[s].at \in {"list", "assemble"} => h[s].written = 0
    /\ h[s].at = "copy" => h[s].written + Cardinality(h[s].names) <= N

Served == \A r \in served : r.repo = job[r.job].repo /\ Wanted(r.job, r.key)

HandlerSound(s) == HandlerOwns(s) /\ EntryOwns(s) /\ Copies(s)

Sound ==
    /\ Shape /\ Served
    /\ \A j \in Jobs : JobOwns(j)
    /\ \A s \in Handlers : HandlerSound(s)

-----------------------------------------------------------------------------
(* Numbers and parts.                                                      *)

\* A set of naturals has a least one: the parts are copied in order.
LEMMA Least ==
  ASSUME NEW T \in SUBSET Nat, T # {}
  PROVE  \E x \in T : \A y \in T : x <= y
<1> DEFINE R == OpToRel(<, Nat)
<1>1. IsWellFoundedOn(R, Nat) BY NatLessThanWellFounded
<1>2. \A x, y \in Nat : y < x => <<y, x>> \in R BY DEF OpToRel
<1> HIDE DEF R
<1>3. PICK x \in T : \A y \in T : <<y, x>> \notin R BY <1>1, WFMin
<1>4. SUFFICES ASSUME NEW y \in T PROVE x <= y OBVIOUS
<1>5. x \in Nat /\ y \in Nat OBVIOUS
<1>6. ~(y < x) BY <1>2, <1>3, <1>5
<1> QED BY <1>5, <1>6

\* The newest of the entries of a set that is not empty: what findExactCache
\* and findCache sort for.
LEMMA NewestExists ==
  ASSUME NEW S, S # {}, S \subseteq DOMAIN db, StoreShape, MaxTime \in Nat
  PROVE  Newest(S, "createdAt") # {}
<1> DEFINE Age(i) == MaxTime - db[i].createdAt
           T == {Age(i) : i \in S}
<1>1. \A i \in S : db[i].createdAt \in 0..MaxTime BY DEF StoreShape, Entry
<1>2. T \in SUBSET Nat /\ T # {} BY <1>1
<1> HIDE DEF T
<1>3. PICK x \in T : \A y \in T : x <= y BY <1>2, Least
<1>4. PICK i \in S : x = Age(i) BY DEF T
<1>5. \A k \in S : Age(k) \in T BY DEF T
<1>6. \A k \in S : db[k].createdAt <= db[i].createdAt BY <1>1, <1>3, <1>4, <1>5
<1> QED BY <1>6 DEF Newest

LEMMA PartsAreFinite ==
  ASSUME NEW S \in SUBSET Parts
  PROVE  /\ IsFiniteSet(S) /\ Cardinality(S) \in 0..N
         /\ Cardinality(S) = N => S = Parts
<1>1. N \in Nat \ {0} BY ConstantsAssumption
<1>2. IsFiniteSet(Parts) /\ Cardinality(Parts) = N BY <1>1, FS_Interval DEF Parts
<1>3. IsFiniteSet(S) /\ Cardinality(S) <= N BY <1>2, FS_Subset
<1>4. Cardinality(S) = N => S = Parts BY <1>2, FS_Subset
<1>5. Cardinality(S) \in Nat BY <1>3, FS_CardinalityType
<1> QED BY <1>1, <1>3, <1>4, <1>5

\* What one part counts: a short one does not.
LEMMA OnePart ==
  ASSUME NEW p, NEW i
  PROVE  /\ Size({p}, i) \in {0, 1}
         /\ Size({p}, i) = Cardinality({q \in {p} : tmp[i][<<"part", q>>] = "full"})
         /\ Size({p}, i) = 1 <=> tmp[i][<<"part", p>>] = "full"
<1> DEFINE S == {q \in {p} : tmp[i][<<"part", q>>] = "full"}
<1>1. Size({p}, i) = Cardinality(S) BY DEF Size
<1>2. CASE tmp[i][<<"part", p>>] = "full"
  <2>1. S = {p} BY <1>2
  <2>2. Cardinality(S) = 1 BY <2>1, FS_Singleton
  <2> QED BY <1>1, <1>2, <2>2
<1>3. CASE tmp[i][<<"part", p>>] # "full"
  <2>1. S = {} BY <1>3
  <2>2. Cardinality(S) = 0 BY <2>1, FS_EmptySet
  <2> QED BY <1>1, <1>3, <2>2
<1> QED BY <1>2, <1>3

\* The part that is moved, or copied next, is one of those that were listed.
LEMMA MovedIsListed ==
  ASSUME NEW S, Cardinality(S) = 1, IsFiniteSet(S)
  PROVE  (CHOOSE q \in S : TRUE) \in S
<1>1. S # {} BY FS_EmptySet
<1> QED BY <1>1

LEMMA CopiedIsListed ==
  ASSUME NEW S \in SUBSET Parts, S # {}
  PROVE  (CHOOSE q \in S : \A r \in S : q <= r) \in S
<1>1. S \in SUBSET Nat BY DEF Parts
<1>2. \E q \in S : \A r \in S : q <= r BY <1>1, Least
<1> QED BY <1>2

-----------------------------------------------------------------------------
(* What the actions have in common.                                        *)

\* What a step does to a job that makes no reservation.
JobsKept ==
    /\ job' \in [Jobs -> JobRecord]
    /\ \A j \in Jobs :
         /\ job'[j].repo = job[j].repo /\ job'[j].key = job[j].key /\ job'[j].id = job[j].id
         /\ job'[j].st \in {"reserved", "ordered"} => job[j].st \in {"reserved", "ordered"}

JobsNamed == \A j \in Jobs : job'[j].repo = job[j].repo /\ job'[j].key = job[j].key

\* Nobody is told that an archive is saved.
NoneSaved == JobsNamed /\ \A j \in Jobs : job'[j].st = "saved" => job[j].st = "saved"

\* What it does to the store when it reserves, completes and removes nothing.
StoreKept ==
    /\ seq' = seq /\ DOMAIN db' = DOMAIN db
    /\ \A i \in DOMAIN db :
         /\ db'[i] \in Entry /\ db'[i].repo = db[i].repo /\ db'[i].key = db[i].key
         /\ db'[i].size = db[i].size /\ db'[i].complete = db[i].complete
         /\ db'[i].createdAt = db[i].createdAt

LEMMA UnchangedStore ==
  ASSUME StoreShape, UNCHANGED <<db, seq>>
  PROVE  StoreKept
BY DEF StoreKept, StoreShape

LEMMA UnchangedJob ==
  ASSUME JobShape, UNCHANGED job
  PROVE  JobsKept /\ NoneSaved
BY DEF JobsKept, JobShape, NoneSaved, JobsNamed

LEMMA TouchKeeps ==
  ASSUME StoreShape, TimeShape, NEW i, Touch(i) \/ TryTouch(i), UNCHANGED seq
  PROVE  StoreKept
<1>1. CASE UNCHANGED db BY <1>1, UnchangedStore
<1>2. CASE i \in DOMAIN db /\ Put(i, [db[i] EXCEPT !.usedAt = now])
  <2>1. [db[i] EXCEPT !.usedAt = now] \in Entry BY <1>2 DEF StoreShape, TimeShape, Entry
  <2>2. \A x \in DOMAIN db : db[x] \in Entry BY DEF StoreShape
  <2>3. DOMAIN db' = DOMAIN db BY <1>2 DEF Put
  <2>4. \A x \in DOMAIN db : db'[x] = IF x = i THEN [db[i] EXCEPT !.usedAt = now] ELSE db[x]
    BY <1>2 DEF Put
  <2>5. LET e == [db[i] EXCEPT !.usedAt = now]
        IN  /\ e.repo = db[i].repo /\ e.key = db[i].key /\ e.size = db[i].size
            /\ e.complete = db[i].complete /\ e.createdAt = db[i].createdAt
    BY <1>2, <2>2 DEF Entry
  <2> QED BY <2>1, <2>2, <2>3, <2>4, <2>5 DEF StoreKept
<1> QED BY <1>1, <1>2 DEF Touch, TryTouch

LEMMA RefuseKeeps ==
  ASSUME JobShape, NEW j \in Jobs, Refuse(j)
  PROVE  JobsKept /\ NoneSaved
<1>1. JobsKept BY DEF JobShape, JobRecord, Refuse, JobsKept
<1>2. NoneSaved BY DEF JobShape, JobRecord, Refuse, NoneSaved, JobsNamed
<1> QED BY <1>1, <1>2

\* Another answer leaves a job where it is, or further.
LEMMA HeardKeeps ==
  ASSUME NEW r \in JobRecord, NEW req \in Requests
  PROVE  /\ Heard(r, req) \in JobRecord
         /\ Heard(r, req).repo = r.repo /\ Heard(r, req).key = r.key /\ Heard(r, req).id = r.id
         /\ Heard(r, req).st \in {"reserved", "ordered"} => r.st \in {"reserved", "ordered"}
         /\ Heard(r, req).st = "saved" => r.st = "saved" \/ req[1] = "commit"
<1>1. CASE req[1] = "upload"
  <2>1. \A q \in {"upload"} \X Parts : q[2] \in Parts OBVIOUS
  <2>2. <<"order", 0>>[1] # "upload" /\ <<"commit", 0>>[1] # "upload" /\ <<"get", 0>>[1] # "upload"
    OBVIOUS
  <2>3. req[2] \in Parts BY <1>1, <2>1, <2>2 DEF Requests
  <2> QED BY <1>1, <2>3 DEF Heard, JobRecord
<1>2. CASE req[1] = "order" BY <1>2 DEF Heard, JobRecord
<1>3. CASE req[1] = "commit" BY <1>3 DEF Heard, JobRecord
<1>4. CASE req[1] \notin {"upload", "order", "commit"} BY <1>4 DEF Heard, JobRecord
<1> QED BY <1>1, <1>2, <1>3, <1>4

LEMMA SucceedKeeps ==
  ASSUME JobShape, HandlerShape, NEW s \in Handlers, HandlerOwns(s), h[s].at # "idle",
         Succeed(s)
  PROVE  /\ JobsKept
         /\ h[s].req[1] # "commit" => NoneSaved
<1> DEFINE j == h[s].job
           r == Heard(job[j], h[s].req)
<1>1. j \in Jobs /\ job[j] \in JobRecord BY DEF HandlerOwns, JobShape
<1>2. h[s].req \in Requests BY DEF HandlerShape, HandlerRecord
<1>3. job' = [job EXCEPT ![j] = r] BY DEF Succeed
<1>4. /\ r \in JobRecord /\ r.repo = job[j].repo /\ r.key = job[j].key /\ r.id = job[j].id
      /\ r.st \in {"reserved", "ordered"} => job[j].st \in {"reserved", "ordered"}
      /\ r.st = "saved" => job[j].st = "saved" \/ h[s].req[1] = "commit"
  BY <1>1, <1>2, HeardKeeps
<1> HIDE DEF r
<1> QED BY <1>1, <1>3, <1>4 DEF JobsKept, JobShape, NoneSaved, JobsNamed

LEMMA FailKeeps ==
  ASSUME JobShape, NEW s \in Handlers, HandlerOwns(s), h[s].at # "idle", Fail(s)
  PROVE  JobsKept /\ NoneSaved
BY RefuseKeeps DEF HandlerOwns, Fail

-----------------------------------------------------------------------------
(* What a step does to the handlers.                                       *)

\* A handler goes on with what it does; its file may have been detached.
HandlerKept(t) ==
    /\ h'[t].at = h[t].at /\ h'[t].job = h[t].job /\ h'[t].req = h[t].req /\ h'[t].id = h[t].id
    /\ h'[t].entry = h[t].entry /\ h'[t].names = h[t].names /\ h'[t].written = h[t].written

LEMMA IdleIsHandler == Idle \in HandlerRecord
<1>1. N \in Nat /\ MaxId \in Nat BY ConstantsAssumption
<1>2. <<"get", 0>> \in Requests BY DEF Requests
<1> QED BY <1>1, <1>2 DEF Idle, HandlerRecord, Stages, NoEntry

LEMMA HandlerReplaced ==
  ASSUME HandlerShape, NEW s \in Handlers, NEW r \in HandlerRecord, h' = [h EXCEPT ![s] = r]
  PROVE  HandlerShape' /\ h'[s] = r /\ \A t \in Handlers \ {s} : h'[t] = h[t] /\ HandlerKept(t)
BY DEF HandlerShape, HandlerKept

LEMMA HandlerDone ==
  ASSUME HandlerShape, NEW s \in Handlers, h' = [h EXCEPT ![s] = Idle]
  PROVE  /\ HandlerShape' /\ h'[s].at = "idle" /\ h'[s] = Idle
         /\ \A t \in Handlers \ {s} : h'[t] = h[t] /\ HandlerKept(t)
<1>1. HandlerShape' /\ h'[s] = Idle /\ \A t \in Handlers \ {s} : h'[t] = h[t] /\ HandlerKept(t)
  BY IdleIsHandler, HandlerReplaced
<1> QED BY <1>1 DEF Idle

LEMMA HandlerGoes ==
  ASSUME HandlerShape, NEW s \in Handlers, NEW at \in Stages, Goto(s, at)
  PROVE  /\ HandlerShape' /\ h'[s] = [h[s] EXCEPT !.at = at]
         /\ \A t \in Handlers \ {s} : h'[t] = h[t] /\ HandlerKept(t)
<1> DEFINE r == [h[s] EXCEPT !.at = at]
<1>1. r \in HandlerRecord BY DEF HandlerShape, HandlerRecord
<1>2. h' = [h EXCEPT ![s] = r] BY DEF Goto
<1> HIDE DEF r
<1>3. HandlerShape' /\ h'[s] = r /\ \A t \in Handlers \ {s} : h'[t] = h[t] /\ HandlerKept(t)
  BY <1>1, <1>2, HandlerReplaced
<1> QED BY <1>3 DEF r

\* A file was removed or replaced by s, which goes on with r.
LEMMA HandlersDetached ==
  ASSUME HandlerShape, NEW s \in Handlers, NEW i, NEW r \in HandlerRecord,
         h' = [Detached(i) EXCEPT ![s] = r]
  PROVE  /\ HandlerShape' /\ h'[s] = r
         /\ \A t \in Handlers \ {s} : HandlerKept(t) /\ (h[t].id # i => h'[t] = h[t])
<1>1. \A t \in Handlers : [h[t] EXCEPT !.open = FALSE] \in HandlerRecord
  BY DEF HandlerShape, HandlerRecord
<1>2. h' \in [Handlers -> HandlerRecord]
  BY <1>1 DEF HandlerShape, Detached
<1>3. \A t \in Handlers \ {s} :
        h'[t] = IF h[t].id = i THEN [h[t] EXCEPT !.open = FALSE] ELSE h[t]
  BY DEF Detached
<1>4. h'[s] = r BY DEF Detached
<1>5. ASSUME NEW t \in Handlers \ {s} PROVE HandlerKept(t)
  <2>1. h[t] \in HandlerRecord BY DEF HandlerShape
  <2> DEFINE g == [h[t] EXCEPT !.open = FALSE]
  <2>2. /\ g.at = h[t].at /\ g.job = h[t].job /\ g.req = h[t].req /\ g.id = h[t].id
        /\ g.entry = h[t].entry /\ g.names = h[t].names /\ g.written = h[t].written
    BY <2>1 DEF HandlerRecord
  <2>3. h'[t] = g \/ h'[t] = h[t] BY <1>3
  <2> HIDE DEF g
  <2> QED BY <2>2, <2>3 DEF HandlerKept
<1> QED BY <1>2, <1>3, <1>4, <1>5 DEF HandlerShape

-----------------------------------------------------------------------------
(* What the store forgets it does not learn again: under an id there is     *)
(* only ever one repository's entry of one key.                            *)

StoreFaithful ==
    /\ seq' >= seq
    /\ \A i \in DOMAIN db' : i <= seq =>
         /\ i \in DOMAIN db
         /\ db'[i].repo = db[i].repo /\ db'[i].key = db[i].key
         /\ db'[i].createdAt = db[i].createdAt

LEMMA KeptIsFaithful ==
  ASSUME StoreShape, StoreKept
  PROVE  StoreFaithful /\ StoreShape'
BY DEF StoreShape, StoreKept, StoreFaithful

LEMMA HandlerStays ==
  ASSUME HandlerShape, JobsNamed, StoreShape, StoreFaithful, seq' \in Nat,
         NEW t \in Handlers, HandlerSound(t), HandlerKept(t) \/ h'[t].at = "idle"
  PROVE  HandlerSound(t)'
<1>1. CASE h'[t].at = "idle"
  BY <1>1 DEF HandlerSound, HandlerOwns, EntryOwns, Copies, Committing, Reading
<1>2. CASE HandlerKept(t)
  <2>1. h[t].id \in 0..MaxId /\ seq \in Nat /\ seq' >= seq
    BY DEF HandlerShape, HandlerRecord, StoreShape, StoreFaithful
  <2>2. HandlerOwns(t)'
    BY <1>2, <2>1 DEF HandlerKept, HandlerSound, HandlerOwns, Committing
  <2>3. \A j \in Jobs : job'[j].repo = job[j].repo /\ job'[j].key = job[j].key
    BY DEF JobsNamed
  <2>4. Copies(t)' BY <1>2 DEF HandlerKept, HandlerSound, Copies
  <2>5. Committing(t)' <=> Committing(t) BY <1>2 DEF HandlerKept, Committing
  <2>6. Reading(t)' <=> Reading(t) BY <1>2 DEF HandlerKept, Reading
  <2>7. Committing(t) \/ Reading(t) => h[t].job \in Jobs /\ h[t].id <= seq
    BY <2>1 DEF HandlerSound, HandlerOwns, Committing, Reading
  <2>8. EntryOwns(t)'
    <3>1. (Committing(t) \/ Reading(t) => h[t].entry \in Entry)' BY <1>2, <2>5, <2>6
      DEF HandlerSound, EntryOwns, HandlerKept
    <3>2. (Committing(t) => h[t].entry.repo = job[h[t].job].repo /\ h[t].entry.key = job[h[t].job].key)'
      BY <1>2, <2>3, <2>5, <2>7 DEF HandlerSound, EntryOwns, HandlerKept
    <3>3. (Reading(t) => h[t].entry.repo = job[h[t].job].repo /\ Wanted(h[t].job, h[t].entry.key))'
      BY <1>2, <2>3, <2>6, <2>7 DEF HandlerSound, EntryOwns, HandlerKept, Wanted
    <3>4. (Committing(t) /\ h[t].id \in DOMAIN db =>
             /\ db[h[t].id].repo = h[t].entry.repo
             /\ db[h[t].id].key = h[t].entry.key
             /\ db[h[t].id].createdAt = h[t].entry.createdAt)'
      BY <1>2, <2>5, <2>7 DEF HandlerSound, EntryOwns, HandlerKept, StoreFaithful
    <3> QED BY <3>1, <3>2, <3>3, <3>4 DEF EntryOwns
  <2> QED BY <2>2, <2>4, <2>8 DEF HandlerSound
<1> QED BY <1>1, <1>2

LEMMA JobStays ==
  ASSUME JobShape, JobsKept, StoreShape, StoreFaithful, StoreShape',
         NEW j \in Jobs, JobOwns(j)
  PROVE  JobOwns(j)'
<1>1. job[j].id \in Nat /\ seq \in Nat /\ seq' \in Nat
  BY DEF JobShape, JobRecord, StoreShape
<1> QED BY <1>1 DEF JobsKept, JobOwns, StoreFaithful

\* How a step keeps Sound that serves nothing.
LEMMA SoundStays ==
  ASSUME Sound, Shape', StoreFaithful, UNCHANGED served,
         JobsKept \/ (JobsNamed /\ \A j \in Jobs : JobOwns(j)'),
         \A t \in Handlers : HandlerKept(t) \/ h'[t].at = "idle" \/ HandlerSound(t)'
  PROVE  Sound'
<1>1. seq' \in Nat BY DEF Shape, StoreShape
<1>2. JobsNamed BY DEF JobsKept, JobsNamed
<1>3. ASSUME NEW t \in Handlers PROVE HandlerSound(t)'
  BY <1>1, <1>2, HandlerStays DEF Sound, Shape
<1>4. ASSUME NEW j \in Jobs PROVE JobOwns(j)'
  BY JobStays DEF Sound, Shape
<1>5. Served' BY <1>2 DEF Sound, Shape, HistoryShape, JobsNamed, Served, Wanted
<1> QED BY <1>3, <1>4, <1>5 DEF Sound

\* And a step that leaves the entries alone, and the time.
LEMMA QuietStep ==
  ASSUME Sound, StoreKept, JobsKept, HandlerShape', TmpShape', BlobShape',
         UNCHANGED <<now, gcAt, served, unsized>>,
         \A t \in Handlers : HandlerKept(t) \/ h'[t].at = "idle" \/ HandlerSound(t)'
  PROVE  Sound'
<1>1. StoreFaithful /\ StoreShape' BY KeptIsFaithful DEF Sound, Shape
<1>2. JobShape' BY DEF JobsKept, JobShape
<1>3. Shape' BY <1>1, <1>2 DEF Sound, Shape, TimeShape, HistoryShape
<1> QED BY <1>1, <1>3, SoundStays

\* A request that is accepted.
LEMMA HandlerStarts ==
  ASSUME HandlerShape, NEW s \in Handlers, NEW j \in Jobs, NEW req \in Requests,
         NEW at \in Stages, NEW i \in 0..MaxId, NEW e \in Entry \cup {NoEntry},
         Handle(s, j, req, at, i, e)
  PROVE  /\ HandlerShape'
         /\ h'[s].at = at /\ h'[s].job = j /\ h'[s].req = req /\ h'[s].id = i /\ h'[s].entry = e
         /\ h'[s].written = 0
         /\ \A t \in Handlers \ {s} : h'[t] = h[t] /\ HandlerKept(t)
<1> DEFINE r == [Idle EXCEPT !.at = at, !.job = j, !.req = req, !.id = i, !.entry = e]
<1>1. r \in HandlerRecord BY IdleIsHandler DEF HandlerRecord
<1>2. r.at = at /\ r.job = j /\ r.req = req /\ r.id = i /\ r.entry = e /\ r.written = 0
  BY DEF Idle
<1>3. h' = [h EXCEPT ![s] = r] BY DEF Handle
<1> HIDE DEF r
<1>4. HandlerShape' /\ h'[s] = r /\ \A t \in Handlers \ {s} : h'[t] = h[t] /\ HandlerKept(t)
  BY <1>1, <1>3, HandlerReplaced
<1> QED BY <1>2, <1>4

-----------------------------------------------------------------------------
(* Reservations and uploads.                                               *)

\* A step aside of the commits and the restores: it leaves the files and the
\* entries alone, and so do the handlers it is about.
Aside ==
    /\ StoreKept /\ NoneSaved /\ now' >= now
    /\ UNCHANGED <<blob, unsized, served>>
    /\ \A t \in Handlers : h'[t] = h[t] \/ h'[t].at \in {"idle", "write", "touch", "order"}

LEMMA AsideStep ==
  ASSUME Sound, StoreKept, JobsKept, NoneSaved, HandlerShape', TmpShape',
         UNCHANGED <<blob, now, gcAt, served, unsized>>,
         \A t \in Handlers : \/ h'[t] = h[t] \/ h'[t].at = "idle"
                             \/ h'[t].at \in {"write", "touch", "order"} /\ HandlerOwns(t)'
  PROVE  Sound' /\ Aside
<1>1. BlobShape' BY DEF Sound, Shape, BlobShape
<1>2. ASSUME NEW t \in Handlers
      PROVE  HandlerKept(t) \/ h'[t].at = "idle" \/ HandlerSound(t)'
  <2>1. CASE h'[t] = h[t] BY <2>1 DEF HandlerKept
  <2>2. CASE h'[t].at \in {"write", "touch", "order"} /\ HandlerOwns(t)'
    BY <2>2 DEF HandlerSound, EntryOwns, Copies, Committing, Reading
  <2> QED BY <2>1, <2>2
<1>3. Sound' BY <1>1, <1>2, QuietStep
<1>4. now \in Int BY ConstantsAssumption DEF Sound, Shape, TimeShape
<1> QED BY <1>3, <1>4 DEF Aside

\* A request that is refused.
LEMMA AsideRefuse ==
  ASSUME Sound, NEW j \in Jobs, Refuse(j), StoreKept,
         UNCHANGED <<h, tmp, blob, now, gcAt, served, unsized>>
  PROVE  Sound' /\ Aside
<1>1. HandlerShape /\ TmpShape /\ JobShape BY DEF Sound, Shape
<1>2. JobsKept /\ NoneSaved BY <1>1, RefuseKeeps
<1>3. HandlerShape' /\ TmpShape' BY <1>1 DEF HandlerShape, TmpShape
<1> QED BY <1>2, <1>3, AsideStep

\* A handler that answers, with an error or to anything but a commit.
LEMMA AsideAnswer ==
  ASSUME Sound, NEW s \in Handlers, h[s].at # "idle",
         Fail(s) \/ (Succeed(s) /\ h[s].req[1] # "commit"),
         StoreKept, TmpShape', UNCHANGED <<blob, now, gcAt, served, unsized>>
  PROVE  Sound' /\ Aside
<1>1. HandlerShape /\ JobShape /\ HandlerOwns(s) BY DEF Sound, Shape, HandlerSound
<1>2. JobsKept /\ NoneSaved BY <1>1, FailKeeps, SucceedKeeps
<1>3. h' = [h EXCEPT ![s] = Idle] BY DEF Fail, Succeed
<1>4. HandlerShape' /\ h'[s].at = "idle" /\ \A t \in Handlers \ {s} : h'[t] = h[t]
  BY <1>1, <1>3, HandlerDone
<1> QED BY <1>2, <1>4, AsideStep

LEMMA StoreBusySound ==
  ASSUME Sound, NEW j \in Jobs, StoreBusy(j)
  PROVE  Sound' /\ Aside
<1>1. UNCHANGED <<db, seq, tmp, blob, now, gcAt, h, served, unsized>> /\ Refuse(j)
  BY DEF StoreBusy, disk, time, history
<1>2. StoreKept BY <1>1, UnchangedStore DEF Sound, Shape
<1> QED BY <1>1, <1>2, AsideRefuse

\* A reservation adds an incomplete entry under an id that never was.
Reserves ==
    /\ seq + 1 \notin DOMAIN db /\ DOMAIN db' = DOMAIN db \cup {seq + 1}
    /\ \A x \in DOMAIN db : db'[x] = db[x]
    /\ ~ db'[seq + 1].complete /\ db'[seq + 1].size \in {-1, N}
    /\ UNCHANGED <<blob, now, h, served, unsized>> /\ NoneSaved

LEMMA ReserveSound ==
  ASSUME Sound, NEW j \in Jobs, Reserve(j)
  PROVE  Sound' /\ (Aside \/ Reserves)
<1>1. UNCHANGED <<tmp, blob, now, gcAt, h, served, unsized>> BY DEF Reserve, time, history
<1>2. \A t \in Handlers : HandlerKept(t) BY <1>1 DEF HandlerKept
<1>3. job[j] \in JobRecord BY DEF Sound, Shape, JobShape
<1>4. CASE job' = [job EXCEPT ![j].st = "closed"] /\ UNCHANGED <<db, seq>>
  <2>1. Refuse(j) BY <1>4 DEF Refuse
  <2>2. StoreKept BY <1>4, UnchangedStore DEF Sound, Shape
  <2> QED BY <1>1, <2>1, <2>2, AsideRefuse
<1>5. ASSUME NEW size \in {N, -1},
             Put(NewId, [repo |-> job[j].repo, key |-> job[j].key, size |-> size,
                         complete |-> FALSE, createdAt |-> now, usedAt |-> now]),
             seq' = seq + 1,
             \/ job' = [job EXCEPT ![j].st = "reserved", ![j].id = NewId]
             \/ UNCHANGED job
      PROVE  Sound' /\ Reserves
  <2> DEFINE e == [repo |-> job[j].repo, key |-> job[j].key, size |-> size,
                   complete |-> FALSE, createdAt |-> now, usedAt |-> now]
  <2>1. seq \in Nat /\ seq + 1 <= MaxId /\ MaxId \in Nat /\ N \in Nat
    BY ConstantsAssumption DEF Reserve, Sound, Shape, StoreShape
  <2>2. e \in Entry BY <1>3, <2>1 DEF Sound, Shape, TimeShape, JobRecord, Entry
  <2>3. /\ DOMAIN db' = DOMAIN db \cup {seq + 1} /\ db'[seq + 1] = e
        /\ \A x \in DOMAIN db : x # seq + 1 => db'[x] = db[x]
    BY <1>5 DEF Put, NewId
  <2>4. \A x \in DOMAIN db : x \in Nat /\ x <= seq BY <2>1 DEF Sound, Shape, StoreShape
  <2>5. \A x \in DOMAIN db : db'[x] = db[x] BY <2>1, <2>3, <2>4
  <2>6. StoreShape' BY <1>5, <2>1, <2>2, <2>3, <2>5 DEF Sound, Shape, StoreShape
  <2>7. StoreFaithful BY <1>5, <2>1, <2>3, <2>5 DEF StoreFaithful
  <2>8. job' \in [Jobs -> JobRecord] /\ JobsNamed
    BY <1>3, <1>5, <2>1 DEF Sound, Shape, JobShape, JobRecord, JobsNamed, NewId
  <2>9. Shape' BY <1>1, <2>6, <2>8
    DEF Sound, Shape, TimeShape, TmpShape, BlobShape, JobShape, HandlerShape, HistoryShape
  <2>10. ASSUME NEW k \in Jobs, k # j \/ UNCHANGED job PROVE JobOwns(k)'
    <3>1. job'[k] = job[k] BY <1>5, <2>10 DEF Sound, Shape, JobShape
    <3>2. job[k].id \in Nat /\ job[k].id <= seq BY DEF Sound, Shape, JobShape, JobRecord, JobOwns
    <3>3. job[k].id # seq + 1 BY <2>1, <3>2
    <3> QED BY <1>5, <2>1, <2>3, <2>5, <3>1, <3>2, <3>3 DEF Sound, JobOwns
  <2>11. ASSUME job' = [job EXCEPT ![j].st = "reserved", ![j].id = NewId] PROVE JobOwns(j)'
    <3>1. /\ job'[j].id = seq + 1 /\ job'[j].st = "reserved"
          /\ job'[j].repo = job[j].repo /\ job'[j].key = job[j].key
      BY <1>3, <2>11 DEF Sound, Shape, JobShape, JobRecord, NewId
    <3> QED BY <1>5, <2>1, <2>3, <3>1 DEF JobOwns
  <2>12. NoneSaved
    <3>1. \/ job' = job
          \/ job'[j].st = "reserved" /\ \A k \in Jobs \ {j} : job'[k] = job[k]
      BY <1>3, <1>5 DEF Sound, Shape, JobShape, JobRecord
    <3> QED BY <2>8, <3>1 DEF NoneSaved
  <2>13. ~ e.complete /\ e.size \in {-1, N} OBVIOUS
  <2> HIDE DEF e
  <2>14. Sound' BY <1>1, <1>2, <1>5, <2>7, <2>8, <2>9, <2>10, <2>11, SoundStays
  <2>15. seq + 1 \notin DOMAIN db BY <2>1, <2>4
  <2>16. Reserves BY <1>1, <2>3, <2>5, <2>12, <2>13, <2>15 DEF Reserves
  <2> QED BY <2>14, <2>16
<1> QED BY <1>4, <1>5 DEF Reserve

\* The id of a job that uploads.
LEMMA UploadsToOwn ==
  ASSUME Sound, NEW j \in Jobs, job[j].st \in {"reserved", "ordered"}
  PROVE  job[j].id \in 0..MaxId /\ job[j].id \in 1..seq
<1>1. job[j] \in JobRecord /\ JobOwns(j) /\ seq \in Nat
  BY DEF Sound, Shape, JobShape, StoreShape
<1>2. job[j].id \in 0..MaxId BY <1>1 DEF JobRecord
<1>3. job[j].id <= seq /\ job[j].id >= 1 BY <1>1 DEF JobOwns
<1> QED BY <1>1, <1>2, <1>3

LEMMA UploadSound ==
  ASSUME Sound, NEW s \in Handlers, NEW j \in Jobs, NEW p \in Parts, Upload(s, j, p)
  PROVE  Sound' /\ Aside
<1> DEFINE i == job[j].id
<1>1. UNCHANGED <<seq, tmp, blob, now, gcAt, served, unsized>> BY DEF Upload, time, history
<1>2. HandlerShape /\ TmpShape /\ JobShape /\ StoreShape /\ TimeShape BY DEF Sound, Shape
<1>3. StoreKept BY <1>1, <1>2, UnchangedStore, TouchKeeps DEF Upload
<1>4. CASE Refuse(j) /\ UNCHANGED h BY <1>1, <1>3, <1>4, AsideRefuse
<1>5. CASE Handle(s, j, <<"upload", p>>, "write", i, NoEntry) /\ UNCHANGED job
  <2>1. JobsKept /\ NoneSaved BY <1>2, <1>5, UnchangedJob
  <2>2. job[j].st = "reserved" BY DEF Upload
  <2>3. i \in 0..MaxId /\ i \in 1..seq BY <2>2, UploadsToOwn
  <2>4. <<"upload", p>> \in Requests BY DEF Requests
  <2>5. "write" \in Stages /\ NoEntry \in Entry \cup {NoEntry} BY DEF Stages
  <2> HIDE DEF i
  <2>6. /\ HandlerShape' /\ \A t \in Handlers \ {s} : h'[t] = h[t]
        /\ h'[s].at = "write" /\ h'[s].job = j /\ h'[s].req = <<"upload", p>> /\ h'[s].id = i
    BY <1>2, <1>5, <2>3, <2>4, <2>5, HandlerStarts
  <2>7. HandlerOwns(s)' BY <1>1, <2>3, <2>6 DEF HandlerOwns, Committing
  <2>8. TmpShape' BY <1>1, <1>2 DEF TmpShape
  <2> QED BY <1>1, <1>3, <2>1, <2>6, <2>7, <2>8, AsideStep
<1> QED BY <1>4, <1>5 DEF Upload

LEMMA OrderSound ==
  ASSUME Sound, NEW s \in Handlers, NEW j \in Jobs, Order(s, j)
  PROVE  Sound' /\ Aside
<1> DEFINE i == job[j].id
<1>1. UNCHANGED <<seq, tmp, blob, now, gcAt, served, unsized>> BY DEF Order, time, history
<1>2. HandlerShape /\ TmpShape /\ JobShape /\ StoreShape /\ TimeShape BY DEF Sound, Shape
<1>3. StoreKept BY <1>1, <1>2, UnchangedStore, TouchKeeps DEF Order
<1>4. CASE Refuse(j) /\ UNCHANGED h BY <1>1, <1>3, <1>4, AsideRefuse
<1>5. CASE Handle(s, j, <<"order", 0>>, "order", i, NoEntry) /\ UNCHANGED job
  <2>1. JobsKept /\ NoneSaved BY <1>2, <1>5, UnchangedJob
  <2>2. job[j].st = "reserved" BY DEF Order
  <2>3. i \in 0..MaxId /\ i \in 1..seq BY <2>2, UploadsToOwn
  <2>4. <<"order", 0>> \in Requests BY DEF Requests
  <2>5. "order" \in Stages /\ NoEntry \in Entry \cup {NoEntry} BY DEF Stages
  <2> HIDE DEF i
  <2>6. /\ HandlerShape' /\ \A t \in Handlers \ {s} : h'[t] = h[t]
        /\ h'[s].at = "order" /\ h'[s].job = j /\ h'[s].req = <<"order", 0>> /\ h'[s].id = i
    BY <1>2, <1>5, <2>3, <2>4, <2>5, HandlerStarts
  <2>7. HandlerOwns(s)' BY <1>1, <2>3, <2>6 DEF HandlerOwns, Committing
  <2>8. TmpShape' BY <1>1, <1>2 DEF TmpShape
  <2> QED BY <1>1, <1>3, <2>1, <2>6, <2>7, <2>8, AsideStep
<1> QED BY <1>4, <1>5 DEF Order

LEMMA SeqBelow ==
  ASSUME Sound
  PROVE  seq \in Nat /\ MaxId \in Nat /\ seq <= MaxId
BY ConstantsAssumption DEF Sound, Shape, StoreShape

\* What one file of a temporary directory becomes.
LEMMA TmpWritten ==
  ASSUME TmpShape, NEW i \in Ids, NEW f \in Files, NEW v \in {"none", "short", "full"},
         tmp' = [tmp EXCEPT ![i][f] = v]
  PROVE  TmpShape'
BY DEF TmpShape

LEMMA UploadWriteSound ==
  ASSUME Sound, NEW s \in Handlers, UploadWrite(s)
  PROVE  Sound' /\ Aside
<1> DEFINE file == <<IF API[h[s].job] = "v2" /\ N > 1 THEN "block" ELSE "part", h[s].req[2]>>
<1>1. UNCHANGED <<db, seq, blob, now, gcAt, served, unsized>> BY DEF UploadWrite, time, history
<1>2. StoreKept BY <1>1, UnchangedStore DEF Sound, Shape
<1>3. /\ JobShape /\ HandlerShape /\ TmpShape /\ HandlerOwns(s)
      /\ h[s].at = "write" /\ h[s].at # "idle"
  BY DEF Sound, Shape, HandlerSound, UploadWrite
<1>4. h[s].req \in {"upload"} \X Parts BY <1>3 DEF HandlerOwns
<1>5. h[s].req[1] # "commit" /\ h[s].req[2] \in Parts BY <1>4
<1>6. file \in Files BY <1>5 DEF Files
<1>7. h[s].id \in Ids BY <1>3, SeqBelow DEF HandlerOwns, Ids
<1>8. TmpShape' BY <1>3, <1>6, <1>7, TmpWritten DEF UploadWrite
<1>9. CASE Fail(s) BY <1>1, <1>2, <1>3, <1>8, <1>9, AsideAnswer
<1>10. CASE Succeed(s) BY <1>1, <1>2, <1>3, <1>5, <1>8, <1>10, AsideAnswer
<1>11. CASE Goto(s, "touch") /\ UNCHANGED job
  <2>1. JobsKept /\ NoneSaved BY <1>3, <1>11, UnchangedJob
  <2>2. /\ HandlerShape' /\ h'[s] = [h[s] EXCEPT !.at = "touch"]
        /\ \A t \in Handlers \ {s} : h'[t] = h[t]
    BY <1>3, <1>11, HandlerGoes DEF Stages
  <2>3. h'[s].at = "touch" /\ h'[s].job = h[s].job /\ h'[s].req = h[s].req /\ h'[s].id = h[s].id
    BY <1>3, <2>2 DEF HandlerShape, HandlerRecord
  <2>4. HandlerOwns(s)' BY <1>1, <1>3, <1>4, <2>3 DEF HandlerOwns, Committing
  <2> QED BY <1>1, <1>2, <1>8, <2>1, <2>2, <2>3, <2>4, AsideStep
<1> QED BY <1>9, <1>10, <1>11 DEF UploadWrite

LEMMA UploadTouchSound ==
  ASSUME Sound, NEW s \in Handlers, UploadTouch(s)
  PROVE  Sound' /\ Aside
<1>1. UNCHANGED <<seq, tmp, blob, now, gcAt, served, unsized>> BY DEF UploadTouch, time, history
<1>2. /\ TmpShape /\ HandlerOwns(s) /\ h[s].at = "touch" /\ h[s].at # "idle" /\ Succeed(s)
      /\ StoreShape /\ TimeShape
  BY DEF Sound, Shape, HandlerSound, UploadTouch
<1>3. StoreKept BY <1>1, <1>2, TouchKeeps DEF UploadTouch
<1>4. h[s].req \in {"upload"} \X Parts BY <1>2 DEF HandlerOwns
<1>5. h[s].req[1] # "commit" BY <1>4
<1>6. TmpShape' BY <1>1, <1>2 DEF TmpShape
<1> QED BY <1>1, <1>2, <1>3, <1>5, <1>6, AsideAnswer

LEMMA OrderBlockSound ==
  ASSUME Sound, NEW s \in Handlers, OrderBlock(s)
  PROVE  Sound' /\ Aside
<1> DEFINE i == h[s].id
           p == h[s].written + 1
<1>1. UNCHANGED <<db, seq, blob, now, gcAt, served, unsized>> BY DEF OrderBlock, time, history
<1>2. StoreKept BY <1>1, UnchangedStore DEF Sound, Shape
<1>3. /\ JobShape /\ HandlerShape /\ TmpShape /\ HandlerOwns(s)
      /\ h[s].at = "order" /\ h[s].at # "idle"
  BY DEF Sound, Shape, HandlerSound, OrderBlock
<1>4. h[s].req[1] # "commit" BY <1>3 DEF HandlerOwns
<1>5. CASE (Succeed(s) \/ Fail(s)) /\ UNCHANGED tmp
  <2>1. TmpShape' BY <1>3, <1>5 DEF TmpShape
  <2> QED BY <1>1, <1>2, <1>3, <1>4, <1>5, <2>1, AsideAnswer
<1>6. CASE /\ ~(p > N) /\ UNCHANGED job
           /\ tmp' = [tmp EXCEPT ![i][<<"part", p>>] = tmp[i][<<"block", p>>],
                                 ![i][<<"block", p>>] = "none"]
           /\ h' = [h EXCEPT ![s].written = p]
  <2>1. JobsKept /\ NoneSaved BY <1>3, <1>6, UnchangedJob
  <2>2. p \in Parts /\ p \in 0..N
    BY <1>3, <1>6, ConstantsAssumption DEF HandlerShape, HandlerRecord, Parts
  <2>3. <<"part", p>> \in Files /\ <<"block", p>> \in Files BY <2>2 DEF Files
  <2>4. i \in Ids BY <1>3, SeqBelow DEF HandlerOwns, Ids
  <2> DEFINE r == [h[s] EXCEPT !.written = p]
  <2>5. r \in HandlerRecord BY <1>3, <2>2 DEF HandlerShape, HandlerRecord
  <2>6. r.at = "order" /\ r.job = h[s].job /\ r.req = h[s].req /\ r.id = h[s].id
    BY <1>3 DEF HandlerShape, HandlerRecord
  <2>7. h' = [h EXCEPT ![s] = r] BY <1>6
  <2>8. TmpShape' BY <1>3, <1>6, <2>3, <2>4 DEF TmpShape
  <2> HIDE DEF r, p, i
  <2>9. HandlerShape' /\ h'[s] = r /\ \A t \in Handlers \ {s} : h'[t] = h[t]
    BY <1>3, <2>5, <2>7, HandlerReplaced
  <2>10. HandlerOwns(s)' BY <1>1, <1>3, <2>6, <2>9 DEF HandlerOwns, Committing
  <2> QED BY <1>1, <1>2, <2>1, <2>6, <2>8, <2>9, <2>10, AsideStep
<1> QED BY <1>5, <1>6 DEF OrderBlock

-----------------------------------------------------------------------------
(* Commit.                                                                 *)

\* What a commit starts on: an incomplete entry of the job's own key.
LEMMA CommitStarts ==
  ASSUME Sound, NEW s \in Handlers, NEW j \in Jobs, Commit(s, j), ~ UNCHANGED h
  PROVE  /\ UNCHANGED <<db, seq, tmp, blob, now, gcAt, job, served, unsized>>
         /\ HandlerShape' /\ \A t \in Handlers \ {s} : h'[t] = h[t] /\ HandlerKept(t)
         /\ h'[s].at = "list" /\ h'[s].job = j /\ h'[s].req = <<"commit", 0>>
         /\ h'[s].written = 0
         /\ h'[s].id \in DOMAIN db /\ h'[s].entry \in Entry
         /\ LET i == h'[s].id  e == h'[s].entry
            IN  /\ ~ db[i].complete
                /\ db[i].repo = job[j].repo /\ db[i].key = job[j].key
                /\ e.repo = db[i].repo /\ e.key = db[i].key /\ e.createdAt = db[i].createdAt
                /\ e.size = db[i].size \/ e.size = N
<1>1. JobOwns(j) /\ HandlerShape /\ StoreShape /\ N \in Nat
  BY ConstantsAssumption DEF Sound, Shape
<1>2. PICK i \in DOMAIN db :
        /\ ~ db[i].complete /\ db[i].repo = job[j].repo /\ db[i].key = job[j].key
        /\ Handle(s, j, <<"commit", 0>>, "list", i,
                  IF API[j] = "v1" THEN db[i] ELSE [db[i] EXCEPT !.size = N])
        /\ UNCHANGED job
  <2>1. CASE API[j] = "v1" BY <1>1, <2>1 DEF Commit, JobOwns
  <2>2. CASE API[j] # "v1" BY <2>2 DEF Commit, Exact, Newest
  <2> QED BY <2>1, <2>2
<1> DEFINE e == IF API[j] = "v1" THEN db[i] ELSE [db[i] EXCEPT !.size = N]
<1>3. db[i] \in Entry /\ i \in 0..MaxId BY <1>1, <1>2, SeqBelow DEF StoreShape
<1>4. /\ e \in Entry /\ e.repo = db[i].repo /\ e.key = db[i].key /\ e.createdAt = db[i].createdAt
      /\ e.size = db[i].size \/ e.size = N
  BY <1>1, <1>3 DEF Entry
<1>5. Handle(s, j, <<"commit", 0>>, "list", i, e) BY <1>2
<1> HIDE DEF e
<1>6. <<"commit", 0>> \in Requests /\ "list" \in Stages BY DEF Requests, Stages
<1>7. /\ HandlerShape' /\ \A t \in Handlers \ {s} : h'[t] = h[t] /\ HandlerKept(t)
      /\ h'[s].at = "list" /\ h'[s].job = j /\ h'[s].req = <<"commit", 0>> /\ h'[s].id = i
      /\ h'[s].entry = e /\ h'[s].written = 0
  BY <1>1, <1>3, <1>4, <1>5, <1>6, HandlerStarts
<1>8. UNCHANGED <<db, seq, tmp, blob, now, gcAt, job, served, unsized>>
  BY <1>2 DEF Commit, disk, time, history
<1> QED BY <1>2, <1>4, <1>7, <1>8

LEMMA CommitSound ==
  ASSUME Sound, NEW s \in Handlers, NEW j \in Jobs, Commit(s, j)
  PROVE  Sound' /\ (~ UNCHANGED h \/ Aside)
<1>1. UNCHANGED <<db, seq, tmp, blob, now, gcAt, served, unsized>>
  BY DEF Commit, disk, time, history
<1>2. StoreKept BY <1>1, UnchangedStore DEF Sound, Shape
<1>3. TmpShape' /\ BlobShape' BY <1>1 DEF Sound, Shape, TmpShape, BlobShape
<1>4. CASE UNCHANGED h
  <2>1. CASE Refuse(j) BY <1>1, <1>2, <1>4, <2>1, AsideRefuse
  <2>2. CASE UNCHANGED job
    <3>1. JobsKept /\ NoneSaved BY <2>2, UnchangedJob DEF Sound, Shape
    <3>2. HandlerShape' BY <1>4 DEF Sound, Shape, HandlerShape
    <3> QED BY <1>1, <1>2, <1>3, <1>4, <3>1, <3>2, AsideStep
  <2> QED BY <2>1, <2>2 DEF Commit
<1>5. CASE ~ UNCHANGED h
  <2> DEFINE i == h'[s].id
             e == h'[s].entry
  <2>1. /\ UNCHANGED job
        /\ HandlerShape' /\ \A t \in Handlers \ {s} : HandlerKept(t)
        /\ h'[s].at = "list" /\ h'[s].job = j /\ h'[s].req = <<"commit", 0>>
        /\ h'[s].written = 0
        /\ i \in DOMAIN db /\ e \in Entry
        /\ e.repo = job[j].repo /\ e.key = job[j].key
        /\ e.repo = db[i].repo /\ e.key = db[i].key /\ e.createdAt = db[i].createdAt
    BY <1>5, CommitStarts
  <2>2. JobsKept BY <2>1, UnchangedJob DEF Sound, Shape
  <2>3. i \in 1..seq BY <2>1 DEF Sound, Shape, StoreShape
  <2>4. HandlerOwns(s)' BY <1>1, <2>1, <2>3 DEF HandlerOwns, Committing
  <2>5. EntryOwns(s)' BY <1>1, <2>1 DEF EntryOwns, Committing, Reading
  <2>6. Copies(s)' BY <2>1 DEF Copies
  <2>7. Sound' BY <1>1, <1>2, <1>3, <2>1, <2>2, <2>4, <2>5, <2>6, QuietStep DEF HandlerSound
  <2> QED BY <1>5, <2>7
<1> QED BY <1>4, <1>5

\* A commit goes on: it touches no entry, and no file but that of its own id.
CommitGoes(s) ==
    /\ UNCHANGED <<db, seq, now, gcAt, job, served, unsized>>
    /\ Committing(s) /\ Committing(s)'
    /\ h'[s].job = h[s].job /\ h'[s].req = h[s].req /\ h'[s].id = h[s].id /\ h'[s].entry = h[s].entry
    /\ TmpShape' /\ BlobShape' /\ HandlerShape'
    /\ \A t \in Handlers \ {s} : HandlerKept(t) /\ (h[t].id # h[s].id => h'[t] = h[t])
    /\ \A x \in Ids \ {h[s].id} : blob'[x] = blob[x]

LEMMA CommitGoesSound ==
  ASSUME Sound, NEW s \in Handlers, CommitGoes(s), Copies(s)'
  PROVE  Sound'
<1>1. UNCHANGED <<db, seq, now, gcAt, job, served, unsized>> BY DEF CommitGoes
<1>2. StoreKept BY <1>1, UnchangedStore DEF Sound, Shape
<1>3. JobsKept BY <1>1, UnchangedJob DEF Sound, Shape
<1>4. TmpShape' /\ BlobShape' /\ HandlerShape' BY DEF CommitGoes
<1>5. HandlerOwns(s) /\ EntryOwns(s) BY DEF Sound, HandlerSound
<1>6. /\ Committing(s) /\ Committing(s)'
      /\ h'[s].job = h[s].job /\ h'[s].req = h[s].req /\ h'[s].id = h[s].id
      /\ h'[s].entry = h[s].entry
  BY DEF CommitGoes
<1>7. HandlerOwns(s)' BY <1>1, <1>5, <1>6 DEF HandlerOwns, Committing
<1>8. EntryOwns(s)' BY <1>1, <1>5, <1>6 DEF EntryOwns, Committing, Reading
<1>9. \A t \in Handlers : HandlerKept(t) \/ HandlerSound(t)'
  BY <1>7, <1>8 DEF HandlerSound, CommitGoes
<1> QED BY <1>1, <1>2, <1>3, <1>4, <1>9, QuietStep

\* What a handler that commits has in its hands.
LEMMA CommitHas ==
  ASSUME Sound, NEW s \in Handlers, Committing(s)
  PROVE  /\ h[s].id \in Ids /\ h[s].id \in 1..seq /\ h[s] \in HandlerRecord
         /\ HandlerShape /\ TmpShape /\ BlobShape /\ JobShape
         /\ HandlerOwns(s) /\ h[s].at # "idle" /\ Copies(s)
<1>1. h[s].at # "idle" BY DEF Committing
<1>2. HandlerOwns(s) BY DEF Sound, HandlerSound
<1>3. h[s].id \in 1..seq BY <1>1, <1>2 DEF HandlerOwns
<1>4. h[s].id \in Ids BY <1>3, SeqBelow DEF Ids
<1> QED BY <1>1, <1>2, <1>3, <1>4 DEF Sound, HandlerSound, Shape, HandlerShape

LEMMA CommitListGoes ==
  ASSUME Sound, NEW s \in Handlers, CommitList(s)
  PROVE  \/ Sound' /\ Aside
         \/ CommitGoes(s) /\ Copies(s)' /\ h'[s].at = "assemble" /\ UNCHANGED blob
<1>1. Committing(s) /\ h[s].at = "list" BY DEF CommitList, Committing
<1>2. /\ h[s].id \in Ids /\ h[s] \in HandlerRecord /\ HandlerShape /\ TmpShape /\ BlobShape
      /\ Copies(s)
  BY <1>1, CommitHas
<1>3. UNCHANGED <<db, seq, tmp, blob, now, gcAt, served, unsized>>
  BY DEF CommitList, disk, time, history
<1>4. CASE Fail(s)
  <2>1. StoreKept BY <1>3, UnchangedStore DEF Sound, Shape
  <2>2. TmpShape' BY <1>2, <1>3 DEF TmpShape
  <2>3. h[s].at # "idle" BY <1>1
  <2> QED BY <1>1, <1>3, <1>4, <2>1, <2>2, <2>3, AsideAnswer
<1> SUFFICES ASSUME ~ Fail(s)
             PROVE CommitGoes(s) /\ h'[s].at = "assemble" /\ Copies(s)'
  BY <1>1, <1>3, <1>4
<1> DEFINE S == {p \in Parts : tmp[h[s].id][<<"part", p>>] # "none"}
           r == [h[s] EXCEPT !.at = "assemble", !.names = S]
<1>5. h' = [h EXCEPT ![s] = r] /\ UNCHANGED job BY DEF CommitList
<1>6. /\ r \in HandlerRecord /\ r.at = "assemble" /\ r.job = h[s].job /\ r.req = h[s].req
      /\ r.id = h[s].id /\ r.entry = h[s].entry /\ r.written = h[s].written
  BY <1>2 DEF HandlerRecord, Stages
<1> HIDE DEF r
<1>7. HandlerShape' /\ h'[s] = r /\ \A t \in Handlers \ {s} : h'[t] = h[t] /\ HandlerKept(t)
  BY <1>2, <1>5, <1>6, HandlerReplaced
<1>8. TmpShape' /\ BlobShape' BY <1>2, <1>3 DEF TmpShape, BlobShape
<1>9. Committing(s)' BY <1>6, <1>7 DEF Committing
<1>10. Copies(s)' BY <1>1, <1>2, <1>6, <1>7 DEF Copies
<1> QED BY <1>1, <1>3, <1>5, <1>6, <1>7, <1>8, <1>9, <1>10 DEF CommitGoes

LEMMA MoveGoes ==
  ASSUME Sound, NEW s \in Handlers, Move(s)
  PROVE  /\ CommitGoes(s) /\ Copies(s)'
         /\ \/ h'[s].at = "abort" /\ UNCHANGED blob
            \/ /\ h'[s].at = "check" /\ blob'[h[s].id].file
               /\ Cardinality(blob'[h[s].id].data) = h'[s].written
<1> DEFINE i == h[s].id
           p == CHOOSE q \in h[s].names : TRUE
<1>1. Committing(s) /\ h[s].at = "assemble" /\ Cardinality(h[s].names) = 1
  BY DEF Move, Committing
<1>2. /\ i \in Ids /\ h[s] \in HandlerRecord /\ HandlerShape /\ TmpShape /\ BlobShape /\ Copies(s)
  BY <1>1, CommitHas
<1>3. UNCHANGED <<db, seq, now, gcAt, job, served, unsized>> BY DEF Move, time, history
<1>4. p \in Parts
  <2>1. h[s].names \in SUBSET Parts BY <1>2 DEF HandlerRecord
  <2>2. IsFiniteSet(h[s].names) BY <2>1, PartsAreFinite
  <2>3. p \in h[s].names BY <1>1, <2>2, MovedIsListed
  <2> QED BY <2>1, <2>3
<1>5. CASE Goto(s, "abort") /\ UNCHANGED <<tmp, blob>>
  <2>1. /\ HandlerShape' /\ h'[s] = [h[s] EXCEPT !.at = "abort"]
        /\ \A t \in Handlers \ {s} : h'[t] = h[t] /\ HandlerKept(t)
    BY <1>2, <1>5, HandlerGoes DEF Stages
  <2>2. /\ h'[s].at = "abort" /\ h'[s].job = h[s].job /\ h'[s].req = h[s].req
        /\ h'[s].id = h[s].id /\ h'[s].entry = h[s].entry
    BY <1>2, <2>1 DEF HandlerRecord
  <2>3. TmpShape' /\ BlobShape' BY <1>2, <1>5 DEF TmpShape, BlobShape
  <2>4. Committing(s)' /\ Copies(s)' BY <2>2 DEF Committing, Copies
  <2> QED BY <1>1, <1>3, <1>5, <2>1, <2>2, <2>3, <2>4 DEF CommitGoes
<1>6. CASE /\ blob' = [blob EXCEPT ![i] = [file |-> TRUE,
                         data |-> {q \in {p} : tmp[i][<<"part", q>>] = "full"}]]
           /\ tmp' = [tmp EXCEPT ![i][<<"part", p>>] = "none"]
           /\ h' = [Detached(i) EXCEPT ![s].at = "check", ![s].written = Size({p}, i)]
  <2> DEFINE d == {q \in {p} : tmp[i][<<"part", q>>] = "full"}
             w == Size({p}, i)
             F == Detached(i)
             r == [F[s] EXCEPT !.at = "check", !.written = w]
  <2> HIDE DEF p
  <2>1. w = Cardinality(d) /\ w \in 0..N
    <3> HIDE DEF i
    <3>1. w = Cardinality(d) BY OnePart
    <3>2. w \in {0, 1} BY OnePart
    <3> QED BY <3>1, <3>2, ConstantsAssumption
  <2> HIDE DEF d, w
  <2>2. F \in [Handlers -> HandlerRecord] /\ F[s] = [h[s] EXCEPT !.open = FALSE]
    BY <1>2 DEF Detached, HandlerShape, HandlerRecord
  <2>3. /\ F[s] \in HandlerRecord /\ F[s].job = h[s].job /\ F[s].req = h[s].req
        /\ F[s].id = h[s].id /\ F[s].entry = h[s].entry
    BY <1>2, <2>2 DEF HandlerRecord
  <2>4. h' = [F EXCEPT ![s].at = "check", ![s].written = w] BY <1>6 DEF w
  <2> HIDE DEF F
  <2>5. /\ r \in HandlerRecord /\ r.at = "check" /\ r.job = h[s].job /\ r.req = h[s].req
        /\ r.id = h[s].id /\ r.entry = h[s].entry /\ r.written = Cardinality(d)
    BY <2>1, <2>3 DEF HandlerRecord, Stages
  <2>14. h' = [F EXCEPT ![s] = r] BY <2>2, <2>4
  <2>15. h' = [Detached(i) EXCEPT ![s] = r] BY <2>14 DEF F
  <2> HIDE DEF r
  <2>6. /\ HandlerShape' /\ h'[s] = r
        /\ \A t \in Handlers \ {s} : HandlerKept(t) /\ (h[t].id # i => h'[t] = h[t])
    BY <1>2, <2>5, <2>15, HandlersDetached
  <2>7. <<"part", p>> \in Files BY <1>4 DEF Files
  <2>8. TmpShape' BY <1>2, <1>6, <2>7, TmpWritten
  <2>9. d \in SUBSET Parts BY <1>4 DEF d
  <2>16. blob' = [blob EXCEPT ![i] = [file |-> TRUE, data |-> d]] BY <1>6 DEF d
  <2>10. BlobShape' /\ \A x \in Ids \ {i} : blob'[x] = blob[x] BY <1>2, <2>16, <2>9 DEF BlobShape
  <2>11. blob'[i].file /\ blob'[i].data = d BY <1>2, <2>16 DEF BlobShape
  <2>12. Committing(s)' /\ Copies(s)' BY <2>5, <2>6 DEF Committing, Copies
  <2> QED BY <1>1, <1>3, <2>5, <2>6, <2>8, <2>10, <2>11, <2>12 DEF CommitGoes
<1> QED BY <1>5, <1>6 DEF Move

LEMMA CreateGoes ==
  ASSUME Sound, NEW s \in Handlers, Create(s)
  PROVE  /\ CommitGoes(s) /\ Copies(s)'
         /\ h'[s].at = "copy" /\ h'[s].open /\ h'[s].written = 0
         /\ blob'[h[s].id].file /\ blob'[h[s].id].data = {}
<1> DEFINE i == h[s].id
           r == [h[s] EXCEPT !.at = "copy", !.open = TRUE]
<1>1. Committing(s) /\ h[s].at = "assemble" BY DEF Create, Committing
<1>2. /\ i \in Ids /\ h[s] \in HandlerRecord /\ HandlerShape /\ TmpShape /\ BlobShape /\ Copies(s)
  BY <1>1, CommitHas
<1>3. UNCHANGED <<db, seq, tmp, now, gcAt, job, served, unsized>> BY DEF Create, time, history
<1>4. h' = [h EXCEPT ![s] = r] BY <1>2 DEF Create, HandlerShape
<1>5. /\ r \in HandlerRecord /\ r.at = "copy" /\ r.job = h[s].job /\ r.req = h[s].req
      /\ r.id = h[s].id /\ r.entry = h[s].entry /\ r.written = h[s].written
      /\ r.names = h[s].names /\ r.open
  BY <1>2 DEF HandlerRecord, Stages
<1> HIDE DEF r
<1>6. HandlerShape' /\ h'[s] = r /\ \A t \in Handlers \ {s} : h'[t] = h[t] /\ HandlerKept(t)
  BY <1>2, <1>4, <1>5, HandlerReplaced
<1>7. TmpShape' BY <1>2, <1>3 DEF TmpShape
<1>8. blob' = [blob EXCEPT ![i] = [file |-> TRUE, data |-> {}]] BY DEF Create
<1>9. /\ BlobShape' /\ blob'[i].file /\ blob'[i].data = {}
      /\ \A x \in Ids \ {i} : blob'[x] = blob[x]
  BY <1>2, <1>8 DEF BlobShape
<1>10. Committing(s)' BY <1>5, <1>6 DEF Committing
<1>11. h'[s].written = 0 BY <1>1, <1>2, <1>5, <1>6 DEF Copies
<1>12. Cardinality(h'[s].names) \in 0..N BY <1>2, <1>5, <1>6, PartsAreFinite DEF HandlerRecord
<1>13. N \in Nat BY ConstantsAssumption
<1>14. Copies(s)' BY <1>5, <1>6, <1>11, <1>12, <1>13 DEF Copies
<1> QED BY <1>1, <1>3, <1>5, <1>6, <1>7, <1>9, <1>10, <1>11, <1>14 DEF CommitGoes

\* Copying ends, fails on a part that is gone, or goes on with the next part:
\* what it counts is what is in the file, unless that was detached.
LEMMA CopyGoes ==
  ASSUME Sound, NEW s \in Handlers, Copy(s)
  PROVE  /\ CommitGoes(s) /\ Copies(s)' /\ h[s].at = "copy"
         /\ \/ h'[s].at = "abort" /\ UNCHANGED blob
            \/ h'[s].at = "check" /\ UNCHANGED blob /\ h'[s].written = h[s].written
            \/ /\ h'[s].at = "copy" /\ h'[s].open = h[s].open
               /\ h'[s].names \subseteq h[s].names
               /\ \/ blob'[h[s].id] = blob[h[s].id] /\ h'[s].written = h[s].written
                  \/ /\ h[s].open => \E p \in h[s].names :
                          blob'[h[s].id] = [blob[h[s].id] EXCEPT !.data = @ \cup {p}]
                          /\ p \notin h'[s].names
                     /\ h'[s].written = h[s].written + 1
<1> DEFINE i == h[s].id
           p == CHOOSE q \in h[s].names : \A r \in h[s].names : q <= r
           w == Size({p}, i)
<1>1. Committing(s) /\ h[s].at = "copy" BY DEF Copy, Committing
<1>2. /\ i \in Ids /\ h[s] \in HandlerRecord /\ HandlerShape /\ TmpShape /\ BlobShape /\ Copies(s)
  BY <1>1, CommitHas
<1>3. UNCHANGED <<db, seq, tmp, now, gcAt, job, served, unsized>> BY DEF Copy, time, history
<1>4. TmpShape' BY <1>2, <1>3 DEF TmpShape
<1>5. ASSUME NEW at \in {"check", "abort"}, Goto(s, at), UNCHANGED blob
      PROVE  CommitGoes(s) /\ Copies(s)' /\ h'[s].at = at /\ h'[s].written = h[s].written
  <2>1. /\ HandlerShape' /\ h'[s] = [h[s] EXCEPT !.at = at]
        /\ \A t \in Handlers \ {s} : h'[t] = h[t] /\ HandlerKept(t)
    <3>1. at \in Stages BY DEF Stages
    <3> QED BY <1>2, <1>5, <3>1, HandlerGoes
  <2>2. /\ h'[s].at = at /\ h'[s].job = h[s].job /\ h'[s].req = h[s].req
        /\ h'[s].id = h[s].id /\ h'[s].entry = h[s].entry /\ h'[s].written = h[s].written
    BY <1>2, <2>1 DEF HandlerRecord
  <2>3. BlobShape' BY <1>2, <1>5 DEF BlobShape
  <2>4. Committing(s)' /\ Copies(s)' BY <2>2 DEF Committing, Copies
  <2> QED BY <1>1, <1>3, <1>4, <1>5, <2>1, <2>2, <2>3, <2>4 DEF CommitGoes
<1>6. ASSUME h[s].names # {},
             blob' = IF h[s].open /\ w = 1 THEN [blob EXCEPT ![i].data = @ \cup {p}] ELSE blob,
             h' = [h EXCEPT ![s].names = @ \ {p}, ![s].written = @ + w]
      PROVE  /\ CommitGoes(s) /\ Copies(s)' /\ h'[s].at = "copy" /\ h'[s].open = h[s].open
             /\ h'[s].names \subseteq h[s].names
             /\ \/ blob'[i] = blob[i] /\ h'[s].written = h[s].written
                \/ /\ h[s].open => \E q \in h[s].names :
                        blob'[i] = [blob[i] EXCEPT !.data = @ \cup {q}] /\ q \notin h'[s].names
                   /\ h'[s].written = h[s].written + 1
  <2>1. h[s].names \in SUBSET Parts BY <1>2 DEF HandlerRecord
  <2>2. p \in h[s].names BY <1>6, <2>1, CopiedIsListed
  <2>3. w \in {0, 1} BY OnePart
  <2> HIDE DEF p, w
  <2>4. /\ IsFiniteSet(h[s].names) /\ Cardinality(h[s].names) \in 0..N
        /\ Cardinality(h[s].names \ {p}) = Cardinality(h[s].names) - 1
    BY <2>1, <2>2, PartsAreFinite, FS_RemoveElement
  <2>5. Cardinality(h[s].names \ {p}) \in 0..N BY <2>1, PartsAreFinite
  <2>6. h[s].written \in 0..N /\ N \in Nat BY <1>2, ConstantsAssumption DEF HandlerRecord
  <2>7. h[s].written + Cardinality(h[s].names) <= N BY <1>1, <1>2 DEF Copies
  <2>8. h[s].written + w \in 0..N /\ h[s].written + w + Cardinality(h[s].names \ {p}) <= N
    BY <2>3, <2>4, <2>5, <2>6, <2>7
  <2> DEFINE r == [h[s] EXCEPT !.names = @ \ {p}, !.written = @ + w]
  <2>9. /\ r \in HandlerRecord /\ r.at = "copy" /\ r.job = h[s].job /\ r.req = h[s].req
        /\ r.id = h[s].id /\ r.entry = h[s].entry /\ r.written = h[s].written + w
        /\ r.names = h[s].names \ {p} /\ r.open = h[s].open
    BY <1>1, <1>2, <2>8 DEF HandlerRecord
  <2>10. h' = [h EXCEPT ![s] = r] BY <1>2, <1>6 DEF HandlerShape
  <2> HIDE DEF r
  <2>11. HandlerShape' /\ h'[s] = r /\ \A t \in Handlers \ {s} : h'[t] = h[t] /\ HandlerKept(t)
    BY <1>2, <2>9, <2>10, HandlerReplaced
  <2>12. BlobShape' /\ \A x \in Ids \ {i} : blob'[x] = blob[x]
    BY <1>2, <1>6, <2>1, <2>2 DEF BlobShape
  <2>13. blob'[i] = IF h[s].open /\ w = 1 THEN [blob[i] EXCEPT !.data = @ \cup {p}] ELSE blob[i]
    BY <1>2, <1>6 DEF BlobShape
  <2>14. Committing(s)' BY <2>9, <2>11 DEF Committing
  <2>15. Copies(s)' BY <2>8, <2>9, <2>11 DEF Copies
  <2>16. CommitGoes(s)
    BY <1>1, <1>3, <1>4, <2>9, <2>11, <2>12, <2>14 DEF CommitGoes
  <2>17. /\ h'[s].at = "copy" /\ h'[s].open = h[s].open
         /\ h'[s].names = h[s].names \ {p} /\ h'[s].written = h[s].written + w
    BY <2>9, <2>11
  <2>18. CASE w = 0
    <3>1. blob'[i] = blob[i] BY <2>13, <2>18
    <3>2. h'[s].written = h[s].written BY <2>6, <2>17, <2>18
    <3> QED BY <2>15, <2>16, <2>17, <3>1, <3>2
  <2>19. CASE w = 1
    <3>1. h[s].open => blob'[i] = [blob[i] EXCEPT !.data = @ \cup {p}] BY <2>13, <2>19
    <3>2. h[s].open => \E q \in h[s].names :
                          blob'[i] = [blob[i] EXCEPT !.data = @ \cup {q}] /\ q \notin h'[s].names
      BY <2>2, <2>17, <3>1
    <3>3. h'[s].names \subseteq h[s].names /\ h'[s].written = h[s].written + 1
      BY <2>17, <2>19
    <3> HIDE DEF i
    <3> QED BY <2>15, <2>16, <2>17, <3>2, <3>3
  <2> QED BY <2>3, <2>18, <2>19
<1>7. \/ \E at \in {"check", "abort"} : Goto(s, at) /\ UNCHANGED blob
      \/ /\ h[s].names # {}
         /\ blob' = IF h[s].open /\ w = 1 THEN [blob EXCEPT ![i].data = @ \cup {p}] ELSE blob
         /\ h' = [h EXCEPT ![s].names = @ \ {p}, ![s].written = @ + w]
  BY DEF Copy
<1> HIDE DEF p, w
<1> QED BY <1>1, <1>5, <1>6, <1>7

LEMMA CheckSizeGoes ==
  ASSUME Sound, NEW s \in Handlers, CheckSize(s)
  PROVE  /\ CommitGoes(s) /\ Copies(s)' /\ h[s].at = "check"
         /\ \/ h'[s].at = "abort" /\ ~ blob'[h[s].id].file
            \/ h'[s].at = "clean" /\ ~ Broken(s) /\ UNCHANGED blob /\ h'[s].written = h[s].written
<1> DEFINE i == h[s].id
<1>1. Committing(s) /\ h[s].at = "check" BY DEF CheckSize, Committing
<1>2. /\ i \in Ids /\ h[s] \in HandlerRecord /\ HandlerShape /\ TmpShape /\ BlobShape /\ Copies(s)
  BY <1>1, CommitHas
<1>3. UNCHANGED <<db, seq, tmp, now, gcAt, job, served, unsized>> BY DEF CheckSize, time, history
<1>4. TmpShape' BY <1>2, <1>3 DEF TmpShape
<1>5. CASE ~ Broken(s) /\ Goto(s, "clean") /\ UNCHANGED blob
  <2>1. /\ HandlerShape' /\ h'[s] = [h[s] EXCEPT !.at = "clean"]
        /\ \A t \in Handlers \ {s} : h'[t] = h[t] /\ HandlerKept(t)
    BY <1>2, <1>5, HandlerGoes DEF Stages
  <2>2. /\ h'[s].at = "clean" /\ h'[s].job = h[s].job /\ h'[s].req = h[s].req
        /\ h'[s].id = h[s].id /\ h'[s].entry = h[s].entry /\ h'[s].written = h[s].written
    BY <1>2, <2>1 DEF HandlerRecord
  <2>3. BlobShape' BY <1>2, <1>5 DEF BlobShape
  <2>4. Committing(s)' /\ Copies(s)' BY <2>2 DEF Committing, Copies
  <2> QED BY <1>1, <1>3, <1>4, <1>5, <2>1, <2>2, <2>3, <2>4 DEF CommitGoes
<1>6. CASE /\ blob' = [blob EXCEPT ![i] = [file |-> FALSE, data |-> {}]]
           /\ h' = [Detached(i) EXCEPT ![s].at = "abort"]
  <2> DEFINE F == Detached(i)
             r == [F[s] EXCEPT !.at = "abort"]
  <2>1. F \in [Handlers -> HandlerRecord] /\ F[s] = [h[s] EXCEPT !.open = FALSE]
    BY <1>2 DEF Detached, HandlerShape, HandlerRecord
  <2>2. /\ F[s] \in HandlerRecord /\ F[s].job = h[s].job /\ F[s].req = h[s].req
        /\ F[s].id = h[s].id /\ F[s].entry = h[s].entry
    BY <1>2, <2>1 DEF HandlerRecord
  <2>3. h' = [F EXCEPT ![s] = r] BY <1>6
  <2> HIDE DEF F
  <2>4. /\ r \in HandlerRecord /\ r.at = "abort" /\ r.job = h[s].job /\ r.req = h[s].req
        /\ r.id = h[s].id /\ r.entry = h[s].entry
    BY <2>2 DEF HandlerRecord, Stages
  <2> HIDE DEF r
  <2>5. h' = [Detached(i) EXCEPT ![s] = r] BY <2>3 DEF F
  <2>6. /\ HandlerShape' /\ h'[s] = r
        /\ \A t \in Handlers \ {s} : HandlerKept(t) /\ (h[t].id # i => h'[t] = h[t])
    BY <1>2, <2>4, <2>5, HandlersDetached
  <2>7. /\ BlobShape' /\ ~ blob'[i].file /\ \A x \in Ids \ {i} : blob'[x] = blob[x]
    BY <1>2, <1>6 DEF BlobShape
  <2>8. Committing(s)' /\ Copies(s)' BY <2>4, <2>6 DEF Committing, Copies
  <2> QED BY <1>1, <1>3, <1>4, <2>4, <2>6, <2>7, <2>8 DEF CommitGoes
<1> QED BY <1>5, <1>6 DEF CheckSize

LEMMA CleanGoes ==
  ASSUME Sound, NEW s \in Handlers, Clean(s)
  PROVE  /\ Committing(s) /\ UNCHANGED blob
         /\ \/ Sound' /\ Aside
            \/ /\ CommitGoes(s) /\ Copies(s)' /\ h[s].at = "clean" /\ h'[s].at = "update"
               /\ h'[s].written = h[s].written
<1> DEFINE i == h[s].id
<1>1. Committing(s) /\ h[s].at \in {"clean", "abort"} BY DEF Clean, Committing
<1>2. /\ i \in Ids /\ h[s] \in HandlerRecord /\ HandlerShape /\ TmpShape /\ BlobShape
  BY <1>1, CommitHas
<1>3. UNCHANGED <<db, seq, blob, now, gcAt, served, unsized>> BY DEF Clean, time, history
<1>4. TmpShape' BY <1>2 DEF Clean, TmpShape, Empty
<1>5. CASE h[s].at = "abort"
  <2>1. Fail(s) BY <1>5 DEF Clean
  <2>2. StoreKept BY <1>3, UnchangedStore DEF Sound, Shape
  <2> QED BY <1>1, <1>3, <1>4, <1>5, <2>1, <2>2, AsideAnswer
<1>6. CASE h[s].at = "clean"
  <2>1. Goto(s, "update") /\ UNCHANGED job BY <1>6 DEF Clean
  <2>2. /\ HandlerShape' /\ h'[s] = [h[s] EXCEPT !.at = "update"]
        /\ \A t \in Handlers \ {s} : h'[t] = h[t] /\ HandlerKept(t)
    BY <1>2, <2>1, HandlerGoes DEF Stages
  <2>3. /\ h'[s].at = "update" /\ h'[s].job = h[s].job /\ h'[s].req = h[s].req
        /\ h'[s].id = h[s].id /\ h'[s].entry = h[s].entry /\ h'[s].written = h[s].written
    BY <1>2, <2>2 DEF HandlerRecord
  <2>4. BlobShape' BY <1>2, <1>3 DEF BlobShape
  <2>5. Committing(s)' /\ Copies(s)' BY <2>3 DEF Committing, Copies
  <2>6. CommitGoes(s) BY <1>1, <1>3, <1>4, <2>1, <2>2, <2>3, <2>4, <2>5 DEF CommitGoes
  <2> QED BY <1>1, <1>3, <1>6, <2>3, <2>5, <2>6
<1> QED BY <1>1, <1>5, <1>6

\* The entry becomes complete, with what its commit has counted as its size.
Completes(s) ==
    /\ Committing(s) /\ h[s].at = "update" /\ h[s].id \in DOMAIN db /\ seq' = seq
    /\ DOMAIN db' = DOMAIN db
    /\ \A x \in DOMAIN db \ {h[s].id} : db'[x] = db[x]
    /\ db'[h[s].id].complete /\ db'[h[s].id].size = h[s].written
    /\ db'[h[s].id].repo = h[s].entry.repo /\ db'[h[s].id].key = h[s].entry.key
    /\ db'[h[s].id].createdAt = h[s].entry.createdAt
    /\ unsized' = IF h[s].entry.size >= 0 THEN unsized ELSE unsized \cup {h[s].id}
    /\ UNCHANGED <<blob, now, served>>
    /\ JobsKept /\ Succeed(s)
    /\ h'[s].at = "idle" /\ \A t \in Handlers \ {s} : h'[t] = h[t]

LEMMA UpdateSound ==
  ASSUME Sound, NEW s \in Handlers, Update(s)
  PROVE  /\ Sound' /\ Committing(s)
         /\ Aside \/ Completes(s)
<1> DEFINE i == h[s].id
           e == [h[s].entry EXCEPT !.size = h[s].written, !.complete = TRUE]
<1>1. Committing(s) /\ h[s].at = "update" BY DEF Update, Committing
<1>2. /\ i \in Ids /\ h[s] \in HandlerRecord /\ HandlerShape /\ TmpShape /\ BlobShape /\ JobShape
      /\ HandlerOwns(s) /\ h[s].at # "idle" /\ EntryOwns(s) /\ StoreShape
  BY <1>1, CommitHas DEF Sound, HandlerSound, Shape
<1>3. UNCHANGED <<seq, tmp, blob, now, gcAt, served>> BY DEF Update, time
<1>4. TmpShape' /\ BlobShape' BY <1>2, <1>3 DEF TmpShape, BlobShape
<1>5. CASE Fail(s) /\ UNCHANGED <<db, unsized>>
  <2>1. StoreKept BY <1>2, <1>3, <1>5, UnchangedStore
  <2> QED BY <1>1, <1>2, <1>3, <1>4, <1>5, <2>1, AsideAnswer
<1>6. CASE /\ InStore(i) /\ Put(i, e) /\ Succeed(s)
           /\ unsized' = IF h[s].entry.size >= 0 THEN unsized ELSE unsized \cup {i}
  <2>1. i \in DOMAIN db BY <1>6 DEF InStore
  <2>2. h[s].entry \in Entry BY <1>1, <1>2 DEF EntryOwns
  <2>3. h[s].written \in -1..N
    BY <1>2, ConstantsAssumption DEF HandlerRecord
  <2>4. /\ e \in Entry /\ e.complete /\ e.size = h[s].written /\ e.repo = h[s].entry.repo
        /\ e.key = h[s].entry.key /\ e.createdAt = h[s].entry.createdAt
    BY <2>2, <2>3 DEF Entry
  <2> HIDE DEF e
  <2>5. /\ DOMAIN db' = DOMAIN db /\ db'[i] = e
        /\ \A x \in DOMAIN db \ {i} : db'[x] = db[x]
    BY <1>6, <2>1 DEF Put
  <2>6. JobsKept BY <1>2, <1>6, SucceedKeeps
  <2>7. /\ HandlerShape' /\ h'[s].at = "idle"
        /\ \A t \in Handlers \ {s} : h'[t] = h[t] /\ HandlerKept(t)
    BY <1>2, <1>6, HandlerDone DEF Succeed
  <2>8. StoreShape' BY <1>2, <1>3, <2>4, <2>5 DEF StoreShape
  <2>9. StoreFaithful
    <3>1. /\ db[i].repo = e.repo /\ db[i].key = e.key /\ db[i].createdAt = e.createdAt
      BY <1>1, <1>2, <2>1, <2>4 DEF EntryOwns
    <3>2. seq \in Nat BY SeqBelow
    <3> QED BY <1>3, <2>5, <3>1, <3>2 DEF StoreFaithful
  <2>10. JobShape' BY <2>6 DEF JobsKept, JobShape
  <2>11. HistoryShape' BY <1>2, <1>3, <1>6 DEF Sound, Shape, HistoryShape
  <2>12. TimeShape' BY <1>3 DEF Sound, Shape, TimeShape
  <2>13. Shape' BY <1>4, <2>7, <2>8, <2>10, <2>11, <2>12 DEF Shape
  <2>14. Sound' BY <1>3, <2>6, <2>7, <2>9, <2>13, SoundStays
  <2>15. Completes(s)
    BY <1>1, <1>3, <1>6, <2>1, <2>4, <2>5, <2>6, <2>7 DEF Completes
  <2> QED BY <1>1, <2>14, <2>15
<1>7. \/ Fail(s) /\ UNCHANGED <<db, unsized>>
      \/ /\ InStore(i) /\ Put(i, e) /\ Succeed(s)
         /\ unsized' = IF h[s].entry.size >= 0 THEN unsized ELSE unsized \cup {i}
  BY DEF Update
<1> QED BY <1>5, <1>6, <1>7

\* A step of a handler that commits keeps Sound.
LEMMA CommitStepSound ==
  ASSUME Sound, NEW s \in Handlers,
         CommitList(s) \/ Move(s) \/ Create(s) \/ Copy(s) \/ CheckSize(s) \/ Clean(s) \/ Update(s)
  PROVE  Sound'
<1>1. CASE CommitList(s) BY <1>1, CommitListGoes, CommitGoesSound
<1>2. CASE Move(s) BY <1>2, MoveGoes, CommitGoesSound
<1>3. CASE Create(s) BY <1>3, CreateGoes, CommitGoesSound
<1>4. CASE Copy(s) BY <1>4, CopyGoes, CommitGoesSound
<1>5. CASE CheckSize(s) BY <1>5, CheckSizeGoes, CommitGoesSound
<1>6. CASE Clean(s) BY <1>6, CleanGoes, CommitGoesSound
<1>7. CASE Update(s) BY <1>7, UpdateSound
<1> QED BY <1>1, <1>2, <1>3, <1>4, <1>5, <1>6, <1>7

-----------------------------------------------------------------------------
(* Restore, clean-up and restart.                                          *)

\* A hit is a complete entry of the repository under a wanted key.
LEMMA FoundIsWanted ==
  ASSUME NEW j \in Jobs, NEW r, NEW i \in Found(r, Restore[j])
  PROVE  i \in DOMAIN db /\ db[i].complete /\ db[i].repo = r /\ Wanted(j, db[i].key)
<1>1. PICK n \in DOMAIN Restore[j] : i \in Match(r, Restore[j][n]) BY DEF Found
<1>2. CASE i \in Exact(r, Restore[j][n], TRUE) BY <1>1, <1>2 DEF Exact, Newest, Wanted
<1>3. CASE i \in Newest({x \in DOMAIN db : /\ db[x].repo = r /\ <<Restore[j][n], db[x].key>> \in Prefix
                                           /\ db[x].complete}, "createdAt")
  BY <1>1, <1>3 DEF Newest, Wanted
<1> QED BY <1>1, <1>2, <1>3 DEF Match

\* A lookup takes a hit with its file, or drops an entry that has none.
LEMMA LookupSound ==
  ASSUME Sound, NEW s \in Handlers, NEW j \in Jobs, Lookup(s, j)
  PROVE  /\ Sound' /\ UNCHANGED <<seq, tmp, blob, now, gcAt, job, served, unsized>>
         /\ \/ /\ UNCHANGED db
               /\ h'[s].at = "get" /\ h'[s].job = j /\ h'[s].id \in DOMAIN db
               /\ db[h'[s].id].complete
               /\ \A t \in Handlers \ {s} : h'[t] = h[t]
            \/ /\ UNCHANGED h
               /\ \E i \in DOMAIN db : ~ blob[i].file /\ db' = Without({i})
<1>1. UNCHANGED <<seq, tmp, blob, now, gcAt, job, served, unsized>> BY DEF Lookup, time, history
<1>2. PICK i \in Found(job[j].repo, Restore[j]) :
        \/ Handle(s, j, <<"get", 0>>, "get", i, db[i]) /\ UNCHANGED db
        \/ ~ blob[i].file /\ db' = Without({i}) /\ UNCHANGED h
  BY DEF Lookup
<1>3. /\ i \in DOMAIN db /\ db[i].complete /\ db[i].repo = job[j].repo /\ Wanted(j, db[i].key)
  BY <1>2, FoundIsWanted
<1>4. /\ HandlerShape /\ StoreShape /\ JobShape /\ TmpShape /\ BlobShape /\ TimeShape /\ HistoryShape
  BY DEF Sound, Shape
<1>5. TmpShape' /\ BlobShape' /\ JobShape' /\ TimeShape' /\ HistoryShape'
  BY <1>1, <1>4 DEF TmpShape, BlobShape, JobShape, TimeShape, HistoryShape
<1>6. JobsKept BY <1>1, <1>4, UnchangedJob
<1>7. CASE Handle(s, j, <<"get", 0>>, "get", i, db[i]) /\ UNCHANGED db
  <2>1. StoreKept BY <1>1, <1>4, <1>7, UnchangedStore
  <2>2. db[i] \in Entry /\ i \in 1..seq BY <1>3, <1>4 DEF StoreShape
  <2>3. i \in 0..MaxId BY <2>2, SeqBelow
  <2>4. <<"get", 0>> \in Requests /\ "get" \in Stages BY DEF Requests, Stages
  <2>5. /\ HandlerShape' /\ \A t \in Handlers \ {s} : h'[t] = h[t] /\ HandlerKept(t)
        /\ h'[s].at = "get" /\ h'[s].job = j /\ h'[s].req = <<"get", 0>> /\ h'[s].id = i
        /\ h'[s].entry = db[i]
    BY <1>4, <1>7, <2>2, <2>3, <2>4, HandlerStarts
  <2>6. HandlerOwns(s)' BY <1>1, <2>2, <2>5 DEF HandlerOwns, Committing
  <2>7. EntryOwns(s)' BY <1>1, <1>3, <2>2, <2>5 DEF EntryOwns, Committing, Reading, Wanted
  <2>8. Copies(s)' BY <2>5 DEF Copies
  <2>9. \A t \in Handlers : HandlerKept(t) \/ HandlerSound(t)'
    BY <2>5, <2>6, <2>7, <2>8 DEF HandlerSound
  <2>10. Sound' BY <1>1, <1>5, <1>6, <2>1, <2>5, <2>9, QuietStep
  <2> QED BY <1>1, <1>3, <1>7, <2>5, <2>10
<1>8. CASE ~ blob[i].file /\ db' = Without({i}) /\ UNCHANGED h
  <2>1. DOMAIN db' = DOMAIN db \ {i} /\ \A x \in DOMAIN db \ {i} : db'[x] = db[x]
    BY <1>8 DEF Without
  <2>2. StoreShape' BY <1>1, <1>4, <2>1 DEF StoreShape
  <2>3. StoreFaithful BY <1>1, <2>1, SeqBelow DEF StoreFaithful
  <2>4. HandlerShape' /\ \A t \in Handlers : HandlerKept(t)
    BY <1>4, <1>8 DEF HandlerShape, HandlerKept
  <2>5. Shape' BY <1>5, <2>2, <2>4 DEF Shape
  <2>6. Sound' BY <1>1, <1>6, <2>3, <2>4, <2>5, SoundStays
  <2> QED BY <1>1, <1>3, <1>8, <2>6
<1> QED BY <1>2, <1>7, <1>8

LEMMA GetTouchSound ==
  ASSUME Sound, NEW s \in Handlers, GetTouch(s)
  PROVE  /\ Sound' /\ StoreKept /\ UNCHANGED <<seq, tmp, blob, now, gcAt, job, served, unsized>>
         /\ h[s].at = "get" /\ h'[s].at = "serve" /\ h'[s].job = h[s].job /\ h'[s].id = h[s].id
         /\ h'[s].entry = h[s].entry
         /\ \A t \in Handlers \ {s} : h'[t] = h[t]
<1>1. UNCHANGED <<seq, tmp, blob, now, gcAt, job, served, unsized>> BY DEF GetTouch, time, history
<1>2. h[s].at = "get" /\ TryTouch(h[s].id) /\ Goto(s, "serve") BY DEF GetTouch
<1>3. /\ HandlerShape /\ StoreShape /\ JobShape /\ TmpShape /\ BlobShape /\ TimeShape
      /\ HandlerOwns(s) /\ EntryOwns(s) /\ h[s] \in HandlerRecord
  BY DEF Sound, Shape, HandlerSound, HandlerShape
<1>4. StoreKept BY <1>1, <1>2, <1>3, TouchKeeps
<1>5. TmpShape' /\ BlobShape' BY <1>1, <1>3 DEF TmpShape, BlobShape
<1>6. JobsKept BY <1>1, <1>3, UnchangedJob
<1>7. /\ HandlerShape' /\ h'[s] = [h[s] EXCEPT !.at = "serve"]
      /\ \A t \in Handlers \ {s} : h'[t] = h[t] /\ HandlerKept(t)
  BY <1>2, <1>3, HandlerGoes DEF Stages
<1>8. /\ h'[s].at = "serve" /\ h'[s].job = h[s].job /\ h'[s].req = h[s].req /\ h'[s].id = h[s].id
      /\ h'[s].entry = h[s].entry
  BY <1>3, <1>7 DEF HandlerRecord
<1>9. HandlerOwns(s)' BY <1>1, <1>2, <1>3, <1>8 DEF HandlerOwns, Committing
<1>10. EntryOwns(s)' BY <1>1, <1>2, <1>3, <1>8 DEF EntryOwns, Committing, Reading, Wanted
<1>11. Copies(s)' BY <1>8 DEF Copies
<1>12. \A t \in Handlers : HandlerKept(t) \/ HandlerSound(t)'
  BY <1>7, <1>9, <1>10, <1>11 DEF HandlerSound
<1>13. Sound' BY <1>1, <1>4, <1>5, <1>6, <1>7, <1>12, QuietStep
<1> QED BY <1>1, <1>2, <1>4, <1>7, <1>8, <1>13

LEMMA ServeSound ==
  ASSUME Sound, NEW s \in Handlers, Serve(s)
  PROVE  /\ Sound' /\ UNCHANGED <<db, seq, tmp, blob, now, gcAt, job, unsized>>
         /\ h[s].at = "serve" /\ h'[s].at = "idle" /\ \A t \in Handlers \ {s} : h'[t] = h[t]
         /\ \A r \in served' : r \in served \/ ( /\ blob[h[s].id].file /\ r.id = h[s].id
                                               /\ r.data = blob[h[s].id].data )
<1> DEFINE i == h[s].id
           r == [job |-> h[s].job, id |-> i, repo |-> h[s].entry.repo,
                 key |-> h[s].entry.key, data |-> blob[i].data]
<1>1. UNCHANGED <<db, seq, tmp, blob, now, gcAt, job, unsized>> BY DEF Serve, disk, time
<1>2. h[s].at = "serve" /\ h' = [h EXCEPT ![s] = Idle] BY DEF Serve
<1>3. /\ HandlerShape /\ StoreShape /\ JobShape /\ TmpShape /\ BlobShape /\ TimeShape
      /\ HistoryShape /\ HandlerOwns(s) /\ EntryOwns(s) /\ h[s] \in HandlerRecord
  BY DEF Sound, Shape, HandlerSound, HandlerShape
<1>4. /\ HandlerShape' /\ h'[s].at = "idle"
      /\ \A t \in Handlers \ {s} : h'[t] = h[t] /\ HandlerKept(t)
  BY <1>2, <1>3, HandlerDone
<1>5. i \in Ids /\ h[s].job \in Jobs BY <1>2, <1>3, SeqBelow DEF HandlerOwns, Ids
<1>6. h[s].entry.repo = job[h[s].job].repo /\ Wanted(h[s].job, h[s].entry.key)
  BY <1>2, <1>3 DEF EntryOwns, Reading
<1>7. blob[i].data \subseteq Parts BY <1>3, <1>5 DEF BlobShape
<1>8. \A x \in served' : x \in served \/ (blob[i].file /\ x = r) BY DEF Serve
<1>9. /\ r.job = h[s].job /\ r.id = i /\ r.repo = h[s].entry.repo
      /\ r.key = h[s].entry.key /\ r.data = blob[i].data
  OBVIOUS
<1> HIDE DEF r
<1>10. HistoryShape' BY <1>1, <1>3, <1>5, <1>7, <1>8, <1>9 DEF HistoryShape
<1>11. \A x \in served : x.repo = job[x.job].repo /\ Wanted(x.job, x.key) BY DEF Sound, Served
<1>12. Served' BY <1>1, <1>6, <1>8, <1>9, <1>11 DEF Served, Wanted
<1>13. StoreKept BY <1>1, <1>3, UnchangedStore
<1>14. StoreFaithful /\ StoreShape' BY <1>3, <1>13, KeptIsFaithful
<1>15. TmpShape' /\ BlobShape' /\ JobShape' /\ TimeShape'
  BY <1>1, <1>3 DEF TmpShape, BlobShape, JobShape, TimeShape
<1>16. Shape' BY <1>4, <1>10, <1>14, <1>15 DEF Shape
<1>17. JobsNamed /\ seq' \in Nat BY <1>1, SeqBelow DEF JobsNamed
<1>18. ASSUME NEW t \in Handlers PROVE HandlerSound(t)'
  BY <1>3, <1>4, <1>14, <1>17, HandlerStays DEF Sound
<1>19. ASSUME NEW j \in Jobs PROVE JobOwns(j)'
  BY <1>1 DEF Sound, JobOwns
<1>20. Sound' BY <1>12, <1>16, <1>18, <1>19 DEF Sound
<1> QED BY <1>1, <1>2, <1>4, <1>8, <1>9, <1>20

\* What a collection leaves, of entries and of files.
LEMMA CollectKeeps ==
  ASSUME Sound, NEW D, Collect(D)
  PROVE  /\ StoreFaithful /\ StoreShape' /\ TmpShape' /\ BlobShape' /\ TimeShape' /\ HistoryShape'
         /\ UNCHANGED <<seq, now, served, unsized>>
         /\ DOMAIN db' = DOMAIN db \ D /\ \A x \in DOMAIN db \ D : db'[x] = db[x]
         /\ \A x \in Ids : IF x \in D THEN ~ blob'[x].file ELSE blob'[x] = blob[x]
<1>1. UNCHANGED <<seq, now, served, unsized>> /\ gcAt' = now BY DEF Collect, history
<1>2. DOMAIN db' = DOMAIN db \ D /\ \A x \in DOMAIN db \ D : db'[x] = db[x]
  BY DEF Collect, Without
<1>3. StoreShape /\ TmpShape /\ BlobShape /\ TimeShape /\ HistoryShape BY DEF Sound, Shape
<1>4. StoreShape' BY <1>1, <1>2, <1>3 DEF StoreShape
<1>5. StoreFaithful BY <1>1, <1>2, SeqBelow DEF StoreFaithful
<1>6. TmpShape' BY <1>3 DEF TmpShape, Collect, Empty
<1>7. BlobShape' BY <1>3 DEF BlobShape, Collect
<1>8. TimeShape' BY <1>1, <1>3, ConstantsAssumption DEF TimeShape
<1>9. HistoryShape' BY <1>1, <1>3 DEF HistoryShape
<1>10. \A x \in Ids : IF x \in D THEN ~ blob'[x].file ELSE blob'[x] = blob[x] BY DEF Collect
<1> QED BY <1>1, <1>2, <1>4, <1>5, <1>6, <1>7, <1>8, <1>9, <1>10

\* gcCache detaches the files of the handlers it overtakes.
LEMMA GcSound ==
  ASSUME Sound, NEW D, Collect(D), UNCHANGED job,
         h' = [s \in Handlers |-> IF h[s].id \in D THEN [h[s] EXCEPT !.open = FALSE] ELSE h[s]]
  PROVE  /\ Sound' /\ \A t \in Handlers : HandlerKept(t) /\ (h[t].id \notin D => h'[t] = h[t])
<1>1. /\ StoreFaithful /\ StoreShape' /\ TmpShape' /\ BlobShape' /\ TimeShape' /\ HistoryShape'
      /\ UNCHANGED served
  BY CollectKeeps
<1>2. HandlerShape /\ JobShape BY DEF Sound, Shape
<1>3. JobsKept /\ JobShape' BY <1>2, UnchangedJob DEF JobShape
<1>4. ASSUME NEW t \in Handlers PROVE HandlerKept(t) /\ h'[t] \in HandlerRecord
  <2> DEFINE g == [h[t] EXCEPT !.open = FALSE]
  <2>1. h[t] \in HandlerRecord BY <1>2 DEF HandlerShape
  <2>2. /\ g.at = h[t].at /\ g.job = h[t].job /\ g.req = h[t].req /\ g.id = h[t].id
        /\ g.entry = h[t].entry /\ g.names = h[t].names /\ g.written = h[t].written
        /\ g \in HandlerRecord
    BY <2>1 DEF HandlerRecord
  <2>3. h'[t] = g \/ h'[t] = h[t] OBVIOUS
  <2> HIDE DEF g
  <2> QED BY <2>1, <2>2, <2>3 DEF HandlerKept
<1>5. HandlerShape' BY <1>4 DEF HandlerShape
<1>6. Shape' BY <1>1, <1>3, <1>5 DEF Shape
<1>7. Sound' BY <1>1, <1>3, <1>4, <1>6, SoundStays
<1> QED BY <1>4, <1>7

LEMMA RestartSound ==
  ASSUME Sound, Restart
  PROVE  /\ Sound' /\ \A t \in Handlers : h'[t] = Idle
         /\ NoneSaved
<1>1. PICK D \in Garbage : Collect(D) BY DEF Restart
<1>2. /\ StoreFaithful /\ StoreShape' /\ TmpShape' /\ BlobShape' /\ TimeShape' /\ HistoryShape'
      /\ UNCHANGED served
  BY <1>1, CollectKeeps
<1>3. HandlerShape /\ JobShape BY DEF Sound, Shape
<1>4. h' = [s \in Handlers |-> Idle] BY DEF Restart
<1>5. HandlerShape' BY <1>4, IdleIsHandler DEF HandlerShape
<1>6. \A t \in Handlers : h'[t] = Idle /\ h'[t].at = "idle" BY <1>4 DEF Idle
<1>7. PICK G : job' = [j \in Jobs |-> IF j \in G THEN [job[j] EXCEPT !.st = "closed"] ELSE job[j]]
  BY DEF Restart
<1>8. ASSUME NEW j \in Jobs
      PROVE  /\ job'[j] \in JobRecord /\ job'[j].repo = job[j].repo /\ job'[j].key = job[j].key
             /\ job'[j].id = job[j].id /\ (job'[j].st = job[j].st \/ job'[j].st = "closed")
  <2>1. job[j] \in JobRecord BY <1>3 DEF JobShape
  <2> DEFINE r == [job[j] EXCEPT !.st = "closed"]
  <2>2. /\ r \in JobRecord /\ r.repo = job[j].repo /\ r.key = job[j].key /\ r.id = job[j].id
        /\ r.st = "closed"
    BY <2>1 DEF JobRecord
  <2>3. job'[j] = r \/ job'[j] = job[j] BY <1>7
  <2> HIDE DEF r
  <2> QED BY <2>1, <2>2, <2>3
<1>9. job' \in [Jobs -> JobRecord] BY <1>7, <1>8
<1>10. JobsKept /\ JobShape' BY <1>8, <1>9 DEF JobsKept, JobShape
<1>11. Shape' BY <1>2, <1>5, <1>10 DEF Shape
<1>12. Sound' BY <1>2, <1>6, <1>10, <1>11, SoundStays
<1>13. NoneSaved BY <1>8 DEF NoneSaved, JobsNamed
<1> QED BY <1>6, <1>12, <1>13

LEMMA TickSound ==
  ASSUME Sound, Tick
  PROVE  Sound' /\ Aside
<1>1. UNCHANGED <<db, seq, tmp, blob, gcAt, job, h, served, unsized>> BY DEF Tick, disk, history
<1>2. /\ HandlerShape /\ StoreShape /\ JobShape /\ TmpShape /\ BlobShape /\ TimeShape /\ HistoryShape
  BY DEF Sound, Shape
<1>3. TimeShape' BY <1>1, <1>2, ConstantsAssumption DEF TimeShape, Tick
<1>4. StoreKept BY <1>1, <1>2, UnchangedStore
<1>5. StoreFaithful /\ StoreShape' BY <1>2, <1>4, KeptIsFaithful
<1>6. JobsKept /\ NoneSaved BY <1>1, <1>2, UnchangedJob
<1>7. Shape' BY <1>1, <1>2, <1>3, <1>5
  DEF Shape, HandlerShape, JobShape, TmpShape, BlobShape, HistoryShape
<1>8. \A t \in Handlers : HandlerKept(t) BY <1>1 DEF HandlerKept
<1>9. Sound' BY <1>1, <1>5, <1>6, <1>7, <1>8, SoundStays
<1>10. now' >= now BY <1>2, ConstantsAssumption DEF TimeShape, Tick
<1> QED BY <1>1, <1>4, <1>6, <1>9, <1>10 DEF Aside

-----------------------------------------------------------------------------
(* Sound is inductive.                                                     *)

LEMMA SoundInit == Init => Sound
<1> SUFFICES ASSUME Init PROVE Sound OBVIOUS
<1>0. N \in Nat /\ MaxId \in Nat /\ MaxTime \in Nat /\ GcEvery \in Nat BY ConstantsAssumption
<1>1. PICK repo \in [Jobs -> AllRepos], key \in [Jobs -> AllKeys], again \in [Jobs -> Repeats] :
        job = [j \in Jobs |-> [repo |-> repo[j], key |-> key[j], st |-> "new",
                               id |-> 0, up |-> {}, repeats |-> again[j]]]
  BY DEF Init
<1>2. \A j \in Jobs : again[j] \in BOOLEAN BY ConstantsAssumption
<1>3. JobShape BY <1>0, <1>1, <1>2 DEF JobShape, JobRecord
<1>4. DOMAIN db = {} /\ seq = 0 BY DEF Init
<1>5. StoreShape BY <1>0, <1>4 DEF StoreShape
<1>6. TmpShape /\ BlobShape BY DEF Init, TmpShape, BlobShape, Empty
<1>7. TimeShape BY <1>0 DEF Init, TimeShape
<1>8. HandlerShape /\ \A s \in Handlers : h[s].at = "idle"
  BY IdleIsHandler DEF Init, HandlerShape, Idle
<1>9. HistoryShape /\ Served BY DEF Init, HistoryShape, Served
<1>10. \A j \in Jobs : JobOwns(j) BY <1>1, <1>4 DEF JobOwns
<1>11. \A s \in Handlers : HandlerSound(s)
  BY <1>8 DEF HandlerSound, HandlerOwns, EntryOwns, Copies, Committing, Reading
<1> QED BY <1>3, <1>5, <1>6, <1>7, <1>8, <1>9, <1>10, <1>11 DEF Sound, Shape

LEMMA SoundStep == Sound /\ [Next]_vars => Sound'
<1> SUFFICES ASSUME Sound, [Next]_vars PROVE Sound' OBVIOUS
<1>1. ASSUME NEW j \in Jobs, Reserve(j) \/ StoreBusy(j) PROVE Sound'
  BY <1>1, ReserveSound, StoreBusySound
<1>2. ASSUME NEW s \in Handlers, NEW j \in Jobs,
             \/ Order(s, j) \/ Commit(s, j) \/ Lookup(s, j)
             \/ \E p \in Parts : Upload(s, j, p)
      PROVE  Sound'
  BY <1>2, OrderSound, CommitSound, LookupSound, UploadSound
<1>3. ASSUME NEW s \in Handlers, FileStep(s) PROVE Sound'
  BY <1>3, UploadWriteSound, UploadTouchSound, OrderBlockSound, CommitStepSound,
     GetTouchSound, ServeSound DEF FileStep
<1>4. CASE Gc BY <1>4, GcSound DEF Gc
<1>5. CASE Restart BY <1>5, RestartSound
<1>6. CASE Tick BY <1>6, TickSound
<1>7. CASE UNCHANGED vars
  <2>1. UNCHANGED <<db, seq, tmp, blob, now, gcAt, job, h, served, unsized>>
    BY <1>7 DEF vars, disk, time, history
  <2>2. /\ HandlerShape /\ StoreShape /\ JobShape /\ TmpShape /\ BlobShape
    BY DEF Sound, Shape
  <2>3. StoreKept /\ JobsKept BY <2>1, <2>2, UnchangedStore, UnchangedJob
  <2>4. HandlerShape' /\ TmpShape' /\ BlobShape' /\ \A t \in Handlers : HandlerKept(t)
    BY <2>1, <2>2 DEF HandlerShape, TmpShape, BlobShape, HandlerKept
  <2> QED BY <2>1, <2>3, <2>4, QuietStep
<1> QED BY <1>1, <1>2, <1>3, <1>4, <1>5, <1>6, <1>7 DEF Next

LEMMA SoundTyped == Sound => TypeOK
<1> SUFFICES ASSUME Sound PROVE TypeOK OBVIOUS
<1>1. /\ HandlerShape /\ StoreShape /\ JobShape /\ TmpShape /\ BlobShape /\ TimeShape /\ HistoryShape
  BY DEF Sound, Shape
<1>2. ASSUME NEW s \in Handlers
      PROVE  /\ h[s].at \in Stages /\ h[s].job \in Jobs \cup {0} /\ h[s].id \in 0..MaxId
             /\ h[s].req \in Requests /\ h[s].entry \in Entry \cup {NoEntry}
             /\ h[s].names \subseteq Parts /\ h[s].written \in 0..N /\ h[s].open \in BOOLEAN
  BY <1>1 DEF HandlerShape, HandlerRecord
<1> QED BY <1>1, <1>2 DEF TypeOK, Stages, StoreShape, TimeShape, TmpShape, BlobShape, JobShape,
                         JobRecord, HistoryShape

\* Every variable keeps its type, and the store has no entry without an id of
\* its own, for every number of jobs, handlers, parts and ids.
THEOREM Typed == Spec => []TypeOK
<1>1. Init => Sound BY SoundInit
<1>2. Sound /\ [Next]_vars => Sound' BY SoundStep
<1>3. Sound => TypeOK BY SoundTyped
<1> QED BY <1>1, <1>2, <1>3, PTL DEF Spec

\* What a job restores was saved by its own repository, under a key it asked
\* for or one that begins with such a key, even when commits of one entry
\* collide, and however old or large the store is (find, GetCacheEntryDownloadURL).
THEOREM RestoresAreOwn == Spec => []Served
<1>1. Init => Sound BY SoundInit
<1>2. Sound /\ [Next]_vars => Sound' BY SoundStep
<1>3. Sound => Served BY DEF Sound
<1> QED BY <1>1, <1>2, <1>3, PTL DEF Spec

-----------------------------------------------------------------------------
(* The kinds of steps, as the store and the files see them.                *)

CommitStep(s) ==
    \/ CommitList(s) \/ Move(s) \/ Create(s) \/ Copy(s) \/ CheckSize(s) \/ Clean(s) \/ Update(s)

\* A collection, by gcCache or by a restart.
Collects ==
    /\ NoneSaved
    /\ \E D \in Garbage :
         /\ Collect(D)
         /\ \A t \in Handlers : \/ HandlerKept(t) /\ (h[t].id \notin D => h'[t] = h[t])
                                \/ h'[t].at = "idle"

LEMMA StepKinds ==
  ASSUME Sound, [Next]_vars
  PROVE  \/ Aside \/ Reserves \/ Collects
         \/ \E s \in Handlers, j \in Jobs :
              (Commit(s, j) /\ ~ UNCHANGED h) \/ Lookup(s, j)
         \/ \E s \in Handlers : CommitStep(s) \/ GetTouch(s) \/ Serve(s)
<1>1. ASSUME NEW j \in Jobs, Reserve(j) \/ StoreBusy(j) PROVE Aside \/ Reserves
  BY <1>1, ReserveSound, StoreBusySound
<1>2. ASSUME NEW s \in Handlers, NEW j \in Jobs,
             Order(s, j) \/ \E p \in Parts : Upload(s, j, p)
      PROVE  Aside
  BY <1>2, OrderSound, UploadSound
<1>3. ASSUME NEW s \in Handlers, NEW j \in Jobs, Commit(s, j)
      PROVE  Aside \/ ~ UNCHANGED h
  BY <1>3, CommitSound
<1>4. ASSUME NEW s \in Handlers, UploadWrite(s) \/ UploadTouch(s) \/ OrderBlock(s)
      PROVE  Aside
  BY <1>4, UploadWriteSound, UploadTouchSound, OrderBlockSound
<1>5. CASE Gc
  <2>1. PICK D \in Garbage :
          /\ Collect(D)
          /\ h' = [s \in Handlers |-> IF h[s].id \in D THEN [h[s] EXCEPT !.open = FALSE] ELSE h[s]]
    BY <1>5 DEF Gc
  <2>2. UNCHANGED job BY <1>5 DEF Gc
  <2>3. \A t \in Handlers : HandlerKept(t) /\ (h[t].id \notin D => h'[t] = h[t])
    BY <2>1, <2>2, GcSound
  <2> QED BY <2>1, <2>2, <2>3 DEF Collects, NoneSaved, JobsNamed
<1>6. CASE Restart
  <2>1. PICK D \in Garbage : Collect(D) BY <1>6 DEF Restart
  <2>2. NoneSaved /\ \A t \in Handlers : h'[t] = Idle BY <1>6, RestartSound
  <2> QED BY <2>1, <2>2 DEF Collects, Idle
<1>7. CASE Tick BY <1>7, TickSound
<1>8. CASE UNCHANGED vars
  <2>1. UNCHANGED <<db, seq, tmp, blob, now, gcAt, job, h, served, unsized>>
    BY <1>8 DEF vars, disk, time, history
  <2>2. StoreKept BY <2>1, UnchangedStore DEF Sound, Shape
  <2>3. now \in Int BY ConstantsAssumption DEF Sound, Shape, TimeShape
  <2> QED BY <2>1, <2>2, <2>3 DEF Aside, NoneSaved, JobsNamed
<1>9. ASSUME NEW s \in Handlers, FileStep(s)
      PROVE  Aside \/ CommitStep(s) \/ GetTouch(s) \/ Serve(s)
  BY <1>4, <1>9 DEF FileStep, CommitStep
<1>10. CASE \E s \in Handlers, j \in Jobs :
              Order(s, j) \/ Commit(s, j) \/ Lookup(s, j) \/ \E p \in Parts : Upload(s, j, p)
  <2>1. PICK s \in Handlers, j \in Jobs :
          Order(s, j) \/ Commit(s, j) \/ Lookup(s, j) \/ \E p \in Parts : Upload(s, j, p)
    BY <1>10
  <2> QED BY <1>2, <1>3, <2>1
<1> QED BY <1>1, <1>5, <1>6, <1>7, <1>8, <1>9, <1>10 DEF Next

-----------------------------------------------------------------------------
(* What gcCache keeps.                                                     *)

Usable(i) ==
    /\ db[i].complete /\ blob[i].file
    /\ db[i].usedAt >= now - KeepUnused /\ db[i].createdAt >= now - KeepUsed

\* There is an entry like i that is complete and at least as new.
Outlives(i) ==
    \E x \in DOMAIN db' : /\ db'[x].complete
                          /\ db'[x].repo = db[i].repo /\ db'[x].key = db[i].key
                          /\ db'[x].createdAt >= db[i].createdAt

\* An entry that stays outlives itself.
LEMMA StaysIsOutlived ==
  ASSUME Sound, NEW i \in DOMAIN db, i \in DOMAIN db', db'[i].complete,
         db'[i].repo = db[i].repo, db'[i].key = db[i].key, db'[i].createdAt = db[i].createdAt
  PROVE  Outlives(i)
<1>1. db[i].createdAt \in Int
  BY ConstantsAssumption DEF Sound, Shape, StoreShape, Entry
<1> QED BY <1>1 DEF Outlives

\* Of a usable entry that goes, a newest one of its key stays.
LEMMA CollectOutlived ==
  ASSUME Sound, NEW D \in Garbage, Collect(D), NEW i \in DOMAIN db, Usable(i)
  PROVE  Outlives(i)
<1> DEFINE live == {x \in DOMAIN db \ Expired : db[x].complete}
<1>1. PICK W \in NewestOf(live) : D = Expired \cup {x \in live \ W : now - db[x].usedAt >= KeepOld}
  BY DEF Garbage
<1>2. DOMAIN db' = DOMAIN db \ D /\ \A x \in DOMAIN db \ D : db'[x] = db[x]
  BY CollectKeeps
<1>3. i \notin Expired
  <2>1. db[i].usedAt \in Int /\ db[i].createdAt \in Int /\ now \in Int
    BY ConstantsAssumption DEF Sound, Shape, StoreShape, TimeShape, Entry
  <2>2. KeepUnused \in Int /\ KeepUsed \in Int BY ConstantsAssumption
  <2> QED BY <2>1, <2>2 DEF Usable, Expired
<1>4. i \in live BY <1>3 DEF Usable
<1>5. PICK w \in W : {x \in W : Same(i, x)} = {w} /\ db[w].createdAt >= db[i].createdAt
  BY <1>1, <1>4 DEF NewestOf
<1>6. Same(i, w) BY <1>5
<1>7. w \in live BY <1>1, <1>5 DEF NewestOf
<1>8. w \in DOMAIN db /\ w \notin D /\ db[w].complete BY <1>1, <1>5, <1>7
<1> HIDE DEF live
<1>9. w \in DOMAIN db' /\ db'[w] = db[w] BY <1>2, <1>8
<1> QED BY <1>5, <1>6, <1>8, <1>9 DEF Outlives, Same

LEMMA UsableIsOutlived ==
  ASSUME Sound, [Next]_vars, NEW i \in DOMAIN db, Usable(i)
  PROVE  Outlives(i)
<1>1. db[i].complete /\ blob[i].file BY DEF Usable
<1>2. CASE StoreKept BY <1>1, <1>2, StaysIsOutlived DEF StoreKept
<1>3. CASE UNCHANGED db BY <1>1, <1>3, StaysIsOutlived
<1>4. CASE Reserves BY <1>1, <1>4, StaysIsOutlived DEF Reserves
<1>5. CASE Collects BY <1>5, CollectOutlived DEF Collects
<1>6. ASSUME NEW s \in Handlers, Completes(s) PROVE Outlives(i)
  <2>1. EntryOwns(s) BY DEF Sound, HandlerSound
  <2>2. i \in DOMAIN db' BY <1>6 DEF Completes
  <2>3. CASE i # h[s].id BY <1>1, <1>6, <2>2, <2>3, StaysIsOutlived DEF Completes
  <2>4. CASE i = h[s].id
    BY <1>6, <2>1, <2>2, <2>4, StaysIsOutlived DEF Completes, EntryOwns
  <2> QED BY <2>3, <2>4
<1>7. ASSUME NEW s \in Handlers, CommitStep(s) PROVE Outlives(i)
  <2>1. CASE CommitList(s)
    <3>1. UNCHANGED db BY <2>1 DEF CommitList, disk
    <3> QED BY <1>3, <3>1
  <2>2. CASE Update(s) BY <1>2, <1>6, <2>2, UpdateSound DEF Aside
  <2>3. CASE Move(s) \/ Create(s) \/ Copy(s) \/ CheckSize(s) \/ Clean(s)
    <3>1. UNCHANGED db BY <2>3 DEF Move, Create, Copy, CheckSize, Clean
    <3> QED BY <1>3, <3>1
  <2> QED BY <1>7, <2>1, <2>2, <2>3 DEF CommitStep
<1>8. ASSUME NEW s \in Handlers, NEW j \in Jobs, Lookup(s, j) PROVE Outlives(i)
  <2>1. CASE UNCHANGED db BY <1>3, <2>1
  <2>2. CASE \E x \in DOMAIN db : ~ blob[x].file /\ db' = Without({x})
    <3>1. i \in DOMAIN db' /\ db'[i] = db[i] BY <1>1, <2>2 DEF Without
    <3> QED BY <1>1, <3>1, StaysIsOutlived
  <2> QED BY <1>8, <2>1, <2>2, LookupSound
<1>9. ASSUME NEW s \in Handlers, NEW j \in Jobs, Commit(s, j) PROVE Outlives(i)
  <2>1. UNCHANGED db BY <1>9 DEF Commit, disk
  <2> QED BY <1>3, <2>1
<1>10. ASSUME NEW s \in Handlers, GetTouch(s) \/ Serve(s) PROVE Outlives(i)
  BY <1>2, <1>3, <1>10, GetTouchSound, ServeSound
<1> QED BY <1>2, <1>4, <1>5, <1>7, <1>8, <1>9, <1>10, StepKinds DEF Aside

\* gcCache never takes the newest usable entry of a key, however many entries,
\* jobs and handlers there are, and neither does anything else.
THEOREM NewestIsKept == Spec => GcKeepsNewest
<1>1. Init => Sound BY SoundInit
<1>2. Sound /\ [Next]_vars => Sound' BY SoundStep
<1>3. Sound /\ [Next]_vars => (\A i \in DOMAIN db : Usable(i) => Outlives(i))
  BY UsableIsOutlived
<1>4. (\A i \in DOMAIN db : Usable(i) => Outlives(i)) =>
        \A i \in DOMAIN db :
            /\ db[i].complete /\ blob[i].file
            /\ db[i].usedAt >= now - KeepUnused /\ db[i].createdAt >= now - KeepUsed
            => \E x \in DOMAIN db' : /\ db'[x].complete
                                     /\ db'[x].repo = db[i].repo /\ db'[x].key = db[i].key
                                     /\ db'[x].createdAt >= db[i].createdAt
  BY DEF Usable, Outlives
<1> QED BY <1>1, <1>2, <1>3, <1>4, PTL DEF Spec, GcKeepsNewest

-----------------------------------------------------------------------------
(* The archives: what the file of an entry holds while it is committed,     *)
(* stored and read, as long as no two handlers commit it at once.           *)

\* A whole archive, or one of which no size was known.
Right(i) == i \in unsized \/ blob[i].data = Parts

EntryWhole(i) ==
    IF db[i].complete
    THEN blob[i].file /\ Cardinality(blob[i].data) = db[i].size /\ Right(i)
    ELSE db[i].size \in {-1, N}

\* A commit has an incomplete entry, as long as that is in the store, and has
\* counted the parts that are in its file.
CommitWhole(s) ==
    LET i == h[s].id
    IN  /\ Committing(s) => h[s].entry.size \in {-1, N} /\ (i \in DOMAIN db => ~ db[i].complete)
        /\ h[s].at = "copy" /\ i \in DOMAIN db =>
             /\ h[s].open /\ blob[i].file /\ blob[i].data \cap h[s].names = {}
             /\ Cardinality(blob[i].data) = h[s].written
        /\ h[s].at \in {"check", "clean", "update"} /\ i \in DOMAIN db =>
             blob[i].file /\ Cardinality(blob[i].data) = h[s].written
        /\ h[s].at \in {"clean", "update"} => ~ Broken(s)

ReadWhole(s) ==
    Reading(s) => /\ h[s].id \in DOMAIN db => db[h[s].id].complete
                  /\ blob[h[s].id].file => Right(h[s].id)

\* Nobody commits what somebody reads.
Apart == \A s, t \in Handlers : Reading(s) /\ Committing(t) => h[s].id # h[t].id

ServedWhole == \A r \in served : r.id \in unsized \/ r.data = Parts

Whole == /\ \A i \in DOMAIN db : EntryWhole(i)
         /\ \A s \in Handlers : CommitWhole(s) /\ ReadWhole(s)
         /\ Apart /\ ServedWhole

\* What stays as it is stays whole.
LEMMA EntryStays ==
  ASSUME NEW i \in DOMAIN db, EntryWhole(i), db'[i].complete = db[i].complete,
         db'[i].size = db[i].size, blob'[i] = blob[i], unsized \subseteq unsized'
  PROVE  EntryWhole(i)'
BY DEF EntryWhole, Right

LEMMA CommitStays ==
  ASSUME NEW t \in Handlers, CommitWhole(t), HandlerKept(t),
         h[t].id \in DOMAIN db' =>
             /\ h[t].id \in DOMAIN db /\ db'[h[t].id].complete = db[h[t].id].complete
             /\ blob'[h[t].id] = blob[h[t].id] /\ h'[t].open = h[t].open
  PROVE  CommitWhole(t)'
BY DEF CommitWhole, HandlerKept, Committing, Broken

LEMMA ReadStays ==
  ASSUME NEW t \in Handlers, ReadWhole(t), Reading(t), h'[t].id = h[t].id,
         h[t].id \in DOMAIN db' =>
             h[t].id \in DOMAIN db /\ db'[h[t].id].complete = db[h[t].id].complete,
         blob'[h[t].id] = blob[h[t].id] \/ ~ blob'[h[t].id].file,
         unsized \subseteq unsized'
  PROVE  ReadWhole(t)'
BY DEF ReadWhole, Right

\* A handler that neither commits nor reads has nothing to answer for.
LEMMA OthersAreWhole ==
  ASSUME NEW t \in Handlers, ~ Committing(t)', ~ Reading(t)'
  PROVE  CommitWhole(t)' /\ ReadWhole(t)'
BY DEF CommitWhole, ReadWhole, Committing

LEMMA CommitsAreNoReads ==
  ASSUME NEW t \in Handlers
  PROVE  /\ Committing(t) => ReadWhole(t)
         /\ Reading(t) => CommitWhole(t)
         /\ h[t].at \in {"idle", "write", "touch", "order"} => ~ Committing(t) /\ ~ Reading(t)
BY DEF CommitWhole, ReadWhole, Committing, Reading

LEMMA AsideWhole ==
  ASSUME Sound, Whole, Aside
  PROVE  Whole'
<1>1. StoreKept /\ UNCHANGED <<blob, unsized, served>> BY DEF Aside
<1>2. \A t \in Handlers : h'[t] = h[t] \/ (~ Committing(t)' /\ ~ Reading(t)')
  BY DEF Aside, Committing, Reading
<1>3. ASSUME NEW i \in DOMAIN db' PROVE EntryWhole(i)'
  BY <1>1, EntryStays DEF Whole, StoreKept
<1>4. ASSUME NEW t \in Handlers PROVE CommitWhole(t)' /\ ReadWhole(t)'
  <2>1. CASE h'[t] = h[t]
    <3>1. HandlerKept(t) /\ h'[t].open = h[t].open BY <2>1 DEF HandlerKept
    <3>2. CommitWhole(t)' BY <1>1, <3>1, CommitStays DEF Whole, StoreKept
    <3>3. ReadWhole(t)'
      <4>1. CASE Reading(t) BY <1>1, <3>1, <4>1, ReadStays DEF Whole, StoreKept, HandlerKept
      <4>2. CASE ~ Reading(t) BY <2>1, <4>2 DEF ReadWhole, Reading
      <4> QED BY <4>1, <4>2
    <3> QED BY <3>2, <3>3
  <2>2. CASE ~ Committing(t)' /\ ~ Reading(t)' BY <2>2, OthersAreWhole
  <2> QED BY <1>2, <2>1, <2>2
<1>5. Apart' BY <1>2 DEF Whole, Apart, Committing, Reading
<1>6. ServedWhole' BY <1>1 DEF Whole, ServedWhole
<1> QED BY <1>3, <1>4, <1>5, <1>6 DEF Whole

\* Handlers that commit or read work on ids that were reserved before.
LEMMA OldIds ==
  ASSUME Sound, NEW t \in Handlers, Committing(t) \/ Reading(t)
  PROVE  h[t].id \in 1..seq /\ h[t].id \in Ids /\ seq \in Nat
<1>1. h[t].at # "idle" BY DEF Committing, Reading
<1>2. h[t].id \in 1..seq BY <1>1 DEF Sound, HandlerSound, HandlerOwns
<1> QED BY <1>2, SeqBelow DEF Ids

LEMMA ReservesWhole ==
  ASSUME Sound, Whole, Reserves
  PROVE  Whole'
<1>1. /\ DOMAIN db' = DOMAIN db \cup {seq + 1} /\ \A x \in DOMAIN db : db'[x] = db[x]
      /\ ~ db'[seq + 1].complete /\ db'[seq + 1].size \in {-1, N}
      /\ UNCHANGED <<blob, h, served, unsized>>
  BY DEF Reserves
<1>2. ASSUME NEW i \in DOMAIN db' PROVE EntryWhole(i)'
  <2>1. CASE i \in DOMAIN db BY <1>1, <2>1, EntryStays DEF Whole
  <2>2. CASE i = seq + 1 BY <1>1, <2>2 DEF EntryWhole
  <2> QED BY <1>1, <2>1, <2>2
<1>3. ASSUME NEW t \in Handlers PROVE CommitWhole(t)' /\ ReadWhole(t)'
  <2>1. HandlerKept(t) /\ h'[t] = h[t] BY <1>1 DEF HandlerKept
  <2>2. CASE Committing(t) \/ Reading(t)
    <3>1. h[t].id \in DOMAIN db' => h[t].id \in DOMAIN db BY <1>1, <2>2, OldIds
    <3>2. CommitWhole(t)' BY <1>1, <2>1, <3>1, CommitStays DEF Whole
    <3>3. ReadWhole(t)'
      <4>1. CASE Reading(t) BY <1>1, <2>1, <3>1, <4>1, ReadStays DEF Whole
      <4>2. CASE ~ Reading(t) BY <2>1, <4>2 DEF ReadWhole, Reading
      <4> QED BY <4>1, <4>2
    <3> QED BY <3>2, <3>3
  <2>3. CASE ~ Committing(t) /\ ~ Reading(t)
    BY <2>1, <2>3, OthersAreWhole DEF Committing, Reading
  <2> QED BY <2>2, <2>3
<1>4. Apart' /\ ServedWhole' BY <1>1 DEF Whole, Apart, Committing, Reading, ServedWhole
<1> QED BY <1>2, <1>3, <1>4 DEF Whole

\* A collection takes the files with their entries.
LEMMA CollectsWhole ==
  ASSUME Sound, Whole, Collects
  PROVE  Whole'
<1>1. PICK D \in Garbage :
        /\ Collect(D)
        /\ \A t \in Handlers : \/ HandlerKept(t) /\ (h[t].id \notin D => h'[t] = h[t])
                               \/ h'[t].at = "idle"
  BY DEF Collects
<1>2. /\ UNCHANGED <<served, unsized>>
      /\ DOMAIN db' = DOMAIN db \ D /\ \A x \in DOMAIN db \ D : db'[x] = db[x]
      /\ \A x \in Ids : IF x \in D THEN ~ blob'[x].file ELSE blob'[x] = blob[x]
  BY <1>1, CollectKeeps
<1>3. ASSUME NEW i \in DOMAIN db' PROVE EntryWhole(i)'
  <2>1. i \in DOMAIN db /\ i \notin D /\ db'[i] = db[i] BY <1>2
  <2>2. i \in Ids BY <2>1, SeqBelow DEF Sound, Shape, StoreShape, Ids
  <2> QED BY <1>2, <2>1, <2>2, EntryStays DEF Whole
<1>4. ASSUME NEW t \in Handlers PROVE CommitWhole(t)' /\ ReadWhole(t)'
  <2>1. CASE HandlerKept(t) /\ (Committing(t) \/ Reading(t))
    <3>1. h[t].id \in Ids BY <2>1, OldIds
    <3>2. h[t].id \in DOMAIN db' =>
            /\ h[t].id \in DOMAIN db /\ h[t].id \notin D /\ db'[h[t].id] = db[h[t].id]
            /\ blob'[h[t].id] = blob[h[t].id]
      BY <1>2, <3>1
    <3>3. h[t].id \in DOMAIN db' => h'[t].open = h[t].open
      <4>1. h[t].id \notin D => h'[t] = h[t] \/ h'[t].at = "idle" BY <1>1
      <4>2. h'[t].at # "idle" BY <2>1 DEF HandlerKept, Committing, Reading
      <4> QED BY <3>2, <4>1, <4>2
    <3>4. CommitWhole(t)' BY <2>1, <3>2, <3>3, CommitStays DEF Whole
    <3>5. ReadWhole(t)'
      <4>1. CASE Reading(t)
        BY <1>2, <2>1, <3>1, <3>2, <4>1, ReadStays DEF Whole, HandlerKept
      <4>2. CASE ~ Reading(t) BY <2>1, <4>2 DEF ReadWhole, Reading, HandlerKept
      <4> QED BY <4>1, <4>2
    <3> QED BY <3>4, <3>5
  <2>2. CASE HandlerKept(t) /\ ~ Committing(t) /\ ~ Reading(t)
    BY <2>2, OthersAreWhole DEF HandlerKept, Committing, Reading
  <2>3. CASE h'[t].at = "idle" BY <2>3, OthersAreWhole DEF Committing, Reading
  <2> QED BY <1>1, <2>1, <2>2, <2>3
<1>5. Apart'
  <2>1. \A t \in Handlers : h'[t].at # "idle" => h'[t].at = h[t].at /\ h'[t].id = h[t].id
    BY <1>1 DEF HandlerKept
  <2>2. \A t \in Handlers :
          /\ Reading(t)' => Reading(t) /\ h'[t].id = h[t].id
          /\ Committing(t)' => Committing(t) /\ h'[t].id = h[t].id
    BY <2>1 DEF Committing, Reading
  <2> QED BY <2>2 DEF Whole, Apart
<1>6. ServedWhole' BY <1>2 DEF Whole, ServedWhole
<1> QED BY <1>3, <1>4, <1>5, <1>6 DEF Whole

\* A commit that goes on disturbs nobody else.
LEMMA CommitGoesWhole ==
  ASSUME Sound, Whole, OneCommitEach, NEW s \in Handlers, CommitGoes(s), CommitWhole(s)'
  PROVE  Whole'
<1>1. /\ UNCHANGED <<db, served, unsized>> /\ Committing(s) /\ Committing(s)'
      /\ h'[s].id = h[s].id
      /\ \A t \in Handlers \ {s} : HandlerKept(t) /\ (h[t].id # h[s].id => h'[t] = h[t])
      /\ \A x \in Ids \ {h[s].id} : blob'[x] = blob[x]
  BY DEF CommitGoes
<1>2. ASSUME NEW i \in DOMAIN db' PROVE EntryWhole(i)'
  <2>1. i \in Ids BY <1>1, SeqBelow DEF Sound, Shape, StoreShape, Ids
  <2>2. CASE i = h[s].id
    <3>1. ~ db[i].complete BY <1>1, <2>2 DEF Whole, CommitWhole
    <3> QED BY <1>1, <3>1 DEF Whole, EntryWhole
  <2>3. CASE i # h[s].id BY <1>1, <2>1, <2>3, EntryStays DEF Whole
  <2> QED BY <2>2, <2>3
<1>3. ASSUME NEW t \in Handlers \ {s} PROVE CommitWhole(t)' /\ ReadWhole(t)'
  <2>1. HandlerKept(t) BY <1>1
  <2>2. CASE Committing(t) \/ Reading(t)
    <3>1. h[t].id \in Ids BY <2>2, OldIds
    <3>2. h[t].id # h[s].id BY <1>1, <2>2 DEF Whole, Apart, OneCommitEach
    <3>3. h'[t] = h[t] /\ blob'[h[t].id] = blob[h[t].id] BY <1>1, <3>1, <3>2
    <3>4. CommitWhole(t)' BY <1>1, <2>1, <3>3, CommitStays DEF Whole
    <3>5. ReadWhole(t)'
      <4>1. CASE Reading(t) BY <1>1, <3>3, <4>1, ReadStays DEF Whole
      <4>2. CASE ~ Reading(t) BY <3>3, <4>2 DEF ReadWhole, Reading
      <4> QED BY <4>1, <4>2
    <3> QED BY <3>4, <3>5
  <2>3. CASE ~ Committing(t) /\ ~ Reading(t)
    BY <2>1, <2>3, OthersAreWhole DEF HandlerKept, Committing, Reading
  <2> QED BY <2>2, <2>3
<1>4. ReadWhole(s)' BY <1>1 DEF ReadWhole, Reading, Committing
<1>5. Apart'
  <2>1. \A t \in Handlers \ {s} : /\ Reading(t)' => Reading(t) /\ h'[t].id = h[t].id
                                  /\ Committing(t)' => Committing(t) /\ h'[t].id = h[t].id
    BY <1>1 DEF HandlerKept, Committing, Reading
  <2>2. ~ Reading(s)' BY <1>1 DEF Committing, Reading
  <2> QED BY <1>1, <2>1, <2>2 DEF Whole, Apart
<1>6. ServedWhole' BY <1>1 DEF Whole, ServedWhole
<1> QED BY <1>2, <1>3, <1>4, <1>5, <1>6 DEF Whole

LEMMA MoveWhole ==
  ASSUME Sound, Whole, NEW s \in Handlers, Move(s)
  PROVE  CommitWhole(s)'
<1>1. /\ CommitGoes(s)
      /\ \/ h'[s].at = "abort"
         \/ /\ h'[s].at = "check" /\ blob'[h[s].id].file
            /\ Cardinality(blob'[h[s].id].data) = h'[s].written
  BY MoveGoes
<1>2. CommitWhole(s) BY DEF Whole
<1> QED BY <1>1, <1>2 DEF CommitGoes, CommitWhole

LEMMA CreateWhole ==
  ASSUME Sound, Whole, NEW s \in Handlers, Create(s)
  PROVE  CommitWhole(s)'
<1>1. /\ CommitGoes(s) /\ h'[s].at = "copy" /\ h'[s].open /\ h'[s].written = 0
      /\ blob'[h[s].id].file /\ blob'[h[s].id].data = {}
  BY CreateGoes
<1>2. Cardinality(blob'[h[s].id].data) = 0 BY <1>1, FS_EmptySet
<1>3. CommitWhole(s) BY DEF Whole
<1> QED BY <1>1, <1>2, <1>3 DEF CommitGoes, CommitWhole

LEMMA CopyWhole ==
  ASSUME Sound, Whole, NEW s \in Handlers, Copy(s)
  PROVE  CommitWhole(s)'
<1> DEFINE i == h[s].id
<1>1. CommitGoes(s) /\ h[s].at = "copy" BY CopyGoes
<1>2. /\ h'[s].id = i /\ UNCHANGED db /\ Committing(s)
      /\ h'[s].entry = h[s].entry
  BY <1>1 DEF CommitGoes
<1>3. CommitWhole(s) BY DEF Whole
<1>4. /\ h[s].entry.size \in {-1, N} /\ (i \in DOMAIN db => ~ db[i].complete)
      /\ i \in DOMAIN db => /\ h[s].open /\ blob[i].file /\ blob[i].data \cap h[s].names = {}
                            /\ Cardinality(blob[i].data) = h[s].written
  BY <1>1, <1>2, <1>3 DEF CommitWhole
<1>5. CASE h'[s].at = "abort" BY <1>2, <1>4, <1>5 DEF CommitWhole
<1>6. CASE h'[s].at = "check" /\ UNCHANGED blob /\ h'[s].written = h[s].written
  BY <1>2, <1>4, <1>6 DEF CommitWhole
<1>7. CASE /\ h'[s].at = "copy" /\ h'[s].open = h[s].open
           /\ h'[s].names \subseteq h[s].names
           /\ blob'[i] = blob[i] /\ h'[s].written = h[s].written
  <2>1. blob[i].data \cap h[s].names = {} => blob'[i].data \cap h'[s].names = {} BY <1>7
  <2> QED BY <1>2, <1>4, <1>7, <2>1 DEF CommitWhole
<1>8. CASE /\ h'[s].at = "copy" /\ h'[s].open = h[s].open
           /\ h'[s].names \subseteq h[s].names
           /\ h[s].open => \E p \in h[s].names :
                 blob'[i] = [blob[i] EXCEPT !.data = @ \cup {p}] /\ p \notin h'[s].names
           /\ h'[s].written = h[s].written + 1
  <2>1. ASSUME i \in DOMAIN db
        PROVE  /\ h'[s].open /\ blob'[i].file /\ blob'[i].data \cap h'[s].names = {}
               /\ Cardinality(blob'[i].data) = h'[s].written
    <3>1. PICK p \in h[s].names :
            blob'[i] = [blob[i] EXCEPT !.data = @ \cup {p}] /\ p \notin h'[s].names
      BY <1>4, <1>8, <2>1
    <3>2. blob[i] \in [file : BOOLEAN, data : SUBSET Parts] BY <1>2, OldIds DEF Sound, Shape, BlobShape
    <3>3. blob'[i].file = blob[i].file /\ blob'[i].data = blob[i].data \cup {p} BY <3>1, <3>2
    <3>4. p \notin blob[i].data BY <1>4, <2>1
    <3>5. IsFiniteSet(blob[i].data) BY <3>2, PartsAreFinite
    <3>6. Cardinality(blob'[i].data) = Cardinality(blob[i].data) + 1
      BY <3>3, <3>4, <3>5, FS_AddElement
    <3> QED BY <1>4, <1>8, <2>1, <3>1, <3>3, <3>6
  <2> QED BY <1>2, <1>4, <1>8, <2>1 DEF CommitWhole
<1> HIDE DEF i
<1>9. \/ h'[s].at = "abort"
      \/ h'[s].at = "check" /\ UNCHANGED blob /\ h'[s].written = h[s].written
      \/ /\ h'[s].at = "copy" /\ h'[s].open = h[s].open
         /\ h'[s].names \subseteq h[s].names
         /\ \/ blob'[i] = blob[i] /\ h'[s].written = h[s].written
            \/ /\ h[s].open => \E p \in h[s].names :
                     blob'[i] = [blob[i] EXCEPT !.data = @ \cup {p}] /\ p \notin h'[s].names
               /\ h'[s].written = h[s].written + 1
  BY CopyGoes DEF i
<1> QED BY <1>5, <1>6, <1>7, <1>8, <1>9

LEMMA CheckSizeWhole ==
  ASSUME Sound, Whole, NEW s \in Handlers, CheckSize(s)
  PROVE  CommitWhole(s)'
<1>1. /\ CommitGoes(s) /\ h[s].at = "check"
      /\ \/ h'[s].at = "abort"
         \/ h'[s].at = "clean" /\ ~ Broken(s) /\ UNCHANGED blob /\ h'[s].written = h[s].written
  BY CheckSizeGoes
<1>2. CommitWhole(s) BY DEF Whole
<1> QED BY <1>1, <1>2 DEF CommitGoes, CommitWhole, Broken

LEMMA CleanWhole ==
  ASSUME Sound, Whole, NEW s \in Handlers, Clean(s), ~ Aside
  PROVE  CommitGoes(s) /\ CommitWhole(s)'
<1>1. /\ CommitGoes(s) /\ UNCHANGED blob /\ h[s].at = "clean" /\ h'[s].at = "update"
      /\ h'[s].written = h[s].written
  BY CleanGoes
<1>2. CommitWhole(s) BY DEF Whole
<1> QED BY <1>1, <1>2 DEF CommitGoes, CommitWhole, Broken

LEMMA StartsWhole ==
  ASSUME Sound, Whole, NEW s \in Handlers, NEW j \in Jobs, Commit(s, j), ~ UNCHANGED h
  PROVE  Whole'
<1>1. /\ UNCHANGED <<db, blob, served, unsized>>
      /\ \A t \in Handlers \ {s} : h'[t] = h[t] /\ HandlerKept(t)
      /\ h'[s].at = "list" /\ h'[s].id \in DOMAIN db /\ ~ db[h'[s].id].complete
      /\ h'[s].entry.size = db[h'[s].id].size \/ h'[s].entry.size = N
  BY CommitStarts
<1>2. db[h'[s].id].size \in {-1, N} BY <1>1 DEF Whole, EntryWhole
<1>3. CommitWhole(s)' /\ ReadWhole(s)'
  BY <1>1, <1>2 DEF CommitWhole, ReadWhole, Reading, Committing
<1>4. ASSUME NEW t \in Handlers \ {s} PROVE CommitWhole(t)' /\ ReadWhole(t)'
  <2>1. HandlerKept(t) /\ h'[t] = h[t] BY <1>1
  <2>2. CommitWhole(t)' BY <1>1, <2>1, CommitStays DEF Whole
  <2>3. CASE Reading(t) BY <1>1, <2>1, <2>2, <2>3, ReadStays DEF Whole
  <2>4. CASE ~ Reading(t) BY <2>1, <2>2, <2>4 DEF ReadWhole, Reading
  <2> QED BY <2>3, <2>4
<1>5. \A t \in Handlers : Reading(t)' =>
        t # s /\ Reading(t) /\ h'[t].id = h[t].id /\ (h[t].id \in DOMAIN db => db[h[t].id].complete)
  BY <1>1 DEF Reading, Whole, ReadWhole
<1>6. Apart' BY <1>1, <1>5 DEF Whole, Apart, Committing
<1>7. \A i \in DOMAIN db' : EntryWhole(i)' BY <1>1, EntryStays DEF Whole
<1>8. ServedWhole' BY <1>1 DEF Whole, ServedWhole
<1> QED BY <1>3, <1>4, <1>6, <1>7, <1>8 DEF Whole

\* The entry of a commit becomes complete with the archive it has.
LEMMA CompletesWhole ==
  ASSUME Sound, Whole, OneCommitEach, NEW s \in Handlers, Completes(s)
  PROVE  Whole'
<1> DEFINE i == h[s].id
<1>1. /\ Committing(s) /\ h[s].at = "update" /\ i \in DOMAIN db /\ DOMAIN db' = DOMAIN db
      /\ \A x \in DOMAIN db \ {i} : db'[x] = db[x]
      /\ db'[i].complete /\ db'[i].size = h[s].written
      /\ unsized' = IF h[s].entry.size >= 0 THEN unsized ELSE unsized \cup {i}
      /\ UNCHANGED <<blob, served>>
      /\ h'[s].at = "idle" /\ \A t \in Handlers \ {s} : h'[t] = h[t]
  BY DEF Completes
<1>2. unsized \subseteq unsized' BY <1>1
<1>3. CommitWhole(s) BY DEF Whole
<1>4. /\ h[s].entry.size \in {-1, N} /\ ~ Broken(s) /\ blob[i].file
      /\ Cardinality(blob[i].data) = h[s].written
  BY <1>1, <1>3 DEF CommitWhole
<1>5. i \in unsized' \/ blob[i].data = Parts
  <2>1. CASE h[s].entry.size >= 0
    <3>1. h[s].written = N BY <1>4, <2>1, ConstantsAssumption DEF Broken
    <3>2. blob[i].data \in SUBSET Parts BY <1>1, OldIds DEF Sound, Shape, BlobShape
    <3>3. blob[i].data = Parts BY <1>4, <3>1, <3>2, PartsAreFinite
    <3> QED BY <3>3
  <2>2. CASE ~ h[s].entry.size >= 0 BY <1>1, <2>2
  <2> QED BY <2>1, <2>2
<1>6. ASSUME NEW x \in DOMAIN db' PROVE EntryWhole(x)'
  <2>1. CASE x = i BY <1>1, <1>4, <1>5, <2>1 DEF EntryWhole, Right
  <2>2. CASE x # i BY <1>1, <1>2, <2>2, EntryStays DEF Whole
  <2> QED BY <2>1, <2>2
<1>7. ASSUME NEW t \in Handlers PROVE CommitWhole(t)' /\ ReadWhole(t)'
  <2>1. CASE t # s /\ (Committing(t) \/ Reading(t))
    <3>1. h'[t] = h[t] /\ HandlerKept(t) BY <1>1, <2>1 DEF HandlerKept
    <3>2. h[t].id # i BY <1>1, <2>1 DEF Whole, Apart, OneCommitEach
    <3>3. CommitWhole(t)' BY <1>1, <3>1, <3>2, CommitStays DEF Whole
    <3>4. CASE Reading(t) BY <1>1, <1>2, <3>1, <3>2, <3>3, <3>4, ReadStays DEF Whole
    <3>5. CASE ~ Reading(t) BY <3>1, <3>3, <3>5 DEF ReadWhole, Reading
    <3> QED BY <3>4, <3>5
  <2>2. CASE t # s /\ ~ Committing(t) /\ ~ Reading(t)
    BY <1>1, <2>2, OthersAreWhole DEF Committing, Reading
  <2>3. CASE t = s BY <1>1, <2>3, OthersAreWhole DEF Committing, Reading
  <2> QED BY <2>1, <2>2, <2>3
<1>8. Apart' BY <1>1 DEF Whole, Apart, Committing, Reading
<1>9. ServedWhole' BY <1>1, <1>2 DEF Whole, ServedWhole
<1> QED BY <1>6, <1>7, <1>8, <1>9 DEF Whole

\* A hit is a complete entry, which nobody commits; and its file is there, so
\* that no entry is ever dropped for the want of it.
LEMMA LookupWhole ==
  ASSUME Sound, Whole, NEW s \in Handlers, NEW j \in Jobs, Lookup(s, j)
  PROVE  Whole'
<1>1. UNCHANGED <<blob, served, unsized>> BY LookupSound
<1>2. /\ UNCHANGED db
      /\ h'[s].at = "get" /\ h'[s].id \in DOMAIN db /\ db[h'[s].id].complete
      /\ \A t \in Handlers \ {s} : h'[t] = h[t]
  <2>1. PICK i \in Found(job[j].repo, Restore[j]) :
          \/ Handle(s, j, <<"get", 0>>, "get", i, db[i]) /\ UNCHANGED db
          \/ ~ blob[i].file
    BY DEF Lookup
  <2>2. \A x \in Found(job[j].repo, Restore[j]) : x \in DOMAIN db /\ db[x].complete
    BY FoundIsWanted
  <2>3. \A x \in Found(job[j].repo, Restore[j]) : blob[x].file
    BY <2>2 DEF Whole, EntryWhole
  <2>4. ~ UNCHANGED h
    <3>1. h[s].at = "idle" BY DEF Lookup, Sends
    <3>2. PICK x \in Found(job[j].repo, Restore[j]) : Handle(s, j, <<"get", 0>>, "get", x, db[x])
      BY <2>3 DEF Lookup
    <3>3. h'[s].at = "get" BY <3>2 DEF Handle, Idle, Sound, Shape, HandlerShape
    <3> QED BY <3>1, <3>3
  <2> QED BY <2>4, LookupSound
<1>3. EntryWhole(h'[s].id) BY <1>2 DEF Whole
<1>4. ReadWhole(s)' BY <1>1, <1>2, <1>3 DEF ReadWhole, EntryWhole, Right
<1>5. CommitWhole(s)' BY <1>2 DEF CommitWhole, Committing
<1>6. ASSUME NEW t \in Handlers \ {s} PROVE CommitWhole(t)' /\ ReadWhole(t)'
  <2>1. HandlerKept(t) /\ h'[t] = h[t] BY <1>2 DEF HandlerKept
  <2>2. CommitWhole(t)' BY <1>1, <1>2, <2>1, CommitStays DEF Whole
  <2>3. CASE Reading(t) BY <1>1, <1>2, <2>1, <2>2, <2>3, ReadStays DEF Whole
  <2>4. CASE ~ Reading(t) BY <2>1, <2>2, <2>4 DEF ReadWhole, Reading
  <2> QED BY <2>3, <2>4
<1>7. \A t \in Handlers : Committing(t)' =>
        t # s /\ Committing(t) /\ h'[t].id = h[t].id /\ (h[t].id \in DOMAIN db => ~ db[h[t].id].complete)
  BY <1>2 DEF Committing, Whole, CommitWhole
<1>8. Apart' BY <1>2, <1>7 DEF Whole, Apart, Reading
<1>9. \A x \in DOMAIN db' : EntryWhole(x)' BY <1>1, <1>2, EntryStays DEF Whole
<1>10. ServedWhole' BY <1>1 DEF Whole, ServedWhole
<1> QED BY <1>4, <1>5, <1>6, <1>8, <1>9, <1>10 DEF Whole

\* Reading on, and serving what was read.
LEMMA GetWhole ==
  ASSUME Sound, Whole, NEW s \in Handlers, GetTouch(s) \/ Serve(s)
  PROVE  Whole'
<1>1. /\ StoreKept /\ UNCHANGED <<blob, unsized>> /\ Reading(s)
      /\ \/ h'[s].at = "serve" /\ h'[s].id = h[s].id
         \/ h'[s].at = "idle"
      /\ \A t \in Handlers \ {s} : h'[t] = h[t]
  BY GetTouchSound, ServeSound, UnchangedStore DEF Reading, Sound, Shape
<1>2. \A x \in DOMAIN db' : EntryWhole(x)' BY <1>1, EntryStays DEF Whole, StoreKept
<1>3. CommitWhole(s)' BY <1>1 DEF CommitWhole, Committing
<1>4. ReadWhole(s)'
  <2>1. CASE h'[s].id = h[s].id BY <1>1, <2>1, ReadStays DEF Whole, StoreKept
  <2>2. CASE h'[s].at = "idle" BY <2>2 DEF ReadWhole, Reading
  <2> QED BY <1>1, <2>1, <2>2
<1>5. ASSUME NEW t \in Handlers \ {s} PROVE CommitWhole(t)' /\ ReadWhole(t)'
  <2>1. HandlerKept(t) /\ h'[t] = h[t] BY <1>1 DEF HandlerKept
  <2>2. CommitWhole(t)' BY <1>1, <2>1, CommitStays DEF Whole, StoreKept
  <2>3. CASE Reading(t) BY <1>1, <2>1, <2>2, <2>3, ReadStays DEF Whole, StoreKept
  <2>4. CASE ~ Reading(t) BY <2>1, <2>2, <2>4 DEF ReadWhole, Reading
  <2> QED BY <2>3, <2>4
<1>6. Apart'
  <2>1. ~ Committing(s)' /\ (Reading(s)' => h'[s].id = h[s].id) BY <1>1 DEF Committing, Reading
  <2>2. \A t \in Handlers \ {s} : /\ Reading(t)' => Reading(t) /\ h'[t].id = h[t].id
                                  /\ Committing(t)' => Committing(t) /\ h'[t].id = h[t].id
    BY <1>1 DEF Committing, Reading
  <2> QED BY <1>1, <2>1, <2>2 DEF Whole, Apart
<1>7. ServedWhole'
  <2>1. CASE GetTouch(s)
    <3>1. UNCHANGED <<served, unsized>> BY <2>1, GetTouchSound
    <3> QED BY <3>1 DEF Whole, ServedWhole
  <2>2. CASE Serve(s)
    <3>1. \A r \in served' : r \in served \/ ( /\ blob[h[s].id].file /\ r.id = h[s].id
                                             /\ r.data = blob[h[s].id].data )
      BY <2>2, ServeSound
    <3>2. blob[h[s].id].file => Right(h[s].id) BY <1>1 DEF Whole, ReadWhole
    <3> QED BY <1>1, <3>1, <3>2 DEF Whole, ServedWhole, Right
  <2> QED BY <2>1, <2>2
<1> QED BY <1>2, <1>3, <1>4, <1>5, <1>6, <1>7 DEF Whole

\* What every step leaves as it is or drives on.
LEMMA WholeStep ==
  ASSUME Sound, Whole, OneCommitEach, [Next]_vars
  PROVE  /\ Whole'
         /\ now' >= now
         /\ NoneSaved \/ \E s \in Handlers : Completes(s)
<1> DEFINE Goal == /\ Whole' /\ now' >= now
                   /\ NoneSaved \/ \E s \in Handlers : Completes(s)
<1>1. now \in Int BY ConstantsAssumption DEF Sound, Shape, TimeShape
<1>2. UNCHANGED job => NoneSaved BY DEF NoneSaved, JobsNamed
<1>3. CASE Aside BY <1>3, AsideWhole DEF Aside
<1>4. CASE Reserves BY <1>1, <1>4, ReservesWhole DEF Reserves
<1>5. CASE Collects
  <2>1. UNCHANGED now BY <1>5, CollectKeeps DEF Collects
  <2> QED BY <1>1, <1>5, <2>1, CollectsWhole DEF Collects
<1>6. ASSUME NEW s \in Handlers, CommitGoes(s), CommitWhole(s)' PROVE Goal
  BY <1>1, <1>2, <1>6, CommitGoesWhole DEF CommitGoes
<1>7. ASSUME NEW s \in Handlers, CommitStep(s) PROVE Goal
  <2>1. CASE CommitList(s)
    <3>1. CASE CommitGoes(s) /\ h'[s].at = "assemble"
      <4>1. CommitWhole(s) BY DEF Whole
      <4>2. CommitWhole(s)' BY <3>1, <4>1 DEF CommitGoes, CommitWhole
      <4> QED BY <1>6, <3>1, <4>2
    <3> QED BY <1>3, <2>1, <3>1, CommitListGoes
  <2>2. CASE Move(s) BY <1>6, <2>2, MoveGoes, MoveWhole
  <2>3. CASE Create(s) BY <1>6, <2>3, CreateGoes, CreateWhole
  <2>4. CASE Copy(s) BY <1>6, <2>4, CopyGoes, CopyWhole
  <2>5. CASE CheckSize(s) BY <1>6, <2>5, CheckSizeGoes, CheckSizeWhole
  <2>6. CASE Clean(s) BY <1>3, <1>6, <2>6, CleanWhole
  <2>7. CASE Update(s)
    <3>1. CASE Completes(s)
      <4>1. UNCHANGED now BY <3>1 DEF Completes
      <4> QED BY <1>1, <3>1, <4>1, CompletesWhole
    <3> QED BY <1>3, <2>7, <3>1, UpdateSound
  <2> QED BY <1>7, <2>1, <2>2, <2>3, <2>4, <2>5, <2>6, <2>7 DEF CommitStep
<1>8. ASSUME NEW s \in Handlers, NEW j \in Jobs, Commit(s, j), ~ UNCHANGED h PROVE Goal
  BY <1>1, <1>2, <1>8, StartsWhole, CommitStarts
<1>9. ASSUME NEW s \in Handlers, NEW j \in Jobs, Lookup(s, j) PROVE Goal
  BY <1>1, <1>2, <1>9, LookupWhole, LookupSound
<1>10. ASSUME NEW s \in Handlers, GetTouch(s) \/ Serve(s) PROVE Goal
  BY <1>1, <1>2, <1>10, GetWhole, GetTouchSound, ServeSound
<1> HIDE DEF Goal
<1>11. Goal BY <1>7, <1>8, <1>9, <1>10, <1>3, <1>4, <1>5, StepKinds DEF Goal
<1> QED BY <1>11 DEF Goal

LEMMA WholeInit == Init => Whole
<1> SUFFICES ASSUME Init PROVE Whole OBVIOUS
<1>1. DOMAIN db = {} /\ served = {} BY DEF Init
<1>2. ASSUME NEW s \in Handlers PROVE CommitWhole(s) /\ ReadWhole(s) /\ h[s].at = "idle"
  <2>1. h[s].at = "idle" BY DEF Init, Idle
  <2> QED BY <2>1 DEF CommitWhole, ReadWhole, Committing, Reading
<1> QED BY <1>1, <1>2 DEF Whole, Apart, ServedWhole, Reading

LEMMA WholeIsTrue == Sound /\ Whole => ArchivesTrue
<1> SUFFICES ASSUME Sound, Whole PROVE ArchivesTrue OBVIOUS
<1>1. BlobMatchesSize BY DEF Whole, EntryWhole, BlobMatchesSize
<1>2. RestoresWholeArchives
  BY DEF Sound, Served, Wanted, Whole, ServedWhole, RestoresWholeArchives
<1> QED BY <1>1, <1>2 DEF ArchivesTrue

\* The file of a complete entry holds as much as the entry says, and whatever a
\* job restores was saved by its own repository under a key it asked for, and is
\* whole unless its client had not said how large it is: however jobs, handlers,
\* collections and restarts interleave, as long as no two handlers commit one
\* entry at once (Storage.Commit, commitCache, find, get).
THEOREM ArchivesAreTrue == Spec /\ []OneCommitEach => []ArchivesTrue
<1>1. Init => Sound /\ Whole BY SoundInit, WholeInit
<1>2. Sound /\ Whole /\ OneCommitEach /\ [Next]_vars => Sound' /\ Whole'
  BY SoundStep, WholeStep
<1>3. Sound /\ Whole => ArchivesTrue BY WholeIsTrue
<1> QED BY <1>1, <1>2, <1>3, PTL DEF Spec

-----------------------------------------------------------------------------
(* What a job was told is saved can be found.                              *)

SavedOf(j) ==
    \E i \in DOMAIN db : db[i].complete /\ db[i].repo = job[j].repo /\ db[i].key = job[j].key

Early == now <= KeepUnused /\ now <= KeepUsed

Saved == \A j \in Jobs : job[j].st = "saved" /\ Early => SavedOf(j)

LEMMA SavedStep ==
  ASSUME Sound, Whole, OneCommitEach, Saved, [Next]_vars
  PROVE  Saved'
<1>1. SUFFICES ASSUME NEW j \in Jobs, job'[j].st = "saved", Early' PROVE SavedOf(j)'
  BY DEF Saved
<1>2. now' >= now /\ (NoneSaved \/ \E s \in Handlers : Completes(s)) BY WholeStep
<1>3. now \in 0..MaxTime /\ now' \in 0..MaxTime
  BY SoundStep DEF Sound, Shape, TimeShape
<1>4. Early BY <1>1, <1>2, <1>3, ConstantsAssumption DEF Early
<1>5. job'[j].repo = job[j].repo /\ job'[j].key = job[j].key
  BY <1>2 DEF NoneSaved, JobsNamed, Completes, JobsKept
<1>6. CASE job[j].st = "saved"
  <2>1. PICK i \in DOMAIN db :
          db[i].complete /\ db[i].repo = job[j].repo /\ db[i].key = job[j].key
    BY <1>4, <1>6 DEF Saved, SavedOf
  <2>2. blob[i].file BY <2>1 DEF Whole, EntryWhole
  <2>3. db[i].usedAt \in 0..MaxTime /\ db[i].createdAt \in 0..MaxTime
    BY DEF Sound, Shape, StoreShape, Entry
  <2>4. db[i].usedAt >= now - KeepUnused /\ db[i].createdAt >= now - KeepUsed
    BY <1>3, <1>4, <2>3, ConstantsAssumption DEF Early
  <2>5. Outlives(i) BY <2>1, <2>2, <2>4, UsableIsOutlived DEF Usable
  <2> QED BY <1>5, <2>1, <2>5 DEF Outlives, SavedOf
<1>7. CASE job[j].st # "saved"
  <2>1. PICK s \in Handlers : Completes(s) BY <1>1, <1>2, <1>7 DEF NoneSaved
  <2>2. Succeed(s) /\ Committing(s) /\ h[s].id \in DOMAIN db' /\ db'[h[s].id].complete
        /\ db'[h[s].id].repo = h[s].entry.repo /\ db'[h[s].id].key = h[s].entry.key
    BY <2>1 DEF Completes
  <2>3. j = h[s].job BY <1>1, <1>7, <2>2 DEF Succeed, Sound, Shape, JobShape
  <2>4. h[s].entry.repo = job[j].repo /\ h[s].entry.key = job[j].key
    BY <2>2, <2>3 DEF Sound, HandlerSound, EntryOwns
  <2> QED BY <1>5, <2>2, <2>4 DEF SavedOf
<1> QED BY <1>6, <1>7

\* The newest of the complete entries of the key is what a lookup takes, and
\* its file is there.
LEMMA SavedIsHit ==
  ASSUME Sound, Whole, NEW j \in Jobs, SavedOf(j)
  PROVE  \E i \in Exact(job[j].repo, job[j].key, TRUE) : blob[i].file
<1> DEFINE S == {i \in DOMAIN db : /\ db[i].repo = job[j].repo /\ db[i].key = job[j].key
                                   /\ db[i].complete = TRUE}
<1>1. S # {} /\ S \subseteq DOMAIN db BY DEF SavedOf
<1>2. Exact(job[j].repo, job[j].key, TRUE) = Newest(S, "createdAt") BY DEF Exact
<1>3. \A i \in S : blob[i].file BY DEF Whole, EntryWhole
<1>4. StoreShape /\ MaxTime \in Nat BY ConstantsAssumption DEF Sound, Shape
<1> HIDE DEF S
<1>5. PICK i \in Newest(S, "createdAt") : TRUE BY <1>1, <1>4, NewestExists
<1>6. i \in S BY <1>5 DEF Newest
<1> QED BY <1>2, <1>3, <1>5, <1>6

LEMMA SavedIsThere == Sound /\ Whole /\ Saved => SavedIsFound
BY SavedIsHit DEF Saved, Early, SavedIsFound

\* A job that was told its archive is saved finds one under its key, with its
\* file, as long as the entries of that key are neither too old nor unused for
\* too long: no collection, lookup, later upload or restart takes the last one
\* (gcCache, find, commitCache), as long as no two handlers commit one entry at
\* once.
THEOREM SavedAreFound == Spec /\ []OneCommitEach => []SavedIsFound
<1>1. Init => Sound /\ Whole /\ Saved
  <2>1. Init => Saved BY DEF Init, Saved
  <2> QED BY <2>1, SoundInit, WholeInit
<1>2. Sound /\ Whole /\ Saved /\ OneCommitEach /\ [Next]_vars => Sound' /\ Whole' /\ Saved'
  BY SoundStep, WholeStep, SavedStep
<1>3. Sound /\ Whole /\ Saved => SavedIsFound BY SavedIsThere
<1> QED BY <1>1, <1>2, <1>3, PTL DEF Spec

=============================================================================
