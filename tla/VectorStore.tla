---------------------------- MODULE VectorStore -----------------------------
(***************************************************************************)
(* The index of internal/index: a Store keeps the chunks of every file in  *)
(* SQLite and a decoded copy of all of them in memory.  UpsertFile and     *)
(* DeleteFile change the database and then drop the copy; Retrieve, under  *)
(* the mutex, reuses the copy or loads it.  Any number of goroutines call  *)
(* these at once.  A database transaction is atomic; everything else is    *)
(* one action per step another goroutine can get between.                  *)
(*                                                                         *)
(* A chunk is its content; a vector is the content it was computed from,   *)
(* so a row is right when its vector is its own content.  A file is the    *)
(* sequence of its chunks, duplicates included.                            *)
(***************************************************************************)
EXTENDS Naturals, Sequences

CONSTANTS
  Path,       \* the files of the repository, relative to its root
  Content,    \* chunk contents (and their vectors)
  File,       \* what ReadFile and chunk.File may yield for a file
  Writer,     \* goroutines that call UpsertFile and DeleteFile
  Reader,     \* goroutines that call Retrieve
  MaxCommits, \* bound: versions the database may go through
  NoVec,      \* a chunk that has no vector yet
  NoCache,    \* the nil cache
  NoResult,   \* a Retrieve that has returned nothing
  Free        \* the mutex when nobody holds it

ASSUME FileAssumption == File \subseteq Seq(Content)
ASSUME BoundAssumption == MaxCommits \in Nat
ASSUME SentinelAssumption ==
  /\ NoVec \notin Content
  /\ Free \notin Reader

Row == [content : Content, vec : Content]
Draft == [content : Content, vec : Content \union {NoVec}]
Index == [Path -> Seq(Row)]
EmptyIndex == [p \in Path |-> <<>>]

ASSUME NoCacheAssumption == NoCache \notin Index

VARIABLES
  \* the program
  db,       \* table chunks: the rows of each path
  mu,       \* Store.mu, held across loadAll
  cache,    \* Store.cache
  wpc,      \* where each writer is
  wpath,    \* the path it writes
  draft,    \* the chunks it has read, with the vectors found so far
  rpc,      \* where each reader is
  snap,     \* the rows its query read
  result,   \* what its last Retrieve returned
  \* history
  log,      \* log[v] is the v-th committed contents of the database
  stamp,    \* the version each writer last committed
  acked,    \* the newest version whose write has returned
  observed, \* the newest version a returned write or search has shown
  cacheVer, \* the version the cache holds
  snapVer,  \* the version each reader's query read
  floor     \* observed, when each reader's Retrieve began

storeVars == <<db, mu, cache, log, cacheVer>>
writerVars == <<wpc, wpath, draft, stamp, acked>>
readerVars == <<rpc, snap, result, snapVer, floor>>
vars == <<storeVars, writerVars, readerVars, observed>>

MaxOf(a, b) == IF a >= b THEN a ELSE b

Init ==
  /\ db = EmptyIndex
  /\ mu = Free
  /\ cache = NoCache
  /\ wpc = [w \in Writer |-> "idle"]
  /\ wpath \in [Writer -> Path]
  /\ draft = [w \in Writer |-> <<>>]
  /\ rpc = [r \in Reader |-> "idle"]
  /\ snap = [r \in Reader |-> EmptyIndex]
  /\ result = [r \in Reader |-> NoResult]
  /\ log = <<EmptyIndex>>
  /\ stamp = [w \in Writer |-> 1]
  /\ acked = 1
  /\ observed = 1
  /\ cacheVer = 1
  /\ snapVer = [r \in Reader |-> 1]
  /\ floor = [r \in Reader |-> 1]

-----------------------------------------------------------------------------
(* UpsertFile and DeleteFile                                               *)

(* ReadFile and chunk.File; a failure of either returns with no effect.    *)
ReadAndChunk(w, p, f) ==
  /\ wpc[w] = "idle"
  /\ wpc' = [wpc EXCEPT ![w] = "lookup"]
  /\ wpath' = [wpath EXCEPT ![w] = p]
  /\ draft' = [draft EXCEPT
       ![w] = [i \in DOMAIN f |-> [content |-> f[i], vec |-> NoVec]]]
  /\ UNCHANGED <<storeVars, readerVars, observed, stamp, acked>>

(* The vectors stored for path p under the hash of content c.              *)
Stored(p, c) == {db[p][i].vec : i \in {j \in DOMAIN db[p] : db[p][j].content = c}}

(* Fault: a chunk reuses the vector of the chunk that had its place.       *)
VectorsByPlace(w) ==
  /\ wpc[w] = "lookup"
  /\ wpc' = [wpc EXCEPT ![w] = "embed"]
  /\ draft' = [draft EXCEPT ![w] = [i \in DOMAIN draft[w] |->
       [content |-> draft[w][i].content,
        vec |-> IF i \in DOMAIN db[wpath[w]] THEN db[wpath[w]][i].vec ELSE NoVec]]]
  /\ UNCHANGED <<storeVars, readerVars, observed, wpath, stamp, acked>>

(* vectorsByPath and the loop that reuses what it found: a chunk whose     *)
(* content the path already has takes the stored vector.                   *)
VectorsByPath(w) ==
  /\ wpc[w] = "lookup"
  /\ wpc' = [wpc EXCEPT ![w] = "embed"]
  /\ draft' = [draft EXCEPT ![w] = [i \in DOMAIN draft[w] |->
       LET found == Stored(wpath[w], draft[w][i].content) IN
       [content |-> draft[w][i].content,
        vec |-> IF found = {} THEN NoVec ELSE CHOOSE v \in found : TRUE]]]
  /\ UNCHANGED <<storeVars, readerVars, observed, wpath, stamp, acked>>

(* Fault: the embedder's answer is one vector short and nobody counts.     *)
EmbedShort(w) ==
  /\ wpc[w] = "embed"
  /\ wpc' = [wpc EXCEPT ![w] = "commit"]
  /\ draft' = [draft EXCEPT ![w] = [i \in DOMAIN draft[w] |->
       [content |-> draft[w][i].content,
        vec |-> IF draft[w][i].vec = NoVec /\ i < Len(draft[w])
                  THEN draft[w][i].content ELSE draft[w][i].vec]]]
  /\ UNCHANGED <<storeVars, readerVars, observed, wpath, stamp, acked>>

(* The chunks without a vector are embedded in one call; when there are    *)
(* none the call is skipped.                                               *)
Embed(w) ==
  /\ wpc[w] = "embed"
  /\ wpc' = [wpc EXCEPT ![w] = "commit"]
  /\ draft' = [draft EXCEPT ![w] = [i \in DOMAIN draft[w] |->
       [content |-> draft[w][i].content,
        vec |-> IF draft[w][i].vec = NoVec
                  THEN draft[w][i].content ELSE draft[w][i].vec]]]
  /\ UNCHANGED <<storeVars, readerVars, observed, wpath, stamp, acked>>

(* Fault: the DELETE has no WHERE clause.                                  *)
StoreClearsAll(w, p, rows) ==
  /\ Len(log) < MaxCommits
  /\ db' = [EmptyIndex EXCEPT ![p] = rows]
  /\ log' = Append(log, db')
  /\ stamp' = [stamp EXCEPT ![w] = Len(log) + 1]
  /\ wpc' = [wpc EXCEPT ![w] = "invalidate"]
  /\ draft' = [draft EXCEPT ![w] = <<>>]
  /\ UNCHANGED <<mu, cache, cacheVer, readerVars, observed, acked>>

(* One transaction replaces the rows of path p.                            *)
Store(w, p, rows) ==
  /\ Len(log) < MaxCommits
  /\ db' = [db EXCEPT ![p] = rows]
  /\ log' = Append(log, db')
  /\ stamp' = [stamp EXCEPT ![w] = Len(log) + 1]
  /\ wpc' = [wpc EXCEPT ![w] = "invalidate"]
  /\ draft' = [draft EXCEPT ![w] = <<>>]
  /\ UNCHANGED <<mu, cache, cacheVer, readerVars, observed, acked>>

(* UpsertFile stores what it drafted.                                      *)
CommitRows(w) ==
  /\ wpc[w] = "commit"
  /\ Store(w, wpath[w], draft[w])
  /\ UNCHANGED wpath

(* DeleteFile: one DELETE statement, then the same invalidate.             *)
DeleteFile(w, p) ==
  /\ wpc[w] = "idle"
  /\ Store(w, p, <<>>)
  /\ UNCHANGED wpath

(* Any step before the commit, and the commit itself, may return an error: *)
(* the transaction rolls back and invalidate is not called.                *)
WriteFails(w) ==
  /\ wpc[w] \in {"lookup", "embed", "commit"}
  /\ wpc' = [wpc EXCEPT ![w] = "idle"]
  /\ draft' = [draft EXCEPT ![w] = <<>>]
  /\ UNCHANGED <<storeVars, readerVars, observed, wpath, stamp, acked>>

(* Fault: invalidate does not take the mutex.                              *)
InvalidateUnlocked(w) ==
  /\ wpc[w] = "invalidate"
  /\ cache' = NoCache
  /\ cacheVer' = 1
  /\ wpc' = [wpc EXCEPT ![w] = "idle"]
  /\ acked' = MaxOf(acked, stamp[w])
  /\ observed' = MaxOf(observed, stamp[w])
  /\ stamp' = [stamp EXCEPT ![w] = 1]
  /\ UNCHANGED <<db, mu, log, readerVars, wpath, draft>>

(* Fault: the write returns and the cache stays.                           *)
InvalidateForgotten(w) ==
  /\ wpc[w] = "invalidate"
  /\ mu = Free
  /\ wpc' = [wpc EXCEPT ![w] = "idle"]
  /\ acked' = MaxOf(acked, stamp[w])
  /\ observed' = MaxOf(observed, stamp[w])
  /\ stamp' = [stamp EXCEPT ![w] = 1]
  /\ UNCHANGED <<db, mu, cache, cacheVer, log, readerVars, wpath, draft>>

(* invalidate, and with it the write's return.                             *)
Invalidate(w) ==
  /\ wpc[w] = "invalidate"
  /\ mu = Free
  /\ cache' = NoCache
  /\ cacheVer' = 1
  /\ wpc' = [wpc EXCEPT ![w] = "idle"]
  /\ acked' = MaxOf(acked, stamp[w])
  /\ observed' = MaxOf(observed, stamp[w])
  /\ stamp' = [stamp EXCEPT ![w] = 1]
  /\ UNCHANGED <<db, mu, log, readerVars, wpath, draft>>

-----------------------------------------------------------------------------
(* Retrieve                                                                *)

(* Retrieve is called and embeds its query.                                *)
EmbedQuery(r) ==
  /\ rpc[r] = "idle"
  /\ rpc' = [rpc EXCEPT ![r] = "lock"]
  /\ result' = [result EXCEPT ![r] = NoResult]
  /\ floor' = [floor EXCEPT ![r] = observed]
  /\ UNCHANGED <<storeVars, writerVars, observed, snap, snapVer>>

(* The query embedder fails, or returns other than one vector.             *)
QueryEmbedFails(r) ==
  /\ rpc[r] = "lock"
  /\ rpc' = [rpc EXCEPT ![r] = "idle"]
  /\ floor' = [floor EXCEPT ![r] = 1]
  /\ UNCHANGED <<storeVars, writerVars, observed, snap, snapVer, result>>

(* loadAll takes the mutex and holds it until it returns.                  *)
LoadAllLock(r) ==
  /\ rpc[r] = "lock"
  /\ mu = Free
  /\ mu' = r
  /\ rpc' = [rpc EXCEPT ![r] = "check"]
  /\ UNCHANGED <<db, cache, log, cacheVer, writerVars, observed,
                 snap, snapVer, result, floor>>

(* The variables of a call go with it.                                     *)
Forget(r) ==
  /\ snap' = [snap EXCEPT ![r] = EmptyIndex]
  /\ snapVer' = [snapVer EXCEPT ![r] = 1]
  /\ floor' = [floor EXCEPT ![r] = 1]

(* Retrieve ranks these rows and returns.                                  *)
Return(r, rows, version) ==
  /\ rpc' = [rpc EXCEPT ![r] = "idle"]
  /\ mu' = Free
  /\ result' = [result EXCEPT ![r] = rows]
  /\ observed' = MaxOf(observed, version)
  /\ Forget(r)
  /\ UNCHANGED <<db, log, writerVars>>

(* Fault: the early return of a cache hit keeps the mutex.                 *)
CacheHitLocked(r) ==
  /\ rpc[r] = "check"
  /\ cache # NoCache
  /\ rpc' = [rpc EXCEPT ![r] = "idle"]
  /\ result' = [result EXCEPT ![r] = cache]
  /\ observed' = MaxOf(observed, cacheVer)
  /\ Forget(r)
  /\ UNCHANGED <<db, log, writerVars, mu, cache, cacheVer>>

(* The cache is there: its rows are the answer.                            *)
CacheHit(r) ==
  /\ rpc[r] = "check"
  /\ cache # NoCache
  /\ Return(r, cache, cacheVer)
  /\ UNCHANGED <<cache, cacheVer>>

(* The SELECT reads one snapshot of the table.                             *)
QueryRows(r) ==
  /\ rpc[r] = "check"
  /\ cache = NoCache
  /\ rpc' = [rpc EXCEPT ![r] = "fill"]
  /\ snap' = [snap EXCEPT ![r] = db]
  /\ snapVer' = [snapVer EXCEPT ![r] = Len(log)]
  /\ UNCHANGED <<storeVars, writerVars, observed, result, floor>>

(* Fault: the error path of loadAll keeps the mutex.                       *)
QueryFailsLocked(r) ==
  /\ rpc[r] \in {"check", "fill"}
  /\ cache = NoCache
  /\ rpc' = [rpc EXCEPT ![r] = "idle"]
  /\ Forget(r)
  /\ UNCHANGED <<db, cache, log, cacheVer, mu, writerVars, observed, result>>

(* The SELECT or a Scan fails; the deferred Unlock still runs.             *)
QueryFails(r) ==
  /\ rpc[r] \in {"check", "fill"}
  /\ cache = NoCache
  /\ rpc' = [rpc EXCEPT ![r] = "idle"]
  /\ mu' = Free
  /\ Forget(r)
  /\ UNCHANGED <<db, cache, log, cacheVer, writerVars, observed, result>>

(* No row was read: the slice is nil and so is the cache.                  *)
FillCache(r) ==
  /\ rpc[r] = "fill"
  /\ cache' = IF snap[r] = EmptyIndex THEN NoCache ELSE snap[r]
  /\ cacheVer' = IF snap[r] = EmptyIndex THEN 1 ELSE snapVer[r]
  /\ Return(r, snap[r], snapVer[r])

-----------------------------------------------------------------------------
(* The process dies and Open reopens the same file: the database stays.    *)
Crash ==
  /\ mu' = Free
  /\ cache' = NoCache
  /\ wpc' = [w \in Writer |-> "idle"]
  /\ draft' = [w \in Writer |-> <<>>]
  /\ rpc' = [r \in Reader |-> "idle"]
  /\ result' = [r \in Reader |-> NoResult]
  /\ cacheVer' = 1
  /\ stamp' = [w \in Writer |-> 1]
  /\ snap' = [r \in Reader |-> EmptyIndex]
  /\ snapVer' = [r \in Reader |-> 1]
  /\ floor' = [r \in Reader |-> 1]
  /\ UNCHANGED <<db, log, wpath, acked, observed>>

WriterStep(w) ==
  \/ VectorsByPath(w)
  \/ Embed(w)
  \/ CommitRows(w)
  \/ Invalidate(w)

ReaderStep(r) ==
  \/ LoadAllLock(r)
  \/ CacheHit(r)
  \/ QueryRows(r)
  \/ FillCache(r)

Next ==
  \/ \E w \in Writer :
       \/ \E p \in Path : DeleteFile(w, p) \/ \E f \in File : ReadAndChunk(w, p, f)
       \/ WriterStep(w)
       \/ WriteFails(w)
  \/ \E r \in Reader :
       \/ EmbedQuery(r)
       \/ QueryEmbedFails(r)
       \/ ReaderStep(r)
       \/ QueryFails(r)
  \/ Crash

Spec == Init /\ [][Next]_vars

(* A goroutine that can run does; sync.Mutex hands the lock to a waiter    *)
(* that has waited long enough, so whoever wants it keeps getting it.      *)
Fairness ==
  /\ \A w \in Writer : SF_vars(Invalidate(w))
  /\ \A r \in Reader :
       /\ SF_vars(LoadAllLock(r))
       /\ WF_vars(CacheHit(r) \/ QueryRows(r))
       /\ WF_vars(FillCache(r))

FairSpec == Spec /\ Fairness

-----------------------------------------------------------------------------
(* Properties                                                              *)

(* Every variable has its type.                                            *)
TypeOK ==
  /\ db \in Index
  /\ mu \in Reader \union {Free}
  /\ cache \in Index \union {NoCache}
  /\ wpc \in [Writer -> {"idle", "lookup", "embed", "commit", "invalidate"}]
  /\ wpath \in [Writer -> Path]
  /\ draft \in [Writer -> Seq(Draft)]
  /\ rpc \in [Reader -> {"idle", "lock", "check", "fill"}]
  /\ snap \in [Reader -> Index]
  /\ result \in [Reader -> Index \union {NoResult}]
  /\ log \in Seq(Index) /\ Len(log) >= 1
  /\ stamp \in [Writer -> 1 .. Len(log)]
  /\ acked \in 1 .. Len(log)
  /\ observed \in 1 .. Len(log)
  /\ cacheVer \in 1 .. Len(log)
  /\ snapVer \in [Reader -> 1 .. Len(log)]
  /\ floor \in [Reader -> 1 .. Len(log)]

(* A vector is always the embedding of the chunk it is stored beside: in   *)
(* the table and in the cache, whatever was reused from earlier rows of    *)
(* the path while other writers replaced them.                             *)
Aligned(ix) == \A p \in Path : \A i \in DOMAIN ix[p] : ix[p][i].vec = ix[p][i].content
RowsAligned == Aligned(db) /\ (cache # NoCache => Aligned(cache))

(* A cache that differs from the database is about to be dropped: whoever  *)
(* committed the newest version has not yet called invalidate.             *)
CacheCoherent ==
  cache # NoCache /\ cache # db =>
    \E w \in Writer : wpc[w] = "invalidate" /\ stamp[w] = Len(log)

(* What Retrieve returns is one committed version of the whole index, and  *)
(* never an older one than any write that returned, or any search that     *)
(* answered, before it was called.                                         *)
FreshReads ==
  [][\A r \in Reader : result'[r] \notin {result[r], NoResult} =>
       \E v \in floor[r] .. Len(log) : result'[r] = log[v]]_vars

(* The version a search served now would return.                           *)
Visible ==
  IF cache # NoCache THEN cacheVer
  ELSE IF \E r \in Reader : rpc[r] = "fill"
    THEN snapVer[CHOOSE r \in Reader : rpc[r] = "fill"]
    ELSE Len(log)

(* The store implements the service: Retrieve is linearizable.             *)
Service == INSTANCE IndexService WITH
  visible <- Visible,
  searching <- {r \in Reader : rpc[r] # "idle"}
ImplementsService == Service!Spec

(* The strengthening of the above that every step preserves.  The mutex is *)
(* held by the reader inside loadAll and by no other; what the cache or a  *)
(* running query holds is the version it claims; it is not older than what *)
(* anyone was told; and if the database has moved on since, the writer of  *)
(* the newest version is still to invalidate.                              *)
Superseded(version) ==
  version < Len(log) =>
    \E w \in Writer : wpc[w] = "invalidate" /\ stamp[w] = Len(log)

LockInv == \A r \in Reader : rpc[r] \in {"check", "fill"} <=> mu = r

CacheInv == cache # NoCache =>
  /\ cache = log[cacheVer]
  /\ observed <= cacheVer
  /\ Superseded(cacheVer)
  /\ \A r \in Reader : rpc[r] # "fill"

FillInv == \A r \in Reader : rpc[r] = "fill" =>
  /\ snap[r] = log[snapVer[r]]
  /\ observed <= snapVer[r]
  /\ Superseded(snapVer[r])

DraftInv == \A w \in Writer : \A i \in DOMAIN draft[w] :
  /\ draft[w][i].vec \in {draft[w][i].content, NoVec}
  /\ wpc[w] = "commit" => draft[w][i].vec # NoVec

IInv ==
  /\ LockInv
  /\ CacheInv
  /\ FillInv
  /\ DraftInv
  /\ db = log[Len(log)]
  /\ acked <= observed
  /\ \A r \in Reader : rpc[r] # "idle" => floor[r] <= observed
  /\ \A v \in 1 .. Len(log) : Aligned(log[v])

(* A Retrieve that waits for the mutex gets it and returns, on every path  *)
(* through loadAll, errors included.                                       *)
RetrieveReturns == \A r \in Reader : rpc[r] = "lock" ~> rpc[r] = "idle"

(* A write that committed drops the cache and returns.                     *)
WriteReturns == \A w \in Writer : wpc[w] = "invalidate" ~> wpc[w] = "idle"
=============================================================================
