------------------------- MODULE VectorStoreProofs --------------------------
(***************************************************************************)
(* Proofs about VectorStore for every set of paths, contents, files,       *)
(* writers and readers and every bound on the number of commits.           *)
(***************************************************************************)
EXTENDS VectorStore, TLAPS

(* Facts about the sequence of committed versions.                         *)
LEMMA AppendLog ==
  ASSUME NEW S, NEW s \in Seq(S), NEW e \in S
  PROVE  /\ Append(s, e) \in Seq(S)
         /\ Len(Append(s, e)) = Len(s) + 1
         /\ \A v \in 1 .. Len(s) : Append(s, e)[v] = s[v]
         /\ Append(s, e)[Len(s) + 1] = e
  OBVIOUS

(* The empty index, an update of one path and the drafts have their types. *)
LEMMA EmptyIndexType == EmptyIndex \in Index
  BY DEF EmptyIndex, Index

LEMMA UpdateType ==
  ASSUME NEW ix \in Index, NEW p \in Path, NEW rows \in Seq(Row)
  PROVE  [ix EXCEPT ![p] = rows] \in Index
  BY DEF Index

LEMMA DraftElement ==
  ASSUME NEW s \in Seq(Draft), NEW i \in 1 .. Len(s)
  PROVE  s[i].content \in Content /\ s[i].vec \in Content \union {NoVec}
  <1>1. s[i] \in Draft
    OBVIOUS
  <1> QED BY <1>1 DEF Draft

LEMMA DraftType ==
  ASSUME NEW s \in Seq(Draft),
         \A i \in DOMAIN s : s[i].vec # NoVec
  PROVE  s \in Seq(Row)
  <1>1. ASSUME NEW i \in 1 .. Len(s)
        PROVE  s[i] \in Row
    <2>1. s[i] \in Draft /\ s[i].vec # NoVec
      OBVIOUS
    <2>2. s[i] = [content |-> s[i].content, vec |-> s[i].vec]
      BY <2>1 DEF Draft
    <2>3. s[i].content \in Content /\ s[i].vec \in Content
      BY <2>1 DEF Draft
    <2>4. QED
      BY <2>2, <2>3 DEF Row
  <1>2. QED
    BY <1>1

-----------------------------------------------------------------------------
(* The part of the invariant that is about data.  The type of a committed  *)
(* row depends on every chunk of a draft having a vector when it commits,  *)
(* and the vectors of a draft depend on those of the rows they reuse.      *)
DataInv ==
  /\ TypeOK
  /\ DraftInv
  /\ db = log[Len(log)]
  /\ \A v \in 1 .. Len(log) : Aligned(log[v])

LEMMA DataInit == Init => DataInv
  <1> SUFFICES ASSUME Init PROVE DataInv
    OBVIOUS
  <1>1. EmptyIndex \in Index
    BY EmptyIndexType
  <1>2. /\ <<EmptyIndex>> \in Seq(Index)
        /\ Len(<<EmptyIndex>>) = 1
        /\ <<EmptyIndex>>[1] = EmptyIndex
    BY <1>1
  <1>3. <<>> \in Seq(Draft) /\ DOMAIN <<>> = {}
    OBVIOUS
  <1>4. TypeOK
    BY <1>1, <1>2, <1>3 DEF Init, TypeOK
  <1>5. DraftInv
    BY <1>3 DEF Init, DraftInv
  <1>6. Aligned(EmptyIndex)
    BY <1>3 DEF Aligned, EmptyIndex
  <1>7. db = log[Len(log)] /\ \A v \in 1 .. Len(log) : Aligned(log[v])
    BY <1>2, <1>6 DEF Init
  <1> QED BY <1>4, <1>5, <1>7 DEF DataInv

(* A transaction writes rows that have their own vectors.                  *)
LEMMA StoreData ==
  ASSUME DataInv, NEW w \in Writer, NEW p \in Path, NEW rows \in Seq(Row),
         \A i \in DOMAIN rows : rows[i].vec = rows[i].content,
         Store(w, p, rows), UNCHANGED wpath
  PROVE  DataInv'
  <1> USE DEF DataInv
  <1>1. db' \in Index /\ db' = [db EXCEPT ![p] = rows]
    BY UpdateType DEF Store, TypeOK
  <1>2. /\ log' \in Seq(Index)
        /\ Len(log') = Len(log) + 1
        /\ Len(log) \in Nat
        /\ \A v \in 1 .. Len(log) : log'[v] = log[v]
        /\ log'[Len(log')] = db'
    BY <1>1, AppendLog DEF Store, TypeOK
  <1>3. <<>> \in Seq(Draft) /\ DOMAIN <<>> = {}
    OBVIOUS
  <1>4. draft' \in [Writer -> Seq(Draft)]
    BY <1>3 DEF Store, TypeOK
  <1>5. /\ stamp' \in [Writer -> 1 .. Len(log')]
        /\ acked' \in 1 .. Len(log')
        /\ observed' \in 1 .. Len(log')
        /\ cacheVer' \in 1 .. Len(log')
        /\ snapVer' \in [Reader -> 1 .. Len(log')]
        /\ floor' \in [Reader -> 1 .. Len(log')]
    BY <1>2 DEF Store, TypeOK, readerVars
  <1>6. TypeOK'
    BY <1>1, <1>2, <1>4, <1>5 DEF Store, TypeOK, readerVars
  <1>7. DraftInv'
    BY <1>3 DEF Store, DraftInv, TypeOK
  <1>8. Aligned(db)
    BY DEF TypeOK
  <1>9. Aligned(db')
    BY <1>1, <1>8 DEF Aligned, TypeOK, Index
  <1>10. \A v \in 1 .. Len(log') : Aligned(log'[v])
    <2>1. ASSUME NEW v \in 1 .. Len(log') PROVE Aligned(log'[v])
      <3>1. v \in 1 .. Len(log) \/ v = Len(log')
        BY <1>2
      <3> QED BY <3>1, <1>2, <1>9
    <2> QED BY <2>1
  <1> QED BY <1>2, <1>6, <1>7, <1>10

(* The stored vector that VectorsByPath reuses is the chunk's own.         *)
LEMMA StoredAligned ==
  ASSUME db \in Index, Aligned(db), NEW p \in Path, NEW c, NEW v \in Stored(p, c)
  PROVE  v = c
  BY DEF Stored, Aligned

LEMMA DataNext == DataInv /\ [Next]_vars => DataInv'
  <1> SUFFICES ASSUME DataInv, [Next]_vars PROVE DataInv'
    OBVIOUS
  <1>a. EmptyIndex \in Index
    BY EmptyIndexType
  <1>b. /\ <<>> \in Seq(Draft) /\ DOMAIN <<>> = {}
        /\ <<>> \in Seq(Row)
    OBVIOUS
  <1>c. Len(log) \in Nat /\ Len(log) >= 1 /\ Aligned(db)
    BY DEF DataInv, TypeOK
  <1>1. ASSUME NEW w \in Writer, NEW p \in Path, DeleteFile(w, p) PROVE DataInv'
    BY <1>1, <1>b, StoreData DEF DeleteFile
  <1>2. ASSUME NEW w \in Writer, NEW p \in Path, NEW f \in File,
               ReadAndChunk(w, p, f)
        PROVE  DataInv'
    <2>1. f \in Seq(Content)
      BY FileAssumption
    <2>2. draft'[w] = [i \in 1 .. Len(f) |-> [content |-> f[i], vec |-> NoVec]]
      BY <1>2, <2>1 DEF ReadAndChunk, DataInv, TypeOK
    <2>3. draft'[w] \in Seq(Draft)
      <3>1. \A i \in 1 .. Len(f) : [content |-> f[i], vec |-> NoVec] \in Draft
        BY <2>1 DEF Draft
      <3> QED BY <2>1, <2>2, <3>1
    <2>4. TypeOK'
      BY <1>2, <2>3 DEF ReadAndChunk, DataInv, TypeOK, storeVars, readerVars
    <2>5. DraftInv'
      BY <1>2, <2>2 DEF ReadAndChunk, DataInv, TypeOK, DraftInv
    <2> QED BY <1>2, <2>4, <2>5 DEF ReadAndChunk, DataInv, storeVars
  <1>3. ASSUME NEW w \in Writer, VectorsByPath(w) PROVE DataInv'
    <2> DEFINE found(i) == Stored(wpath[w], draft[w][i].content)
               new(i) == [content |-> draft[w][i].content,
                          vec |-> IF found(i) = {} THEN NoVec
                                  ELSE CHOOSE v \in found(i) : TRUE]
    <2>1. draft[w] \in Seq(Draft) /\ wpath[w] \in Path /\ db \in Index
      BY DEF DataInv, TypeOK
    <2>2. draft'[w] = [i \in 1 .. Len(draft[w]) |-> new(i)]
      BY <1>3, <2>1 DEF VectorsByPath, DataInv, TypeOK
    <2>3. \A i \in 1 .. Len(draft[w]) :
            /\ draft[w][i].content \in Content
            /\ new(i).content = draft[w][i].content
            /\ new(i).vec \in {draft[w][i].content, NoVec}
      <3>1. ASSUME NEW i \in 1 .. Len(draft[w])
            PROVE  new(i).vec \in {draft[w][i].content, NoVec}
        <4>1. CASE found(i) = {}
          BY <4>1
        <4>2. CASE found(i) # {}
          <5>1. (CHOOSE v \in found(i) : TRUE) \in found(i)
            BY <4>2
          <5>2. (CHOOSE v \in found(i) : TRUE) = draft[w][i].content
            BY <5>1, <2>1, <1>c, StoredAligned
          <5> QED BY <4>2, <5>2
        <4> QED BY <4>1, <4>2
      <3>2. \A i \in 1 .. Len(draft[w]) : draft[w][i].content \in Content
        BY <2>1, DraftElement
      <3> QED BY <3>1, <3>2
    <2>4. draft'[w] \in Seq(Draft)
      <3>1. \A i \in 1 .. Len(draft[w]) : new(i) \in Draft
        BY <2>3 DEF Draft
      <3> HIDE DEF new
      <3> QED BY <2>1, <2>2, <3>1
    <2>5. TypeOK'
      BY <1>3, <2>4 DEF VectorsByPath, DataInv, TypeOK, storeVars, readerVars
    <2>6. DraftInv'
      <3>1. ASSUME NEW i \in DOMAIN draft'[w]
            PROVE  draft'[w][i].vec \in {draft'[w][i].content, NoVec}
        BY <2>2, <2>3, <2>1
      <3> QED BY <3>1, <1>3 DEF VectorsByPath, DataInv, TypeOK, DraftInv
    <2> QED BY <1>3, <2>5, <2>6 DEF VectorsByPath, DataInv, storeVars
  <1>4. ASSUME NEW w \in Writer, Embed(w) PROVE DataInv'
    <2> DEFINE new(i) == [content |-> draft[w][i].content,
                          vec |-> IF draft[w][i].vec = NoVec
                                  THEN draft[w][i].content ELSE draft[w][i].vec]
    <2>1. draft[w] \in Seq(Draft)
      BY DEF DataInv, TypeOK
    <2>2. draft'[w] = [i \in 1 .. Len(draft[w]) |-> new(i)]
      BY <1>4, <2>1 DEF Embed, DataInv, TypeOK
    <2>3. \A i \in 1 .. Len(draft[w]) :
            /\ draft[w][i].content \in Content
            /\ new(i).content = draft[w][i].content
            /\ new(i).vec = draft[w][i].content
            /\ new(i).vec # NoVec
      <3>1. ASSUME NEW i \in 1 .. Len(draft[w])
            PROVE  draft[w][i].content \in Content
        BY <2>1, DraftElement
      <3>2. ASSUME NEW i \in 1 .. Len(draft[w])
            PROVE  draft[w][i].vec \in {draft[w][i].content, NoVec}
        BY <2>1 DEF DataInv, DraftInv
      <3> QED BY <3>1, <3>2, SentinelAssumption
    <2>4. draft'[w] \in Seq(Draft)
      <3>1. \A i \in 1 .. Len(draft[w]) : new(i) \in Draft
        BY <2>3 DEF Draft
      <3> HIDE DEF new
      <3> QED BY <2>1, <2>2, <3>1
    <2>5. TypeOK'
      BY <1>4, <2>4 DEF Embed, DataInv, TypeOK, storeVars, readerVars
    <2>6. DraftInv'
      <3>1. ASSUME NEW i \in DOMAIN draft'[w]
            PROVE  /\ draft'[w][i].vec = draft'[w][i].content
                   /\ draft'[w][i].vec # NoVec
        BY <2>2, <2>3, <2>1
      <3> QED BY <3>1, <1>4 DEF Embed, DataInv, TypeOK, DraftInv
    <2> QED BY <1>4, <2>5, <2>6 DEF Embed, DataInv, storeVars
  <1>5. ASSUME NEW w \in Writer, CommitRows(w) PROVE DataInv'
    <2>1. draft[w] \in Seq(Draft) /\ wpath[w] \in Path
      BY DEF DataInv, TypeOK
    <2>2. \A i \in DOMAIN draft[w] :
            draft[w][i].vec # NoVec /\ draft[w][i].vec = draft[w][i].content
      BY <1>5 DEF CommitRows, DataInv, DraftInv
    <2>3. draft[w] \in Seq(Row)
      BY <2>1, <2>2, DraftType
    <2> QED BY <1>5, <2>1, <2>2, <2>3, StoreData DEF CommitRows
  <1>6. ASSUME NEW w \in Writer, WriteFails(w) PROVE DataInv'
    <2>1. TypeOK'
      BY <1>6, <1>b DEF WriteFails, DataInv, TypeOK, storeVars, readerVars
    <2> QED BY <1>6, <1>b, <2>1 DEF WriteFails, DataInv, DraftInv, TypeOK, storeVars
  <1>7. ASSUME NEW w \in Writer, Invalidate(w) PROVE DataInv'
    <2>1. TypeOK'
      BY <1>7, <1>c DEF Invalidate, MaxOf, DataInv, TypeOK, readerVars
    <2> QED BY <1>7, <2>1 DEF Invalidate, DataInv, DraftInv, TypeOK
  <1>8. ASSUME NEW r \in Reader, EmbedQuery(r) PROVE DataInv'
    BY <1>8 DEF EmbedQuery, DataInv, DraftInv, TypeOK, storeVars, writerVars
  <1>9. ASSUME NEW r \in Reader, QueryEmbedFails(r) PROVE DataInv'
    BY <1>9, <1>c DEF QueryEmbedFails, DataInv, DraftInv, TypeOK, storeVars, writerVars
  <1>10. ASSUME NEW r \in Reader, LoadAllLock(r) PROVE DataInv'
    BY <1>10 DEF LoadAllLock, DataInv, DraftInv, TypeOK, writerVars
  <1>11. ASSUME NEW r \in Reader, CacheHit(r) PROVE DataInv'
    <2>1. TypeOK'
      BY <1>11, <1>a, <1>c
      DEF CacheHit, Return, Forget, MaxOf, DataInv, TypeOK, writerVars
    <2> QED BY <1>11, <2>1 DEF CacheHit, Return, DataInv, DraftInv, writerVars
  <1>12. ASSUME NEW r \in Reader, QueryRows(r) PROVE DataInv'
    BY <1>12, <1>c DEF QueryRows, DataInv, DraftInv, TypeOK, storeVars, writerVars
  <1>13. ASSUME NEW r \in Reader, FillCache(r) PROVE DataInv'
    <2>1. TypeOK'
      BY <1>13, <1>a, <1>c
      DEF FillCache, Return, Forget, MaxOf, DataInv, TypeOK, writerVars
    <2> QED BY <1>13, <2>1 DEF FillCache, Return, DataInv, DraftInv, writerVars
  <1>14. ASSUME NEW r \in Reader, QueryFails(r) PROVE DataInv'
    <2>1. TypeOK'
      BY <1>14, <1>a, <1>c DEF QueryFails, Forget, DataInv, TypeOK, writerVars
    <2> QED BY <1>14, <2>1 DEF QueryFails, DataInv, DraftInv, writerVars
  <1>15. CASE Crash
    <2>1. TypeOK'
      BY <1>15, <1>a, <1>b, <1>c DEF Crash, DataInv, TypeOK
    <2> QED BY <1>15, <1>b, <2>1 DEF Crash, DataInv, DraftInv
  <1>16. CASE UNCHANGED vars
    BY <1>16 DEF vars, storeVars, writerVars, readerVars, DataInv, DraftInv, TypeOK
  <1> QED
    BY <1>1, <1>2, <1>3, <1>4, <1>5, <1>6, <1>7, <1>8, <1>9, <1>10, <1>11,
       <1>12, <1>13, <1>14, <1>15, <1>16 DEF Next, WriterStep, ReaderStep

(* Type correctness: Spec keeps every variable in its type, whatever the   *)
(* paths, the files, and the number of writers and readers.                *)
THEOREM TypeCorrect == Spec => []TypeOK
  <1>1. DataInv => TypeOK
    BY DEF DataInv
  <1> QED BY <1>1, DataInit, DataNext, PTL DEF Spec

-----------------------------------------------------------------------------
(* The part of the invariant that is about the cache and the mutex.        *)
CohInv ==
  /\ LockInv
  /\ CacheInv
  /\ FillInv
  /\ acked <= observed
  /\ \A r \in Reader : rpc[r] # "idle" => floor[r] <= observed

LEMMA CohInit == Init => CohInv
  BY SentinelAssumption
  DEF Init, CohInv, LockInv, CacheInv, FillInv

(* A commit makes every older version superseded, with the writer of the   *)
(* new one as the witness; older history stays in place.                   *)
LEMMA StoreCoh ==
  ASSUME DataInv, CohInv, NEW w \in Writer, NEW p \in Path,
         NEW rows \in Seq(Row), Store(w, p, rows), UNCHANGED wpath
  PROVE  CohInv'
  <1>1. db' \in Index
    BY UpdateType DEF Store, DataInv, TypeOK
  <1>2. /\ Len(log') = Len(log) + 1
        /\ Len(log) \in Nat
        /\ \A v \in 1 .. Len(log) : log'[v] = log[v]
    BY <1>1, AppendLog DEF Store, DataInv, TypeOK
  <1>3. wpc'[w] = "invalidate" /\ stamp'[w] = Len(log')
    BY <1>2 DEF Store, DataInv, TypeOK
  <1>4. \A v \in 1 .. Len(log) : Superseded(v)'
    BY <1>3 DEF Superseded
  <1>5. UNCHANGED <<mu, cache, cacheVer, rpc, snap, snapVer, floor, observed, acked>>
    BY DEF Store, readerVars
  <1>6. /\ cacheVer \in 1 .. Len(log)
        /\ \A r \in Reader : snapVer[r] \in 1 .. Len(log)
    BY DEF DataInv, TypeOK
  <1>7. LockInv'
    BY <1>5 DEF CohInv, LockInv
  <1>8. CacheInv'
    <2>1. Superseded(cacheVer)'
      BY <1>3 DEF Superseded
    <2> QED BY <1>2, <1>5, <1>6, <2>1 DEF CohInv, CacheInv
  <1>9. FillInv'
    <2>1. ASSUME NEW r \in Reader PROVE Superseded(snapVer[r])'
      BY <1>3 DEF Superseded
    <2> QED BY <1>2, <1>5, <1>6, <2>1 DEF CohInv, FillInv
  <1> QED BY <1>5, <1>7, <1>8, <1>9 DEF CohInv

(* A step that leaves the database and the writers past their commit alone *)
(* leaves what is superseded alone.                                        *)
LEMMA SupersededStable ==
  ASSUME UNCHANGED <<log, stamp>>,
         \A w \in Writer : wpc[w] = "invalidate" => wpc'[w] = "invalidate",
         NEW v, Superseded(v)
  PROVE  v < Len(log') =>
           \E w \in Writer : wpc'[w] = "invalidate" /\ stamp'[w] = Len(log')
  BY DEF Superseded

(* The steps of a writer that touch nothing but its own draft.             *)
LEMMA DraftingCoh ==
  ASSUME CohInv, UNCHANGED <<storeVars, readerVars, observed, stamp, acked>>,
         \A w \in Writer : wpc[w] = "invalidate" => wpc'[w] = "invalidate"
  PROVE  CohInv'
  <1>1. \A v : Superseded(v) => (v < Len(log') =>
           \E w \in Writer : wpc'[w] = "invalidate" /\ stamp'[w] = Len(log'))
    BY SupersededStable DEF storeVars
  <1>2. CacheInv'
    BY <1>1 DEF CohInv, CacheInv, storeVars, readerVars, Superseded
  <1>3. FillInv'
    BY <1>1 DEF CohInv, FillInv, storeVars, readerVars, Superseded
  <1> QED BY <1>2, <1>3 DEF CohInv, LockInv, storeVars, readerVars

LEMMA CohNext == DataInv /\ CohInv /\ [Next]_vars => CohInv'
  <1> SUFFICES ASSUME DataInv, CohInv, [Next]_vars PROVE CohInv'
    OBVIOUS
  <1>a. /\ Len(log) \in Nat
        /\ acked \in Nat /\ observed \in 1 .. Len(log)
        /\ stamp \in [Writer -> 1 .. Len(log)]
        /\ cacheVer \in 1 .. Len(log)
        /\ snapVer \in [Reader -> 1 .. Len(log)]
        /\ floor \in [Reader -> 1 .. Len(log)]
        /\ rpc \in [Reader -> {"idle", "lock", "check", "fill"}]
        /\ wpc \in [Writer -> {"idle", "lookup", "embed", "commit", "invalidate"}]
        /\ snap \in [Reader -> Index]
        /\ draft \in [Writer -> Seq(Draft)]
    BY DEF DataInv, TypeOK
  <1>1. ASSUME NEW w \in Writer, NEW p \in Path, DeleteFile(w, p) PROVE CohInv'
    <2>1. <<>> \in Seq(Row)
      OBVIOUS
    <2> QED BY <1>1, <2>1, StoreCoh DEF DeleteFile
  <1>2. ASSUME NEW w \in Writer, NEW p \in Path, NEW f \in File,
               ReadAndChunk(w, p, f)
        PROVE  CohInv'
    BY <1>2, <1>a, DraftingCoh DEF ReadAndChunk
  <1>3. ASSUME NEW w \in Writer, VectorsByPath(w) PROVE CohInv'
    BY <1>3, <1>a, DraftingCoh DEF VectorsByPath
  <1>4. ASSUME NEW w \in Writer, Embed(w) PROVE CohInv'
    BY <1>4, <1>a, DraftingCoh DEF Embed
  <1>5. ASSUME NEW w \in Writer, CommitRows(w) PROVE CohInv'
    <2>1. draft[w] \in Seq(Draft) /\ wpath[w] \in Path
      BY DEF DataInv, TypeOK
    <2>2. \A i \in DOMAIN draft[w] : draft[w][i].vec # NoVec
      BY <1>5 DEF CommitRows, DataInv, DraftInv
    <2>3. draft[w] \in Seq(Row)
      BY <2>1, <2>2, DraftType
    <2> QED BY <1>5, <2>1, <2>3, StoreCoh DEF CommitRows
  <1>6. ASSUME NEW w \in Writer, WriteFails(w) PROVE CohInv'
    BY <1>6, <1>a, DraftingCoh DEF WriteFails
  <1>7. ASSUME NEW w \in Writer, Invalidate(w) PROVE CohInv'
    (* The mutex is free, so no reader holds a snapshot to put back.       *)
    <2>1. \A r \in Reader : rpc[r] \notin {"check", "fill"}
      BY <1>7, SentinelAssumption DEF Invalidate, CohInv, LockInv
    <2>2. LockInv' /\ CacheInv' /\ FillInv'
      BY <1>7, <2>1 DEF Invalidate, readerVars, CohInv, LockInv, CacheInv, FillInv
    <2>3. acked' <= observed' /\ observed <= observed'
      BY <1>7, <1>a DEF Invalidate, MaxOf, CohInv
    <2>4. ASSUME NEW r \in Reader, rpc'[r] # "idle" PROVE floor'[r] <= observed'
      BY <1>7, <1>a, <2>3, <2>4 DEF Invalidate, MaxOf, readerVars, CohInv
    <2> QED BY <2>2, <2>3, <2>4 DEF CohInv
  <1> DEFINE SameWriters == UNCHANGED <<log, stamp, wpc>>
  <1>b. SameWriters => \A v : Superseded(v) => (v < Len(log') =>
           \E w \in Writer : wpc'[w] = "invalidate" /\ stamp'[w] = Len(log'))
    BY DEF Superseded
  <1>8. ASSUME NEW r \in Reader, EmbedQuery(r) PROVE CohInv'
    <2>1. SameWriters /\ UNCHANGED <<mu, cache, cacheVer, snap, snapVer, observed, acked>>
      BY <1>8 DEF EmbedQuery, storeVars, writerVars
    <2>2. CacheInv' /\ FillInv'
      BY <1>8, <1>a, <1>b, <2>1 DEF EmbedQuery, CohInv, CacheInv, FillInv, Superseded
    <2>3. LockInv'
      BY <1>8, <1>a, <2>1 DEF EmbedQuery, CohInv, LockInv
    <2> QED BY <1>8, <1>a, <2>1, <2>2, <2>3 DEF EmbedQuery, CohInv
  <1>9. ASSUME NEW r \in Reader, QueryEmbedFails(r) PROVE CohInv'
    <2>1. SameWriters /\ UNCHANGED <<mu, cache, cacheVer, snap, snapVer, observed, acked>>
      BY <1>9 DEF QueryEmbedFails, storeVars, writerVars
    <2>2. CacheInv' /\ FillInv'
      BY <1>9, <1>a, <1>b, <2>1 DEF QueryEmbedFails, CohInv, CacheInv, FillInv, Superseded
    <2>3. LockInv'
      BY <1>9, <1>a, <2>1 DEF QueryEmbedFails, CohInv, LockInv
    <2> QED BY <1>9, <1>a, <2>1, <2>2, <2>3 DEF QueryEmbedFails, CohInv
  <1>10. ASSUME NEW r \in Reader, LoadAllLock(r) PROVE CohInv'
    <2>1. SameWriters /\ UNCHANGED <<cache, cacheVer, snap, snapVer, observed, acked, floor>>
      BY <1>10 DEF LoadAllLock, writerVars
    <2>2. CacheInv' /\ FillInv'
      BY <1>10, <1>a, <1>b, <2>1 DEF LoadAllLock, CohInv, CacheInv, FillInv, Superseded
    <2>3. LockInv'
      BY <1>10, <1>a, SentinelAssumption DEF LoadAllLock, CohInv, LockInv
    <2> QED BY <1>10, <1>a, <2>1, <2>2, <2>3 DEF LoadAllLock, CohInv
  <1>11. ASSUME NEW r \in Reader, CacheHit(r) PROVE CohInv'
    <2>1. SameWriters /\ UNCHANGED <<cache, cacheVer, acked>>
      BY <1>11 DEF CacheHit, Return, writerVars
    <2>2. cacheVer >= observed /\ observed' = cacheVer
      BY <1>11, <1>a DEF CacheHit, Return, MaxOf, CohInv, CacheInv
    <2>3. LockInv'
      BY <1>11, <1>a, SentinelAssumption DEF CacheHit, Return, CohInv, LockInv
    <2>4. \A q \in Reader : rpc'[q] # "fill"
      BY <1>11, <1>a DEF CacheHit, Return, CohInv, CacheInv
    <2>5. CacheInv' /\ FillInv'
      BY <1>11, <1>a, <1>b, <2>1, <2>2, <2>4 DEF CacheHit, CohInv, CacheInv, FillInv, Superseded
    <2> QED BY <1>11, <1>a, <2>1, <2>2, <2>3, <2>5 DEF CacheHit, Return, Forget, CohInv
  <1>12. ASSUME NEW r \in Reader, QueryRows(r) PROVE CohInv'
    <2>1. SameWriters /\ UNCHANGED <<mu, db, cache, cacheVer, observed, acked, floor>>
      BY <1>12 DEF QueryRows, storeVars, writerVars
    <2>2. CacheInv'
      BY <1>12, <2>1 DEF QueryRows, CacheInv
    <2>3. LockInv'
      BY <1>12, <1>a, <2>1 DEF QueryRows, CohInv, LockInv
    <2>4. snap'[r] = log[Len(log)] /\ snapVer'[r] = Len(log)
      BY <1>12, <1>a DEF QueryRows, DataInv
    <2>5. FillInv'
      BY <1>12, <1>a, <1>b, <2>1, <2>4 DEF QueryRows, CohInv, FillInv, Superseded
    <2> QED BY <1>12, <1>a, <2>1, <2>2, <2>3, <2>5 DEF QueryRows, CohInv
  <1>13. ASSUME NEW r \in Reader, FillCache(r) PROVE CohInv'
    <2>1. SameWriters /\ UNCHANGED acked
      BY <1>13 DEF FillCache, Return, writerVars
    <2>2. snapVer[r] >= observed /\ observed' = snapVer[r]
      BY <1>13, <1>a DEF FillCache, Return, MaxOf, CohInv, FillInv
    <2>3. LockInv'
      BY <1>13, <1>a, SentinelAssumption DEF FillCache, Return, CohInv, LockInv
    <2>4. \A q \in Reader : rpc'[q] # "fill"
      BY <1>13, <1>a DEF FillCache, Return, CohInv, LockInv
    <2>5. CacheInv'
      BY <1>13, <1>a, <1>b, <2>1, <2>2, <2>4
      DEF FillCache, CohInv, CacheInv, FillInv, Superseded
    <2>6. FillInv'
      BY <2>4 DEF FillInv
    <2> QED BY <1>13, <1>a, <2>1, <2>2, <2>3, <2>5, <2>6 DEF FillCache, Return, Forget, CohInv
  <1>14. ASSUME NEW r \in Reader, QueryFails(r) PROVE CohInv'
    <2>1. SameWriters /\ UNCHANGED <<cache, cacheVer, observed, acked>>
      BY <1>14 DEF QueryFails, writerVars
    <2>2. LockInv'
      BY <1>14, <1>a, SentinelAssumption DEF QueryFails, CohInv, LockInv
    <2>3. \A q \in Reader : rpc'[q] # "fill"
      BY <1>14, <1>a DEF QueryFails, CohInv, LockInv
    <2>4. CacheInv' /\ FillInv'
      BY <1>14, <2>1, <2>3 DEF QueryFails, CacheInv, FillInv
    <2> QED BY <1>14, <1>a, <2>1, <2>2, <2>4 DEF QueryFails, Forget, CohInv
  <1>15. CASE Crash
    BY <1>15, SentinelAssumption
    DEF Crash, CohInv, LockInv, CacheInv, FillInv
  <1>16. CASE UNCHANGED vars
    BY <1>16, <1>b, DraftingCoh DEF vars, storeVars, writerVars, readerVars
  <1> QED
    BY <1>1, <1>2, <1>3, <1>4, <1>5, <1>6, <1>7, <1>8, <1>9, <1>10, <1>11,
       <1>12, <1>13, <1>14, <1>15, <1>16 DEF Next, WriterStep, ReaderStep

LEMMA InvInit == Init => DataInv /\ CohInv
  BY DataInit, CohInit

LEMMA InvNext == DataInv /\ CohInv /\ [Next]_vars => (DataInv /\ CohInv)'
  BY DataNext, CohNext

LEMMA InvHolds == Spec => [](DataInv /\ CohInv)
  BY InvInit, InvNext, PTL DEF Spec

(* The inductive invariant holds of every behaviour.                       *)
THEOREM InvariantHolds == Spec => []IInv
  <1>1. DataInv /\ CohInv => IInv
    BY DEF DataInv, CohInv, IInv
  <1> QED BY <1>1, InvHolds, PTL

(* A cache that differs from the database is about to be dropped by the    *)
(* writer of the newest version.                                           *)
THEOREM CacheIsCoherent == Spec => []CacheCoherent
  <1>1. DataInv /\ CohInv => CacheCoherent
    <2> SUFFICES ASSUME DataInv, CohInv, cache # NoCache, cache # db
                 PROVE  \E w \in Writer : wpc[w] = "invalidate" /\ stamp[w] = Len(log)
      BY DEF CacheCoherent
    <2>1. cacheVer \in 1 .. Len(log) /\ Len(log) \in Nat
      BY DEF DataInv, TypeOK
    <2>2. cacheVer # Len(log) /\ Superseded(cacheVer)
      BY DEF CohInv, CacheInv, DataInv
    <2> QED BY <2>1, <2>2 DEF Superseded
  <1> QED BY <1>1, InvHolds, PTL

(* Every vector in the table and in the cache is that of its own chunk.    *)
THEOREM VectorsAreAligned == Spec => []RowsAligned
  <1>1. DataInv /\ CohInv => RowsAligned
    BY DEF DataInv, TypeOK, CohInv, CacheInv, RowsAligned
  <1> QED BY <1>1, InvHolds, PTL

(* Only the two ends of loadAll return rows.                               *)
LEMMA WhoReturns ==
  ASSUME DataInv, [Next]_vars, NEW r \in Reader,
         result'[r] \notin {result[r], NoResult}
  PROVE  CacheHit(r) \/ FillCache(r)
  <1> USE DEF DataInv, TypeOK
  <1>1. CASE Crash
    BY <1>1 DEF Crash
  <1>2. ASSUME NEW w \in Writer,
               \/ \E p \in Path : DeleteFile(w, p) \/ \E f \in File : ReadAndChunk(w, p, f)
               \/ WriterStep(w)
               \/ WriteFails(w)
        PROVE  UNCHANGED result
    BY <1>2 DEF DeleteFile, Store, ReadAndChunk, WriterStep, VectorsByPath, Embed,
                CommitRows, Invalidate, WriteFails, readerVars
  <1>3. ASSUME NEW q \in Reader, EmbedQuery(q) PROVE result'[r] \in {result[r], NoResult}
    BY <1>3 DEF EmbedQuery
  <1>4. ASSUME NEW q \in Reader,
               QueryEmbedFails(q) \/ LoadAllLock(q) \/ QueryRows(q) \/ QueryFails(q)
        PROVE  UNCHANGED result
    BY <1>4 DEF QueryEmbedFails, LoadAllLock, QueryRows, QueryFails
  <1>5. ASSUME NEW q \in Reader, CacheHit(q) \/ FillCache(q)
        PROVE  q = r
    BY <1>5 DEF CacheHit, FillCache, Return
  <1>6. CASE UNCHANGED vars
    BY <1>6 DEF vars, readerVars
  <1> QED
    BY <1>1, <1>2, <1>3, <1>4, <1>5, <1>6 DEF Next, ReaderStep

(* A search never returns a version older than anything a client had been  *)
(* told when the search began.                                             *)
THEOREM ReadsAreFresh == Spec => FreshReads
  <1> DEFINE Fresh == \A r \in Reader : result'[r] \notin {result[r], NoResult} =>
                       \E v \in floor[r] .. Len(log) : result'[r] = log[v]
  <1>1. DataInv /\ CohInv /\ [Next]_vars => Fresh
    <2> SUFFICES ASSUME DataInv, CohInv, [Next]_vars, NEW r \in Reader,
                        result'[r] \notin {result[r], NoResult}
                 PROVE  \E v \in floor[r] .. Len(log) : result'[r] = log[v]
      OBVIOUS
    <2>a. /\ Len(log) \in Nat
          /\ result \in [Reader -> Index \union {NoResult}]
          /\ observed \in Nat
          /\ cacheVer \in 1 .. Len(log)
          /\ snapVer[r] \in 1 .. Len(log)
          /\ floor[r] \in 1 .. Len(log)
      BY DEF DataInv, TypeOK
    <2>1. CASE CacheHit(r)
      <3>1. result'[r] = log[cacheVer]
        BY <2>1, <2>a DEF CacheHit, Return, CohInv, CacheInv
      <3>2. floor[r] <= cacheVer
        BY <2>1, <2>a DEF CacheHit, CohInv, CacheInv
      <3> QED BY <3>1, <3>2, <2>a
    <2>2. CASE FillCache(r)
      <3>1. result'[r] = log[snapVer[r]]
        BY <2>2, <2>a DEF FillCache, Return, CohInv, FillInv
      <3>2. floor[r] <= snapVer[r]
        BY <2>2, <2>a DEF FillCache, CohInv, FillInv
      <3> QED BY <3>1, <3>2, <2>a
    <2> QED BY <2>1, <2>2, WhoReturns
  <1>2. DataInv /\ CohInv /\ [Next]_vars => [Fresh]_vars
    BY <1>1
  <1> QED BY <1>2, InvHolds, PTL DEF Spec, FreshReads

-----------------------------------------------------------------------------
(* The store implements IndexService: refinement.                          *)

(* The three places the visible version can be, now and after a step.      *)
LEMMA VisibleAt ==
  CohInv => /\ cache # NoCache => Visible = cacheVer
            /\ \A r \in Reader : rpc[r] = "fill" => Visible = snapVer[r]
            /\ cache = NoCache /\ (\A r \in Reader : rpc[r] # "fill") => Visible = Len(log)
  <1> SUFFICES ASSUME CohInv, NEW r \in Reader, rpc[r] = "fill"
               PROVE  Visible = snapVer[r]
    BY DEF Visible
  <1>1. cache = NoCache
    BY DEF CohInv, CacheInv
  <1>2. \A q \in Reader : rpc[q] = "fill" => q = r
    BY DEF CohInv, LockInv
  <1>3. (CHOOSE q \in Reader : rpc[q] = "fill") = r
    BY <1>2
  <1> QED BY <1>1, <1>3 DEF Visible

LEMMA VisibleAtNext ==
  CohInv' => /\ cache' # NoCache => Visible' = cacheVer'
             /\ \A r \in Reader : rpc'[r] = "fill" => Visible' = snapVer'[r]
             /\ cache' = NoCache /\ (\A r \in Reader : rpc'[r] # "fill") => Visible' = Len(log')
  <1> SUFFICES ASSUME CohInv', NEW r \in Reader, rpc'[r] = "fill"
               PROVE  Visible' = snapVer'[r]
    BY DEF Visible
  <1>1. cache' = NoCache
    BY DEF CohInv, CacheInv
  <1>2. \A q \in Reader : rpc'[q] = "fill" => q = r
    BY DEF CohInv, LockInv
  <1>3. (CHOOSE q \in Reader : rpc'[q] = "fill") = r
    BY <1>2
  <1> QED BY <1>1, <1>3 DEF Visible

(* What clients were told is never ahead of what a search would return.    *)
LEMMA VisibleBounds ==
  ASSUME DataInv, CohInv
  PROVE  Visible \in 1 .. Len(log) /\ observed <= Visible
  <1>a. /\ Len(log) \in Nat /\ Len(log) >= 1 /\ observed \in 1 .. Len(log)
        /\ cacheVer \in 1 .. Len(log) /\ snapVer \in [Reader -> 1 .. Len(log)]
    BY DEF DataInv, TypeOK
  <1>1. CASE cache # NoCache
    BY <1>a, <1>1, VisibleAt DEF CohInv, CacheInv
  <1>2. ASSUME NEW r \in Reader, rpc[r] = "fill" PROVE Visible \in 1 .. Len(log) /\ observed <= Visible
    BY <1>a, <1>2, VisibleAt DEF CohInv, FillInv
  <1>3. CASE cache = NoCache /\ (\A r \in Reader : rpc[r] # "fill")
    BY <1>a, <1>3, VisibleAt
  <1> QED BY <1>1, <1>2, <1>3

LEMMA StoreRefines ==
  ASSUME DataInv, CohInv, DataInv', CohInv', NEW w \in Writer, NEW p \in Path,
         NEW rows \in Seq(Row), Store(w, p, rows)
  PROVE  Service!Commit
  <1>1. db' \in Index /\ db' = [db EXCEPT ![p] = rows]
    BY UpdateType DEF Store, DataInv, TypeOK
  <1>2. /\ log' = Append(log, db')
        /\ Len(log') = Len(log) + 1
        /\ log'[Len(log')] = db'
        /\ log[Len(log)] = db
    BY <1>1, AppendLog DEF Store, DataInv, TypeOK
  <1>3. UNCHANGED <<cache, cacheVer, rpc, snapVer, acked, result>>
    BY DEF Store, readerVars
  <1>4. Visible' \in {Visible, Len(log')}
    BY <1>3, VisibleAt, VisibleAtNext
  <1>5. Service!OnOnePath(log[Len(log)], log'[Len(log')])
    BY <1>1, <1>2 DEF Service!OnOnePath, DataInv, TypeOK, Index
  <1> QED BY <1>1, <1>2, <1>3, <1>4, <1>5 DEF Service!Commit

LEMMA StepRefines ==
  DataInv /\ CohInv /\ [Next]_vars /\ (DataInv /\ CohInv)' => [Service!Next]_(Service!vars)
  <1> SUFFICES ASSUME DataInv, CohInv, [Next]_vars, DataInv', CohInv'
               PROVE  Service!Next \/ UNCHANGED Service!vars
    OBVIOUS
  <1> DEFINE Searching == {r \in Reader : rpc[r] # "idle"}
             Quiet == UNCHANGED <<cache, cacheVer, rpc, snapVer, log, acked, result>>
  <1>a. /\ Len(log) \in Nat
        /\ acked \in 1 .. Len(log) /\ stamp \in [Writer -> 1 .. Len(log)]
        /\ rpc \in [Reader -> {"idle", "lock", "check", "fill"}]
        /\ wpc \in [Writer -> {"idle", "lookup", "embed", "commit", "invalidate"}]
        /\ result \in [Reader -> Index \union {NoResult}]
        /\ snapVer \in [Reader -> 1 .. Len(log)]
        /\ acked <= observed /\ observed \in 1 .. Len(log)
        /\ Visible \in 1 .. Len(log) /\ observed <= Visible
    <2>1. Visible \in 1 .. Len(log) /\ observed <= Visible
      BY VisibleBounds
    <2>2. TypeOK /\ acked <= observed
      BY DEF DataInv, CohInv
    <2>3. /\ Len(log) \in Nat
          /\ acked \in 1 .. Len(log) /\ observed \in 1 .. Len(log)
          /\ snapVer \in [Reader -> 1 .. Len(log)]
      BY <2>2 DEF TypeOK
    <2>4. /\ rpc \in [Reader -> {"idle", "lock", "check", "fill"}]
          /\ stamp \in [Writer -> 1 .. Len(log)]
      BY <2>2 DEF TypeOK
    <2>5. wpc \in [Writer -> {"idle", "lookup", "embed", "commit", "invalidate"}]
      BY <2>2 DEF TypeOK
    <2>6. result \in [Reader -> Index \union {NoResult}]
      BY <2>2 DEF TypeOK
    <2> QED BY <2>1, <2>2, <2>3, <2>4, <2>5, <2>6
  <1>b. Visible' \in 1 .. Len(log')
    <2>1. ASSUME CohInv', DataInv' PROVE Visible' \in 1 .. Len(log')
      <3>a. /\ Len(log') \in Nat /\ Len(log') >= 1
            /\ cacheVer' \in 1 .. Len(log') /\ snapVer' \in [Reader -> 1 .. Len(log')]
        BY <2>1 DEF DataInv, TypeOK
      <3>1. CASE \E r \in Reader : rpc'[r] = "fill"
        BY <3>a, <3>1, <2>1, VisibleAtNext
      <3>2. CASE ~ \E r \in Reader : rpc'[r] = "fill"
        BY <3>a, <3>2, <2>1, VisibleAtNext
      <3> QED BY <3>1, <3>2
    <2> QED BY <2>1
  <1>q. Quiet => UNCHANGED Service!vars
    <2> SUFFICES ASSUME Quiet PROVE Visible' = Visible /\ Searching' = Searching
      BY DEF Service!vars
    <2> QED BY DEF Visible
  <1>1. ASSUME NEW w \in Writer, NEW p \in Path, DeleteFile(w, p) PROVE Service!Next
    <2>1. <<>> \in Seq(Row)
      OBVIOUS
    <2> QED BY <1>1, <2>1, StoreRefines DEF DeleteFile, Service!Next
  <1>2. ASSUME NEW w \in Writer, NEW p \in Path, NEW f \in File, ReadAndChunk(w, p, f)
        PROVE  Quiet
    BY <1>2 DEF ReadAndChunk, storeVars, readerVars
  <1>3. ASSUME NEW w \in Writer, VectorsByPath(w) \/ Embed(w) \/ WriteFails(w)
        PROVE  Quiet
    BY <1>3 DEF VectorsByPath, Embed, WriteFails, storeVars, readerVars
  <1>5. ASSUME NEW w \in Writer, CommitRows(w) PROVE Service!Next
    <2>1. draft[w] \in Seq(Draft) /\ wpath[w] \in Path
      BY DEF DataInv, TypeOK
    <2>2. \A i \in DOMAIN draft[w] : draft[w][i].vec # NoVec
      BY <1>5 DEF CommitRows, DataInv, DraftInv
    <2>3. draft[w] \in Seq(Row)
      BY <2>1, <2>2, DraftType
    <2> QED BY <1>5, <2>1, <2>3, StoreRefines DEF CommitRows, Service!Next
  <1>7. ASSUME NEW w \in Writer, Invalidate(w) PROVE Service!Next
    <2>1. \A r \in Reader : rpc'[r] # "fill"
      BY <1>7, SentinelAssumption DEF Invalidate, CohInv, LockInv, readerVars
    <2>2. UNCHANGED <<log, rpc, result>> /\ cache' = NoCache
      BY <1>7 DEF Invalidate, readerVars
    <2>3. Visible' = Len(log)
      BY <2>1, <2>2, VisibleAtNext
    <2>4. acked' \in acked .. Len(log)
      BY <1>7, <1>a DEF Invalidate, MaxOf
    <2>5. Searching' = Searching
      BY <2>2
    <2>6. Service!Acknowledge
      BY <1>a, <2>2, <2>3, <2>4, <2>5 DEF Service!Acknowledge
    <2> QED BY <2>6 DEF Service!Next
  <1>8. ASSUME NEW r \in Reader, EmbedQuery(r) PROVE Service!Next
    <2>1. UNCHANGED <<cache, cacheVer, snapVer, log, acked>>
      BY <1>8 DEF EmbedQuery, storeVars, writerVars
    <2>2. Searching' = Searching \union {r} /\ r \notin Searching
      BY <1>8, <1>a DEF EmbedQuery
    <2>3. \A q \in Reader : rpc'[q] = "fill" <=> rpc[q] = "fill"
      BY <1>8, <1>a DEF EmbedQuery
    <2>4. Visible' = Visible
      BY <2>1, <2>3 DEF Visible
    <2>5. Service!Begin(r)
      BY <1>8, <2>1, <2>2, <2>4 DEF Service!Begin, EmbedQuery
    <2> QED BY <2>5 DEF Service!Next
  <1>9. ASSUME NEW r \in Reader, QueryEmbedFails(r) \/ QueryFails(r) PROVE Service!Next
    <2>1. UNCHANGED <<cache, cacheVer, log, acked, result>>
      BY <1>9 DEF QueryEmbedFails, QueryFails, storeVars, writerVars
    <2>2. Searching' = Searching \ {r} /\ r \in Searching
      BY <1>9, <1>a DEF QueryEmbedFails, QueryFails
    <2>3. Visible' >= Visible
      <3>1. CASE QueryEmbedFails(r)
        <4>1. \A q \in Reader : rpc'[q] = "fill" <=> rpc[q] = "fill"
          BY <3>1, <1>a DEF QueryEmbedFails
        <4>2. Visible' = Visible
          BY <3>1, <2>1, <4>1 DEF Visible, QueryEmbedFails
        <4> QED BY <4>2, <1>a
      <3>2. CASE QueryFails(r)
        <4>1. cache' = NoCache /\ \A q \in Reader : rpc'[q] # "fill"
          BY <3>2, <1>a DEF QueryFails, CohInv, LockInv
        <4> QED BY <4>1, <2>1, <1>a, VisibleAtNext
      <3> QED BY <1>9, <3>1, <3>2
    <2>4. Service!Abandon(r)
      BY <1>a, <1>b, <2>1, <2>2, <2>3 DEF Service!Abandon
    <2> QED BY <2>4 DEF Service!Next
  <1>10. ASSUME NEW r \in Reader, LoadAllLock(r) PROVE UNCHANGED Service!vars
    <2>1. UNCHANGED <<cache, cacheVer, snapVer, log, acked, result>>
      BY <1>10 DEF LoadAllLock, writerVars
    <2>2. Searching' = Searching
      BY <1>10, <1>a DEF LoadAllLock
    <2>3. \A q \in Reader : rpc'[q] = "fill" <=> rpc[q] = "fill"
      BY <1>10, <1>a DEF LoadAllLock
    <2>4. Visible' = Visible
      BY <2>1, <2>3 DEF Visible
    <2> QED BY <2>1, <2>2, <2>4 DEF Service!vars
  <1>11. ASSUME NEW r \in Reader, CacheHit(r) PROVE Service!Next
    <2>1. UNCHANGED <<cache, cacheVer, log, acked>>
      BY <1>11 DEF CacheHit, Return, writerVars
    <2>2. Searching' = Searching \ {r} /\ r \in Searching
      BY <1>11, <1>a DEF CacheHit, Return
    <2>3. Visible = cacheVer /\ Visible' = Visible
      BY <1>11, <2>1, VisibleAt, VisibleAtNext DEF CacheHit
    <2>4. result' = [result EXCEPT ![r] = log[Visible]]
      BY <1>11, <2>3 DEF CacheHit, Return, CohInv, CacheInv
    <2>5. Service!Serve(r)
      BY <1>a, <2>1, <2>2, <2>3, <2>4 DEF Service!Serve
    <2> QED BY <2>5 DEF Service!Next
  <1>12. ASSUME NEW r \in Reader, QueryRows(r) PROVE UNCHANGED Service!vars
    <2>1. UNCHANGED <<cache, log, acked, result>>
      BY <1>12 DEF QueryRows, storeVars, writerVars
    <2>2. Searching' = Searching
      BY <1>12, <1>a DEF QueryRows
    <2>3. \A q \in Reader : rpc[q] # "fill"
      BY <1>12, <1>a DEF QueryRows, CohInv, LockInv
    <2>4. Visible = Len(log)
      BY <1>12, <2>3, VisibleAt DEF QueryRows
    <2>5. rpc'[r] = "fill" /\ snapVer'[r] = Len(log)
      BY <1>12, <1>a DEF QueryRows
    <2>6. Visible' = Visible
      BY <2>4, <2>5, VisibleAtNext
    <2> QED BY <2>1, <2>2, <2>6 DEF Service!vars
  <1>13. ASSUME NEW r \in Reader, FillCache(r) PROVE Service!Next
    <2>1. UNCHANGED <<log, acked>>
      BY <1>13 DEF FillCache, Return, writerVars
    <2>2. Searching' = Searching \ {r} /\ r \in Searching
      BY <1>13, <1>a DEF FillCache, Return
    <2>3. Visible = snapVer[r]
      BY <1>13, VisibleAt DEF FillCache
    <2>4. result' = [result EXCEPT ![r] = log[Visible]]
      BY <1>13, <2>3 DEF FillCache, Return, CohInv, FillInv
    <2>5. \A q \in Reader : rpc'[q] # "fill"
      BY <1>13, <1>a DEF FillCache, Return, CohInv, LockInv
    <2>6. Visible' >= Visible
      <3>1. CASE cache' = NoCache
        BY <3>1, <2>1, <2>5, <1>a, VisibleAtNext
      <3>2. CASE cache' # NoCache
        <4>1. Visible' = snapVer[r]
          BY <1>13, <3>2, VisibleAtNext DEF FillCache
        <4> QED BY <4>1, <2>3, <1>a
      <3> QED BY <3>1, <3>2
    <2>7. Service!Serve(r)
      BY <1>a, <1>b, <2>1, <2>2, <2>4, <2>6 DEF Service!Serve
    <2> QED BY <2>7 DEF Service!Next
  <1>15. CASE Crash
    <2>1. cache' = NoCache /\ (\A q \in Reader : rpc'[q] = "idle") /\ UNCHANGED <<log, acked>>
      BY <1>15 DEF Crash
    <2>2. Visible' = Len(log) /\ Searching' = {}
      BY <2>1, VisibleAtNext
    <2>3. Service!Restart
      BY <1>15, <2>1, <2>2 DEF Service!Restart, Crash
    <2> QED BY <2>3 DEF Service!Next
  <1>16. CASE UNCHANGED vars
    BY <1>16, <1>q DEF vars, storeVars, writerVars, readerVars
  <1> QED
    BY <1>1, <1>2, <1>3, <1>5, <1>7, <1>8, <1>9, <1>10, <1>11,
       <1>12, <1>13, <1>15, <1>16, <1>q DEF Next, WriterStep, ReaderStep

LEMMA InitRefines == Init => Service!Init
  <1> SUFFICES ASSUME Init PROVE Service!Init
    OBVIOUS
  <1>1. Visible = 1
    BY DEF Init, Visible
  <1>2. {r \in Reader : rpc[r] # "idle"} = {}
    BY DEF Init
  <1> QED BY <1>1, <1>2 DEF Init, Service!Init

(* Retrieve is linearizable with respect to UpsertFile and DeleteFile.     *)
THEOREM Refinement == Spec => ImplementsService
  BY InitRefines, StepRefines, InvHolds, PTL DEF Spec, ImplementsService, Service!Spec
=============================================================================
