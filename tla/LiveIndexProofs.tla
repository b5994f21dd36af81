-------------------------- MODULE LiveIndexProofs ---------------------------
(***************************************************************************)
(* For any tree, any queue of fsnotify and any number of changes: the      *)
(* inductive invariant IInv of LiveIndex, and from it that no change is    *)
(* lost, that ChangeHandler alone never takes the table back, and that a   *)
(* BuildAll left alone indexes the tree.                                   *)
(*                                                                         *)
(* The argument: whatever ChangeHandler or BuildAll holds is the file as   *)
(* it is, or the file has changed since; the change then left an event     *)
(* behind it (HandlerTold, BuilderTold), and an event leaves the queue     *)
(* only for pending, pending only for the batch, and the batch only for    *)
(* ChangeHandler.                                                          *)
(***************************************************************************)
EXTENDS LiveIndex, TLAPS

(* Types                                                                   *)

LEMMA VersionType ==
  /\ 0 .. MaxChanges \subseteq Nat
  /\ \A g \in [File -> 0 .. MaxChanges] : g \in [File -> Nat]
BY TreeAssumption

LEMMA InitTypes == Init => TypeOK
<1> SUFFICES ASSUME Init PROVE TypeOK
  OBVIOUS
<1>1. 0 \in 0 .. MaxChanges /\ 1 \in 0 .. MaxChanges /\ 1 \in 1 .. MaxChanges
  BY TreeAssumption
<1>2. rows \in [File -> 0 .. MaxChanges] /\ disk \in [File -> 0 .. MaxChanges]
  BY <1>1 DEF Init, WatcherInit
<1>3. events \in Seq(Event) /\ Len(events) <= QueueSize
  BY TreeAssumption DEF Init, WatcherInit
<1>4. WatcherTypeOK
  BY <1>1, <1>2, <1>3, TreeAssumption DEF Init, WatcherInit, WatcherTypeOK
<1>5. 0 \in 0 .. MaxBuilds
  BY BuildsAssumption
<1> QED
  BY <1>1, <1>2, <1>4, <1>5 DEF Init, TypeOK

(* One more event is still a queue of events that the kernel can keep.     *)
LEMMA EmitTypes ==
  ASSUME WatcherTypeOK, NEW n \in Name, NEW op \in {"create", "write", "remove"}, Emit(op, n)
  PROVE  /\ events' \in Seq(Event)
         /\ Len(events') <= QueueSize
         /\ overflow' \in BOOLEAN
<1>1. [op |-> op, name |-> n] \in Event
  BY DEF Event
<1>2. events \in Seq(Event) /\ Len(events) <= QueueSize /\ overflow \in BOOLEAN
  BY DEF WatcherTypeOK
<1>3. CASE Seen(n)
  <2>1. events' = Append(events, [op |-> op, name |-> n])
    BY <1>3 DEF Emit
  <2>2. Len(events) < QueueSize
    BY <1>3 DEF Seen
  <2>3. Len(events') = Len(events) + 1 /\ events' \in Seq(Event)
    BY <1>1, <1>2, <2>1
  <2> QED
    BY <1>2, <2>2, <2>3, TreeAssumption DEF Emit
<1>4. CASE ~ Seen(n)
  BY <1>2, <1>4 DEF Emit
<1> QED
  BY <1>3, <1>4

LEMMA TreeTypes ==
  ASSUME TypeOK, Environment
  PROVE  TypeOK'
<1> USE TreeAssumption DEF TypeOK
<1>0. UNCHANGED <<rows, handlerVars, buildVars>> /\ quiet' = FALSE
  BY DEF Environment
<1>1. ASSUME NEW f \in File, WriteFile(f)
      PROVE  WatcherTypeOK'
  <2>1. f \in Name /\ Emit(IF disk[f] = 0 THEN "create" ELSE "write", f)
    BY <1>1 DEF WriteFile, Name
  <2>2. /\ events' \in Seq(Event)
        /\ Len(events') <= QueueSize /\ overflow' \in BOOLEAN
    BY <2>1, EmitTypes
  <2>3. changes' \in 1 .. MaxChanges /\ disk' \in [File -> 0 .. MaxChanges]
    BY <1>1 DEF WriteFile, Change, WatcherTypeOK
  <2> QED
    BY <1>1, <2>2, <2>3 DEF WriteFile, Notice, WatcherTypeOK, walkVars, loopVars
<1>2. ASSUME NEW f \in File, RemoveFile(f)
      PROVE  WatcherTypeOK'
  <2>1. f \in Name /\ Emit("remove", f)
    BY <1>2 DEF RemoveFile, Name
  <2>2. /\ events' \in Seq(Event)
        /\ Len(events') <= QueueSize /\ overflow' \in BOOLEAN
    BY <2>1, EmitTypes
  <2>3. changes' \in 1 .. MaxChanges /\ disk' \in [File -> 0 .. MaxChanges]
    BY <1>2 DEF RemoveFile, Change, WatcherTypeOK
  <2> QED
    BY <1>2, <2>2, <2>3 DEF RemoveFile, Notice, WatcherTypeOK, walkVars, loopVars
<1>3. ASSUME NEW d \in Dir \ {Root}, MakeDir(d) \/ RemoveDir(d)
      PROVE  WatcherTypeOK'
  <2>1. d \in Name /\ (Emit("create", d) \/ Emit("remove", d))
    BY <1>3 DEF MakeDir, RemoveDir, Name
  <2>2. /\ events' \in Seq(Event)
        /\ Len(events') <= QueueSize /\ overflow' \in BOOLEAN
    BY <2>1, EmitTypes
  <2>3. changes' \in 1 .. MaxChanges
    BY <1>3 DEF MakeDir, RemoveDir, Change, WatcherTypeOK
  <2>4. dirs' \subseteq Dir /\ watched' \subseteq dirs'
    BY <1>3 DEF MakeDir, RemoveDir, WatcherTypeOK
  <2> QED
    BY <1>3, <2>2, <2>3, <2>4 DEF MakeDir, RemoveDir, WatcherTypeOK, walkVars, loopVars
<1>4. WatcherTypeOK'
  BY <1>1, <1>2, <1>3 DEF Environment, TreeChanges
<1> QED
  BY <1>0, <1>4 DEF handlerVars, buildVars

(* What is left of the queue when its first event is taken.                *)
LEMMA TakeTypes ==
  ASSUME WatcherTypeOK, events # <<>>
  PROVE  /\ Head(events) \in Event
         /\ Tail(events) \in Seq(Event) /\ Len(Tail(events)) <= QueueSize
BY TreeAssumption DEF WatcherTypeOK

LEMMA RunTypes ==
  ASSUME TypeOK, WatcherRuns
  PROVE  TypeOK'
<1> SUFFICES WatcherTypeOK'
  BY DEF WatcherRuns, TypeOK, handlerVars, buildVars
<1> USE TreeAssumption
<1>0. WatcherTypeOK
  BY DEF TypeOK
<1>1. ASSUME NEW d \in Dir, SkipDir(d) \/ AddDir(d)
      PROVE  WatcherTypeOK'
  BY <1>0, <1>1 DEF SkipDir, AddDir, WatcherTypeOK, treeVars, notifyVars, loopVars
<1>2. CASE StopWatching /\ UNCHANGED <<treeVars, top, entered, loopVars>> /\ todo' \in {todo, {}}
           /\ addFailed' \in BOOLEAN
  <2>1. events' \in Seq(Event) /\ Len(events') <= QueueSize
    BY <1>2 DEF StopWatching
  <2> QED
    BY <1>0, <1>2, <2>1 DEF StopWatching, WatcherTypeOK, treeVars, loopVars
<1>3. ASSUME NEW d \in Dir, AddFails(d)
      PROVE  WatcherTypeOK'
  <2>1. addFailed' \in BOOLEAN
    BY <1>3 DEF AddFails
  <2>2. CASE StopWatching
    BY <1>2, <1>3, <2>1, <2>2 DEF AddFails
  <2>3. CASE pc' = "select" /\ UNCHANGED notifyVars
    BY <1>0, <1>3, <2>1, <2>3 DEF AddFails, WatcherTypeOK, treeVars, notifyVars, loopVars
  <2> QED
    BY <1>3, <2>2, <2>3 DEF AddFails
<1>4. CASE ReadEntries \/ WalkEnds
  BY <1>0, <1>4 DEF ReadEntries, WalkEnds, WatcherTypeOK, treeVars, notifyVars, walkVars, loopVars
<1>5. CASE WatchNewDir
  <2>1. Head(events).name \in Dir
    BY <1>0, <1>5 DEF WatchNewDir, NewDir, WatcherTypeOK
  <2> QED
    BY <1>0, <1>5, <2>1, TakeTypes DEF WatchNewDir, WatcherTypeOK, treeVars, loopVars
<1>6. CASE Record
  <2>1. Head(events).name \in Name
    BY <1>0, <1>6, TakeTypes DEF Record, Event
  <2> QED
    BY <1>0, <1>6, <2>1, TakeTypes DEF Record, WatcherTypeOK, treeVars, walkVars
<1>9. CASE Ignore
  BY <1>0, <1>9, TakeTypes DEF Ignore, WatcherTypeOK, treeVars, walkVars, loopVars
<1>7. CASE Flush
  BY <1>0, <1>7 DEF Flush, WatcherTypeOK, treeVars, notifyVars, walkVars
<1>8. CASE Fail \/ Cancel
  BY <1>0, <1>2, <1>8 DEF Fail, Cancel, WatcherTypeOK, walkVars
<1> QED
  BY <1>1, <1>3, <1>4, <1>5, <1>6, <1>7, <1>8, <1>9 DEF WatcherRuns, RunStep

LEMMA HandlerTypes ==
  ASSUME TypeOK, HandlerStep
  PROVE  TypeOK'
<1> USE TreeAssumption
<1>0. /\ UNCHANGED <<handlerFrame>> /\ quiet' \in BOOLEAN
      /\ batch' \subseteq batch /\ pc' \in {pc, "select"}
  BY DEF HandlerStep, SkipName, Stat, HandleDelete, HandleRead, HandleCommit,
     ReadFails, HandleFails, HandlerReturns, TypeOK
<1>1. WatcherTypeOK'
  BY <1>0 DEF TypeOK, WatcherTypeOK, handlerFrame, treeVars, notifyVars, walkVars
<1>2. bpc' = bpc /\ btodo' = btodo /\ bcur' = bcur /\ bver' = bver /\ builds' = builds
  BY <1>0 DEF handlerFrame, buildVars
<1>3. /\ rows' \in [File -> 0 .. MaxChanges] /\ cur' \in File \union {None}
      /\ step' \in {"stat", "delete", "read", "commit"} /\ ver' \in 0 .. MaxChanges
      /\ failed' \subseteq File /\ crossed' \subseteq File
  <2> USE DEF TypeOK
  <2>1. ASSUME NEW n \in batch, SkipName(n) \/ Stat(n)
        PROVE  <1>3!:
    BY <2>1 DEF SkipName, Stat, handlerVars
  <2>2. CASE HandleDelete
    BY <2>2 DEF HandleDelete, Updated
  <2>3. CASE HandleRead
    BY <2>3 DEF HandleRead, WatcherTypeOK
  <2>4. CASE HandleCommit
    BY <2>4 DEF HandleCommit, Updated
  <2>5. CASE ReadFails \/ HandleFails \/ HandlerReturns
    BY <2>5 DEF ReadFails, HandleFails, HandlerReturns, handlerVars
  <2> QED
    BY <2>1, <2>2, <2>3, <2>4, <2>5 DEF HandlerStep
<1> QED
  BY <1>0, <1>1, <1>2, <1>3 DEF TypeOK

LEMMA BuildTypes ==
  ASSUME TypeOK, BuildStep
  PROVE  TypeOK'
<1> USE TreeAssumption, BuildsAssumption DEF TypeOK, buildFrame, handlerVars
<1>0. UNCHANGED watcherVars
  BY DEF BuildStep, BuildBegins, BuildList, BuildRead, BuildCommit, BuildFails, BuildReturns
<1>1. WatcherTypeOK'
  BY <1>0 DEF WatcherTypeOK, watcherVars, treeVars, notifyVars, walkVars, loopVars
<1>2. CASE BuildBegins
  BY <1>1, <1>2 DEF BuildBegins, Name
<1>5. ASSUME NEW d \in Dir, BuildList(d)
      PROVE  TypeOK'
  BY <1>1, <1>5 DEF BuildList, Entries, Name, WatcherTypeOK
<1>3. ASSUME NEW f \in File, BuildRead(f)
      PROVE  TypeOK'
  BY <1>1, <1>3 DEF BuildRead, WatcherTypeOK
<1>4. CASE BuildCommit \/ BuildFails \/ BuildReturns
  BY <1>1, <1>4 DEF BuildCommit, BuildFails, BuildReturns
<1> QED
  BY <1>2, <1>3, <1>4, <1>5 DEF BuildStep

LEMMA TypesKept ==
  ASSUME TypeOK, [Next]_vars
  PROVE  TypeOK'
<1>1. CASE UNCHANGED vars
  BY <1>1 DEF TypeOK, WatcherTypeOK, vars, watcherVars, treeVars, notifyVars,
     walkVars, loopVars, handlerVars, buildVars
<1> QED
  BY <1>1, TreeTypes, RunTypes, HandlerTypes, BuildTypes DEF Next

-----------------------------------------------------------------------------
(* Nothing that was told is forgotten on the way to ChangeHandler          *)

LEMMA FileNames ==
  ASSUME WatcherTypeOK
  PROVE  /\ \A i \in DOMAIN events : i \in 1 .. Len(events)
         /\ \A f \in File : f \notin dirs
BY TreeAssumption DEF WatcherTypeOK

(* An event that is queued for a file stands at the end of the queue.      *)
LEMMA EmitTells ==
  ASSUME WatcherTypeOK, NEW n \in Name, NEW op \in {"create", "write", "remove"}, Emit(op, n),
         UNCHANGED <<pending, batch>>
  PROVE  /\ Seen(n) => Queued(n)'
         /\ \A f \in File : Queued(f) => Queued(f)'
<1>1. [op |-> op, name |-> n] \in Event /\ events \in Seq(Event)
  BY DEF Event, WatcherTypeOK
<1>2. CASE Seen(n)
  <2>1. events' = Append(events, [op |-> op, name |-> n])
    BY <1>2 DEF Emit
  <2>2. /\ Len(events) + 1 \in DOMAIN events'
        /\ events'[Len(events) + 1].name = n
        /\ \A i \in DOMAIN events : i \in DOMAIN events' /\ events'[i] = events[i]
    BY <1>1, <2>1
  <2> QED
    BY <2>2 DEF Queued
<1>3. CASE ~ Seen(n)
  BY <1>3 DEF Emit, Queued
<1> QED
  BY <1>2, <1>3

LEMMA ToldByTree ==
  ASSUME TypeOK, Environment
  PROVE  \A f \in File : Told(f) \/ disk'[f] # disk[f] => Told(f)'
<1>0. WatcherTypeOK
  BY DEF TypeOK
<1>1. ASSUME NEW g \in File, WriteFile(g) \/ RemoveFile(g)
      PROVE  \A f \in File : Told(f) \/ disk'[f] # disk[f] => Told(f)'
  <2>1. /\ UNCHANGED <<pending, batch>> /\ g \in Name /\ Notice(g)
        /\ \E op \in {"create", "write", "remove"} : Emit(op, g)
    BY <1>1 DEF WriteFile, RemoveFile, loopVars, Name
  <2>2. /\ Seen(g) => Queued(g)'
        /\ \A f \in File : Queued(f) => Queued(f)'
    BY <1>0, <2>1, EmitTells
  <2>3. \A f \in File : f # g => disk'[f] = disk[f]
    BY <1>0, <1>1 DEF WriteFile, RemoveFile, WatcherTypeOK
  <2>4. Told(g)'
    BY <2>1, <2>2 DEF Notice, Told
  <2> QED
    BY <2>1, <2>2, <2>3, <2>4 DEF Notice, Told
<1>2. ASSUME NEW d \in Dir \ {Root}, MakeDir(d) \/ RemoveDir(d)
      PROVE  \A f \in File : Told(f) \/ disk'[f] # disk[f] => Told(f)'
  <2>1. /\ UNCHANGED <<pending, batch, disk, unseen>> /\ d \in Name
        /\ \E op \in {"create", "write", "remove"} : Emit(op, d)
    BY <1>2 DEF MakeDir, RemoveDir, loopVars, Name
  <2>2. \A f \in File : Queued(f) => Queued(f)'
    BY <1>0, <2>1, EmitTells
  <2> QED
    BY <2>1, <2>2 DEF Told
<1> QED
  BY <1>1, <1>2 DEF Environment, TreeChanges

LEMMA ToldByRun ==
  ASSUME TypeOK, OnlyHandling, WatcherRuns, pc' # "stopped"
  PROVE  \A f \in File : Told(f) => Told(f)'
<1>0. WatcherTypeOK
  BY DEF TypeOK
<1>1. CASE UNCHANGED <<events, unseen, pending, batch>>
  BY <1>1 DEF Told, Queued
<1>2. CASE WatchNewDir \/ Record \/ Ignore
  <2> SUFFICES ASSUME NEW f \in File, Told(f)
               PROVE  Told(f)'
    OBVIOUS
  <2>1. events \in Seq(Event) /\ events # <<>> /\ events' = Tail(events)
    BY <1>0, <1>2 DEF WatcherTypeOK, WatchNewDir, Record, Ignore
  <2>2. /\ pending \subseteq pending' /\ batch' = batch /\ unseen' = unseen
        /\ events[1].name = f => f \in pending'
    <3>1. Head(events) = events[1]
      BY <2>1
    <3>2. f \notin dirs
      BY <1>0, FileNames
    <3> QED
      BY <1>2, <3>1, <3>2, TreeAssumption DEF WatchNewDir, Record, Ignore, NewDir, loopVars
  <2>3. ASSUME NEW i \in DOMAIN events, events[i].name = f, i # 1
        PROVE  Queued(f)'
    <3>1. i - 1 \in DOMAIN events' /\ events'[i - 1] = events[i]
      BY <2>1, <2>3
    <3> QED
      BY <2>3, <3>1 DEF Queued
  <2> QED
    BY <2>2, <2>3 DEF Told, Queued
<1>3. CASE Flush
  <2>1. batch = {}
    BY <1>3 DEF Flush, OnlyHandling
  <2> QED
    BY <1>3, <2>1 DEF Flush, Told, Queued, notifyVars
<1> QED
  BY <1>1, <1>2, <1>3 DEF WatcherRuns, RunStep, SkipDir, AddDir, AddFails,
     ReadEntries, WalkEnds, Fail, Cancel, StopWatching, notifyVars, loopVars

-----------------------------------------------------------------------------
(* The tree changes: the file that changed is told of, and nothing else    *)
(* has moved.                                                              *)
LEMMA TreeStep ==
  ASSUME IInv, Environment
  PROVE  IInv'
<1>0. /\ UNCHANGED <<rows, cur, step, ver, failed, crossed, bpc, btodo, bcur, bver, builds>>
      /\ pc' = pc /\ batch' = batch /\ quiet' = FALSE
  <2>1. pc' = pc /\ batch' = batch
    BY DEF Environment, TreeChanges, WriteFile, RemoveFile, MakeDir, RemoveDir, loopVars
  <2> QED
    BY <2>1 DEF Environment, handlerVars, buildVars
<1>1. \A f \in File : Told(f) \/ disk'[f] # disk[f] => Told(f)'
  BY ToldByTree DEF IInv
<1>2. changes \in Nat /\ changes' = changes + 1
  BY DEF Environment, TreeChanges, WriteFile, RemoveFile, MakeDir, RemoveDir,
     Change, IInv, TypeOK, WatcherTypeOK
<1>3. \A f \in File : disk'[f] \in {disk[f], 0, changes'}
  <2>1. disk \in [File -> 0 .. MaxChanges]
    BY DEF IInv, TypeOK, WatcherTypeOK
  <2>2. ASSUME NEW g \in File, WriteFile(g) \/ RemoveFile(g)
        PROVE  \A f \in File : disk'[f] \in {disk[f], 0, changes'}
    BY <2>1, <2>2 DEF WriteFile, RemoveFile
  <2>3. ASSUME NEW d \in Dir \ {Root}, MakeDir(d) \/ RemoveDir(d)
        PROVE  disk' = disk
    BY <2>3 DEF MakeDir, RemoveDir
  <2> QED
    BY <2>2, <2>3 DEF Environment, TreeChanges
<1>4. TypeOK'
  BY TreeTypes DEF IInv
<1>5. cur # None => cur \in File
  BY DEF IInv, TypeOK
<1>6. bcur # None => bcur \in File
  BY DEF IInv, TypeOK
<1>7. OnlyHandling'
  BY <1>0 DEF IInv, OnlyHandling
<1>8. \A f \in File : OnItsWay(f) => OnItsWay(f)' \/ Told(f)'
  BY <1>0, <1>1 DEF OnItsWay, Told
<1>9. NoChangeLost'
  BY <1>0, <1>1, <1>8 DEF IInv, NoChangeLost, Told, OnItsWay
<1>10. HandlerTold'
  BY <1>0, <1>1, <1>5 DEF IInv, HandlerTold
<1>11. BuilderTold'
  BY <1>0, <1>1, <1>6, <1>8 DEF IInv, BuilderTold, Told, OnItsWay
<1>12. VersionsGrow'
  <2>1. /\ rows \in [File -> Nat] /\ disk \in [File -> Nat] /\ ver \in Nat
        /\ disk' \in [File -> Nat]
    BY <1>4, VersionType DEF IInv, TypeOK, WatcherTypeOK
  <2> QED
    BY <1>0, <1>2, <1>3, <1>5, <2>1 DEF IInv, VersionsGrow
<1>13. BuildExact'
  BY <1>0 DEF IInv, BuildExact
<1> QED
  BY <1>4, <1>7, <1>9, <1>10, <1>11, <1>12, <1>13 DEF IInv

(* Run moves names on towards ChangeHandler.                               *)
LEMMA RunStepKeeps ==
  ASSUME IInv, WatcherRuns
  PROVE  IInv'
<1>0. /\ UNCHANGED <<rows, cur, step, ver, failed, crossed, bpc, btodo, bcur, bver, builds, quiet>>
      /\ UNCHANGED <<disk, changes>>
  BY DEF WatcherRuns, RunStep, SkipDir, AddDir, AddFails, ReadEntries, WalkEnds,
     WatchNewDir, Record, Ignore, Flush, Fail, Cancel, handlerVars, buildVars, treeVars
<1>1. pc # "handle" /\ pc # "stopped"
  BY DEF WatcherRuns, RunStep, SkipDir, AddDir, AddFails, ReadEntries, WalkEnds,
     WatchNewDir, Record, Ignore, Flush, Fail, Cancel, Walking
<1>2. cur = None /\ batch = {}
  BY <1>1 DEF IInv, OnlyHandling
<1>3. batch' = {} \/ pc' = "handle"
  BY <1>2 DEF WatcherRuns, RunStep, SkipDir, AddDir, AddFails, ReadEntries, WalkEnds,
     WatchNewDir, Record, Ignore, Flush, Fail, Cancel, loopVars
<1>4. pc' # "stopped" => \A f \in File : Told(f) => Told(f)'
  BY ToldByRun DEF IInv
<1>5. TypeOK'
  BY RunTypes DEF IInv
<1>6. OnlyHandling' /\ HandlerTold'
  BY <1>0, <1>2, <1>3 DEF OnlyHandling, HandlerTold
<1>7. NoChangeLost' /\ BuilderTold'
  BY <1>0, <1>1, <1>2, <1>4 DEF IInv, TypeOK, NoChangeLost, BuilderTold, OnItsWay, Told
<1>8. VersionsGrow' /\ BuildExact'
  BY <1>0 DEF IInv, VersionsGrow, BuildExact, Buildable
<1> QED
  BY <1>5, <1>6, <1>7, <1>8 DEF IInv

-----------------------------------------------------------------------------
(* ChangeHandler: a name leaves the batch only to be dealt with, and what  *)
(* is done then is right or the file is told of again.                     *)

LEMMA HandlerFrame ==
  ASSUME HandlerStep
  PROVE  /\ UNCHANGED <<events, unseen, pending, disk, changes>>
         /\ UNCHANGED <<bpc, btodo, bcur, bver, builds>>
         /\ pc = "handle"
BY DEF HandlerStep, SkipName, Stat, HandleDelete, HandleRead, HandleCommit,
   ReadFails, HandleFails, HandlerReturns, handlerFrame, treeVars, notifyVars,
   buildVars, Handling

LEMMA SkipOrStat ==
  ASSUME IInv, HandlerStep, NEW n \in batch, SkipName(n) \/ Stat(n)
  PROVE  IInv'
<1>0. /\ UNCHANGED <<events, unseen, pending, disk, changes>>
      /\ UNCHANGED <<bpc, btodo, bcur, bver, builds>>
      /\ UNCHANGED <<rows, ver, failed, crossed, pc, quiet>>
      /\ pc = "handle" /\ cur = None /\ batch' = batch \ {n}
  BY HandlerFrame DEF SkipName, Stat, handlerVars
<1>1. TypeOK'
  BY HandlerTypes DEF IInv
<1>2. None \notin File
  BY TreeAssumption
<1>3. \A f \in File : OnItsWay(f) => OnItsWay(f)'
  <2> SUFFICES ASSUME NEW f \in File, OnItsWay(f)
               PROVE  OnItsWay(f)'
    OBVIOUS
  <2>1. Queued(f)
    BY <1>0, <1>2 DEF OnItsWay
  <2>2. CASE f # n
    BY <1>0, <2>1, <2>2 DEF OnItsWay, Queued
  <2>3. CASE f = n
    BY <1>0, <2>3 DEF SkipName, Stat, OnItsWay
  <2> QED
    BY <2>2, <2>3
<1>4. OnlyHandling' /\ HandlerTold'
  BY <1>0, <1>2 DEF SkipName, Stat, OnlyHandling, HandlerTold, handlerVars
<1>5. NoChangeLost' /\ BuilderTold'
  BY <1>0, <1>3 DEF IInv, TypeOK, NoChangeLost, BuilderTold
<1>6. VersionsGrow'
  BY <1>0 DEF IInv, VersionsGrow, SkipName, Stat, handlerVars
<1>7. BuildExact'
  BY <1>0 DEF IInv, BuildExact, Buildable
<1> QED
  BY <1>1, <1>4, <1>5, <1>6, <1>7 DEF IInv

(* The row of the file is replaced, by what is right unless it is told of. *)
LEMMA UpdateStep ==
  ASSUME IInv, HandlerStep, HandleDelete \/ HandleCommit
  PROVE  IInv'
<1> DEFINE new == IF step = "delete" THEN 0 ELSE ver
<1>0. /\ UNCHANGED <<events, unseen, pending, batch, disk, changes>>
      /\ UNCHANGED <<bpc, btodo, bcur, bver, builds>>
      /\ UNCHANGED <<step, ver, pc>> /\ quiet' = FALSE
      /\ pc = "handle" /\ cur \in File /\ cur # None /\ cur' = None /\ Updated
      /\ step \in {"delete", "commit"}
  BY HandlerFrame DEF HandleDelete, HandleCommit, IInv, TypeOK
<1>1. rows \in [File -> Nat] /\ rows' = [rows EXCEPT ![cur] = new]
  BY VersionType DEF HandleDelete, HandleCommit, IInv, TypeOK
<1>2. new = disk[cur] \/ Told(cur)
  BY <1>0 DEF IInv, HandlerTold
<1>3. \A f \in File : Told(f) => Told(f)'
  BY <1>0 DEF Told, Queued
<1>4. \A f \in File : f # cur => (OnItsWay(f) => OnItsWay(f)')
  BY <1>0 DEF OnItsWay, Queued
<1>5. TypeOK'
  BY HandlerTypes DEF IInv
<1>6. OnlyHandling' /\ HandlerTold'
  BY <1>0 DEF IInv, OnlyHandling, HandlerTold
<1>7. NoChangeLost'
  <2>1. ASSUME NEW f \in File, f # cur, rows'[f] # disk'[f]
        PROVE  OnItsWay(f)' \/ f \in (unseen \union failed \union crossed)'
    <3>1. OnItsWay(f) \/ f \in unseen \union failed \union crossed
      BY <1>0, <1>1, <2>1 DEF IInv, NoChangeLost
    <3> QED
      BY <1>0, <1>4, <2>1, <3>1 DEF Updated
  <2>2. ASSUME NEW f \in File, f = cur, rows'[f] # disk'[f]
        PROVE  OnItsWay(f)' \/ f \in unseen'
    <3>1. Told(f)
      BY <1>0, <1>1, <1>2, <2>2
    <3> QED
      BY <1>3, <3>1 DEF Told, OnItsWay
  <2> QED
    BY <2>1, <2>2 DEF NoChangeLost
<1>8. BuilderTold'
  BY <1>0, <1>4 DEF IInv, TypeOK, BuilderTold, Updated
<1>9. VersionsGrow'
  <2>1. /\ disk \in [File -> Nat] /\ ver \in Nat /\ changes \in Nat
    BY VersionType DEF IInv, TypeOK, WatcherTypeOK
  <2>2. builds = 0 =>
          /\ new <= changes
          /\ disk[cur] # 0 => new <= disk[cur]
    BY <1>0, <2>1 DEF IInv, VersionsGrow
  <2> HIDE DEF new
  <2> QED
    BY <1>0, <1>1, <2>1, <2>2 DEF IInv, VersionsGrow
<1>10. BuildExact'
  BY <1>0 DEF IInv, BuildExact
<1> QED
  BY <1>5, <1>6, <1>7, <1>8, <1>9, <1>10 DEF IInv

LEMMA HandleReadStep ==
  ASSUME IInv, HandlerStep, HandleRead
  PROVE  IInv'
<1>0. /\ UNCHANGED <<events, unseen, pending, batch, disk, changes>>
      /\ UNCHANGED <<bpc, btodo, bcur, bver, builds>>
      /\ UNCHANGED <<rows, cur, failed, crossed, pc, quiet>>
      /\ pc = "handle" /\ cur \in File /\ cur # None
      /\ step = "read" /\ step' = "commit" /\ ver' = disk[cur] /\ disk[cur] # 0
  BY HandlerFrame DEF HandleRead, IInv, TypeOK
<1>1. TypeOK'
  BY HandlerTypes DEF IInv
<1>2. \A f \in File : OnItsWay(f) => OnItsWay(f)'
  BY <1>0 DEF OnItsWay, Queued
<1>3. OnlyHandling' /\ HandlerTold'
  BY <1>0 DEF IInv, OnlyHandling, HandlerTold
<1>4. NoChangeLost' /\ BuilderTold'
  BY <1>0, <1>2 DEF IInv, TypeOK, NoChangeLost, BuilderTold
<1>5. VersionsGrow'
  <2>1. disk \in [File -> Nat]
    BY VersionType DEF IInv, TypeOK, WatcherTypeOK
  <2> QED
    BY <1>0, <2>1 DEF IInv, VersionsGrow
<1>6. BuildExact'
  BY <1>0 DEF IInv, BuildExact, Buildable
<1> QED
  BY <1>1, <1>3, <1>4, <1>5, <1>6 DEF IInv

(* The update fails: the file is told of, or remembered as failed.         *)
LEMMA FailStep ==
  ASSUME IInv, HandlerStep, ReadFails \/ HandleFails
  PROVE  IInv'
<1>0. /\ UNCHANGED <<events, unseen, pending, batch, disk, changes>>
      /\ UNCHANGED <<bpc, btodo, bcur, bver, builds>>
      /\ UNCHANGED <<rows, step, ver, crossed, pc, quiet>>
      /\ pc = "handle" /\ cur # None /\ cur' = None
      /\ failed \subseteq failed' /\ (cur \in failed' \/ (step = "read" /\ disk[cur] = 0))
  <2>1. CASE ReadFails
    BY <2>1, HandlerFrame DEF ReadFails
  <2>2. CASE HandleFails
    BY <2>2, HandlerFrame DEF HandleFails
  <2> QED
    BY <2>1, <2>2
<1>1. TypeOK'
  BY HandlerTypes DEF IInv
<1>2. \A f \in File : OnItsWay(f) => OnItsWay(f)' \/ f \in unseen' \union failed'
  BY <1>0 DEF OnItsWay, Queued
<1>3. OnlyHandling' /\ HandlerTold'
  BY <1>0 DEF IInv, OnlyHandling, HandlerTold
<1>4. NoChangeLost' /\ BuilderTold'
  BY <1>0, <1>2 DEF IInv, TypeOK, NoChangeLost, BuilderTold
<1>5. VersionsGrow' /\ BuildExact'
  BY <1>0 DEF IInv, VersionsGrow, BuildExact, Buildable
<1> QED
  BY <1>1, <1>3, <1>4, <1>5 DEF IInv

LEMMA ReturnStep ==
  ASSUME IInv, HandlerStep, HandlerReturns
  PROVE  IInv'
<1>0. /\ UNCHANGED <<events, unseen, pending, batch, disk, changes>>
      /\ UNCHANGED <<bpc, btodo, bcur, bver, builds>>
      /\ UNCHANGED <<rows, cur, step, ver, failed, crossed, quiet>>
      /\ pc = "handle" /\ cur = None /\ batch = {}
  BY HandlerFrame DEF HandlerReturns, handlerVars
<1>1. TypeOK'
  BY HandlerTypes DEF IInv
<1>2. \A f \in File : OnItsWay(f) => OnItsWay(f)'
  BY <1>0 DEF OnItsWay, Queued
<1>3. OnlyHandling' /\ HandlerTold'
  BY <1>0 DEF OnlyHandling, HandlerTold
<1>4. NoChangeLost' /\ BuilderTold'
  BY <1>0, <1>2 DEF IInv, TypeOK, NoChangeLost, BuilderTold
<1>5. VersionsGrow' /\ BuildExact'
  BY <1>0 DEF IInv, VersionsGrow, BuildExact, Buildable
<1> QED
  BY <1>1, <1>3, <1>4, <1>5 DEF IInv

-----------------------------------------------------------------------------
(* The tree, whatever changes it                                           *)

LEMMA PathFacts ==
  ASSUME NEW d \in Dir
  PROVE  /\ d \in Path[d] /\ Path[d] \subseteq Dir /\ ClosedUpward(Path[d])
         /\ \A S \in SUBSET Dir : d \in S /\ ClosedUpward(S) => Path[d] \subseteq S
<1>1. Path[d] = {a \in Dir : \A S \in SUBSET Dir : d \in S /\ ClosedUpward(S) => a \in S}
  BY DEF Path
<1> QED
  BY <1>1, TreeAssumption DEF ClosedUpward

(* What a directory is inside of: itself, and what its parent is inside of.*)
LEMMA PathOfParent ==
  ASSUME NEW d \in Dir \ {Root}
  PROVE  Parent[d] \in Dir /\ Path[Parent[d]] \subseteq Path[d]
<1>1. Parent[d] \in Dir
  BY TreeAssumption
<1>2. Parent[d] \in Path[d] /\ Path[d] \in SUBSET Dir /\ ClosedUpward(Path[d])
  BY PathFacts DEF ClosedUpward
<1> QED
  BY <1>1, <1>2, PathFacts

(* Between a directory and one it is inside of there is a child of that    *)
(* one.                                                                    *)
LEMMA PathHasChild ==
  ASSUME NEW d \in Dir, NEW a \in Path[d], a # d
  PROVE  \E b \in Path[d] \ {Root} : Parent[b] = a
<1> SUFFICES ASSUME \A b \in Path[d] \ {Root} : Parent[b] # a
             PROVE  FALSE
  OBVIOUS
<1>1. ClosedUpward(Path[d] \ {a})
  BY PathFacts DEF ClosedUpward
<1>2. d \in Path[d] \ {a} /\ Path[d] \ {a} \in SUBSET Dir
  BY PathFacts
<1>3. Path[d] \subseteq Path[d] \ {a}
  BY <1>1, <1>2, PathFacts
<1> QED
  BY <1>3

(* Directories exist with all they are inside of.                          *)
LEMMA PathExists ==
  ASSUME TreeRooted, dirs \subseteq Dir, NEW d \in dirs
  PROVE  Path[d] \subseteq dirs
BY PathFacts DEF TreeRooted

(* Only the environment changes the tree.                                  *)
LEMMA TreeAlone ==
  ASSUME [Next]_vars, ~ Environment
  PROVE  UNCHANGED treeVars
BY DEF Next, WatcherRuns, RunStep, SkipDir, AddDir, AddFails, ReadEntries, WalkEnds,
   WatchNewDir, Record, Ignore, Flush, Fail, Cancel, HandlerStep, SkipName, Stat,
   HandleDelete, HandleRead, HandleCommit, ReadFails, HandleFails, HandlerReturns,
   handlerFrame, BuildStep, BuildBegins, BuildList, BuildRead, BuildCommit, BuildFails,
   BuildReturns, buildFrame, vars, watcherVars

LEMMA RootedStep ==
  ASSUME TypeOK, TreeRooted, [Next]_vars
  PROVE  TreeRooted'
<1>0. disk \in [File -> 0 .. MaxChanges]
  BY DEF TypeOK, WatcherTypeOK
<1>1. CASE UNCHANGED treeVars
  BY <1>1 DEF TreeRooted, ClosedUpward, treeVars
<1>2. ASSUME NEW f \in File, WriteFile(f) \/ RemoveFile(f)
      PROVE  TreeRooted'
  BY <1>0, <1>2 DEF WriteFile, RemoveFile, TreeRooted, ClosedUpward
<1>3. ASSUME NEW d \in Dir \ {Root}, MakeDir(d)
      PROVE  TreeRooted'
  BY <1>3 DEF MakeDir, TreeRooted, ClosedUpward
<1>4. ASSUME NEW d \in Dir \ {Root}, RemoveDir(d)
      PROVE  TreeRooted'
  BY <1>4 DEF RemoveDir, Entries, TreeRooted, ClosedUpward
<1> QED
  BY <1>1, <1>2, <1>3, <1>4, TreeAlone DEF Environment, TreeChanges

LEMMA InitRooted == Init => TreeRooted
BY DEF Init, WatcherInit, TreeRooted

-----------------------------------------------------------------------------
(* BuildAll: its read is the file as it is, its commit what it read.  What *)
(* a listing finds of the way to a file takes the place of the directory   *)
(* that was listed.                                                        *)
LEMMA BuildStepKeeps ==
  ASSUME IInv, TreeRooted, BuildStep
  PROVE  IInv'
<1>0. /\ UNCHANGED <<events, unseen, pending, batch, disk, changes, pc>>
      /\ UNCHANGED <<cur, step, ver, failed, crossed>>
  BY DEF BuildStep, BuildBegins, BuildList, BuildRead, BuildCommit, BuildFails, BuildReturns,
     buildFrame, watcherVars, treeVars, notifyVars, loopVars, handlerVars
<1>1. TypeOK'
  BY BuildTypes DEF IInv
<1>2. \A f \in File : OnItsWay(f) => OnItsWay(f)'
  BY <1>0 DEF OnItsWay, Queued
<1>3. OnlyHandling' /\ HandlerTold'
  BY <1>0 DEF IInv, OnlyHandling, HandlerTold, Told, Queued
<1>4. bcur \in File \union {None} /\ builds \in Nat /\ rows \in [File -> Nat]
  BY VersionType DEF IInv, TypeOK
<1>5. CASE BuildBegins
  <2>1. btodo = {} /\ bcur = None
    BY <1>5 DEF BuildBegins, IInv, BuildExact
  <2>2. NoChangeLost' /\ BuilderTold'
    BY <1>0, <1>2, <1>5, <2>1 DEF BuildBegins, IInv, NoChangeLost, BuilderTold
  <2>3. VersionsGrow' /\ BuildExact'
    <3>1. \A f \in File : Root \in Path[Parent[f]]
      BY TreeAssumption, OneTree
    <3> QED
      BY <1>0, <1>4, <1>5, <2>1, <3>1 DEF BuildBegins, VersionsGrow, BuildExact, Buildable
  <2> QED
    BY <1>1, <1>3, <2>2, <2>3 DEF IInv
<1>9. ASSUME NEW d \in Dir, BuildList(d)
      PROVE  IInv'
  <2>0. /\ bcur' = bcur /\ bcur = None /\ btodo' = (btodo \ {d}) \union (Entries(d) \ Skipped)
        /\ UNCHANGED <<rows, bpc, bver, builds, quiet>> /\ bpc = "building"
    BY <1>9 DEF BuildList
  <2>1. NoChangeLost' /\ BuilderTold' /\ VersionsGrow'
    BY <1>0, <1>2, <2>0 DEF IInv, NoChangeLost, BuilderTold, VersionsGrow
  <2>2. ASSUME NEW f \in File, Buildable(f),
               ({f} \union Path[Parent[f]]) \intersect (btodo \union {bcur}) # {}
        PROVE  ({f} \union Path[Parent[f]]) \intersect btodo' # {}
    <3>1. /\ Parent[f] \in dirs /\ dirs \subseteq Dir /\ None \notin Dir \union File
          /\ f \notin Dir
      BY <2>2, TreeAssumption DEF TreeRooted, Buildable, IInv, TypeOK, WatcherTypeOK
    <3>2. Path[Parent[f]] \subseteq dirs /\ Parent[f] \in Path[Parent[f]]
      BY <3>1, PathExists, PathFacts
    <3>3. PICK a \in ({f} \union Path[Parent[f]]) : a \in btodo
      BY <2>0, <2>2, <3>1, <3>2
    <3>4. CASE a # d
      BY <2>0, <3>3, <3>4
    <3>5. CASE a = d /\ d = Parent[f]
      <4>1. f \in Entries(d) \ Skipped
        BY <2>2, <3>1, <3>5, TreeAssumption DEF Entries, Buildable
      <4> QED
        BY <2>0, <4>1
    <3>6. CASE a = d /\ d # Parent[f]
      <4>1. d \in Path[Parent[f]]
        BY <3>1, <3>3, <3>6
      <4>2. PICK b \in Path[Parent[f]] \ {Root} : Parent[b] = d
        BY <3>1, <3>6, <4>1, PathHasChild
      <4>3. b \in Entries(d) \ Skipped
        BY <2>2, <3>2, <4>2 DEF Entries, Buildable, Hidden
      <4> QED
        BY <2>0, <4>2, <4>3
    <3> QED
      BY <3>4, <3>5, <3>6
  <2>3. BuildExact'
    BY <1>0, <2>0, <2>2 DEF IInv, BuildExact, Buildable
  <2> QED
    BY <1>1, <1>3, <2>1, <2>3 DEF IInv
<1>6. ASSUME NEW f \in File, BuildRead(f)
      PROVE  IInv'
  <2>1. NoChangeLost' /\ BuilderTold'
    BY <1>0, <1>2, <1>6 DEF BuildRead, IInv, NoChangeLost, BuilderTold
  <2>2. VersionsGrow'
    BY <1>6 DEF BuildRead, IInv, VersionsGrow
  <2>3. /\ bpc' = "building" /\ bcur' = f /\ bver' = disk[f] /\ btodo' = btodo \ {f}
        /\ bcur = None /\ UNCHANGED <<rows, quiet>> /\ bpc = "building"
    BY <1>6 DEF BuildRead
  <2>4. None \notin File
    BY TreeAssumption
  <2>5. f \notin Dir /\ \A g \in File : Path[Parent[g]] \subseteq Dir
    BY TreeAssumption, PathFacts
  <2>6. BuildExact'
    <3> SUFFICES ASSUME quiet, NEW g \in File, Buildable(g), rows[g] # disk[g]
                 PROVE  ({g} \union Path[Parent[g]]) \intersect (btodo' \union {f}) # {}
      BY <1>0, <2>3 DEF BuildExact, Buildable
    <3>1. PICK a \in {g} \union Path[Parent[g]] : a \in btodo \union {bcur}
      BY <2>3 DEF IInv, BuildExact
    <3>2. a # None
      BY <2>4, <2>5, TreeAssumption
    <3> QED
      BY <2>3, <3>1, <3>2
  <2> QED
    BY <1>1, <1>3, <2>1, <2>2, <2>6 DEF IInv
<1>7. CASE BuildCommit
  <2>1. bcur \in File /\ rows'[bcur] = bver /\ \A f \in File : f # bcur => rows'[f] = rows[f]
    BY <1>4, <1>7 DEF BuildCommit
  <2>2. bcur' = None /\ bpc # "idle" /\ UNCHANGED <<bpc, btodo, bver, builds, quiet>>
    BY <1>7 DEF BuildCommit, IInv, BuildExact
  <2>3. NoChangeLost'
    <3> SUFFICES ASSUME pc # "stopped", NEW f \in File, rows'[f] # disk[f]
                 PROVE  OnItsWay(f) \/ f \in unseen \union failed \union crossed
      BY <1>0, <1>2 DEF NoChangeLost
    <3>1. CASE f = bcur
      BY <1>7, <2>1, <3>1 DEF BuildCommit, IInv, BuilderTold
    <3>2. CASE f # bcur
      BY <2>1, <3>2 DEF IInv, NoChangeLost
    <3> QED
      BY <3>1, <3>2
  <2>4. BuilderTold' /\ VersionsGrow'
    BY <2>2 DEF IInv, BuilderTold, VersionsGrow
  <2>5. BuildExact'
    <3>1. bcur \notin Dir /\ \A g \in File : Path[Parent[g]] \subseteq Dir
      BY <2>1, TreeAssumption, PathFacts
    <3> QED
      BY <1>0, <2>1, <2>2, <3>1 DEF IInv, BuildExact, Buildable
  <2> QED
    BY <1>1, <1>3, <2>3, <2>4, <2>5 DEF IInv
<1>8. CASE BuildFails \/ BuildReturns
  <2>1. NoChangeLost' /\ BuilderTold'
    BY <1>0, <1>2, <1>8 DEF BuildFails, BuildReturns, IInv, NoChangeLost, BuilderTold
  <2>2. VersionsGrow' /\ BuildExact'
    BY <1>0, <1>8 DEF BuildFails, BuildReturns, IInv, VersionsGrow, BuildExact
  <2> QED
    BY <1>1, <1>3, <2>1, <2>2 DEF IInv
<1> QED
  BY <1>5, <1>6, <1>7, <1>8, <1>9 DEF BuildStep

-----------------------------------------------------------------------------
LEMMA InitIInv == Init => IInv
<1> SUFFICES ASSUME Init PROVE IInv
  OBVIOUS
<1>1. TypeOK
  BY InitTypes
<1>2. OnlyHandling /\ HandlerTold /\ BuilderTold /\ BuildExact
  BY DEF Init, WatcherInit, OnlyHandling, HandlerTold, BuilderTold, BuildExact
<1>3. NoChangeLost
  BY DEF Init, NoChangeLost
<1>4. VersionsGrow
  BY DEF Init, WatcherInit, VersionsGrow
<1> QED
  BY <1>1, <1>2, <1>3, <1>4 DEF IInv

LEMMA Step ==
  ASSUME IInv, TreeRooted, [Next]_vars
  PROVE  IInv'
<1>1. CASE UNCHANGED vars
  <2>1. TypeOK'
    BY <1>1, TypesKept DEF IInv
  <2> QED
    BY <1>1, <2>1 DEF IInv, OnlyHandling, NoChangeLost, HandlerTold, BuilderTold,
       VersionsGrow, BuildExact, Buildable, OnItsWay, Told, Queued, vars, watcherVars,
       treeVars, notifyVars, loopVars, handlerVars, buildVars
<1>2. CASE HandlerStep
  BY <1>2, SkipOrStat, UpdateStep, HandleReadStep, FailStep, ReturnStep DEF HandlerStep
<1> QED
  BY <1>1, <1>2, TreeStep, RunStepKeeps, BuildStepKeeps DEF Next

LEMMA RootedInvariant == Spec => [](IInv /\ TreeRooted)
<1>1. IInv /\ TreeRooted /\ [Next]_vars => IInv' /\ TreeRooted'
  BY Step, RootedStep DEF IInv
<1> QED
  BY InitIInv, InitRooted, <1>1, PTL DEF Spec

(* The invariant from which the properties below follow.                   *)
THEOREM LiveInvariant == Spec => []IInv
BY RootedInvariant, PTL

(* Every variable of the watcher, of ChangeHandler and of BuildAll keeps   *)
(* its type; the queue never holds more than the kernel keeps.             *)
THEOREM TypeCorrect == Spec => []TypeOK
<1>1. IInv => TypeOK
  BY DEF IInv
<1> QED
  BY LiveInvariant, <1>1, PTL

(* While Run runs a row is wrong only as long as the change is on its way, *)
(* unless fsnotify did not report it, the update failed or BuildAll        *)
(* overtook it.                                                            *)
THEOREM NoChangeLostTheorem == Spec => []NoChangeLost
<1>1. IInv => NoChangeLost
  BY DEF IInv
<1> QED
  BY LiveInvariant, <1>1, PTL

LEMMA RowsStep ==
  ASSUME IInv, [Next]_vars, builds = 0, NEW f \in File
  PROVE  /\ rows'[f] # 0 => rows'[f] >= rows[f]
         /\ rows[f] # 0 /\ rows[f] = disk[f] /\ disk'[f] = disk[f] => rows'[f] = rows[f]
<1>0. /\ rows \in [File -> Nat] /\ disk \in [File -> Nat] /\ ver \in Nat
      /\ cur \in File \union {None} /\ bcur = None
  BY VersionType DEF IInv, TypeOK, WatcherTypeOK, VersionsGrow, BuildExact
<1>1. CASE UNCHANGED rows
  BY <1>0, <1>1
<1>2. CASE HandleDelete
  BY <1>0, <1>2 DEF HandleDelete, IInv, VersionsGrow
<1>3. CASE HandleCommit
  BY <1>0, <1>3 DEF HandleCommit, IInv, VersionsGrow
<1> QED
  BY <1>0, <1>1, <1>2, <1>3 DEF Next, Environment, WatcherRuns, HandlerStep, SkipName,
     Stat, HandleRead, ReadFails, HandleFails, HandlerReturns, BuildStep, BuildBegins,
     BuildList, BuildRead, BuildCommit, BuildFails, BuildReturns, vars, handlerVars

(* Alone, ChangeHandler never takes the table back.                        *)
THEOREM RowsTheorem == Spec => RowsNeverGoBack
<1>1. IInv /\ [Next]_vars =>
        [builds = 0 => \A f \in File :
           /\ rows'[f] # 0 => rows'[f] >= rows[f]
           /\ rows[f] # 0 /\ rows[f] = disk[f] /\ disk'[f] = disk[f] => rows'[f] = rows[f]]_vars
  BY RowsStep
<1> QED
  BY LiveInvariant, <1>1, PTL DEF Spec, RowsNeverGoBack

(* A BuildAll that succeeds undisturbed has indexed every file it could    *)
(* find, whatever was in the table.                                        *)
THEOREM BuildTheorem == Spec => BuildIndexesTree
<1>1. IInv => [BuildSucceeds /\ quiet => \A f \in File : Buildable(f) => rows[f] = disk[f]]_vars
  <2> SUFFICES ASSUME IInv, BuildSucceeds, quiet, NEW f \in File, Buildable(f)
               PROVE  rows[f] = disk[f]
    OBVIOUS
  <2>1. None \notin {f} \union Path[Parent[f]]
    BY PathFacts, TreeAssumption
  <2> QED
    BY <2>1 DEF IInv, BuildExact, BuildSucceeds
<1> QED
  BY LiveInvariant, <1>1, PTL DEF BuildIndexesTree

-----------------------------------------------------------------------------
(* The directories under watch                                             *)

(* No directory is inside of itself.                                       *)
LEMMA NoCycles ==
  ASSUME NEW d \in Dir \ {Root}
  PROVE  d \notin Path[Parent[d]]
<1> SUFFICES ASSUME d \in Path[Parent[d]]
             PROVE  FALSE
  OBVIOUS
<1> DEFINE Cycle == {a \in Path[d] : d \in Path[a]}
<1>1. ASSUME NEW a \in Cycle \ {Root}
      PROVE  Parent[a] \in Cycle
  <2>1. a \in Dir /\ Parent[a] \in Path[d] /\ Parent[a] \in Dir
    BY PathFacts, PathOfParent DEF ClosedUpward
  <2>2. CASE a = d
    BY <2>1, <2>2
  <2>3. CASE a # d
    <3>1. ClosedUpward({a} \union Path[Parent[a]])
      BY <2>1, PathFacts DEF ClosedUpward
    <3>2. Path[a] \subseteq {a} \union Path[Parent[a]]
      <4>1. {a} \union Path[Parent[a]] \in SUBSET Dir
        BY <2>1, PathFacts
      <4> QED
        BY <2>1, <3>1, <4>1, PathFacts
    <3> QED
      BY <2>1, <2>3, <3>2
  <2> QED
    BY <2>2, <2>3
<1>2. Cycle \in SUBSET Dir /\ d \in Cycle /\ ClosedUpward(Cycle)
  BY <1>1, PathFacts DEF ClosedUpward
<1>3. Root \in Cycle
  <2> HIDE DEF Cycle
  <2>1. Path[d] \subseteq Cycle
    BY <1>2, PathFacts
  <2> QED
    BY <2>1, OneTree
<1>4. ClosedUpward({Root}) /\ {Root} \in SUBSET Dir
  BY TreeAssumption DEF ClosedUpward
<1>5. Path[Root] \subseteq {Root}
  BY <1>4, PathFacts, TreeAssumption
<1> QED
  BY <1>3, <1>5

(* A directory is watched, or one it is inside of is yet to be visited, to *)
(* be reported, or to be read.                                             *)
Comes(d) ==
  \E a \in Path[d] : a \in todo \/ CreatedInQueue(a) \/ (a # Root /\ Parent[a] = entered)

(* A walk visits where it began first, and then only what is in there.     *)
TopFirst ==
  /\ pc = "start" => top = Root /\ (Root \in todo \/ Root \in watched)
  /\ top \in todo => todo = {top} /\ entered = None
  /\ entered # None => top \in Path[entered]
  /\ \A d \in todo : top \in Path[d]
  /\ ~ Walking /\ pc # "stopped" => todo = {} /\ entered = None

(* Nothing is reported of the root itself, and no later walk begins there. *)
BelowRoot ==
  /\ \A i \in DOMAIN events : events[i].name # Root
  /\ pc = "walk" => top # Root

WatchInv ==
  pc # "stopped" /\ ~ addFailed /\ ~ overflow =>
    /\ Running => Root \in watched
    /\ \A d \in dirs \ watched : ~ Hidden(d) => Comes(d)

DirsInv == TopFirst /\ BelowRoot /\ WatchInv

(* What an emitted event leaves in the queue.                              *)
LEMMA EmitKeeps ==
  ASSUME WatcherTypeOK, NEW n \in Name, NEW op \in {"create", "write", "remove"}, Emit(op, n)
  PROVE  /\ \A a : CreatedInQueue(a) => CreatedInQueue(a)'
         /\ op = "create" /\ Parent[n] \in watched /\ ~ overflow' => CreatedInQueue(n)'
         /\ overflow => overflow'
         /\ \A i \in DOMAIN events' : events'[i].name = n \/ (i \in DOMAIN events /\ events'[i] = events[i])
<1> DEFINE e == [op |-> op, name |-> n]
<1>1. e \in Event /\ events \in Seq(Event)
  BY DEF Event, WatcherTypeOK
<1>2. CASE Seen(n)
  <2>1. events' = Append(events, e)
    BY <1>2 DEF Emit
  <2>2. /\ Len(events) + 1 \in DOMAIN events' /\ events'[Len(events) + 1] = e
        /\ \A i \in DOMAIN events : i \in DOMAIN events' /\ events'[i] = events[i]
        /\ \A i \in DOMAIN events' : i # Len(events) + 1 => i \in DOMAIN events
    BY <1>1, <2>1
  <2>3. \A a : CreatedInQueue(a) => CreatedInQueue(a)'
    BY <2>2 DEF CreatedInQueue
  <2>4. op = "create" => CreatedInQueue(n)'
    BY <2>2 DEF CreatedInQueue
  <2>5. \A i \in DOMAIN events' : events'[i].name = n \/ (i \in DOMAIN events /\ events'[i] = events[i])
    BY <2>2
  <2> QED
    BY <2>3, <2>4, <2>5 DEF Emit
<1>3. CASE ~ Seen(n)
  <2>1. events' = events /\ Len(events) \in Nat
    BY <1>1, <1>3 DEF Emit
  <2>2. Parent[n] \in watched => overflow'
    <3>1. Parent[n] \in watched => Len(events) >= QueueSize
      BY <1>3, <2>1, TreeAssumption DEF Seen
    <3> QED
      BY <3>1 DEF Emit
  <2> QED
    BY <2>1, <2>2 DEF CreatedInQueue, Emit
<1> QED
  BY <1>2, <1>3

(* The tree changes.  A directory that is made is reported, or the one it  *)
(* is made in is itself still to come.                                     *)
LEMMA TreeKeepsDirs ==
  ASSUME TypeOK, DirsInv, Environment
  PROVE  DirsInv'
<1>0. WatcherTypeOK /\ dirs \subseteq Dir
  BY DEF TypeOK, WatcherTypeOK
<1>1. /\ UNCHANGED <<pc, walkVars>>
      /\ \E n \in Name \ {Root}, op \in {"create", "write", "remove"} :
           /\ Emit(op, n)
           /\ \/ UNCHANGED <<dirs, watched>>
              \/ /\ op = "create" /\ n \in Dir \ {Root} /\ Parent[n] \in dirs
                 /\ dirs' = dirs \union {n} /\ watched' = watched
              \/ /\ n \in dirs \ {Root} /\ \A d \in dirs \ {Root} : Parent[d] # n
                 /\ dirs' = dirs \ {n} /\ watched' = watched \ {n}
  <2>1. ASSUME NEW f \in File, WriteFile(f) \/ RemoveFile(f)
        PROVE  <1>1!:
    <3>1. f \in Name \ {Root} /\ \E op \in {"create", "write", "remove"} : Emit(op, f)
      BY <2>1, TreeAssumption DEF WriteFile, RemoveFile, Name
    <3> QED
      BY <2>1, <3>1 DEF WriteFile, RemoveFile
  <2>2. ASSUME NEW d \in Dir \ {Root}, MakeDir(d)
        PROVE  <1>1!:
    BY <2>2 DEF MakeDir, Name
  <2>3. ASSUME NEW d \in Dir \ {Root}, RemoveDir(d)
        PROVE  <1>1!:
    <3>1. d \in Name \ {Root} /\ Emit("remove", d)
      BY <2>3 DEF RemoveDir, Name
    <3> QED
      BY <2>3, <3>1 DEF RemoveDir, Entries
  <2> QED
    BY <2>1, <2>2, <2>3 DEF Environment, TreeChanges
<1>2. PICK n \in Name \ {Root}, op \in {"create", "write", "remove"} :
        /\ Emit(op, n)
        /\ \/ UNCHANGED <<dirs, watched>>
           \/ /\ op = "create" /\ n \in Dir \ {Root} /\ Parent[n] \in dirs
              /\ dirs' = dirs \union {n} /\ watched' = watched
           \/ /\ n \in dirs \ {Root} /\ \A d \in dirs \ {Root} : Parent[d] # n
              /\ dirs' = dirs \ {n} /\ watched' = watched \ {n}
  BY <1>1
<1>3. /\ \A a : CreatedInQueue(a) => CreatedInQueue(a)'
      /\ op = "create" /\ Parent[n] \in watched /\ ~ overflow' => CreatedInQueue(n)'
      /\ overflow => overflow'
      /\ \A i \in DOMAIN events' : events'[i].name = n \/ (i \in DOMAIN events /\ events'[i] = events[i])
  BY <1>0, <1>2, EmitKeeps
<1>5. TopFirst'
  BY <1>1, <1>2 DEF DirsInv, TopFirst, Walking, walkVars
<1>8. BelowRoot'
  BY <1>1, <1>2, <1>3 DEF DirsInv, BelowRoot, walkVars
<1>6. \A d \in Dir : Comes(d) => Comes(d)'
  BY <1>1, <1>3 DEF Comes, walkVars
<1>7. WatchInv'
  <2> SUFFICES ASSUME pc # "stopped", ~ addFailed, ~ overflow'
               PROVE  /\ Running => Root \in watched'
                      /\ \A d \in dirs' \ watched' : ~ Hidden(d) => Comes(d)'
    BY <1>1 DEF WatchInv, Running, walkVars
  <2>1. /\ Running => Root \in watched
        /\ \A d \in dirs \ watched : ~ Hidden(d) => Comes(d)
    BY <1>3 DEF DirsInv, WatchInv
  <2>2. Running => Root \in watched'
    BY <1>2, <2>1
  <2>3. ASSUME NEW d \in dirs' \ watched', ~ Hidden(d)
        PROVE  Comes(d)'
    <3>1. CASE d \in dirs
      BY <1>0, <1>2, <1>6, <2>1, <2>3, <3>1
    <3>2. CASE d \notin dirs
      <4>1. op = "create" /\ n = d /\ d \in Dir \ {Root} /\ Parent[d] \in dirs
        BY <1>2, <2>3, <3>2
      <4>2. CASE Parent[d] \in watched
        BY <1>3, <4>1, <4>2, PathFacts DEF Comes
      <4>3. CASE Parent[d] \notin watched
        <5>1. Parent[d] \in Dir /\ Path[Parent[d]] \subseteq Path[d]
          BY <4>1, PathOfParent
        <5>2. Comes(Parent[d])
          BY <2>1, <2>3, <4>1, <4>3, <5>1 DEF Hidden
        <5> QED
          BY <1>6, <5>1, <5>2 DEF Comes
      <4> QED
        BY <4>2, <4>3
    <3> QED
      BY <3>1, <3>2
  <2> QED
    BY <2>2, <2>3
<1> QED
  BY <1>5, <1>7, <1>8 DEF DirsInv

(* A walk goes on, and what it leaves behind is watched, hidden, or inside *)
(* of what it has yet to visit or to list.                                 *)
LEMMA WalkKeepsDirs ==
  ASSUME TypeOK, TreeRooted, DirsInv, NEW d \in Dir, SkipDir(d) \/ AddDir(d) \/ AddFails(d)
  PROVE  DirsInv'
<1>0. WatcherTypeOK /\ dirs \subseteq Dir /\ None \notin Dir
  BY TreeAssumption DEF TypeOK, WatcherTypeOK
<1>1. d \in todo /\ dirs' = dirs /\ Walking /\ entered = None /\ top' = top
  BY DEF SkipDir, AddDir, AddFails, treeVars
<1>3. BelowRoot'
  BY DEF SkipDir, AddDir, AddFails, StopWatching, notifyVars, DirsInv, BelowRoot
<1>4. TopFirst'
  BY <1>0, <1>1 DEF SkipDir, AddDir, AddFails, StopWatching, notifyVars, DirsInv, TopFirst, Walking
<1>5. CASE SkipDir(d)
  <2>1. \A x \in Dir : Comes(x) /\ ~ Hidden(x) => Comes(x)'
    BY <1>0, <1>5 DEF SkipDir, Comes, CreatedInQueue, Hidden, notifyVars
  <2>2. WatchInv'
    BY <1>0, <1>5, <2>1 DEF SkipDir, DirsInv, WatchInv, Running, notifyVars, treeVars
  <2> QED
    BY <1>3, <1>4, <2>2 DEF DirsInv
<1>6. CASE AddDir(d)
  <2>1. ASSUME NEW x \in Dir, Comes(x), x # d
        PROVE  Comes(x)'
    <3>1. PICK a \in Path[x] : a \in todo \/ CreatedInQueue(a)
      BY <1>0, <1>1, <2>1, PathFacts, TreeAssumption DEF Comes
    <3>2. CASE a = d
      <4>1. PICK b \in Path[x] \ {Root} : Parent[b] = d
        BY <2>1, <3>2, PathHasChild
      <4> QED
        BY <1>6, <4>1 DEF Comes, AddDir
    <3>3. CASE a # d
      BY <1>6, <3>1, <3>3 DEF Comes, AddDir, CreatedInQueue
    <3> QED
      BY <3>2, <3>3
  <2>2. WatchInv'
    BY <1>0, <1>6, <2>1 DEF AddDir, DirsInv, WatchInv, Running, treeVars
  <2> QED
    BY <1>3, <1>4, <2>2 DEF DirsInv
<1>7. CASE AddFails(d)
  <2>1. WatchInv'
    <3> SUFFICES ASSUME pc' # "stopped", ~ addFailed', ~ overflow'
                 PROVE  /\ Running' => Root \in watched'
                        /\ \A x \in dirs' \ watched' : ~ Hidden(x) => Comes(x)'
      BY DEF WatchInv
    <3>1. /\ pc = "walk" /\ d \notin dirs /\ d = top /\ ~ addFailed
          /\ UNCHANGED notifyVars
      BY <1>0, <1>7 DEF AddFails, StopWatching, WatcherTypeOK
    <3>2. todo = {d}
      BY <1>1, <3>1 DEF DirsInv, TopFirst
    <3>3. Root \in watched' /\ \A x \in dirs \ watched : ~ Hidden(x) => Comes(x)
      BY <3>1 DEF DirsInv, WatchInv, Running, notifyVars
    <3>4. ASSUME NEW x \in dirs \ watched, ~ Hidden(x)
          PROVE  Comes(x)'
      <4>1. Path[x] \subseteq dirs
        BY <1>0, PathExists
      <4>2. PICK a \in Path[x] : CreatedInQueue(a)
        BY <1>0, <1>1, <3>1, <3>2, <3>3, <3>4, <4>1, TreeAssumption DEF Comes
      <4> QED
        BY <3>1, <4>2 DEF Comes, CreatedInQueue, notifyVars
    <3> QED
      BY <1>1, <3>1, <3>3, <3>4 DEF notifyVars
  <2> QED
    BY <1>3, <1>4, <2>1 DEF DirsInv
<1> QED
  BY <1>5, <1>6, <1>7

(* Listing a directory visits what there is in it.                         *)
LEMMA ReadKeepsDirs ==
  ASSUME TypeOK, TreeRooted, DirsInv, ReadEntries
  PROVE  DirsInv'
<1>0. WatcherTypeOK /\ dirs \subseteq Dir /\ None \notin Dir /\ entered \in Dir
  BY TreeAssumption DEF TypeOK, WatcherTypeOK, ReadEntries
<1> DEFINE Inside == {c \in dirs \ {Root} : Parent[c] = entered}
<1>1. /\ todo' = todo \union Inside /\ entered' = None /\ Walking /\ entered # None
      /\ UNCHANGED <<treeVars, notifyVars, pc, top, addFailed>>
  BY <1>0, TreeAssumption DEF ReadEntries, Entries
<1>3. BelowRoot'
  BY <1>1 DEF notifyVars, DirsInv, BelowRoot
<1>4. TopFirst'
  <2>1. top \notin todo /\ top \in Path[entered] /\ \A c \in todo : top \in Path[c]
    BY <1>1 DEF DirsInv, TopFirst
  <2>2. ASSUME NEW c \in Inside
        PROVE  c # top /\ top \in Path[c]
    <3>1. c \in Dir \ {Root} /\ Parent[c] = entered
      BY <1>0
    <3> QED
      BY <2>1, <3>1, PathOfParent, NoCycles
  <2>3. top \notin todo' /\ \A c \in todo' : top \in Path[c]
    BY <1>1, <2>1, <2>2
  <2> QED
    BY <1>1, <2>3 DEF DirsInv, TopFirst, notifyVars, Walking
<1>5. \A x \in dirs : Comes(x) => Comes(x)'
  <2> SUFFICES ASSUME NEW x \in dirs, NEW a \in Path[x],
                      a \in todo \/ CreatedInQueue(a) \/ (a # Root /\ Parent[a] = entered)
               PROVE  a \in todo' \/ CreatedInQueue(a)'
    BY <1>1 DEF Comes
  <2>1. a \in dirs
    BY <1>0, PathExists
  <2> QED
    BY <1>1, <2>1 DEF CreatedInQueue, notifyVars
<1>6. WatchInv'
  BY <1>1, <1>5 DEF DirsInv, WatchInv, Running, notifyVars, treeVars
<1> QED
  BY <1>3, <1>4, <1>6 DEF DirsInv

(* An event that is taken from the queue is walked, or was not of a        *)
(* directory that still exists.                                            *)
LEMMA TakeKeepsDirs ==
  ASSUME TypeOK, TreeRooted, DirsInv, WatchNewDir \/ Record \/ Ignore
  PROVE  DirsInv'
<1>0. WatcherTypeOK /\ dirs \subseteq Dir /\ None \notin Dir /\ todo = {} /\ entered = None
  BY TreeAssumption DEF TypeOK, WatcherTypeOK, WatchNewDir, Record, Ignore, DirsInv, TopFirst, Walking
<1>1. /\ pc = "select" /\ events # <<>> /\ events' = Tail(events) /\ entered' = entered
      /\ UNCHANGED <<treeVars, watched, overflow, addFailed>>
  BY DEF WatchNewDir, Record, Ignore, walkVars
<1>2. /\ events \in Seq(Event) /\ Head(events) = events[1] /\ 1 \in DOMAIN events
      /\ \A i \in DOMAIN events' : i + 1 \in DOMAIN events /\ events'[i] = events[i + 1]
      /\ \A i \in DOMAIN events : i # 1 => i - 1 \in DOMAIN events' /\ events'[i - 1] = events[i]
  BY <1>0, <1>1 DEF WatcherTypeOK
<1>4. BelowRoot'
  <2>1. \A i \in DOMAIN events' : events'[i].name # Root
    BY <1>2 DEF DirsInv, BelowRoot
  <2>2. events[1].name # Root
    BY <1>2 DEF DirsInv, BelowRoot
  <2> QED
    BY <1>2, <2>1, <2>2 DEF WatchNewDir, Record, Ignore, BelowRoot
<1>5. TopFirst'
  <2>1. CASE WatchNewDir
    <3>1. top' \in Dir
      BY <1>0, <1>2, <2>1 DEF WatchNewDir, NewDir
    <3> QED
      BY <1>0, <2>1, <3>1, PathFacts DEF WatchNewDir, TopFirst, Walking
  <2>2. CASE Record \/ Ignore
    BY <1>0, <2>2 DEF Record, Ignore, walkVars, TopFirst, Walking
  <2> QED
    BY <2>1, <2>2
<1>6. \A x \in dirs : Comes(x) => Comes(x)'
  <2> SUFFICES ASSUME NEW x \in dirs, NEW a \in Path[x], CreatedInQueue(a)
               PROVE  a \in todo' \/ CreatedInQueue(a)'
    BY <1>0, PathFacts, TreeAssumption DEF Comes
  <2>1. a \in dirs
    BY <1>0, PathExists
  <2>2. PICK i \in DOMAIN events : events[i] = [op |-> "create", name |-> a]
    BY DEF CreatedInQueue
  <2>3. CASE i = 1
    BY <1>2, <2>1, <2>2, <2>3 DEF WatchNewDir, Record, Ignore, NewDir
  <2>4. CASE i # 1
    BY <1>2, <2>2, <2>4 DEF CreatedInQueue
  <2> QED
    BY <2>3, <2>4
<1>7. WatchInv'
  BY <1>1, <1>6 DEF DirsInv, WatchInv, Running, treeVars
<1> QED
  BY <1>4, <1>5, <1>7 DEF DirsInv

LEMMA RunKeepsDirs ==
  ASSUME TypeOK, TreeRooted, DirsInv, RunStep
  PROVE  DirsInv'
<1>1. ASSUME NEW d \in Dir, SkipDir(d) \/ AddDir(d) \/ AddFails(d)
      PROVE  DirsInv'
  BY <1>1, WalkKeepsDirs
<1>2. CASE WalkEnds
  <2>1. /\ entered = None /\ todo = {} /\ pc' = "select" /\ Walking
        /\ UNCHANGED <<treeVars, notifyVars, walkVars>>
    BY <1>2 DEF WalkEnds
  <2>2. BelowRoot' /\ TopFirst'
    BY <2>1 DEF DirsInv, BelowRoot, TopFirst, Walking, treeVars, notifyVars, walkVars
  <2>3. \A x : Comes(x) => Comes(x)'
    BY <2>1 DEF Comes, CreatedInQueue, notifyVars, walkVars
  <2>4. WatchInv'
    BY <2>1, <2>3 DEF DirsInv, TopFirst, WatchInv, Running, Walking, treeVars, notifyVars, walkVars
  <2> QED
    BY <2>2, <2>4 DEF DirsInv
<1>3. CASE Flush
  <2>1. /\ pc = "select" /\ pc' \in {"select", "handle"}
        /\ UNCHANGED <<treeVars, notifyVars, walkVars>>
    BY <1>3 DEF Flush
  <2>2. BelowRoot' /\ TopFirst'
    BY <2>1 DEF DirsInv, BelowRoot, TopFirst, Walking, treeVars, notifyVars, walkVars
  <2>3. \A x : Comes(x) => Comes(x)'
    BY <2>1 DEF Comes, CreatedInQueue, notifyVars, walkVars
  <2>4. WatchInv'
    BY <2>1, <2>3 DEF DirsInv, WatchInv, Running, treeVars, notifyVars, walkVars
  <2> QED
    BY <2>2, <2>4 DEF DirsInv
<1>4. CASE Fail \/ Cancel
  BY <1>4 DEF Fail, Cancel, StopWatching, treeVars, walkVars, DirsInv,
     BelowRoot, TopFirst, Walking, WatchInv
<1> QED
  BY <1>1, <1>2, <1>3, <1>4, ReadKeepsDirs, TakeKeepsDirs DEF RunStep

(* ChangeHandler and BuildAll leave the watch alone.                       *)
LEMMA OthersKeepDirs ==
  ASSUME DirsInv, UNCHANGED <<treeVars, notifyVars, walkVars>>,
         pc' = pc \/ (pc = "handle" /\ pc' = "select")
  PROVE  DirsInv'
<1>1. BelowRoot' /\ TopFirst'
  BY DEF DirsInv, BelowRoot, TopFirst, Walking, treeVars, notifyVars, walkVars
<1>2. \A x : Comes(x) => Comes(x)'
  BY DEF Comes, CreatedInQueue, notifyVars, walkVars
<1>3. WatchInv'
  BY <1>2 DEF DirsInv, WatchInv, Running, treeVars, notifyVars, walkVars
<1> QED
  BY <1>1, <1>3 DEF DirsInv

LEMMA DirsStep ==
  ASSUME TypeOK, TreeRooted, DirsInv, [Next]_vars
  PROVE  DirsInv'
<1>1. CASE WatcherRuns
  BY <1>1, RunKeepsDirs DEF WatcherRuns
<1>2. CASE HandlerStep
  <2>1. /\ UNCHANGED <<treeVars, notifyVars, walkVars>>
        /\ pc' = pc \/ (pc = "handle" /\ pc' = "select")
    BY <1>2 DEF HandlerStep, SkipName, Stat, HandleDelete, HandleRead, HandleCommit, ReadFails,
       HandleFails, HandlerReturns, Handling, handlerFrame
  <2> QED
    BY <2>1, OthersKeepDirs
<1>3. CASE BuildStep \/ UNCHANGED vars
  <2>1. UNCHANGED <<treeVars, notifyVars, walkVars, pc>>
    BY <1>3 DEF BuildStep, BuildBegins, BuildList, BuildRead, BuildCommit, BuildFails, BuildReturns,
       buildFrame, vars, watcherVars
  <2> QED
    BY <2>1, OthersKeepDirs
<1> QED
  BY <1>1, <1>2, <1>3, TreeKeepsDirs DEF Next

LEMMA InitDirs == Init => DirsInv
<1> SUFFICES ASSUME Init
             PROVE  DirsInv
  OBVIOUS
<1>1. /\ Root \in dirs /\ ClosedUpward(dirs) /\ dirs \subseteq Dir
      /\ events = <<>> /\ pc = "start" /\ top = Root /\ todo = {Root} /\ entered = None
  BY DEF Init, WatcherInit
<1>2. TopFirst /\ BelowRoot
  BY <1>1, PathFacts, TreeAssumption DEF TopFirst, BelowRoot, Walking
<1>3. \A d \in dirs : Comes(d)
  BY <1>1, OneTree DEF Comes
<1> QED
  BY <1>1, <1>2, <1>3 DEF DirsInv, WatchInv, Running

(* While Run runs, each directory that exists and is not hidden is watched *)
(* or will be: no directory falls between a walk and the events.           *)
THEOREM DirsTheorem == Spec => []EveryDirWatched
<1>1. TypeOK /\ DirsInv => EveryDirWatched
  <2> SUFFICES ASSUME TypeOK, DirsInv, Running, ~ addFailed, ~ overflow,
                      NEW d \in dirs \ watched, d # Root, ~ Hidden(d)
               PROVE  \E a \in Path[d] \ {Root} :
                        a \in todo \/ CreatedInQueue(a) \/ Parent[a] = entered
    BY DEF EveryDirWatched
  <2>1. PICK a \in Path[d] : a \in todo \/ CreatedInQueue(a) \/ (a # Root /\ Parent[a] = entered)
    BY DEF DirsInv, WatchInv, Running, Comes
  <2>2. CASE a = Root
    <3>1. ~ CreatedInQueue(Root)
      BY DEF DirsInv, BelowRoot, CreatedInQueue
    <3>2. Root \in todo
      BY <2>1, <2>2, <3>1
    <3>3. pc = "walk" /\ top \in Path[Root]
      BY <3>2 DEF DirsInv, TopFirst, Running, Walking
    <3>4. ClosedUpward({Root}) /\ {Root} \in SUBSET Dir /\ Root \in Dir
      BY TreeAssumption DEF ClosedUpward
    <3>5. Path[Root] \subseteq {Root}
      BY <3>4, PathFacts
    <3> QED
      BY <3>3, <3>5 DEF DirsInv, BelowRoot
  <2>3. CASE a # Root
    BY <2>1, <2>3
  <2> QED
    BY <2>2, <2>3
<1>2. IInv /\ TreeRooted /\ DirsInv /\ [Next]_vars => DirsInv'
  BY DirsStep DEF IInv
<1>3. IInv => TypeOK
  BY DEF IInv
<1> QED
  BY RootedInvariant, InitDirs, <1>1, <1>2, <1>3, PTL DEF Spec
=============================================================================
