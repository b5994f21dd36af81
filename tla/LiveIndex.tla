----------------------------- MODULE LiveIndex ------------------------------
(***************************************************************************)
(* The index kept up to date: a Watcher whose OnChange is ChangeHandler,   *)
(* and BuildAll in another goroutine.  Of the Store only the version of    *)
(* each file that the table holds is kept here; VectorStore has the rest.  *)
(***************************************************************************)
EXTENDS Watcher

CONSTANT MaxBuilds \* bound: how often BuildAll is called

ASSUME BuildsAssumption == MaxBuilds \in Nat

VARIABLES
  rows,    \* the version of each file in the table; 0 when it has no rows
  \* ChangeHandler
  cur,     \* the file it is busy with
  step,    \* what it does next with that file
  ver,     \* the version it has read
  \* BuildAll
  bpc,     \* "idle" or "building"
  btodo,   \* files and directories it has found and not dealt with yet
  bcur,    \* the file it is indexing
  bver,    \* the version it has read
  builds,  \* how often it was called
  \* history
  failed,  \* files whose last update by ChangeHandler failed
  crossed, \* files ChangeHandler last updated while BuildAll held their text
  quiet    \* nobody else changed a file or a row since BuildAll began

handlerVars == <<cur, step, ver, failed, crossed>>
buildVars == <<bpc, btodo, bcur, bver, builds>>
vars == <<watcherVars, rows, handlerVars, buildVars, quiet>>

(* What is in the table may be older than Run; no event tells of it.       *)
Init ==
  /\ WatcherInit
  /\ rows \in [File -> {0, 1}]
  /\ unseen = {f \in File : rows[f] # disk[f]}
  /\ cur = None /\ step = "stat" /\ ver = 0
  /\ bpc = "idle" /\ btodo = {} /\ bcur = None /\ bver = 0 /\ builds = 0
  /\ failed = {} /\ crossed = {} /\ quiet = FALSE

Environment ==
  /\ TreeChanges
  /\ quiet' = FALSE
  /\ UNCHANGED <<rows, handlerVars, buildVars>>

WatcherRuns == RunStep /\ UNCHANGED <<rows, handlerVars, buildVars, quiet>>

-----------------------------------------------------------------------------
(* ChangeHandler: one name of the batch after the other.                   *)

Handling == pc = "handle"

handlerFrame == <<treeVars, notifyVars, walkVars, pending, armed, buildVars>>

(* What is not a Python file is passed over.                               *)
SkipName(n) ==
  /\ Handling /\ cur = None
  /\ n \in batch \ File
  /\ batch' = batch \ {n}
  /\ UNCHANGED <<handlerFrame, pc, rows, handlerVars, quiet>>

(* Fault: every name is taken for a Python file.                           *)
StatAny(n) ==
  /\ Handling /\ cur = None
  /\ n \in batch
  /\ batch' = batch \ {n}
  /\ cur' = n
  /\ step' = IF n \in File /\ disk[n] # 0 THEN "read" ELSE "delete"
  /\ UNCHANGED <<handlerFrame, pc, rows, ver, failed, crossed, quiet>>

(* Fault: a file that is gone is not told apart.                           *)
StatIgnored(n) ==
  /\ Handling /\ cur = None
  /\ n \in batch \intersect File
  /\ batch' = batch \ {n}
  /\ cur' = n
  /\ step' = "read"
  /\ UNCHANGED <<handlerFrame, pc, rows, ver, failed, crossed, quiet>>

(* os.Stat decides whether the file is deleted or upserted.                *)
Stat(n) ==
  /\ Handling /\ cur = None
  /\ n \in batch \intersect File
  /\ batch' = batch \ {n}
  /\ cur' = n
  /\ step' = IF disk[n] = 0 THEN "delete" ELSE "read"
  /\ UNCHANGED <<handlerFrame, pc, rows, ver, failed, crossed, quiet>>

(* The row is right, unless BuildAll puts back what it read before.        *)
Updated ==
  /\ failed' = failed \ {cur}
  /\ crossed' = IF bcur = cur THEN crossed \union {cur} ELSE crossed \ {cur}

HandleDelete ==
  /\ Handling /\ cur # None /\ step = "delete"
  /\ rows' = [rows EXCEPT ![cur] = 0]
  /\ Updated
  /\ cur' = None
  /\ quiet' = FALSE
  /\ UNCHANGED <<handlerFrame, pc, batch, step, ver>>

(* Fault: the rows of the file go before the new ones are computed.        *)
ClearThenRead ==
  /\ Handling /\ cur # None /\ step = "read"
  /\ disk[cur] # 0
  /\ rows' = [rows EXCEPT ![cur] = 0]
  /\ ver' = disk[cur]
  /\ step' = "commit"
  /\ UNCHANGED <<handlerFrame, pc, batch, cur, failed, crossed, quiet>>

(* UpsertFile reads the file; it may be gone by now (see ReadFails).       *)
HandleRead ==
  /\ Handling /\ cur # None /\ step = "read"
  /\ disk[cur] # 0
  /\ ver' = disk[cur]
  /\ step' = "commit"
  /\ UNCHANGED <<handlerFrame, pc, batch, rows, cur, failed, crossed, quiet>>

HandleCommit ==
  /\ Handling /\ cur # None /\ step = "commit"
  /\ rows' = [rows EXCEPT ![cur] = ver]
  /\ Updated
  /\ cur' = None
  /\ quiet' = FALSE
  /\ UNCHANGED <<handlerFrame, pc, batch, step, ver>>

(* The file is gone: UpsertFile returns an error, which is swallowed.      *)
ReadFails ==
  /\ Handling /\ cur # None /\ step = "read"
  /\ disk[cur] = 0
  /\ cur' = None
  /\ UNCHANGED <<handlerFrame, pc, batch, rows, step, ver, failed, crossed, quiet>>

(* Any other error is swallowed too: reading, embedding, the database.     *)
HandleFails ==
  /\ Handling /\ cur # None
  /\ failed' = failed \union {cur}
  /\ cur' = None
  /\ UNCHANGED <<handlerFrame, pc, batch, rows, step, ver, crossed, quiet>>

(* OnChange returns to the loop of Run.                                    *)
HandlerReturns ==
  /\ Handling /\ cur = None /\ batch = {}
  /\ pc' = "select"
  /\ UNCHANGED <<handlerFrame, batch, rows, handlerVars, quiet>>

HandlerStep ==
  \/ \E n \in batch : SkipName(n) \/ Stat(n)
  \/ HandleDelete \/ HandleRead \/ HandleCommit
  \/ ReadFails \/ HandleFails \/ HandlerReturns

-----------------------------------------------------------------------------
(* BuildAll, with walkPython                                               *)

buildFrame == <<watcherVars, handlerVars>>

Buildable(f) == disk[f] # 0 /\ ~ Hidden(Parent[f])

BuildBegins ==
  /\ bpc = "idle" /\ builds < MaxBuilds
  /\ bpc' = "building"
  /\ builds' = builds + 1
  /\ btodo' = {Root}
  /\ quiet' = TRUE
  /\ UNCHANGED <<buildFrame, rows, bcur, bver>>

(* The walk reads a directory and passes over what has a hidden or         *)
(* vendored name in it.  A directory that is gone has nothing to read.     *)
BuildList(d) ==
  /\ bpc = "building" /\ bcur = None
  /\ d \in btodo \intersect Dir
  /\ btodo' = (btodo \ {d}) \union (Entries(d) \ Skipped)
  /\ UNCHANGED <<buildFrame, rows, bpc, bcur, bver, builds, quiet>>

(* Fault: a file the table knows is taken to be up to date.                *)
BuildReadNew(f) ==
  /\ bpc = "building" /\ bcur = None
  /\ f \in btodo
  /\ disk[f] # 0
  /\ btodo' = btodo \ {f}
  /\ bcur' = IF rows[f] = 0 THEN f ELSE None
  /\ bver' = disk[f]
  /\ UNCHANGED <<buildFrame, rows, bpc, builds, quiet>>

(* UpsertFile of one file reads it ...                                     *)
BuildRead(f) ==
  /\ bpc = "building" /\ bcur = None
  /\ f \in btodo
  /\ disk[f] # 0
  /\ btodo' = btodo \ {f}
  /\ bcur' = f
  /\ bver' = disk[f]
  /\ UNCHANGED <<buildFrame, rows, bpc, builds, quiet>>

(* ... and later replaces its rows.                                        *)
BuildCommit ==
  /\ bcur # None
  /\ rows' = [rows EXCEPT ![bcur] = bver]
  /\ bcur' = None
  /\ UNCHANGED <<buildFrame, bpc, btodo, bver, builds, quiet>>

(* Fault: the old rows are gone when the new ones cannot be written.       *)
BuildFailsCleared ==
  /\ bcur # None
  /\ rows' = [rows EXCEPT ![bcur] = 0]
  /\ bpc' = "idle" /\ btodo' = {} /\ bcur' = None
  /\ UNCHANGED <<buildFrame, bver, builds, quiet>>

(* The first error of an UpsertFile ends BuildAll.                         *)
BuildFails ==
  /\ bcur # None \/ btodo \intersect File # {}
  /\ bpc' = "idle" /\ btodo' = {} /\ bcur' = None
  /\ UNCHANGED <<buildFrame, rows, bver, builds, quiet>>

BuildReturns ==
  /\ bpc = "building" /\ bcur = None /\ btodo = {}
  /\ bpc' = "idle"
  /\ UNCHANGED <<buildFrame, rows, btodo, bcur, bver, builds, quiet>>

BuildStep ==
  \/ BuildBegins
  \/ \E d \in Dir : BuildList(d)
  \/ \E f \in File : BuildRead(f)
  \/ BuildCommit \/ BuildFails \/ BuildReturns

-----------------------------------------------------------------------------
Next == Environment \/ WatcherRuns \/ HandlerStep \/ BuildStep

Spec == Init /\ [][Next]_vars

(* Run's goroutine is never blocked by another: it waits only for events   *)
(* and the timer, and what it calls returns.  Nothing says it is cancelled *)
(* or that a call fails.                                                   *)
FairSpec == Spec /\ WF_vars(RunMoves /\ WatcherRuns) /\ WF_vars(HandlerStep)

-----------------------------------------------------------------------------
(* Properties                                                              *)

TypeOK ==
  /\ WatcherTypeOK
  /\ rows \in [File -> 0 .. MaxChanges]
  /\ cur \in File \union {None}
  /\ step \in {"stat", "delete", "read", "commit"}
  /\ ver \in 0 .. MaxChanges
  /\ bpc \in {"idle", "building"}
  /\ btodo \subseteq Name /\ bcur \in File \union {None}
  /\ bver \in 0 .. MaxChanges /\ builds \in 0 .. MaxBuilds
  /\ failed \subseteq File /\ crossed \subseteq File /\ quiet \in BOOLEAN

(* An event about the file has not been dealt with, or ChangeHandler is    *)
(* about to bring its row up to date.                                      *)
Queued(f) ==
  \/ \E i \in DOMAIN events : events[i].name = f
  \/ f \in pending \union batch

OnItsWay(f) ==
  \/ Queued(f)
  \/ cur = f /\ step = "delete" /\ disk[f] = 0
  \/ cur = f /\ step = "read" /\ disk[f] # 0
  \/ cur = f /\ step = "commit" /\ disk[f] = ver

(* While Run runs the table is wrong about a file only as long as the      *)
(* change is on its way, if fsnotify reported it and the update did not    *)
(* fail: files may change between the event and the flush, the Stat, the   *)
(* read and the commit.  Beside BuildAll a change is lost in one way only: *)
(* ChangeHandler dealt with it between BuildAll's read and its commit.     *)
NoChangeLost ==
  pc # "stopped" =>
    \A f \in File : rows[f] # disk[f] =>
      OnItsWay(f) \/ f \in unseen \union failed \union crossed

(* ChangeHandler is busy only while OnChange has not returned.             *)
OnlyHandling ==
  /\ cur # None \/ batch # {} => pc = "handle"
  /\ cur # None => step # "stat"

(* An event about the file is on its way, or fsnotify had none to give.    *)
Told(f) == Queued(f) \/ f \in unseen

(* What ChangeHandler is about to do is right, or the file has changed     *)
(* since and that is known or was not reported.                            *)
HandlerTold ==
  pc # "stopped" /\ cur # None =>
    \/ step = (IF disk[cur] = 0 THEN "delete" ELSE "read")
    \/ step = "commit" /\ ver = disk[cur]
    \/ Told(cur)

(* The same of the text that BuildAll holds, which an update of            *)
(* ChangeHandler may have overtaken.                                       *)
BuilderTold ==
  pc # "stopped" /\ bcur # None /\ bver # disk[bcur] =>
    OnItsWay(bcur) \/ bcur \in unseen \union failed \union crossed

(* Until BuildAll is called versions only grow on their way to the table.  *)
VersionsGrow ==
  builds = 0 =>
    /\ bpc = "idle" /\ ver <= changes
    /\ \A f \in File :
         /\ rows[f] <= changes /\ disk[f] <= changes
         /\ disk[f] # 0 => rows[f] <= disk[f]
    /\ cur # None /\ step = "delete" /\ disk[cur] # 0 => rows[cur] < disk[cur]
    /\ cur # None /\ step = "commit" =>
         ver # 0 /\ rows[cur] <= ver /\ (disk[cur] # 0 => ver <= disk[cur])

(* What exists is in directories that exist.                               *)
TreeRooted ==
  /\ Root \in dirs /\ ClosedUpward(dirs)
  /\ \A f \in File : disk[f] # 0 => Parent[f] \in dirs

(* Left alone BuildAll has indexed what it no longer has to do or to find. *)
BuildExact ==
  /\ bpc = "idle" => btodo = {} /\ bcur = None
  /\ bpc = "building" /\ quiet =>
       /\ bcur # None => bver = disk[bcur]
       /\ \A f \in File : Buildable(f) =>
            \/ rows[f] = disk[f]
            \/ ({f} \union Path[Parent[f]]) \intersect (btodo \union {bcur}) # {}

IInv ==
  /\ TypeOK /\ OnlyHandling /\ NoChangeLost
  /\ HandlerTold /\ BuilderTold /\ VersionsGrow /\ BuildExact

(* Alone, ChangeHandler never takes the table back: it does not replace a  *)
(* version by an older one, nor take away the rows of a file that are      *)
(* right, whatever it read or found missing before the last change.        *)
RowsNeverGoBack ==
  [][builds = 0 => \A f \in File :
       /\ rows'[f] # 0 => rows'[f] >= rows[f]
       /\ rows[f] # 0 /\ rows[f] = disk[f] /\ disk'[f] = disk[f] => rows'[f] = rows[f]]_vars

(* When the tree is left alone the table becomes what the tree is, but for *)
(* changes fsnotify did not report or updates that failed.                 *)
TableCatchesUp ==
  <>[](\/ pc = "stopped" \/ builds > 0
       \/ \A f \in File : rows[f] = disk[f] \/ f \in unseen \union failed)

BuildSucceeds == bpc = "building" /\ bcur = None /\ btodo = {} /\ bpc' = "idle"

(* A BuildAll that returns nil has brought every file it could find up to  *)
(* date, whatever was in the table, if nobody else wrote meanwhile.        *)
BuildIndexesTree ==
  [][BuildSucceeds /\ quiet => \A f \in File : Buildable(f) => rows[f] = disk[f]]_vars

(* "the next full BuildAll reconciles any missed update" (comment on       *)
(* ChangeHandler): after one that nobody interfered with, the table holds  *)
(* no stale row of a file that is or was in its reach.                     *)
BuildReconciles ==
  [][BuildSucceeds /\ quiet =>
       \A f \in File : ~ Hidden(Parent[f]) => rows[f] = disk[f]]_vars
=============================================================================
