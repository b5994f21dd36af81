------------------------------ MODULE Watcher -------------------------------
(***************************************************************************)
(* index.Watcher over a tree of directories and files: Run adds every      *)
(* directory to fsnotify, then waits for events, collects the changed      *)
(* names, and after a pause hands them to OnChange.  It is one goroutine;  *)
(* the tree changes under it at any time.  OnChange is the caller's: the  *)
(* module that extends this one says what it does with a batch.            *)
(*                                                                         *)
(* The debounce timer has no clock here: once armed it may fire at any     *)
(* time.  Removing and renaming away are one event to this code.           *)
(***************************************************************************)
EXTENDS Naturals, Sequences, FiniteSets

CONSTANTS
  Dir, Root,  \* the directories there may be, and the watched root
  File,       \* the Python files there may be
  Parent,     \* the directory each of them is in
  Skipped,    \* directories with a hidden or vendored name
  Tracked,    \* the names that Match accepts; all of them when it is nil
  QueueSize,  \* events the kernel keeps
  MaxChanges, \* bound: how often the tree changes
  None        \* no directory, no file

Name == Dir \union File

(* The set holds with a directory the one that it is in.                   *)
ClosedUpward(S) == \A d \in S \ {Root} : Parent[d] \in S

(* A directory and everything it is inside of.                             *)
Path[d \in Dir] ==
  {a \in Dir : \A S \in SUBSET Dir : d \in S /\ ClosedUpward(S) => a \in S}

ASSUME TreeAssumption ==
  /\ Root \in Dir \ Skipped
  /\ Skipped \subseteq Dir
  /\ File \subseteq Tracked /\ Tracked \subseteq Name
  /\ Dir \intersect File = {}
  /\ Parent \in [(Dir \ {Root}) \union File -> Dir]
  /\ None \notin Dir \union File
  /\ QueueSize \in Nat /\ MaxChanges \in Nat \ {0}

(* The directories are one tree.                                           *)
ASSUME OneTree == \A d \in Dir : Root \in Path[d]

VARIABLES
  \* the tree
  disk,      \* the version of each file; 0 when it does not exist
  dirs,      \* the directories that exist
  changes,   \* how often the tree has changed
  \* fsnotify
  watched,   \* the directories under watch
  events,    \* events not received yet
  overflow,  \* an event was dropped and the error is yet to be received
  \* Run
  pc,        \* "start" (first walk), "select", "walk", "handle" or "stopped"
  top,       \* the directory addRecursive was called on
  todo,      \* directories it has yet to visit
  entered,   \* the directory it has added and will list next
  pending,   \* Watcher.pending
  armed,     \* timerC is not nil
  batch,     \* what OnChange has yet to deal with
  \* history
  addFailed, \* a walk ended early
  unseen     \* files whose last change no event tells of

treeVars == <<disk, dirs, changes>>
notifyVars == <<watched, events, overflow, unseen>>
walkVars == <<top, todo, entered, addFailed>>
loopVars == <<pending, armed, batch>>
watcherVars == <<treeVars, notifyVars, pc, walkVars, loopVars>>

Hidden(d) == Path[d] \intersect Skipped # {}

-----------------------------------------------------------------------------
(* The tree                                                                *)

(* fsnotify queues an event when the directory it is in is watched.        *)
Seen(n) == Parent[n] \in watched /\ Len(events) < QueueSize

Emit(op, n) ==
  /\ events' = IF Seen(n) THEN Append(events, [op |-> op, name |-> n]) ELSE events
  /\ overflow' = (overflow \/ (Parent[n] \in watched /\ Len(events) >= QueueSize))

Entries(d) ==
  {n \in (dirs \ {Root}) \union {f \in File : disk[f] # 0} : Parent[n] = d}

Change == changes < MaxChanges /\ changes' = changes + 1

Notice(f) == unseen' = IF Seen(f) THEN unseen \ {f} ELSE unseen \union {f}

WriteFile(f) ==
  /\ Change
  /\ Parent[f] \in dirs
  /\ disk' = [disk EXCEPT ![f] = changes']
  /\ Emit(IF disk[f] = 0 THEN "create" ELSE "write", f)
  /\ Notice(f)
  /\ UNCHANGED <<dirs, watched, pc, walkVars, loopVars>>

RemoveFile(f) ==
  /\ Change
  /\ disk[f] # 0
  /\ disk' = [disk EXCEPT ![f] = 0]
  /\ Emit("remove", f)
  /\ Notice(f)
  /\ UNCHANGED <<dirs, watched, pc, walkVars, loopVars>>

MakeDir(d) ==
  /\ Change
  /\ d \notin dirs /\ Parent[d] \in dirs
  /\ dirs' = dirs \union {d}
  /\ Emit("create", d)
  /\ UNCHANGED <<disk, watched, unseen, pc, walkVars, loopVars>>

(* Only an empty directory goes, and its watch with it.                    *)
RemoveDir(d) ==
  /\ Change
  /\ d \in dirs \ {Root}
  /\ Entries(d) = {}
  /\ dirs' = dirs \ {d}
  /\ watched' = watched \ {d}
  /\ Emit("remove", d)
  /\ UNCHANGED <<disk, unseen, pc, walkVars, loopVars>>

TreeChanges ==
  \/ \E f \in File : WriteFile(f) \/ RemoveFile(f)
  \/ \E d \in Dir \ {Root} : MakeDir(d) \/ RemoveDir(d)

-----------------------------------------------------------------------------
(* addRecursive                                                            *)

Walking == pc \in {"start", "walk"}

(* Run returns and closes fsnotify.                                        *)
StopWatching ==
  /\ pc' = "stopped"
  /\ watched' = {} /\ events' = <<>> /\ overflow' = FALSE
  /\ UNCHANGED unseen

(* A hidden or vendored directory is passed over, unless the walk began    *)
(* with it.                                                                *)
SkipDir(d) ==
  /\ Walking /\ entered = None
  /\ d \in todo
  /\ d # top /\ d \in Skipped
  /\ todo' = todo \ {d}
  /\ UNCHANGED <<treeVars, notifyVars, pc, top, entered, addFailed, loopVars>>

(* Any other is added; its entries are read after that.                    *)
AddDir(d) ==
  /\ Walking /\ entered = None
  /\ d \in todo
  /\ d = top \/ d \notin Skipped
  /\ d \in dirs
  /\ watched' = watched \union {d}
  /\ entered' = d
  /\ todo' = todo \ {d}
  /\ UNCHANGED <<treeVars, events, overflow, unseen, pc, top, addFailed, loopVars>>

(* Add fails: the directory is gone, or fsnotify can take no more.  That   *)
(* ends the walk, and Run too if it was the first.  A start directory that *)
(* is gone ends the walk with no error.                                    *)
AddFails(d) ==
  /\ Walking /\ entered = None
  /\ d \in todo
  /\ d = top \/ d \notin Skipped
  /\ todo' = {}
  /\ addFailed' = (addFailed \/ d \in dirs \/ d # top)
  /\ \/ pc = "start" /\ StopWatching
     \/ pc = "walk" /\ pc' = "select" /\ UNCHANGED notifyVars
  /\ UNCHANGED <<treeVars, top, entered, loopVars>>

(* Fault: the directory is added and not what is in it.                    *)
ReadNothing ==
  /\ Walking /\ entered # None
  /\ entered' = None
  /\ UNCHANGED <<treeVars, notifyVars, pc, top, todo, addFailed, loopVars>>

ReadEntries ==
  /\ Walking /\ entered # None
  /\ todo' = todo \union (Entries(entered) \intersect Dir)
  /\ entered' = None
  /\ UNCHANGED <<treeVars, notifyVars, pc, top, addFailed, loopVars>>

WalkEnds ==
  /\ Walking /\ entered = None
  /\ todo = {}
  /\ pc' = "select"
  /\ UNCHANGED <<treeVars, notifyVars, walkVars, loopVars>>

-----------------------------------------------------------------------------
(* The loop of Run                                                         *)

NewDir(e) == e.op = "create" /\ e.name \in dirs

(* A new directory is walked.                                              *)
WatchNewDir ==
  /\ pc = "select"
  /\ events # <<>> /\ NewDir(Head(events))
  /\ events' = Tail(events)
  /\ pc' = "walk"
  /\ top' = Head(events).name
  /\ todo' = {Head(events).name}
  /\ UNCHANGED <<treeVars, watched, overflow, unseen, entered, addFailed, loopVars>>

(* Fault: the timer is not set.                                            *)
RecordUnarmed ==
  /\ pc = "select"
  /\ events # <<>> /\ ~ NewDir(Head(events))
  /\ Head(events).name \in Tracked
  /\ events' = Tail(events)
  /\ pending' = pending \union {Head(events).name}
  /\ UNCHANGED <<treeVars, watched, overflow, unseen, pc, walkVars, armed, batch>>

(* Any other event of a name to be tracked makes the name pending and sets *)
(* the timer anew.                                                         *)
Record ==
  /\ pc = "select"
  /\ events # <<>> /\ ~ NewDir(Head(events))
  /\ Head(events).name \in Tracked
  /\ events' = Tail(events)
  /\ pending' = pending \union {Head(events).name}
  /\ armed' = TRUE
  /\ UNCHANGED <<treeVars, watched, overflow, unseen, pc, walkVars, batch>>

(* Match turns the name away.                                              *)
Ignore ==
  /\ pc = "select"
  /\ events # <<>> /\ ~ NewDir(Head(events))
  /\ Head(events).name \notin Tracked
  /\ events' = Tail(events)
  /\ UNCHANGED <<treeVars, watched, overflow, unseen, pc, walkVars, loopVars>>

(* The timer fires: flush takes what is pending and calls OnChange.        *)
Flush ==
  /\ pc = "select"
  /\ armed
  /\ armed' = FALSE
  /\ batch' = pending
  /\ pending' = {}
  /\ pc' = IF pending = {} THEN "select" ELSE "handle"
  /\ UNCHANGED <<treeVars, notifyVars, walkVars>>

(* An overflow, as any other error of fsnotify, ends Run; so does ctx.     *)
Fail == pc = "select" /\ overflow /\ StopWatching
           /\ UNCHANGED <<treeVars, walkVars, loopVars>>

Cancel == pc = "select" /\ StopWatching /\ UNCHANGED <<treeVars, walkVars, loopVars>>

RunStep ==
  \/ \E d \in Dir : SkipDir(d) \/ AddDir(d) \/ AddFails(d)
  \/ ReadEntries \/ WalkEnds
  \/ WatchNewDir \/ Record \/ Ignore \/ Flush
  \/ Fail \/ Cancel

(* The steps that need no failure and no cancelled context.                *)
RunMoves ==
  \/ \E d \in Dir : SkipDir(d) \/ AddDir(d) \/ (d \notin dirs /\ AddFails(d))
  \/ ReadEntries \/ WalkEnds
  \/ WatchNewDir \/ Record \/ Ignore \/ Flush

WatcherInit ==
  /\ disk \in [File -> {0, 1}]
  /\ dirs \in {D \in SUBSET Dir : Root \in D /\ ClosedUpward(D)}
  /\ \A f \in File : disk[f] # 0 => Parent[f] \in dirs
  /\ changes = 1
  /\ watched = {} /\ events = <<>> /\ overflow = FALSE
  /\ pc = "start" /\ top = Root /\ todo = {Root} /\ entered = None
  /\ pending = {} /\ armed = FALSE /\ batch = {}
  /\ addFailed = FALSE

Event == [op : {"create", "write", "remove"}, name : Name]

WatcherTypeOK ==
  /\ disk \in [File -> 0 .. MaxChanges]
  /\ dirs \subseteq Dir /\ watched \subseteq dirs
  /\ changes \in 1 .. MaxChanges
  /\ events \in Seq(Event)
  /\ Len(events) <= QueueSize
  /\ overflow \in BOOLEAN /\ armed \in BOOLEAN /\ addFailed \in BOOLEAN
  /\ pc \in {"start", "select", "walk", "handle", "stopped"}
  /\ top \in Dir /\ todo \subseteq Dir /\ entered \in Dir \union {None}
  /\ pending \subseteq Name /\ batch \subseteq Name
  /\ unseen \subseteq File

-----------------------------------------------------------------------------
(* Properties of the watch itself                                          *)

Running == pc \in {"select", "walk", "handle"}

CreatedInQueue(d) == \E i \in DOMAIN events : events[i] = [op |-> "create", name |-> d]

(* While Run runs, every directory it should watch is watched or will be:  *)
(* one it is inside of is yet to be visited, is in an event not received,  *)
(* or is about to be listed.  No directory falls between the walk and the  *)
(* events, unless fsnotify failed.                                         *)
EveryDirWatched ==
  Running /\ ~ addFailed /\ ~ overflow =>
    \A d \in dirs \ watched : d # Root /\ ~ Hidden(d) =>
      \E a \in Path[d] \ {Root} : a \in todo \/ CreatedInQueue(a) \/ Parent[a] = entered

(* "recursively watches a root directory and reports changed files"        *)
(* (comment on Watcher): once the first walk is over, a file that changes  *)
(* outside hidden and vendored directories, and then stays as it is, comes *)
(* to OnChange in a batch, unless Run ends or fsnotify fails.              *)
ReportsChanges ==
  \A f \in File, v \in 2 .. MaxChanges :
    /\ ~ Hidden(Parent[f])
    /\ <>(Running /\ changes < v)
    /\ <>[](disk[f] = v)
    => \/ <>(f \in batch /\ disk[f] = v)
       \/ <>(pc = "stopped" \/ addFailed \/ overflow)
=============================================================================
