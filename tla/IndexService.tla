---------------------------- MODULE IndexService ----------------------------
(***************************************************************************)
(* What a client of the index is promised, with no mention of SQLite, of   *)
(* the in-memory cache or of the mutex: the committed versions of the      *)
(* index form a sequence, every search returns the version that is visible *)
(* when it is served, visibility never goes back, and a write that has     *)
(* returned is visible.  Together these say that Retrieve is linearizable  *)
(* with respect to UpsertFile and DeleteFile.                              *)
(***************************************************************************)
EXTENDS Naturals, Sequences

CONSTANTS
  Path,       \* the files
  Index,      \* the possible contents of the index
  EmptyIndex, \* the contents before the first write
  Reader,     \* concurrent searches
  NoResult    \* a search that has returned nothing

VARIABLES
  log,        \* log[v] is the v-th committed contents
  visible,    \* the version a search served now returns
  acked,      \* the newest version whose write has returned
  searching,  \* the searches under way
  result      \* what each search last returned

vars == <<log, visible, acked, searching, result>>

Init ==
  /\ log = <<EmptyIndex>>
  /\ visible = 1
  /\ acked = 1
  /\ searching = {}
  /\ result = [r \in Reader |-> NoResult]

OnOnePath(old, new) == \E p \in Path : \A q \in Path \ {p} : new[q] = old[q]

(* A write commits: it replaces the rows of one path.  It may become       *)
(* visible at once or stay behind.                                         *)
Commit ==
  /\ Len(log') = Len(log) + 1
  /\ log'[Len(log')] \in Index
  /\ log' = Append(log, log'[Len(log')])
  /\ OnOnePath(log[Len(log)], log'[Len(log')])
  /\ visible' \in {visible, Len(log')}
  /\ UNCHANGED <<acked, searching, result>>

(* A write returns to its caller: it, and all before it, are visible.      *)
Acknowledge ==
  /\ acked' \in acked .. Len(log)
  /\ visible' \in visible .. Len(log)
  /\ acked' <= visible'
  /\ UNCHANGED <<log, searching, result>>

Begin(r) ==
  /\ r \notin searching
  /\ searching' = searching \union {r}
  /\ result' = [result EXCEPT ![r] = NoResult]
  /\ UNCHANGED <<log, visible, acked>>

(* A search returns the visible version; what is visible may then advance. *)
Serve(r) ==
  /\ r \in searching
  /\ searching' = searching \ {r}
  /\ result' = [result EXCEPT ![r] = log[visible]]
  /\ visible' \in visible .. Len(log)
  /\ UNCHANGED <<log, acked>>

(* A search returns an error.                                              *)
Abandon(r) ==
  /\ r \in searching
  /\ searching' = searching \ {r}
  /\ visible' \in visible .. Len(log)
  /\ UNCHANGED <<log, acked, result>>

(* The process dies and is started again on the same database.             *)
Restart ==
  /\ visible' = Len(log)
  /\ searching' = {}
  /\ result' = [r \in Reader |-> NoResult]
  /\ UNCHANGED <<log, acked>>

Next ==
  \/ Commit
  \/ Acknowledge
  \/ Restart
  \/ \E r \in Reader : Begin(r) \/ Serve(r) \/ Abandon(r)

Spec == Init /\ [][Next]_vars

=============================================================================
