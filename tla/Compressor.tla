----------------------------- MODULE Compressor -----------------------------
(***************************************************************************)
(* One call of GuidelineCompressor.Compress (internal/compress): summarize *)
(* the oldest observations one at a time until the history fits the        *)
(* budget, then drop the oldest ones.  Each turn of either loop is one     *)
(* action.  A turn's content is the form it has (as written, a summary, or *)
(* the drop marker) and its size in tokens.                                *)
(***************************************************************************)
EXTENDS Naturals, Sequences, FiniteSets, Functions

CONSTANTS             \* all natural numbers, or a set of them
  Budget,             \* tokens the history should fit in; 0 turns the pass off
  MinSummarizeTokens, \* observations this small are not summarized; 0: no floor
  MarkerTokens,       \* size of dropMarker
  SummaryTokens       \* sizes a summary may have

VARIABLES
  history,    \* the turns the caller passed; Compress works on a copy
  work,       \* the copy
  phase,      \* where the pass is
  summarized, \* Result.Summarized
  dropped,    \* Result.Dropped
  asked       \* history variable: the turns the Summarizer was called on, in order

passVars == <<work, phase, summarized, dropped, asked>>
vars == <<history, passVars>>

Form == {"orig", "summary", "marker"}
Turn == [role : {"user", "assistant", "tool"}, form : Form, size : Nat,
         compressed : BOOLEAN]

(* The token count of a whole history.                                     *)
Total(turns) == SumFunction([i \in DOMAIN turns |-> turns[i].size])

OverBudget(turns) == Total(turns) > Budget

(* The goal, and the last action with everything after it.                 *)
Protected(turns) ==
  {i \in DOMAIN turns :
     \/ /\ turns[i].role = "user"
        /\ \A j \in 1 .. (i - 1) : turns[j].role # "user"
     \/ \E j \in 1 .. i :
          /\ turns[j].role = "assistant"
          /\ \A k \in DOMAIN turns : k > j => turns[k].role # "assistant"}

(* The scans go from the first turn on.                                    *)
Oldest(S) == CHOOSE i \in S : \A j \in S : i <= j

(* The observations either loop may touch.                                 *)
Observations(turns) ==
  {i \in DOMAIN turns \ Protected(turns) :
     turns[i].role = "tool" /\ turns[i].form # "marker"}

(* Eligible in oldestSummarizable.                                         *)
Summarizable(turns) ==
  {i \in Observations(turns) :
     /\ ~ turns[i].compressed
     /\ ~ (MinSummarizeTokens > 0 /\ turns[i].size <= MinSummarizeTokens)}

(* Eligible in oldestDroppable.                                            *)
Droppable(turns) == Observations(turns)

-----------------------------------------------------------------------------
(* The early returns, or the first loop.                                   *)
Begin ==
  /\ phase = "idle"
  /\ work' = history
  /\ phase' = IF Budget = 0 \/ ~ OverBudget(history) THEN "done" ELSE "summarize"
  /\ summarized' = 0
  /\ dropped' = 0
  /\ UNCHANGED <<history, asked>>

(* The summarizer answers with n tokens; a summary no shorter than the     *)
(* text is thrown away, but the turn is not tried again.                   *)
SummarizeOldest(n) ==
  /\ phase = "summarize"
  /\ OverBudget(work)
  /\ Summarizable(work) # {}
  /\ LET i == Oldest(Summarizable(work)) IN
       /\ asked' = Append(asked, i)
       /\ IF n < work[i].size
          THEN /\ work' = [work EXCEPT ![i].compressed = TRUE,
                                       ![i].form = "summary", ![i].size = n]
               /\ summarized' = summarized + 1
          ELSE /\ work' = [work EXCEPT ![i].compressed = TRUE]
               /\ UNCHANGED summarized
  /\ UNCHANGED <<history, phase, dropped>>

(* A summarizer error ends the pass; its result is empty.                  *)
SummarizeFails ==
  /\ phase = "summarize"
  /\ OverBudget(work)
  /\ Summarizable(work) # {}
  /\ asked' = Append(asked, Oldest(Summarizable(work)))
  /\ phase' = "failed"
  /\ work' = <<>>
  /\ summarized' = 0
  /\ UNCHANGED <<history, dropped>>

(* Fault: only a fit leaves the loop.                                      *)
StopWhenFits ==
  /\ phase = "summarize"
  /\ ~ OverBudget(work)
  /\ phase' = "drop"
  /\ UNCHANGED <<history, work, summarized, dropped, asked>>

(* The history fits, or nothing is left to summarize.                      *)
StopSummarizing ==
  /\ phase = "summarize"
  /\ ~ OverBudget(work) \/ Summarizable(work) = {}
  /\ phase' = "drop"
  /\ UNCHANGED <<history, work, summarized, dropped, asked>>

(* Fault: the newest droppable observation goes first.                     *)
DropNewest ==
  /\ phase = "drop"
  /\ OverBudget(work)
  /\ Droppable(work) # {}
  /\ LET i == CHOOSE i \in Droppable(work) : \A j \in Droppable(work) : i >= j IN
       work' = [work EXCEPT ![i].form = "marker", ![i].size = MarkerTokens]
  /\ dropped' = dropped + 1
  /\ UNCHANGED <<history, phase, summarized, asked>>

(* The marker takes the place of the oldest observation left.              *)
DropOldest ==
  /\ phase = "drop"
  /\ OverBudget(work)
  /\ Droppable(work) # {}
  /\ LET i == Oldest(Droppable(work)) IN
       work' = [work EXCEPT ![i].form = "marker", ![i].size = MarkerTokens]
  /\ dropped' = dropped + 1
  /\ UNCHANGED <<history, phase, summarized, asked>>

(* Fault: one drop is enough.                                              *)
FinishEarly ==
  /\ phase = "drop"
  /\ ~ OverBudget(work) \/ Droppable(work) = {} \/ dropped > 0
  /\ phase' = "done"
  /\ UNCHANGED <<history, work, summarized, dropped, asked>>

(* The history fits, or nothing is left to drop: the budget is advisory.   *)
Finish ==
  /\ phase = "drop"
  /\ ~ OverBudget(work) \/ Droppable(work) = {}
  /\ phase' = "done"
  /\ UNCHANGED <<history, work, summarized, dropped, asked>>

(* A step of the pass.                                                     *)
Pass ==
  \/ Begin
  \/ \E n \in SummaryTokens : SummarizeOldest(n)
  \/ SummarizeFails
  \/ StopSummarizing
  \/ DropOldest
  \/ Finish

(* No pass is running.                                                     *)
PassInit ==
  /\ work = <<>>
  /\ phase = "idle"
  /\ summarized = 0
  /\ dropped = 0
  /\ asked = <<>>

(* The type of the pass's own variables.                                   *)
PassVarsOK ==
  /\ work \in Seq(Turn)
  /\ phase \in {"idle", "summarize", "drop", "done", "failed"}
  /\ summarized \in Nat /\ dropped \in Nat
  /\ asked \in Seq(Nat)

-----------------------------------------------------------------------------
(* Properties of a pass                                                    *)

Working == phase \in {"summarize", "drop", "done"}

(* The oldest context goes first: no observation is dropped while an older *)
(* one stays, and none is summarized past an older one that could be.      *)
OldestFirst ==
  Working =>
    \A j \in Observations(history) : \A i \in Observations(history) : i < j =>
      /\ work[j].form = "marker" => work[i].form = "marker"
      /\ work[j].compressed /\ ~ history[j].compressed =>
           \/ work[i].compressed
           \/ history[i].size <= MinSummarizeTokens

(* "older observations are summarized rather than silently deleted"        *)
(* (package comment): an observation never becomes the empty text.         *)
NeverSilentlyDeleted ==
  Working => \A i \in DOMAIN history : history[i].size > 0 => work[i].size > 0
=============================================================================
