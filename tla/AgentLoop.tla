----------------------------- MODULE AgentLoop ------------------------------
(***************************************************************************)
(* agent.Run: the model is called with the whole message history, every    *)
(* tool call it makes is answered, and in the treatment arm the history is *)
(* compressed before the next call.  The model may answer anything, a tool *)
(* may fail, and so may the model and the summarizer.                      *)
(*                                                                         *)
(* The Compressor module is instanced on the history: a pass runs on its   *)
(* own copy and compressMessages writes the result back only when it       *)
(* succeeds.  A tool call is identified by its turn and its place in it.   *)
(***************************************************************************)
EXTENDS Naturals, FiniteSets, SequencesExt

CONSTANTS
  MaxTurns,     \* Deps.MaxTurns, after the default
  CallLists,    \* bound: the lists of tool calls the model may answer with
  ResultTokens, \* sizes of what a tool may return
  Budget, MinSummarizeTokens, MarkerTokens, SummaryTokens

(* An answer, one that does not parse, a tool's result; and a tool that    *)
(* failed or that nobody knows, which comes to the same.                   *)
CallKind == {"submit", "badSubmit", "tool", "toolError"}

ASSUME LoopAssumption ==
  /\ MaxTurns \in Nat \ {0}
  /\ CallLists \subseteq Seq(CallKind)
  /\ ResultTokens \subseteq Nat
  /\ Budget \in Nat /\ MinSummarizeTokens \in Nat
  /\ MarkerTokens \in Nat /\ SummaryTokens \subseteq Nat

VARIABLES
  compressing,   \* whether Deps.Compressor is set: the treatment arm
  msgs,          \* the message history
  pc,            \* what Run does next
  turn,          \* Outcome.Turns
  next,          \* the call of the last assistant message to answer next
  submitted,     \* whether this turn recorded an answer
  answered,      \* Outcome.Answered
  stop,          \* Outcome.StopReason, "error" when Run returns an error
  outSummarized, \* Outcome.Summarized
  outDropped,    \* Outcome.Dropped
  work, phase, summarized, dropped, asked \* the pass, see Compressor

loopVars == <<msgs, pc, turn, next, submitted, answered, stop, outSummarized, outDropped>>
passVars == <<work, phase, summarized, dropped, asked>>
vars == <<compressing, loopVars, passVars>>

NoCall == <<0, 0>>

ShortTokens == 1 \* the goal, what the assistant says, the fixed tool results

Message == [role : {"user", "assistant", "tool"},
            calls : Seq(CallKind), answers : Nat \X Nat,
            form : {"orig", "summary", "marker"}, size : Nat, compressed : BOOLEAN]

Goal == [role |-> "user", calls |-> <<>>, answers |-> NoCall,
         form |-> "orig", size |-> ShortTokens, compressed |-> FALSE]

Assistant(calls) == [Goal EXCEPT !.role = "assistant", !.calls = calls]

ToolResult(call, n) == [Goal EXCEPT !.role = "tool", !.answers = call, !.size = n]

(* The turns compressMessages hands to the compressor.                     *)
TurnsOf(ms) == [i \in DOMAIN ms |->
  [role |-> ms[i].role, form |-> ms[i].form, size |-> ms[i].size,
   compressed |-> ms[i].compressed]]

Pass == INSTANCE Compressor WITH history <- TurnsOf(msgs)

-----------------------------------------------------------------------------
Init ==
  /\ compressing \in BOOLEAN
  /\ msgs = <<Goal>>
  /\ pc = "generate"
  /\ turn = 0
  /\ next = 1
  /\ submitted = FALSE
  /\ answered = FALSE
  /\ stop = "running"
  /\ outSummarized = 0
  /\ outDropped = 0
  /\ Pass!PassInit

(* Run returns.                                                            *)
Stop(reason) == pc' = "done" /\ stop' = reason

(* Fault: the cap lets one more turn through.                              *)
EndTurnLate ==
  \/ turn <= MaxTurns /\ pc' = "generate" /\ UNCHANGED stop
  \/ turn > MaxTurns /\ Stop("max_turns")

(* The turn is over: another one, unless the cap is reached.               *)
EndTurn ==
  \/ turn < MaxTurns /\ pc' = "generate" /\ UNCHANGED stop
  \/ turn >= MaxTurns /\ Stop("max_turns")

(* The model answers.                                                      *)
Generate(calls) ==
  /\ pc = "generate"
  /\ msgs' = Append(msgs, Assistant(calls))
  /\ turn' = turn + 1
  /\ \/ calls = <<>> /\ Stop("no_tool_call")
     \/ calls # <<>> /\ pc' = "calls" /\ UNCHANGED stop
  /\ next' = 1
  /\ submitted' = FALSE
  /\ UNCHANGED <<answered, outSummarized, outDropped, passVars>>

GenerateFails ==
  /\ pc = "generate"
  /\ Stop("error")
  /\ UNCHANGED <<msgs, turn, next, submitted, answered, outSummarized, outDropped, passVars>>

(* The last assistant message, and its calls.                              *)
LastAction == Max({i \in DOMAIN msgs : msgs[i].role = "assistant"})
Calls == msgs[LastAction].calls

(* Fault: a call whose arguments do not parse is skipped.                  *)
AnswerCallOrSkip(n) ==
  /\ pc = "calls"
  /\ next <= Len(Calls)
  /\ LET kind == Calls[next] IN
       /\ kind \notin {"tool"} => n = ShortTokens
       /\ msgs' = IF kind = "badSubmit" THEN msgs
                  ELSE Append(msgs, ToolResult(<<turn, next>>, n))
       /\ submitted' = (submitted \/ kind = "submit")
       /\ answered' = (answered \/ kind = "submit")
  /\ next' = next + 1
  /\ UNCHANGED <<pc, turn, stop, outSummarized, outDropped, passVars>>

(* One call of the last message is answered with n tokens; every way to    *)
(* answer it appends exactly one result.                                   *)
AnswerCall(n) ==
  /\ pc = "calls"
  /\ next <= Len(Calls)
  /\ LET kind == Calls[next] IN
       /\ kind \notin {"tool"} => n = ShortTokens
       /\ msgs' = Append(msgs, ToolResult(<<turn, next>>, n))
       /\ submitted' = (submitted \/ kind = "submit")
       /\ answered' = (answered \/ kind = "submit")
  /\ next' = next + 1
  /\ UNCHANGED <<pc, turn, stop, outSummarized, outDropped, passVars>>

(* All calls are answered: return if an answer was recorded, else compress *)
(* if there is a compressor.                                               *)
AfterCalls ==
  /\ pc = "calls"
  /\ next > Len(Calls)
  /\ \/ submitted /\ Stop("submitted")
     \/ ~ submitted /\ compressing /\ pc' = "compress" /\ UNCHANGED stop
     \/ ~ submitted /\ ~ compressing /\ EndTurn
  /\ UNCHANGED <<msgs, turn, next, submitted, answered, outSummarized, outDropped, passVars>>

-----------------------------------------------------------------------------
(* compressMessages                                                        *)

(* One step of the compressor on the turns of msgs.                        *)
CompressStep ==
  /\ pc = "compress"
  /\ UNCHANGED loopVars
  /\ Pass!Pass

(* The pass and its counters are handed over and a new one may start.      *)
PassReset ==
  /\ phase' = "idle"
  /\ work' = <<>>
  /\ summarized' = 0
  /\ dropped' = 0
  /\ UNCHANGED asked

(* Fault: the content is carried back, the flag is not.                    *)
WriteBackContent ==
  /\ pc = "compress"
  /\ phase = "done"
  /\ msgs' = [i \in DOMAIN msgs |->
       [msgs[i] EXCEPT !.form = work[i].form, !.size = work[i].size]]
  /\ outSummarized' = outSummarized + summarized
  /\ outDropped' = outDropped + dropped
  /\ EndTurn
  /\ PassReset
  /\ UNCHANGED <<turn, next, submitted, answered>>

(* Fault: what was dropped is taken out of the history.                    *)
WriteBackRemoving ==
  /\ pc = "compress"
  /\ phase = "done"
  /\ msgs' = LET copy == [i \in DOMAIN msgs |->
                   [msgs[i] EXCEPT !.form = work[i].form, !.size = work[i].size,
                                   !.compressed = work[i].compressed]]
             IN  SelectSeq(copy, LAMBDA m : m.form # "marker")
  /\ outSummarized' = outSummarized + summarized
  /\ outDropped' = outDropped + dropped
  /\ EndTurn
  /\ PassReset
  /\ UNCHANGED <<turn, next, submitted, answered>>

(* Fault: the outcome keeps the last pass's counts, not their sums.        *)
WriteBackLastCounts ==
  /\ pc = "compress"
  /\ phase = "done"
  /\ msgs' = [i \in DOMAIN msgs |->
       [msgs[i] EXCEPT !.form = work[i].form, !.size = work[i].size,
                       !.compressed = work[i].compressed]]
  /\ outSummarized' = summarized
  /\ outDropped' = dropped
  /\ EndTurn
  /\ PassReset
  /\ UNCHANGED <<turn, next, submitted, answered>>

(* Success: contents and flags are copied back by index.                   *)
WriteBack ==
  /\ pc = "compress"
  /\ phase = "done"
  /\ msgs' = [i \in DOMAIN msgs |->
       [msgs[i] EXCEPT !.form = work[i].form, !.size = work[i].size,
                       !.compressed = work[i].compressed]]
  /\ outSummarized' = outSummarized + summarized
  /\ outDropped' = outDropped + dropped
  /\ EndTurn
  /\ PassReset
  /\ UNCHANGED <<turn, next, submitted, answered>>

(* Failure: the run ends and the history is as it was before the pass.     *)
CompressFails ==
  /\ pc = "compress"
  /\ phase = "failed"
  /\ Stop("error")
  /\ PassReset
  /\ UNCHANGED <<msgs, turn, next, submitted, answered, outSummarized, outDropped>>

-----------------------------------------------------------------------------
Step ==
  \/ \E calls \in CallLists : Generate(calls)
  \/ GenerateFails
  \/ \E n \in ResultTokens \union {ShortTokens} : AnswerCall(n)
  \/ AfterCalls
  \/ CompressStep
  \/ WriteBack
  \/ CompressFails

Next == Step /\ UNCHANGED compressing

Spec == Init /\ [][Next]_vars

(* Run is one goroutine that never waits for another; every call it makes  *)
(* returns (the chat client has a timeout and a bounded number of tries).  *)
FairSpec == Spec /\ WF_vars(Next)

-----------------------------------------------------------------------------
(* Properties                                                              *)

TypeOK ==
  /\ compressing \in BOOLEAN
  /\ msgs \in Seq(Message)
  /\ pc \in {"generate", "calls", "compress", "done"}
  /\ turn \in 0 .. MaxTurns
  /\ next \in Nat \ {0}
  /\ submitted \in BOOLEAN /\ answered \in BOOLEAN
  /\ stop \in {"running", "submitted", "max_turns", "no_tool_call", "error"}
  /\ outSummarized \in Nat /\ outDropped \in Nat
  /\ Pass!PassVarsOK

(* The k-th call of the assistant message at place i has its result k      *)
(* places further on; nothing but results stands between such messages.    *)
Round(i) == i .. (i + Len(msgs[i].calls))

Complete(i) ==
  /\ i + Len(msgs[i].calls) <= Len(msgs)
  /\ \E t \in 1 .. turn : \A k \in 1 .. Len(msgs[i].calls) :
       msgs[i + k].role = "tool" /\ msgs[i + k].answers = <<t, k>>

InRounds ==
  /\ msgs # <<>> /\ msgs[1].role = "user"
  /\ \A j \in 2 .. Len(msgs) : \E i \in 2 .. j :
       msgs[i].role = "assistant" /\ j \in Round(i)

(* What every chat-completions API demands of the history sent to it, and  *)
(* of the transcript that is stored: after the goal come whole rounds, an  *)
(* assistant message and one result for each of its calls, in order; and   *)
(* compression in between changes none of this.                            *)
WholeRounds ==
  pc \in {"generate", "done"} =>
    /\ InRounds
    /\ \A i \in DOMAIN msgs : msgs[i].role = "assistant" => Complete(i)

(* Each observation is sent to the summarizer at most once in a run, over  *)
(* all the passes (comment on Turn.Compressed).                            *)
SummarizedOnce == \A a, b \in DOMAIN asked : asked[a] = asked[b] => a = b

(* A message that is in the history keeps its place, its role, its calls   *)
(* and the call it answers; its content changes only if it is a result     *)
(* older than the last action, and never back from a marker.               *)
HistoryOnlyCondensed ==
  [][/\ Len(msgs') >= Len(msgs)
     /\ \A i \in DOMAIN msgs : msgs'[i] # msgs[i] =>
          /\ msgs[i].role = "tool" /\ msgs[i].form # "marker"
          /\ [msgs'[i] EXCEPT !.form = msgs[i].form, !.size = msgs[i].size,
                              !.compressed = msgs[i].compressed] = msgs[i]
          /\ \E j \in DOMAIN msgs : j > i /\ msgs[j].role = "assistant"]_vars

(* In every pass of a run the oldest context goes first: see Compressor.   *)
OldestFirst == Pass!OldestFirst

InForm(turns, form) == {i \in DOMAIN turns : turns[i].form = form}
Marked(turns) == {i \in DOMAIN turns : turns[i].compressed}

CountsOf(turns, summaries, drops) ==
  /\ drops = Cardinality(InForm(turns, "marker"))
  /\ Cardinality(InForm(turns, "summary")) <= summaries
  /\ summaries <= Cardinality(Marked(turns))

(* What the outcome reports is what the transcript shows, also when a pass *)
(* fails half way: every marker is counted as a drop, every summary as a   *)
(* summary, and nothing that was never sent to the summarizer.             *)
CountsMatchTranscript ==
  pc \in {"generate", "done"} => CountsOf(msgs, outSummarized, outDropped)

(* The history that goes to the model fits the budget, or every result     *)
(* older than the last action is already a marker.                         *)
PromptWithinBudget ==
  pc = "generate" /\ compressing /\ Budget > 0 =>
    \/ ~ Pass!OverBudget(TurnsOf(msgs))
    \/ Pass!Observations(TurnsOf(msgs)) = {}

(* The invariant behind these properties.  There is a turn left when the   *)
(* model is called, a pass only when the history is compressed, and an     *)
(* action before every result.                                             *)
LoopInOrder ==
  /\ pc = "generate" => turn < MaxTurns
  /\ pc # "compress" => phase = "idle"
  /\ pc = "calls" => \E j \in DOMAIN msgs : msgs[j].role = "assistant"
  /\ \A i \in DOMAIN msgs : msgs[i].role = "tool" =>
       \E j \in DOMAIN msgs : j < i /\ msgs[j].role = "assistant"

(* The history is in rounds also while the calls of the last are answered. *)
RoundsGrow ==
  /\ InRounds
  /\ \A i \in DOMAIN msgs : msgs[i].role = "assistant" /\ (pc = "calls" => i # LastAction) =>
       Complete(i)
  /\ pc = "calls" =>
       /\ LastAction \in DOMAIN msgs /\ msgs[LastAction].role = "assistant"
       /\ \A i \in DOMAIN msgs : msgs[i].role = "assistant" => i <= LastAction
       /\ turn # 0 /\ next <= Len(Calls) + 1 /\ Len(msgs) + 1 = LastAction + next
       /\ \A k \in 1 .. (next - 1) :
            msgs[LastAction + k].role = "tool" /\ msgs[LastAction + k].answers = <<turn, k>>

(* The copy differs from the history in observations it may touch, and     *)
(* while it is summarized only in those that it has marked.                *)
CopyOfHistory ==
  Pass!Working =>
    /\ Len(work) = Len(msgs)
    /\ \A i \in DOMAIN msgs :
         /\ work[i].role = msgs[i].role
         /\ work[i] # TurnsOf(msgs)[i] => i \in Pass!Observations(TurnsOf(msgs))
         /\ msgs[i].compressed => work[i].compressed
         /\ phase = "summarize" =>
              /\ ~ work[i].compressed => work[i] = TurnsOf(msgs)[i]
              /\ work[i].form = "marker" => msgs[i].form = "marker"
    /\ phase = "done" /\ Budget > 0 => ~ Pass!OverBudget(work) \/ Pass!Droppable(work) = {}

(* What the summarizer was called on bears the mark, in the copy or in the *)
(* history, unless the run is about to end.                                *)
AskedMarked ==
  pc # "done" /\ phase # "failed" =>
    \A a \in DOMAIN asked :
      /\ asked[a] \in DOMAIN msgs
      /\ IF phase = "idle" THEN msgs[asked[a]].compressed ELSE work[asked[a]].compressed

(* The pass counts what it has done to the copy.                           *)
CountsKept ==
  /\ CountsOf(msgs, outSummarized, outDropped)
  /\ Pass!Working => CountsOf(work, outSummarized + summarized, outDropped + dropped)

IInv ==
  /\ TypeOK /\ LoopInOrder /\ RoundsGrow /\ CopyOfHistory /\ AskedMarked
  /\ SummarizedOnce /\ OldestFirst /\ CountsKept /\ PromptWithinBudget

(* Run returns.                                                            *)
RunStops == <>(pc = "done")
=============================================================================
