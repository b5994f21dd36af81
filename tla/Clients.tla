------------------------------ MODULE Clients -------------------------------
(***************************************************************************)
(* One call of an HTTP client: Embed of an embedding provider, or a chat   *)
(* completion.  Embed cuts its texts into batches and posts one after the  *)
(* other; both clients post with the same loop of tries and waits.  The    *)
(* provider may answer anything or not at all, and the caller may cancel.  *)
(*                                                                         *)
(* The vector of the k-th text is the number k, so <<1, ..., n>> is the    *)
(* right result.  A text is its length (one byte to a rune).               *)
(***************************************************************************)
EXTENDS Integers, Sequences, FiniteSets, FiniteSetsExt, SequencesExt

CONSTANTS
  MaxAttempts,       \* maxAttempts, chatMaxAttempts
  MaxToolUseRetries, \* maxToolUseRetries
  BaseDelay,         \* baseRetryDelay, chatBaseRetryDelay
  MaxDelay,          \* maxRetryDelay, chatMaxRetryDelay
  DefaultBatchSize,  \* defaultBatchSize
  Limits,            \* the providers' settings, 0 where one is not set
  Sizes, MaxTexts,   \* bounds: the lengths of a text, the texts of a call
  RetryAfters        \* values of the Retry-After header, 0 when there is none

ASSUME ClientsAssumption ==
  /\ MaxAttempts \in Nat \ {0}
  /\ MaxToolUseRetries \in Nat
  /\ BaseDelay \in Nat \ {0} /\ MaxDelay \in Nat \ {0}
  /\ DefaultBatchSize \in Nat \ {0}
  /\ Limits \subseteq [items : Nat, tokens : Nat, chars : Nat]
  /\ Sizes \subseteq Nat /\ MaxTexts \in Nat
  /\ RetryAfters \subseteq Nat

VARIABLES
  client,    \* "embed" or "chat"
  limits,    \* BatchSize, MaxBatchTokens, MaxInputChars
  texts,     \* the texts, each cut to MaxInputChars
  from, to,  \* the batch being posted is texts[from .. to]
  tokens,    \* the tokens counted while the batch is filled
  out,       \* the vectors of the batches before it
  pc,        \* "batch", "fill", "send", "wait" or "done"
  toolFails, \* tries of this request that ended in tool_use_failed
  delay,     \* what to wait before the next try
  canceled,  \* whether the caller canceled the context
  result,    \* how the call ended
  answers,   \* what came of each try of this request so far
  astray     \* history: an answer held a vector nobody asked for

vars == <<client, limits, texts, from, to, tokens, out, pc, toolFails, delay,
          canceled, result, answers, astray>>
callVars == <<client, limits, texts>>
batchVars == <<from, to, tokens, out, astray>>

Min2(a, b) == IF a <= b THEN a ELSE b
Max2(a, b) == IF a >= b THEN a ELSE b

-----------------------------------------------------------------------------
(* Batches                                                                 *)

Truncated(n, l) == IF l.chars > 0 THEN Min2(n, l.chars) ELSE n

EstTokens(n) == n \div 4 + 1

MaxItems == IF limits.items > 0 THEN limits.items ELSE DefaultBatchSize

(* How many texts the batch being filled holds.                            *)
Taken == to - from + 1

(* Whether the next text goes into the batch: the first one always does.   *)
Takes ==
  /\ to < Len(texts) /\ Taken < MaxItems
  /\ limits.tokens > 0 /\ Taken > 0 => tokens + EstTokens(texts[to + 1]) <= limits.tokens

-----------------------------------------------------------------------------
(* Answers                                                                 *)

Item(i) == [index |-> i, embedding |-> from + i]

(* A vector under the index of its text in the batch, for some of them, in *)
(* any order; or one more: repeated, under another's index, or under none. *)
Proper == SetToAllKPermutations({Item(i) : i \in 0 .. to - from})

Stray == [index : 0 .. to - from + 1, embedding : from .. to]

Answers == Proper \union UNION {{<<x>> \o data : data \in Proper} : x \in Stray}

(* Fault: the vectors are taken as they come.                              *)
AsTheyCome(data) == {data}

(* The orders by index; the sort need not keep that of equal indices.      *)
InOrder(data) ==
  {s \in {[i \in DOMAIN data |-> data[p[i]]] : p \in Bijection(DOMAIN data, DOMAIN data)} :
     \A i, j \in DOMAIN s : i < j => s[i].index <= s[j].index}

Vectors(data) == [i \in DOMAIN data |-> data[i].embedding]

-----------------------------------------------------------------------------
(* Tries and waits                                                         *)

Backoff(n) == Min2(BaseDelay * 2 ^ n, MaxDelay)

(* Fault: a Retry-After replaces the backoff.                              *)
WaitAsked(n, retryAfter) ==
  Min2(IF retryAfter > 0 THEN retryAfter ELSE Backoff(n), MaxDelay)

(* The wait after a 429 or a 5xx.                                          *)
BusyWait(n, retryAfter) == Min2(Max2(Backoff(n), retryAfter), MaxDelay)

Init ==
  /\ client \in {"embed", "chat"}
  /\ limits \in Limits
  /\ texts \in {[k \in DOMAIN s |-> Truncated(s[k], limits)] : s \in BoundedSeq(Sizes, MaxTexts)}
  /\ client = "chat" => texts = <<>>
  /\ pc = IF client = "chat" THEN "send" ELSE "batch"
  /\ from = 1 /\ to = 0 /\ tokens = 0
  /\ out = <<>> /\ astray = FALSE
  /\ toolFails = 0
  /\ delay = 0
  /\ canceled = FALSE
  /\ result = "running"
  /\ answers = <<>>

Return(r) == pc' = "done" /\ result' = r

(* Fault: the count goes on from the batch before.                         *)
BeginBatchUncleared ==
  /\ pc = "batch" /\ from <= Len(texts)
  /\ to' = from - 1
  /\ pc' = "fill"
  /\ UNCHANGED <<callVars, from, tokens, out, toolFails, delay, canceled, result, answers, astray>>

(* batched begins a batch,                                                 *)
BeginBatch ==
  /\ pc = "batch" /\ from <= Len(texts)
  /\ to' = from - 1 /\ tokens' = 0
  /\ pc' = "fill"
  /\ UNCHANGED <<callVars, from, out, toolFails, delay, canceled, result, answers, astray>>

(* takes one text after the other while they fit,                          *)
TakeText ==
  /\ pc = "fill" /\ Takes
  /\ to' = to + 1 /\ tokens' = tokens + EstTokens(texts[to + 1])
  /\ UNCHANGED <<callVars, from, out, pc, toolFails, delay, canceled, result, answers, astray>>

(* and posts them, one text at least.                                      *)
PostBatch ==
  /\ pc = "fill" /\ ~ Takes
  /\ to' = Max2(to, from)
  /\ pc' = "send"
  /\ toolFails' = 0 /\ delay' = 0 /\ answers' = <<>>
  /\ UNCHANGED <<callVars, from, tokens, out, canceled, result, astray>>

AllDone ==
  /\ pc = "batch" /\ from > Len(texts)
  /\ Return("ok")
  /\ UNCHANGED <<callVars, batchVars, toolFails, delay, canceled, answers>>

(* A try that came to nothing: wait d, unless it was the last.             *)
TryAgain(answer, d) ==
  /\ answers' = Append(answers, answer)
  /\ \/ Len(answers') < MaxAttempts /\ pc' = "wait" /\ delay' = d /\ UNCHANGED result
     \/ Len(answers') = MaxAttempts /\ Return("gaveUp") /\ delay' = d
  /\ UNCHANGED <<callVars, batchVars, canceled>>

(* Fault: a try without an answer is not counted.                          *)
NoAnswerUncounted ==
  /\ pc = "send"
  /\ pc' = "wait" /\ delay' = Backoff(Len(answers))
  /\ UNCHANGED <<callVars, batchVars, toolFails, canceled, result, answers>>

(* No answer: the network, the client's timeout, or a canceled context.    *)
NoAnswer ==
  /\ pc = "send"
  /\ TryAgain([what |-> "none", after |-> 0], Backoff(Len(answers)))
  /\ UNCHANGED toolFails

(* 429 or 5xx.                                                             *)
Busy(retryAfter) ==
  /\ pc = "send" /\ ~ canceled
  /\ TryAgain([what |-> "busy", after |-> retryAfter], BusyWait(Len(answers), retryAfter))
  /\ UNCHANGED toolFails

(* Fault: one redraw too few.                                              *)
ToolUseFailedEarly ==
  /\ pc = "send" /\ ~ canceled /\ client = "chat"
  /\ toolFails' = toolFails + 1
  /\ LET answer == [what |-> "toolUse", after |-> 0] IN
     \/ /\ toolFails' < MaxToolUseRetries
        /\ TryAgain(answer, Backoff(toolFails))
     \/ /\ toolFails' >= MaxToolUseRetries
        /\ Return("toolUse")
        /\ answers' = Append(answers, answer)
        /\ UNCHANGED <<callVars, batchVars, delay, canceled>>

(* Fault: one redraw too many.                                             *)
ToolUseFailedLate ==
  /\ pc = "send" /\ ~ canceled /\ client = "chat"
  /\ toolFails' = toolFails + 1
  /\ LET answer == [what |-> "toolUse", after |-> 0] IN
     \/ /\ toolFails' <= MaxToolUseRetries + 1
        /\ TryAgain(answer, Backoff(toolFails))
     \/ /\ toolFails' > MaxToolUseRetries + 1
        /\ Return("toolUse")
        /\ answers' = Append(answers, answer)
        /\ UNCHANGED <<callVars, batchVars, delay, canceled>>

(* A chat model made a call the provider could not parse: it is drawn      *)
(* again, with a count and a backoff of its own.                           *)
ToolUseFailed ==
  /\ pc = "send" /\ ~ canceled /\ client = "chat"
  /\ toolFails' = toolFails + 1
  /\ LET answer == [what |-> "toolUse", after |-> 0] IN
     \/ /\ toolFails' <= MaxToolUseRetries
        /\ TryAgain(answer, Backoff(toolFails))
     \/ /\ toolFails' > MaxToolUseRetries
        /\ Return("toolUse")
        /\ answers' = Append(answers, answer)
        /\ UNCHANGED <<callVars, batchVars, delay, canceled>>

(* Every other status, told apart when a chat key is rejected; and a 200   *)
(* whose body does not decode, reports an error or holds no choice.        *)
Rejected(what) ==
  /\ pc = "send" /\ ~ canceled
  /\ what = "unauthorized" => client = "chat"
  /\ Return(what)
  /\ answers' = Append(answers, [what |-> what, after |-> 0])
  /\ UNCHANGED <<callVars, batchVars, toolFails, delay, canceled>>

(* 200 to a batch: what vectors there are are appended in the order of     *)
(* their indices, and the next batch begins.                               *)
Embedded(data) ==
  /\ pc = "send" /\ ~ canceled /\ client = "embed"
  /\ answers' = Append(answers, [what |-> "ok", after |-> 0])
  /\ \E s \in InOrder(data) : out' = out \o Vectors(s)
  /\ astray' = (astray \/ data \notin Proper)
  /\ from' = to + 1
  /\ pc' = "batch"
  /\ UNCHANGED <<callVars, to, tokens, toolFails, delay, canceled, result>>

(* 200 to a chat request.                                                  *)
Completed ==
  /\ pc = "send" /\ ~ canceled /\ client = "chat"
  /\ Return("ok")
  /\ answers' = Append(answers, [what |-> "ok", after |-> 0])
  /\ UNCHANGED <<callVars, batchVars, toolFails, delay, canceled>>

(* The select before a try: the delay is over, or the context is canceled. *)
(* When both are true either may be taken.                                 *)
Waited ==
  /\ pc = "wait"
  /\ pc' = "send"
  /\ UNCHANGED <<callVars, batchVars, toolFails, delay, canceled, result, answers>>

WaitCanceled ==
  /\ pc = "wait" /\ canceled
  /\ Return("canceled")
  /\ UNCHANGED <<callVars, batchVars, toolFails, delay, canceled, answers>>

Cancel ==
  /\ pc # "done" /\ ~ canceled
  /\ canceled' = TRUE
  /\ UNCHANGED <<callVars, batchVars, pc, toolFails, delay, result, answers>>

Step ==
  \/ BeginBatch
  \/ TakeText
  \/ PostBatch
  \/ AllDone
  \/ NoAnswer
  \/ \E r \in RetryAfters : Busy(r)
  \/ ToolUseFailed
  \/ \E what \in {"refused", "unauthorized", "garbled"} : Rejected(what)
  \/ \E data \in Answers : Embedded(data)
  \/ Completed
  \/ Waited
  \/ WaitCanceled

Next == Step \/ Cancel

Spec == Init /\ [][Next]_vars

(* A try ends, at the latest when the client's timeout fires, and a timer  *)
(* does; nothing obliges the provider to answer or the caller to cancel.   *)
FairSpec == Spec /\ WF_vars(Step)

-----------------------------------------------------------------------------
(* Properties                                                              *)

Answer == [what : {"none", "busy", "toolUse", "refused", "unauthorized", "garbled", "ok"},
           after : Nat]

TypeOK ==
  /\ client \in {"embed", "chat"} /\ limits \in Limits /\ texts \in Seq(Nat)
  /\ from \in 1 .. (Len(texts) + 1) /\ to \in 0 .. Len(texts)
  /\ tokens \in Nat
  /\ out \in Seq(1 .. Len(texts)) /\ astray \in BOOLEAN
  /\ pc \in {"batch", "fill", "send", "wait", "done"}
  /\ toolFails \in 0 .. (MaxToolUseRetries + 1)
  /\ delay \in Nat
  /\ canceled \in BOOLEAN
  /\ result \in {"running", "ok", "canceled", "refused", "unauthorized", "garbled",
                 "toolUse", "gaveUp"}
  /\ answers \in Seq(Answer)

(* Vectors that pass the callers' check of their number (store.go,         *)
(* retrieve.go) are those of the texts, in the order of the texts, however *)
(* the texts were cut into batches, in whatever order each answer came,    *)
(* whichever tries failed and whatever a provider left out; unless it sent *)
(* a vector nobody asked for, which may stand for one it left out.         *)
AcceptedAligned ==
  result = "ok" /\ ~ astray /\ Len(out) = Len(texts) => \A k \in DOMAIN out : out[k] = k

(* The tokens of texts[i .. j], as a sum.                                  *)
BatchTokens(s, i, j) == MapThenSumSet(LAMBDA k : EstTokens(s[k]), i .. j)

(* Every request of batched carries a text, stays within both caps unless  *)
(* a single text is larger, and is not cut short: a request less matters   *)
(* where a provider allows a few a minute.                                 *)
RequestsFit ==
  pc = "send" /\ client = "embed" =>
    LET Tokens(last) == BatchTokens(texts, from, last)
        Items(last) == last - from + 1
    IN  /\ from <= to
        /\ Items(to) <= MaxItems
        /\ limits.tokens > 0 /\ Items(to) > 1 => Tokens(to) <= limits.tokens
        /\ to < Len(texts) =>
             \/ Items(to) = MaxItems
             \/ limits.tokens > 0 /\ Tokens(to + 1) > limits.tokens

(* Before a request is sent again the client waits at least what the       *)
(* provider asked for and at least the backoff of the failures so far, at  *)
(* least a moment (or it would not look at the context) and never more     *)
(* than the cap.                                                           *)
WaitsAsAsked ==
  pc = "wait" =>
    LET alike == {i \in DOMAIN answers : answers[i].what = "toolUse" \/ Last(answers).what # "toolUse"}
    IN  /\ delay > 0 /\ delay <= MaxDelay
        /\ delay >= Min2(Last(answers).after, MaxDelay)
        /\ delay >= Min2(BaseDelay * 2 ^ (Cardinality(alike) - 1), MaxDelay)

Transient == {"none", "busy", "toolUse"}
Redraws == Cardinality({i \in DOMAIN answers : answers[i].what = "toolUse"})

(* Only a transient failure is tried again, up to the cap on tries and,    *)
(* for calls that do not parse, the cap on redraws; and the call gives up  *)
(* for exactly one of these reasons (comments on both constants).          *)
RetriesJustified ==
  /\ Len(answers) <= MaxAttempts
  /\ \A i \in DOMAIN answers : answers[i].what \notin Transient => i = Len(answers)
  /\ result = "gaveUp" =>
       Len(answers) = MaxAttempts /\ Last(answers).what \in Transient /\ Redraws <= MaxToolUseRetries
  /\ result = "toolUse" <=> Redraws = MaxToolUseRetries + 1
  /\ result \in {"refused", "unauthorized", "garbled"} => Last(answers).what = result
  /\ pc = "wait" => Len(answers) < MaxAttempts

(* The call returns, whatever the provider does.                           *)
CallReturns == <>(pc = "done")
=============================================================================
