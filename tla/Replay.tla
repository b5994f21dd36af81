------------------------------- MODULE Replay -------------------------------
(***************************************************************************)
(* bench.replayPrompts: what a recorded run of the agent would have sent   *)
(* to the model, turn by turn, with the history compressed or not.  Stage  *)
(* 3 reports its token and cost savings from these prompts, so they must   *)
(* be the prompts of the live loop.  Here the loop of AgentLoop runs and   *)
(* three history variables remember what it sent and what came of it; the  *)
(* replay itself is a fold over the recording.                             *)
(*                                                                         *)
(* The blocks of a prompt are the turns sent.  At one place of two prompts *)
(* stands the same message, so the form of its content tells whether the   *)
(* two blocks have one hash.                                               *)
(***************************************************************************)
EXTENDS AgentLoop

CONSTANT PerTurnSystem \* tokens of the system prompt and the tool schemas

ASSUME ReplayAssumption == PerTurnSystem \in Nat

VARIABLES
  recorded, \* the messages as they came, none of them compressed
  sent,     \* the history sent with each call of the model
  said      \* for each summarizer call in asked, the size of what it kept

replayVars == <<vars, recorded, sent, said>>

(* The content of each turn, without the compressor's mark.                *)
Blocks(turns) == [i \in DOMAIN turns |->
  [role |-> turns[i].role, form |-> turns[i].form, size |-> turns[i].size]]

-----------------------------------------------------------------------------
(* A pass of the compressor, from its oldest observation to its newest.    *)

State(turns, charged) == [turns |-> turns, charged |-> charged]

(* What the summarizer made of turn i, or would make of one it never saw.  *)
SummaryOf(i, size) ==
  IF \E k \in DOMAIN said : asked[k] = i
  THEN said[CHOOSE k \in DOMAIN said : asked[k] = i]
  ELSE size

SummarizeTurn(s, i) ==
  IF Pass!OverBudget(s.turns) /\ i \in Pass!Summarizable(s.turns)
  THEN LET n == SummaryOf(i, s.turns[i].size)
           condensed == [s.turns EXCEPT ![i].form = "summary", ![i].size = n]
       IN  State([(IF n < s.turns[i].size THEN condensed ELSE s.turns)
                    EXCEPT ![i].compressed = TRUE],
                 Append(s.charged, i))
  ELSE s

DropTurn(s, i) ==
  IF Pass!OverBudget(s.turns) /\ i \in Pass!Droppable(s.turns)
  THEN State([s.turns EXCEPT ![i].form = "marker", ![i].size = MarkerTokens], s.charged)
  ELSE s

Indices(s) == [i \in DOMAIN s |-> i]

Compressed(s) ==
  IF Budget = 0 THEN s
  ELSE FoldLeft(DropTurn, FoldLeft(SummarizeTurn, s, Indices(s.turns)), Indices(s.turns))

-----------------------------------------------------------------------------
(* The replay                                                              *)

(* A round ends where no further tool result follows.                      *)
RoundEnds(messages, k) ==
  /\ messages[k].role # "user"
  /\ k < Len(messages) => messages[k + 1].role # "tool"

(* Fault: the marks of the compressor are not carried back.                *)
EndRoundUnmarked(s) ==
  LET c == Compressed(s) IN
    State([i \in DOMAIN c.turns |-> [c.turns[i] EXCEPT !.compressed = FALSE]], c.charged)

EndRound(s) == Compressed(s)

(* Fault: the call is charged the history with its own answer in it.       *)
ReplayMessageAfter(messages, compress, r, k) ==
  LET grown == State(Append(r.state.turns, TurnsOf(messages)[k]), r.state.charged)
  IN  [prompts |-> IF messages[k].role = "assistant"
                   THEN Append(r.prompts, Blocks(grown.turns)) ELSE r.prompts,
       state |-> IF compress /\ RoundEnds(messages, k) THEN EndRound(grown) ELSE grown]

(* Message k of the recording is replayed: the model is called for it if   *)
(* it is the model's, and at the end of its round the history compressed.  *)
ReplayMessage(messages, compress, r, k) ==
  LET grown == State(Append(r.state.turns, TurnsOf(messages)[k]), r.state.charged)
  IN  [prompts |-> IF messages[k].role = "assistant"
                   THEN Append(r.prompts, Blocks(r.state.turns)) ELSE r.prompts,
       state |-> IF compress /\ RoundEnds(messages, k) THEN EndRound(grown) ELSE grown]

ReplayPrompts(messages, compress) ==
  FoldLeft(LAMBDA r, k : ReplayMessage(messages, compress, r, k),
           [prompts |-> <<>>, state |-> State(<<>>, <<>>)], Indices(messages))

PromptTokens(prompt) == PerTurnSystem + Pass!Total(prompt)

Input(prompts) == FoldLeft(LAMBDA n, p : n + PromptTokens(p), 0, prompts)

(* Fault: the first call finds the system prompt in the cache.             *)
CachedFromStart(prompts, k) ==
  IF k = 1 THEN PerTurnSystem
  ELSE PerTurnSystem + Pass!Total(LongestCommonPrefix({prompts[k - 1], prompts[k]}))

(* The tokens of prompt k served from the cache: the system prompt, from   *)
(* the second call on, and the turns up to the first that differs from the *)
(* prompt before.                                                          *)
CachedOf(prompts, k) ==
  IF k = 1 THEN 0
  ELSE PerTurnSystem + Pass!Total(LongestCommonPrefix({prompts[k - 1], prompts[k]}))

Cached(prompts) == FoldLeft(LAMBDA n, k : n + CachedOf(prompts, k), 0, Indices(prompts))

Fresh(prompts) == Input(prompts) - Cached(prompts)

-----------------------------------------------------------------------------
ReplayInit ==
  /\ Init
  /\ recorded = msgs
  /\ sent = <<>>
  /\ said = <<>>

(* What is kept of the turn the summarizer was just asked about.           *)
Kept == work'[asked'[Len(asked')]].size

Remember ==
  /\ recorded' = recorded \o SubSeq(msgs', Len(recorded) + 1, Len(msgs'))
  /\ sent' = IF turn' > turn THEN Append(sent, Blocks(TurnsOf(msgs))) ELSE sent
  /\ said' = IF Len(asked') > Len(asked) /\ phase' # "failed" THEN Append(said, Kept) ELSE said

ReplayNext == Next /\ Remember

ReplaySpec == ReplayInit /\ [][ReplayNext]_replayVars /\ WF_replayVars(ReplayNext)

-----------------------------------------------------------------------------
(* Properties                                                              *)

Finished == pc = "done" /\ stop # "error"

(* "replayPrompts walks a recorded trajectory exactly as the live loop     *)
(* would": replaying the messages as they came charges, turn by turn, the  *)
(* very prompts the live loop sent, in either arm.                         *)
ReplaysLivePrompts ==
  Finished => ReplayPrompts(recorded, compressing).prompts = sent

(* The replay charges every summarizer call of the live loop, in the same  *)
(* order; it may charge more, for the pass after the last round.           *)
OverheadNotUnderstated ==
  Finished /\ compressing => IsPrefix(asked, ReplayPrompts(recorded, TRUE).state.charged)

(* Without compression every message is paid in full once, when it is      *)
(* first sent, and comes from the cache ever after: what is fresh adds up  *)
(* to the last prompt (comment on ReplayCacheCost).                        *)
BaselinePaysOnce ==
  Finished =>
    LET prompts == ReplayPrompts(recorded, FALSE).prompts IN
      Fresh(prompts) = PromptTokens(Last(prompts))
=============================================================================
