# Verification of cogni2

cogni2 is a retrieval backend for coding agents, in Go. It indexes a Python
repository as embedded chunks in SQLite, keeps the index up to date while the
repository changes, answers similarity searches, renders what it finds as
skeletons, and runs an agent whose message history is compressed as it grows. A
benchmark replays recorded runs to measure what each part saves.

This directory holds TLA+ models of the parts with state and concurrency, the
TLC runs that check them, and TLAPS proofs. Paths below are relative to `src/`.

    tlc -config VectorStoreRaces.cfg MCVectorStore      # any run: PROJECT.json
    tlapm VectorStoreProofs.tla                         # or any *Proofs module

## The system

| Component | State | Operations | Talks to |
|---|---|---|---|
| **Store** `internal/index/store.go`, `retrieve.go` | SQLite table `chunks`; decoded copy `cache` under `mu` | `UpsertFile`, `DeleteFile`, `BuildAll`, `Retrieve`, `Close` | embedder, chunker, file system; shared by every goroutine |
| **Watcher** `internal/index/watcher.go` | fsnotify's watch set and queue, `pending`, the debounce timer | `Run` (first walk, select loop), `flush`, `addRecursive` | file system; calls `OnChange` |
| **ChangeHandler** `retrieve.go` | none of its own | for each name: stat, then delete or upsert | called by the watcher, calls the store |
| **Compressor** `internal/compress` | a copy of the history during a pass | `Compress`: summarize loop, drop loop | summarizer model |
| **Agent loop** `internal/agent/run.go` | messages, outcome, ledger | `Run`, `compressMessages`, `meterCall` | model, tools, compressor |
| **Chat client** `internal/agent/openai.go` | attempt and tool-failure counters of one call | `Generate`, `Summarize`, `do` | HTTP |
| **Embedding client** `internal/embed` | attempt counter of one call | `Embed`, `batched`, `postEmbeddings` | HTTP |
| **Tools** `internal/agent/tools.go` | none | `search_code`, `read_file`, `submit_answer` | store, file system |
| **Chunker** `internal/chunk`, **parser** `internal/parse` | none | source to syntax tree to chunks | tree-sitter |
| **Skeletons** `internal/skeleton` | none | `Skeleton`, `Assemble` | parser |
| **Meter** `internal/meter` | none | token counts per bucket | tokenizer |
| **Replay, cache cost, metrics, reports** `bench/` | recorded trajectories | `ReplayCost`, `ReplayCacheCost`, `Recall`, `AggregateArm` | compressor |
| **Evaluation harness** `bench/eval_endtoend_test.go` | a directory of trajectory files | `runOrLoad`, the report | agent loop |
| **Scripts** `scripts/` | the guideline, the task file | `refine_guideline`, `build_swebench_tasks` | trajectory files, parser, a model |

How they meet: the watcher's goroutine calls `ChangeHandler`, which calls the
store; `BuildAll` may run in another goroutine; searches come from the agent's
tools. The only lock is `Store.mu` (and the watcher's own, which only its
goroutine takes). The agent loop is one goroutine that calls the chat client,
the tools and, between turns, the compressor, which calls the chat client again
for summaries.

What is hard, and what should hold:

* **Store.** Loads of the cache race with commits and invalidations; a write is
  long (read, look up vectors, embed over the network, commit) and others commit
  meanwhile; every step can fail; a crash keeps only the database. Searches must
  be fresh, a vector must belong to the chunk beside it, nobody may keep the mutex.
* **Watcher and live index.** The tree changes at any point of the walk, of the
  debounce and of the update. No directory and no change may fall between two steps,
  and the index must catch up when things are quiet.
* **Compressor.** Two loops that must end whatever the summarizer returns; order
  and length of the history, the goal and the last round must survive.
* **Agent loop.** A history the provider accepts (a result for each call, in
  order), whatever the model asks for and whenever the history is compressed;
  counts that match the transcript; a cap on turns; an end.
* **Clients.** Bounded retries, backoff, answers in another order or of another length.
* **Replay.** The prompts it prices are those the live loop would have sent.
* **Chunker, skeletons, tools.** Everything is a boundary: a statement over the budget
  beside one that just fits, a merge, a header that is cut, a window that ends at a cap.
  No line of a definition may be lost between the file and what the agent can read, and
  each budget must hold but where nothing smaller can be cut.
* **Evaluation.** It runs for days against a rate limit, stops anywhere and is started
  again; what was recorded must be neither lost, mixed up with a failure nor taken from a
  file that was cut short.

## Modules

| Module | Models | Composes |
|---|---|---|
| `IndexService` | what a client of the index may rely on: versions, visibility, acknowledgement | |
| `VectorStore` | `store.go`, `retrieve.go` at the grain of the mutex and the database | refines `IndexService` |
| `VectorStoreProofs` | theorems about `VectorStore` | extends it |
| `Watcher` | `watcher.go` with fsnotify and a tree of directories | |
| `LiveIndex` | `ChangeHandler` and `BuildAll` on the version of each file | extends `Watcher` |
| `Compressor` | one `Compress` call | |
| `AgentLoop` | `agent.Run` and `compressMessages` | instances `Compressor` on its history |
| `Replay` | `replayPrompts`, `ReplayCost` and `ReplayCacheCost` beside the live loop | extends `AgentLoop` |
| `Clients` | one call of the embedding client or of the chat client | |
| `Chunker` | `chunk.File`: the tree, splitting, class headers, merging | |
| `Gold` | `ParsePython`'s symbols, `goldFromPatch`, `Recall` | extends `Chunker` |
| `Tools` | the window of lines of `read_file` | |
| `Search` | a file indexed, searched, assembled into a context, and read back | extends `Gold` and `Tools` |
| `EndToEnd` | the evaluation, its cache of trajectories and `refine_guideline` | |
| `DataLemmas` | lemmas about folds, sums over sets and recursion that runs downward | |
| `LiveIndexProofs`, `AgentLoopProofs`, `EndToEndProofs` | theorems about the module of that name | extend it |
| `ReplayProofs` | theorems about `Replay` | extends it and `AgentLoopProofs` |
| `ClientsProofs`, `SearchProofs` | theorems about the module of that name; `SearchProofs` also about `Chunker`, `Gold` and `Tools` | extend it and `DataLemmas` |
| `MC*` | constants and initial states for TLC | |

Operators whose comment begins with *Fault:* are not part of any specification.
Each is a defect a definition could have had; exchanging it for that definition
must make a named property fail (`mutants` in PROJECT.json).

### VectorStore

A chunk is its content and a vector is the content it was computed from, so a row
is right when the two agree. `db` is the table by path, `cache` and `mu` the fields
of `Store`. A writer goes through `lookup` (`vectorsByPath`), `embed`, `commit` and
`invalidate`; `DeleteFile` starts at its commit. A reader goes through `lock`
(`Retrieve` has embedded its query), `check` and `fill`, with the mutex held over
the last two. A transaction is atomic and a SELECT reads one snapshot, which is what
SQLite gives; all else interleaves. Any step before the end of a commit may fail, and
`Crash` loses everything but the table.

History variables record the contents of the database by version (`log`), the newest
version a returned write made (`acked`), the newest one anything returned has shown
(`observed`), and which version the cache and each call hold. No program variable
depends on them.

Ranking is left out: scores, the order of the result and `k` do not feed back into
any state. A failure to read or to chunk a file has no effect and is no action. The
query's embedding happens before the mutex is asked for, so `EmbedQuery` is the call
itself and `QueryEmbedFails` its failure.

### Watcher and LiveIndex

The tree (`disk`, `dirs`) changes by four environment actions, also while the watcher
walks or handles. A change in a watched directory puts an event in a bounded queue; a
full queue drops it and raises the overflow error. `WalkDir` adds a directory, then
lists it, then visits what it listed: `AddDir` and `ReadEntries` are two actions, as
the tree can change between them. A walk that starts with a skipped directory does not
skip it, as in the code. The timer has no clock: once armed it may fire at any time,
before or after further events; from Go 1.23 on a timer that is reset delivers no stale
tick, so `armed` is all there is to it. `Tracked` is what `Match` accepts: an event about
another name, a new directory excepted, is received and forgotten (`Ignore`). `Parent`,
`Path` and `ClosedUpward` are the shape of the tree, which is the file system's and not the
code's; `Entries` is what reading a directory returns.

`LiveIndex` keeps of the store the version each file's rows were made from.
`ChangeHandler` takes the names of a batch in any order (it is a map), with a step
each for the stat, the read and the commit. `BuildAll` reads one directory after the other
(`BuildList`), each as it is then, and reads and commits the files it has met; which directory
or file is next is left open, where `filepath.WalkDir` goes by name.

A removed name and a renamed one are the same event to this code, so a rename is a
remove and a create. Moving a whole directory is not modelled.

### Compressor and AgentLoop

A turn is a role, a form (as written, summary, marker), a size in tokens and the
`Compressed` flag. `SummarizeOldest(n)` is one turn of the first loop, with the size of
the summary chosen freely from a set; `DropOldest` is one of the second. In `AgentLoop`
the pass runs on `TurnsOf(msgs)`, and `WriteBack` copies contents and flags back by
index as `compressMessages` does; an error of the summarizer ends the run and leaves
the history as it was. A call is a submission, one that does
not parse, a tool's result, or a tool that failed or is unknown. `Calls` is read from
the last assistant message.

### Replay

The loop of `AgentLoop` runs unchanged; three history variables remember the messages as
they came (`recorded`), the histories it sent (`sent`) and what the summarizer made of each
observation (`said`). The replay is a fold over `recorded`: `ReplayMessage` is one turn of
`replayPrompts`, and a pass of the compressor inside it is a fold over the turns from the
oldest to the newest (summarize, then drop), which is another form of the two loops of
`Compressor`; `ReplaysLivePrompts` also shows that the two forms agree. The summarizer is
taken to answer the replay as it answered the live loop. A block of a prompt is the role,
the form and the size of a turn: at one place of two prompts stands the same message, so
the form tells whether the hashes agree. `CachedOf` is the comparison of `ReplayCacheCost`
with the prompt before.

The replay compresses after the last round, too, where the live loop has returned. The
prompts are not affected, the overhead is: `OverheadNotUnderstated` says that it is never
less than what the live loop paid.

### Clients

Both clients post with the same loop, so there is one module with a variable that says
which client it is. The embedding client goes through `batch`, `fill`, `send` and `wait`: as
the loop of `batched` does, it takes one text after the other with a running count of their
estimated tokens (`TakeText`), and posts when the next does not fit, one text at least
(`PostBatch`). A chat request has no batches, and a count of its own for calls the
provider could not parse. A text is its length and the vector of the k-th text is k. The
provider is the environment: it may not answer, be busy with any `Retry-After`, refuse,
send a body that does not decode, or answer a batch in any order, with texts left out, and
with a vector too many (`Stray`: one repeated, under another's index, or under an index that
no text has), which is what the code accepts, up to that one vector. The code sorts by index;
the sort is not stable, so equal indices end in either order (`InOrder`). `astray` is a
history variable: some answer held such a vector.
`Cancel` may come at any time; a canceled context makes a request fail without being sent.
When a wait is over and the context is canceled at once, `select` takes either branch. An
unusable URL or payload (errors before the first try) and the texts of errors are left out.

`AgentLoop` abstracts a chat call to its two outcomes, which `CallReturns` justifies.
`VectorStore` abstracts a call of the embedder to a failure or a vector for each chunk at
its place. That the number is right is checked by `UpsertFile` and `Retrieve` themselves,
since the client does not, although its comment says so; that the order is, is
`AcceptedAligned`. It exempts a provider that sends a vector nobody asked for: with one left
out and another twice the number is right and the places are not, and nothing in the code
could tell.

### Chunker, Gold, Tools and Search

A file is a sequence of lines with an indentation and what each line is (a decorator, a
definition, a docstring, an assignment, other text); the syntax tree is read off the
indentation, as Python's is. A text costs the sum of its lines, while a tokenizer may
count a little less for a joined text. `Units` are the named children of a block, with
the decorators of a definition; the recursion over classes is `Emit`, the loops of
`splitBlock`, `emitLineSplit` and `mergeSameKind` are folds. Bytes are kept only where they
matter: the signature of a split function ends in the line of its body's first statement
(`end`). A one-line body (`def f(): pass`), line continuations and comments are not among
the files.

`Search` takes a file through `chunk.File`, a search that returns any chunks in any order,
`Assemble`, which joins the blocks with separators that count, and a model that follows an
anchor with `read_file` until it has the end of it. A skeleton is the set of lines it shows,
its anchors and its size. Whether tree-sitter finds an error in the text of a chunk that is
not one whole unit (a part of a split body, several methods) depends on its grammar, so such
a chunk may be skeletonized or left as it is. Paths are left out: there is one file, and it
is not edited meanwhile.

### EndToEnd

A slot is an arm, a task and a repeat, and has a file that is missing, cut short or a whole
trajectory. `WriteBegins` and `WriteEnds` are `os.WriteFile`, which truncates first. A run
of the agent is one step: it finishes with any outcome, or ends in an error, which counts as
a failure and is not written. `Aborts` is a bad key, a failed write, the timeout of the test
or a crash, at any point. Evaluations with other settings (`Plans`) share the directory. A
report's means and budgets are exact rationals where the code has floats. `ReportFromFiles`
has `ReportOf` on both sides: it says which files a report is made from and when, and
nothing about the arithmetic of `AggregateArm` and `BestValidTreatment`. A plan names no
slot twice, while `parseBudgets` leaves a repeated budget in. `Refine` is the script: for
each task at most one pair of a baseline run that succeeded and a compressed run that
failed; the model may find no rule in it.

## Runs

| Run | Question | Size |
|---|---|---|
| `store_races` | type, alignment, cache coherence, freshness, refinement of `IndexService` | 2 writers, 2 readers, 2 files, 3 versions; symmetric |
| `store_progress` | does every search and every write return? | 2 writers, 2 readers, 1 file |
| `live_updates` | is a directory or a change ever lost, and does the table catch up? | 4 directories, 2 files, queue of 2, 3 changes |
| `live_rebuild` | does `BuildAll` index what is there beside a watcher, and what may get lost? | 2 builds, 3 changes |
| `agent_arms` | both arms: what the model is sent, what is counted, does `Run` end, and does the replay price what was sent? | 4 turns of up to 2 calls |
| `clients` | which tries, waits and batches a call makes, what it returns, and does it return? | up to 3 texts, 3 settings, 4 tries, 2 redraws |
| `search` | is every definition indexed once, do chunk and context budgets hold, can what was omitted be read? | 90 files, merged or not, searches of up to 3 chunks |
| `evaluation` | what is kept, reported and learned when evaluations fail, stop and are run again, and do they get done? | 2 plans, 4 slots, 2 faults |
| `live_reconcile`, `live_reports`, `compress_empty`, `search_gold` | a documented claim that does not hold, see below | small |

Why these bounds: two writers and two readers are what a race needs (one that commits while
another is between its read and its commit, one that fills the cache while another waits),
and three versions let a stale one be two behind. The two contents of `MCFile` come in files
of zero, one and two chunks, so that a chunk can move to another place or disappear. Three
changes of the tree are enough to make a directory and a file in it and change that, or to
change one file between each two steps of its update; a queue of two overflows within them.
Of four turns two are called with a compressed history, the second one compressed twice: a
summary of the first pass is dropped by the next, beside a round that is new to it. Four
tries are one more than it takes to run out of redraws, so both caps are met, in either
order; three texts make two batches under each setting, and one of the lengths exceeds both
the token cap of a batch and the cap on the length of a text.

The files of `search` are one or two of nine pieces that hold what the chunker tells apart:
functions that fit and that do not, with a large statement first, between and last,
docstrings, decorators, inner functions, nested classes, a header over the budget,
definitions inside other statements, and two definitions that may be merged. With a cap of
two lines a body takes up to five calls of `read_file`. Two faults let an evaluation fail
while it writes a file and again when it is resumed, or have a run end in an error twice.

`FreshReads` and `RowsNeverGoBack` compare two moments. `EveryDirWatched` and
`NoChangeLost` say where each piece of work is at every moment, so a gap between two
steps shows as a violation even if a later event would hide it.

`RowsNeverGoBack` and `TableCatchesUp` are promises for as long as `BuildAll` has not been
called. Beside one they fail, and so does the code: `BuildAll` reads a file, the file changes,
the handler stores the new version, and `BuildAll` stores the old one with no event left to
correct it. Nothing in the repository claims otherwise, so this is a hazard and not a finding.
`NoChangeLost` holds beside `BuildAll` too, with a history variable, `crossed`, for the files
that took this path: there is no other way to lose a change.

Some properties have exceptions that a reader should know. `NoChangeLost` and
`TableCatchesUp` exempt files whose update failed and a `Run` that has stopped: nothing
retries, so those files stay stale. `BuildIndexesTree` is about the files that exist; the
rows of a deleted one stay, which is `live_reconcile`. `EveryDirWatched` is stated for walks
that do not fail. `PromptWithinBudget` admits what is over the budget with nothing old left
to drop. `BaselinePaysOnce` says nothing of the treatment arm, whose prompts do not extend
each other.

## Fairness

* `VectorStore`: a goroutine that can run does (weak fairness on the steps of a reader
  that holds the mutex), and whoever waits for the mutex gets it in the end (strong
  fairness), which is what `sync.Mutex` promises since its starvation mode. Nothing is
  assumed of the embedder or of new calls.
* `LiveIndex`: the watcher's goroutine is never blocked, so its steps and those of the
  handler are weakly fair. Cancelling and failing are not: they may happen, or never.
* `EndToEnd`: an evaluation that was started goes on (weak fairness), and whoever runs it
  starts it again while it is not running (strong fairness, since between two starts it may
  run under another plan). Faults are bounded, as in any liveness claim about retries.
* `AgentLoop`: one goroutine whose calls return, since the HTTP client has
  a timeout and a bounded number of attempts (which `clients` checks).
* `Clients`: a try ends, at the latest when the client's timeout fires, and so does a wait.
  Nothing obliges the provider to answer, or the caller to cancel.

## Findings

Four claims of the comments do not hold in the runs named; PROJECT.json quotes them.

1. `BuildAll` does not reconcile missed deletions (`live_reconcile`).
2. A file that is written into a new directory before the watcher adds it, and stays there,
   never comes to `OnChange`, although nothing fails (`live_reports`). The property leaves
   the watcher all the time it wants; one that lists the files of a directory it adds
   satisfies it.
3. An empty summary deletes an observation silently (`compress_empty`).
4. A generated task can have a gold span that no retrieval can hit: a module variable with
   the name of the patched function (`search_gold`).

More disagreements were met that no run is about; they are among the hazards of
PROJECT.json, with the lines: `Embed` can return fewer vectors than texts, or more, without
an error; a vendored or hidden directory made while the watcher runs is watched; a drop
makes the history longer when the observation is shorter than the marker, and a skeleton its
chunk when the body is shorter than the placeholder; a class header over the budget keeps
its decorator and not its class line; the replay also compresses after the last round; a
refined guideline has no effect on trajectories that are already recorded, and runs that end
in an error pull down the mean tokens of their arm; the compressor counts contents where the
ledger also counts the arguments of calls; each connection of `database/sql` to `:memory:`
is a database of its own; an anchor does not know whether its file was edited since;
`appendRules` truncates the guideline before it fills it.

## Proofs

`VectorStoreProofs` proves, for any sets of files, contents, writers and readers and any
bound on the number of versions:

* `TypeCorrect` and `InvariantHolds`: the type invariant and the inductive invariant
  `IInv`, with one step for each action;
* `VectorsAreAligned`, `CacheIsCoherent`: two invariants that follow from it;
* `ReadsAreFresh`: an action property;
* `Refinement`: `VectorStore` implements `IndexService`.

They assume what the named assumptions of `VectorStore` say: a file is a sequence of
contents, and the sentinels (no vector, no cache, a free mutex) are none of the values
they stand beside.

Neither coherence nor freshness is inductive by itself. A search may already have read
rows that a commit then supersedes, and fill the cache with them; that is harmless
because the writer that superseded them has yet to call `invalidate`, and waits for
the mutex the search holds. `IInv` says so for the cache and for every search between its
query and its fill (`Superseded`), beside who holds the mutex (`LockInv`), that the
cache holds the version it is said to hold (`CacheInv`, `FillInv`), and that what a
writer has drafted is aligned (`DraftInv`). The refinement maps visibility to the
cache's version when there is a cache, and to the newest version otherwise.

`LiveIndexProofs` proves, for any tree, queue, number of builds and of changes (at least the
one version that files begin with), the inductive invariant of the watcher with its handler
and a build beside them, and from it `TypeOK`, `NoChangeLost`, `RowsNeverGoBack` and
`BuildIndexesTree`. `NoChangeLost` is not inductive: the handler may be about to store what
it read before the file changed. What the invariant adds is that whatever the handler holds
is either the file as it is, or the file changed since, and then there is an event about it
in the queue, in `pending` or in the batch, or fsnotify had none to give (`HandlerTold`);
for a build the update may also have overtaken it (`BuilderTold`). An event leaves one of
these places only for the next. `VersionsGrow` (until a build starts no row, and nothing on
its way to one, is newer than the file) gives `RowsNeverGoBack`, and `BuildExact` gives
`BuildIndexesTree`: while a build is left alone, a file that exists is indexed as it is, or
is still to be read, or the build has a directory on the way to it yet to list. `TreeRooted`
(what exists is in directories that exist) is proved first, as it says that there is such a
way.

`AgentLoopProofs` proves, for any budget, cap on turns, sizes and lists of calls, the
inductive invariant of the loop with its passes, and from it `TypeOK`, `WholeRounds`,
`SummarizedOnce`, `OldestFirst`, `CountsMatchTranscript`, `PromptWithinBudget` and
`HistoryOnlyCondensed`. A pass works on a copy that differs from the history only in
observations it may touch (`CopyOfHistory`), so writing it back by index does no more than
that. What was sent to the summarizer bears a mark in the copy during the pass and in the
history after it (`AskedMarked`), and a marked turn is never chosen. The history is in rounds
also while the calls of its last message are answered, as many as `next` says (`RoundsGrow`),
and during a pass the copy shows the totals of the outcome and the pass's own counters
together (`CountsKept`).

`EndToEndProofs` proves, for any tasks, budgets, plans and number of faults, the inductive
invariant of the evaluation and from it `TypeOK`, `ReportFromFiles`,
`LearnsFromFinishedRuns` and `CompletedRunsKept`. The argument: a run writes only to a slot
without a whole file (`WritesMissing`), hence whole files never change (`KeepsWhole`), hence
what was read from one, a record, a report or a rule, stays true of it. It assumes that a
plan names no slot twice.

`ClientsProofs` proves, for any texts, limits, delays and bounds on the tries, the inductive
invariant of a call and from it `TypeOK`, `AcceptedAligned`, `RequestsFit`, `WaitsAsAsked` and
`RetriesJustified`.

* What is accepted: `OutSoFar` says that fewer vectors than the next text's place have been
  taken, and that if none is missing each is at its own place. A short batch moves all later
  ones up, and then the numbers differ for good, which is what the caller compares.
  `postEmbeddings` sorts by index; the lemma `AnswerInOrder` says that a complete answer, in
  whatever order it came, is the texts' vectors in theirs. Once a provider has sent a vector
  that nobody asked for (`astray`), nothing is claimed.
* What is sent: the code keeps a running count and stops at the first text that does not
  fit, `RequestsFit` speaks of the sum of a batch. `Filled` says that the count is the sum
  of the texts taken and within the caps (`TokensAdded`, `TokensAreSum`, from the library's
  fold by `SumsAgree`), and `Packed` that a batch that was posted stops because the next
  text does not fit.
* When it is sent again: `Fate` ties the outcome to the answers so far and the counter of
  redraws to the number of answers that were malformed calls.

For `EveryDirWatched`, `LiveIndexProofs` has a second invariant, `DirsInv`: what is inside an
unwatched directory is still to come because one of the directories it is inside of (`Path`)
is yet to be visited by the walk, to be listed, or to be reported by an event (`Comes`), and
each step that takes one of these away puts the next one down in its place. `Path` is the
smallest set closed under `Parent`, so no induction over the depth of the tree is needed. It
assumes `OneTree`: the root is above every directory.

`SearchProofs` proves, for any well-formed files, costs, budgets and caps, the inductive
invariant `SearchInv` of a file that is chunked, searched, assembled and read back, and from it
`SymbolsIndexed`, `WithinBudget`, `ContextFits` and `OmissionsRecoverable`. Most of the work is
about the chunker, which is one step of the specification but many folds and a recursion:

* A stretch of lines becomes a `Proper` row of chunks (each in the stretch and small, those
  with text in order and apart); `HasLine` and `Finds` say what a row contains. Each of
  `LineSplit`, `SplitBlock`, `SplitFunc` and `EmitFunc` yields a proper row that has every
  line of its stretch, shown by an invariant of its fold over the lines or units so far;
  `ClassHeader` yields one chunk that begins with the first line of the class.
* `Emit` and `SymbolsOf` are functions of the line a unit begins with that recur to later
  lines only. `Downward` gives their equations and `DownwardInduction` shows, from the last
  line up, that what is emitted for a class has the lines of each function among its
  symbols, at any depth of nesting.
* `MergeKeeps`: joining neighbours keeps the row proper and each line in it, so
  `FileChunksCover` holds with `Merge` on or off.
* In the context every line of a block is shown or behind an anchor (`Readable`); `Fulls`
  and the skeletons that follow stay within the budget as they are taken; what `read_file`
  has returned of a span is everything before the line asked for next (`ReadSoFar`).

`WindowTheorem` is what one call of `read_file` returns, for any file, cap and arguments.
`SearchProofs` assumes what `ChunkerAssumption`, `SearchAssumption` and `ToolsAssumption`
say: files are non-empty and indented as Python asks, and lines, headers and placeholders
have sizes.

`ReplayProofs` proves, for any budget, sizes, lists of calls and summaries, that the replay of a
recording is the live loop over again (`ReplayInv`), and from it `ReplaysLivePrompts`,
`OverheadNotUnderstated` and `BaselinePaysOnce`.

* The folds of the replay are taken apart into chains (`SummarizeSteps`, `DropSteps`,
  `ReplaySteps`, `InputSteps`, `CachedSteps`): a chain's element is what the fold has made
  of the first k turns or messages.
* What a summary will be is known only when the recording is finished. So the invariant
  speaks of every summarizer `q` that agrees with what has been said so far (`Agrees`), and
  at the end it is used for the one the recording gives (`Recalled`), which agrees because
  no turn was summarized twice (`SummarizedOnce`).
* `Follows` compares the two loops: between two rounds the replay of what is recorded has
  sent the same prompts and has the same history as the live loop; during a round it has
  once it adds the last message. `Along` does so during a pass. The live loop looks for the
  oldest turn it may take, the replay tries one after the other; at each step of the live
  loop there is a place of the replay's loop with the same turns, and no turn up to it is
  left to take (`CondenseRests`, `CondenseOldest` and the like for drops).
* The baseline: each prompt begins with the one before (`Growing`), so that one is their
  longest common prefix (`CommonPrefix`), and the sums of input and of cached tokens differ
  by the last prompt (`PaidOnce`).

`ReplayInv` quantifies over functions on all numbers, so TLC does not check it as it stands; TLC
checks the properties that follow from it.

Model-checked and not proved: liveness, which is out of the prover's reach
(`RetrieveReturns`, `WriteReturns`, `TableCatchesUp`, `EvaluationCompletes`, `RunStops`,
`CallReturns`). A run that expects a violation has nothing to prove.

## Not modelled

* The ledger of `meterCall` and `MeteringSummarizer`, and the tokenizer: sums of counts that a
  library returns, which feed back into nothing.
* Scores and the order of a search's results; the texts of prompts, reports and errors;
  prices.
* A database reopened with another embedder (a Store's embedder is fixed in the model), moved
  directories, Chmod events.
* `parse/python_refs.go`, which nothing but its tests uses; the grammar of Python.
* Downloads, environment variables, the reading of task files, the landing page.
