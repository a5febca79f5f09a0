# llmdev in TLA+

This directory holds a formal model of llmdev: TLA+ modules that follow the
TypeScript source, TLC configurations that check them on small instances, and
TLAPS proofs about them. Paths below are relative to the repository root
(`src/core/Engine.ts` and so on); "the code" means those files.

## 1. The system

llmdev is a visual workbench for training small language models. A Node server
holds one pipeline graph and runs it; browsers edit the graph and control the
run over WebSocket frames; models end up in a library on disk, where clones of
them can be trained further and talked to.

Almost all of it is **one JavaScript thread**. Two pieces of code interleave at
an `await` and nowhere else, so the model of a component is a set of actions,
each the code between two awaits. What makes the code hard is not parallelism
but the number of things that can happen at an await: a client's message, a
cancellation, a rejected promise, a second instance of the same handler, the
death of the process.

| component | source | state | operations |
|---|---|---|---|
| graph and executor | `src/core/Engine.ts`, `types.ts`, `Registry.ts` | node map with statuses and outputs, edges, abort controller, pause flag and waiters, commit flag, rate override | load, add/remove node/edge, run, pause, resume, stop, commit, set rate; broadcasts `state` |
| trainer | `src/nodes/train/PoCTrainer.ts` | model, step counter, best snapshot, checkpoint pair on disk, device context | run (setup, loop with pause gate, finalization) |
| evaluation | `src/nodes/eval/*.ts` | report | run |
| tokenizer node | `src/nodes/tokenizer/TokenizerNode.ts` | `.bin`, `.tokenizer.json`, `.cache.json` | run: cache hit, warehouse hit, or sample, train, encode |
| dataset warehouse | `src/core/DatasetDB.ts` | datasets and shards, graphs and projects, chat sessions | shard writer, find/load, saveGraph/loadGraph, chat CRUD |
| library | `src/core/LibraryManager.ts` | export files, clone directories with links, trainings in progress | list, create, clone, delete, rename, train, stop, accept a pipeline result, load |
| coordinator | `src/server/index.ts`, `protocol.ts` | pending acceptances, chat generations, default project | one handler per client op; restore at start-up |
| broker | `src/server/broker.ts` | UI sockets, workers by id | accept, register, dispatch, broadcast, REST |
| MCP | `src/server/mcp.ts` | clients by name, pending requests, tools | connect, list tools, call, disconnect, timeouts |
| ingestion | `src/nodes/data/JsIngestionNode.ts` | position in a remote stream | stream with retries and a fallback |
| BPE | `src/ml/bpeParallel.ts`, `tokenizer.ts` | pair counts, heap, merges | train, encode, decode |
| exports | `src/core/Exporters.ts`, `src/nodes/export/ExportNode.ts` | files | GGUF, safetensors, JSON header |
| model | `src/ml/model.ts`, `layers.ts`, `backend.ts`, `src/native` | tensors | forward, backward, optimizer |
| web client | `webapp/src/stores/pipeline.ts`, components | mirror of the server's state, save timer, active project | send ops, handle events, debounce saves |

**How they interact.** A client's frame reaches `Broker`, which hands it to
`handleOp` in the coordinator; `handleOp` calls the engine, the library, the
warehouse or MCP synchronously or starts a promise it does not await. The
engine calls `node.run(inputs, ctx)` for each node; `ctx` gives the node the
abort signal, the pause gate, the commit flag and the rate override. The engine
and the library emit events which the coordinator broadcasts to every client.
When a run resolves, the coordinator takes the first trainer output and asks
the clients whether to accept it into the library.

**What is hard, and what correct means** (the list with lines is `hazards` in
`PROJECT.json`):

- *Executor.* Pause, resume, cancel, commit and rate changes arrive at any
  await. No wake-up may be lost, no step taken while held, a request made for
  one node must not act on the next, the engine must be clean after every way
  out, a failure must stop what depends on it and nothing else, a cancelled run
  must end, and the clients must be shown the state the engine is in.
- *Graph.* Sequences of edits keep it acyclic and typed and never feed an input
  twice; `topoOrder` must accept exactly the graphs it can order.
- *Trainer.* The device context is released by whichever way the training loop
  is left.
- *Tokenizer and warehouse.* What a run is served is the whole stream of its
  key and the merge table it was encoded with, whatever became of earlier runs;
  no partial dataset passes for a complete one.
- *Library.* Links always resolve; training one variant does not change
  another; concurrent operations do not undo each other.
- *Coordinator, web client.* A result is accepted into the variant it was
  trained for; a graph is saved under its own project; a chat that was started
  ends, and what it showed is what is stored.
- *Checkpoints.* A slot is shared by runs of other shapes, cut short at any
  file; a run has to leave its best step, and weights beside their own moments.
- *MCP, workers.* Every request is settled once; tables of sockets and tools
  describe what is connected, and no child process is forgotten.
- *Ingestion.* Retries and chunk edges must neither lose, repeat nor split what
  one source delivers.
- *Pure code.* Layouts add up to parameter counts, offsets are aligned, merges
  are those a recount would choose, encoding retraces training.

## 2. The modules

| module | what it is |
|---|---|
| `PipelineGraph` | edges, upstream nodes, `validate` and the result of `topoOrder` as predicates; no state |
| `Topo`, `MCTopo` | `topoOrder` as a state machine, one action per loop iteration, over every graph of a small universe |
| `Engine` | the executor with the await structure of the nodes it runs; properties; the inductive invariant |
| `RunControl` | the abstract run: what a client may rely on |
| `EngineRefinement` | the refinement mapping from `Engine` to `RunControl` |
| `MCEngine` | instances of `Engine` for TLC |
| `EngineProofs`, `TopoProofs`, `TokenizerProofs`, `LibraryProofs`, `WorkspaceProofs`, `McpClientProofs`, `ChatProofs` (with `Broker`), `CheckpointProofs` | theorems about the module of that name, proved by TLAPS |
| `Tokenizer`, `MCTokenizer` | the tokenizer node, its files and the dataset warehouse |
| `Library`, `MCLibrary` | the model library: exports, clones, links, trainings, accepted results |
| `Workspace`, `MCWorkspace` | browser clients, the coordinator and the stored graphs: edits, saves, project switches, runs and their proposals |
| `McpClient`, `MCMcp` | the MCP bridge: connections to child processes, requests and their timers, the tool registry |
| `Broker` | the sockets of tabs and workers: what is under way, broadcasts, the table of workers |
| `Chat`, `MCChat` | chat sessions and generations over `Broker`: the tab's transcript, the coordinator's `runChat`, the stored messages |
| `Ingest`, `MCIngest` | the document stream: pages of the rows API, retries, the fallback to raw files |
| `Bpe`, `MCBpe` | the parallel BPE trainer, its heap and its workers; encode and decode |
| `Layout` | where TinyLM and the exporters keep tensors: counts, slices, offsets; no state |
| `Checkpoint`, `MCCheckpoint` | a checkpoint slot over several runs of the trainer; composes `Layout` |

### Engine

One action per operation of the class and one per stretch of a node's run
between two awaits. `phase` says where the program stands: `scan` is the
executor's own turn between two nodes, in which no client operation is enabled
because the code does not await there. `status`, `outputs`, `edges`, `abort`,
`paused`, `waiters`, `commitFlag` and `lrOverride` are the fields of the class
of those names; `todo` is the part of the topological order not yet reached
(the order itself is left open: any node no unreached node feeds may be next,
which covers every order Kahn's algorithm can produce); `shown` is the last
snapshot `emitState` broadcast. `gpu` says that the model of the executing node
holds a device context: a trainer builds its model at the end of its set-up and
disposes of it in the `finally` around its loop; the harness and the nodes in
`Evaluators` build one before their first await and only drop it, which leaves
its context in `stray` until the garbage collector finds it (`Collect`); so does a
trainer that throws between its model and its loop. `commitFor`, `lrFor` and
`broken` are history variables: no guard reads them.

What is abstracted: node types, parameters and positions (so
`updateNodeParams` and `updateNodePosition` change nothing here), port types
(folded into the constant `Connectable`, the edges whose types match), values on
edges, metrics and logs. A node without a gate is one await that returns or
throws. The harness checks the abort signal before it waits at the gate and
then never yields, so one action ends it. A rejected `load` is modelled as the
code has it: the map is replaced first, so a broken graph stays and can be run;
`RefusedRun` and `MissingNode` are what happens then.

### Tokenizer

`TokenizerNode.run` on one output file, run again and again with different
cache keys. Tokens are abstracted to chunks: a file or a dataset holds the first
`n` chunks of the stream of some key. A write that truncates its file first
leaves `Corrupt` until it is done. `Cancel`, the two `...Throws` actions and
`Crash` come between any two awaits; which of them may happen is the constant
`Faults`. `cutShort` and `tainted` are history variables.

Abstracted: what the documents are, the 8 KB chunking, back-pressure (`drain`),
metrics. The document stream is assumed finite and the file operations to
resolve.

### Library

Exports and variants share one table: `config` is the shape in an export's
header or a variant's `model.json`, `file` its `weights.bin`, which is absent,
bytes, or a symbolic link; `Follow` is the file system's resolution of chains
of links, written without recursion: a file reaches what lies in every set that
is closed under links, and opens what of that is no link. Weights are a shape and a version, a number for every set of weights
ever computed, which is how a property tells whose weights a file holds. The
methods of `LibraryManager` are synchronous and one action each; `train` is a
job per variant with an action for each stretch between two awaits, and what it
captured from `model.json` at its start is part of the job. `export` is the one
export under way: `ExportNode` overwrites header, weights and tokenizer in place,
each in an await of its own, and may fail at each. What an awaited write puts in a
file is there when the await ends; that its file may be unlinked or moved while it
is open is left out, and so are exports that the library does not list (adapters
alone, formats without `weights.bin`). `scene` bounds the operations, names and
shapes of a behaviour. Ids of variants are fresh (in the code: a slug and the
clock). The display name of a variant, its history of losses and
the `best.*.bin` copies, which nothing reads, are left out.

### Workspace

Clients and the coordinator. What a client sends is a queue of frames, handled
in order; `Disconnect` loses them, `Connect` sends `load_project`, `Restart` is
the server's death and start-up (without a preloaded pipeline). A canvas is the
number of the last edit applied to it, which is all that saving and loading can
tell. One edit action stands for every canvas operation, since each sends one
frame and schedules the save; whether the engine takes the edit is left open
(`Engine` says when). A run may end at any time, and may or may not propose a
result, so `stop` needs no frame of its own. The confirmation asked of a client
that sees a run in progress is left out: confirmed or not, the switch is sent in
the same way, and the snapshot it looks at may be old. `openVariant`'s refusal to
open the variant the chat is on only forbids behaviours. `home`, `astray`,
`unsaved` and `results` are history variables.

### McpClient

A connect is one asynchronous call with three awaits (the spawn, `initialize`,
`tools/list`), so it is a client with a `stage`; a client is named by the
connect that made it, and `clients` is the handler's map from names to clients.
`pending`, `nextId` and `held` are fields of `StdioMcpClient`, `asked` and
`stdout` are what the child has read and what it wrote that was not read yet. A
child may answer with any outcome, late, after it was signalled, or never; the
exit and the last output of a child are not ordered. The three local tools
keep no state, and a line of output is one frame. `settled` and `overlap` are
history.

### Broker and Chat

`Broker` is the transport: per tab the operations on their way (`up`) and the
events on their way back (`down`), and the worker plane. `Chat` extends it with
the store of a tab (`active`, `session`, `shown`), the coordinator's handlers,
and `runChat` with one action per stretch between two awaits (`gen`). A text is
its number of tokens; a message is told by its generation. A tab may address any
session that was ever made, since its list may be old. Titles, the list of
sessions and the sampling of tokens are left out. `left` bounds the inputs of
each kind; `missed`, `dropped`, `deleted` and `taken` are history.

### Ingest

`at` is the place in the generator: the head of the paging loop, a request under
way, a sleep, a page, and the same for the fallback. A file is a sequence of
booleans (printable or not), because `streamParquetRaw` does nothing with a file
but cut it into printable runs; the rows API serves the same runs as rows, so
that a document has one identity on both routes. Chunks may end anywhere. The
configs, their candidate keys and files are constants; which keys are published
is chosen once. How a row becomes text and which languages make a config are
left out.

### Bpe

Workers count and merge in their chunk, and reply with a change per pair; the
coordinator absorbs the replies in the order of the workers when all have come
(`Promise.all`), keeps a heap whose entries may be stale, and asks for the next
merge. A worker that exits before its answer rejects and ends the training; after
its answer nobody listens, and the training waits for ever at the next question. `MaxHeap` is modelled with its array, since which of two equal counts
comes first depends on it. `Encode` and `Decode` are `ByteBpeTokenizer`'s, with
the table learned so far. The module has `RECURSIVE` operators and is for TLC
only. A text is a sequence of two bytes; token 256 of the code is the first id
above them.

### Layout and Checkpoint

`Layout` writes down three descriptions of the same buffers: the offsets the
constructor of `TinyLM` gives its passes, the tensor table and adapter list the
exporters read, and the offsets the GGUF and safetensors writers put in a file.
Its three predicates say that they agree. Both writers and the tensor table lay
pieces one after the other; `Laid` is that loop, with the alignment (1 for none)
as a parameter.

`Checkpoint` is `PoCTrainer.run` around a slot of four files over several runs.
The model is a record of versions (weights, adapters, moments, step counter) and
the version on the device; every operation of `TinyLM` that changes them is an
operator (`Step`, `EvalLoss`, `EvalLossWithWeights`, ...), and a loss is any
value of a small set, or NaN. One `TrainStep` is one iteration up to
`persistBest`, the exploration included; a file is renamed in an action of its
own, so that a run may be cut short before, between and after. A temporary file
is complete before it is renamed. When the reduction meets a NaN the order of
the candidates is left open: the comparison `a - b` is then not an order, and
JavaScript leaves the result of such a sort to the engine. `started`, `trail`
and `torn` are history.

## 3. The runs

| run | question | bounds |
|---|---|---|
| `engine_run` | do pause, resume, cancel, commit and rate changes, in any order, keep the run's state in order; does a training loop give its device context back; does an unpaused run end; does the executor implement `RunControl`? | a data node, two trainers, a harness behind one trainer; 2 steps each; one rate |
| `engine_edit` | do loads and edits keep the graph valid and the clients current? | three nodes, one a trainer and one that evaluates; one input port; eight pipelines, of which one feeds an input twice and five are bad; six candidate edges, of which two never fit |
| `topo` | does Kahn's loop order every sortable graph and refuse the others? | all graphs with three ids, present or missing, and the drawn arcs over two ports |
| `tokenizer` | what is served, what is kept, does every run end? | two keys, three chunks, batches of two rows, all faults |
| `library` | does every operation leave trainings alone, and do they end; do links resolve, does a delete change what others read, do weights and optimizer state belong together? | two variants in three scenes: one export, two shapes, two versions of weights and all operations; two exports, one shape, two versions and all operations; one export, one shape, three versions, deletes and tokenizers |
| `library_rename` (violation) | do renames keep clones working? | two variants |
| `workspace` | is a graph saved under its own project, is no edit lost, does a result go into the variant it was trained for? | one client, the default project and two variants, one edit, one run, three frames under way; deletes, lost connections and restarts |
| `mcp` | is every request settled once, is every child reachable, does the registry follow the connections, does every call come back? | two connects, one tool call and one disconnect, on two names and one tool |
| `chat` | does a stored reply answer its prompt once, is what a tab shows what is stored, does a tab ever stay busy; is the table of workers right? | two generations of one token, two sessions; four casts of users: one tab with two further actions, two tabs on one session, a tab that loses its socket, a tab that watches two worker sockets use two ids |
| `ingest` | do the pages deliver their rows once and in order, do the files deliver whole runs, does the stream end? | two configs, a shared corpus of two files, up to four characters a file, pages of two, two retries, one rate limit, four documents |
| `bpe` | is every merge the best by a recount, does encode retrace training? | every text of 10 or 11 of two bytes, two workers that may exit, four merges |
| `checkpoint` | do the files of a slot match, does a run leave its best step, do evaluations leave no trace, do exports address what was trained? | three configs (a full model, adapters on it, another shape), three runs of two steps, two losses and NaN, two candidates |

Invariants that are about one module as a whole are checked together, with what
makes them inductive: `IInv` of `Engine`, `Tokenizer`, `Library`, `Workspace`,
`McpClient` and `Checkpoint` names its parts (section 4 says what they are). The
inductive invariants of `Topo` and `Chat` are in no configuration here, since a
run states what a reader asks of the component; TLC agrees with them on the
instances of those two runs.

**Why the bounds are enough.** Two trainers are needed for a request to reach
the wrong one, one node behind a trainer for a skip, and two steps for a pause
between steps; the pause gate holds at most one node, since one node runs at a
time. Three chunks with batches of two leave a flushed batch and a pending row
at once; two keys are needed for one to find the other's files. Three ids give
every shape of cycle, self loop and missing endpoint the counts of Kahn's loop
can confuse. An export and two variants make a chain of links whose middle can
be deleted; two exports let one be renamed or exported again while the other is
read. `versions` counts weights, and a training keeps one in reserve, so the bound
never stops one half way: with two, a variant trains beside one that has no
weights yet; two variants that are linked to an export, or one to the other, train
at once where there are three, the export's and one for each, which is the scene
`Together`. `scene` keeps these apart because all operations with three versions
are out of reach; the theorems are about any of them. In
`Workspace` a switch with a pending save and a load after it fill three frames;
one edit tells a canvas from the stored graphs; two variants let the project of a
run differ from the one on the canvas. In `McpClient` a second connect is what a
first one can overlap, under the same name or not. In `Chat` two generations on
two sessions can be mixed up by whatever confuses a tab; three registrations let
one socket change its id and another take it. In `Ingest` the file of the first
config has a run that is too short, the mixed corpus one that is too long, and
quotas that end a page in its middle. In `Bpe` the texts are long enough for
merges of merges, for runs of one byte and for stale heap entries below a fresh
root. In `Checkpoint` three runs are a run, one that it cuts short or replaces,
and one that resumes from what is left; the third config has fewer layers, so
that its slot does not fit.

**Fairness.** `Engine` is weakly fair to the executor's own turn (`Scan`: the
code runs on until it awaits) and to the continuation of the running node
(`NodeStep`: each await in it is a timer, a file operation or a gate; the event
loop runs what is ready). Nothing is assumed of clients, so `RunEnds` allows a
run to stay paused for ever. `Tokenizer` is weakly fair to its own steps and to
no fault: an exception or a crash never has to happen for a run to end. `Library`
is weakly fair to each training, again without its failures: the loop has a fixed
number of steps and yields with `setImmediate`. `McpClient` is fair to the
outcome of a spawn and to timers, and to nothing a child does: it need not
answer, nor die of a signal. `Chat` is fair to delivery on an open socket, to the
coordinator and to `runChat`, not to users, workers or losses. `Ingest` is fair
to the generator's next step, whatever the outcome: the consumer pulls, and every
request is answered or rejected (`fetch` without a timer relies on the network for
that). `Workspace`, `Bpe`, `Topo` and `Checkpoint` state safety only.

**The violation.** `RenameKeepsWeights`: `rename` moves the export's files and
then asks `existsSync` of each clone's link, which follows it to where the file
was: no link is re-pointed, and the clones lose their weights.

**Exemptions.** Where the code does what a property would forbid, a history
variable says so and the property holds outside of it. They are part of what the
model shows:

- `cutShort` (`Tokenizer`): a run that throws while encoding calls neither
  `commit` nor `abort`; the dataset row and its flushed batches stay and are
  taken for a complete dataset by every later run of the key, although
  `TokenizerNode.ts:218` says "ONLY on a complete run".
- `tainted` (`Tokenizer`): a cancelled run has overwritten the `.bin` and
  tokenizer files but leaves the manifest of the run before; a run with that
  manifest's parameters is served the partial file.
- `torn` (`Library`): accepting a pipeline result replaces `weights.bin` but not
  `adam.bin`, so the next training restores moments of other weights; a failed
  write of `adam.bin` does the same.
- `renamed` (`Library`): `LinksResolve` and `DeleteKeepsWeights` hold until the
  first rename of an export.
- `astray` (`Workspace`): the client takes a project for open as soon as it has
  asked for it; the engine refuses to load while a run is in progress (so after
  every forced open), the old canvas stays, and the next save stores it under the
  new project. The same follows when it deletes the project it is on, or another
  client's load moves the one canvas they share. `unsaved`: a save lost with its
  connection.
- `overlap` (`McpClient`): a second connect under a name while the first is
  unfinished leaves one of the two children out of the map, where no disconnect
  reaches it; a `tools/list` answered after a disconnect registers tools of a
  server that is gone. And whatever else happens, a handshake that fails after
  the spawn leaves its child running.
- `taken` (`Broker`): the close handler of a worker's socket deletes its id even
  if a newer socket has registered under it, which then is connected and not
  listed.
- `missed` (`Chat`): a tool's answer, the line of a sent RPC or a session loaded
  while a reply streams becomes the last message of the transcript, and the
  tokens that follow are not shown; the reply stays marked as streaming.
  `deleted`: deleting a session does not stop its generation, so a session made
  again under its id gets a reply without its prompt. `dropped`: a socket that
  closes under a generation leaves the tab busy, since `chat_done` is not sent
  again.
- `torn` (`Checkpoint`): a kill between the two renames leaves new weights beside
  old moments ("Both files are re-written atomically", `PoCTrainer.ts:64-65`,
  holds for each and not for the pair).

**Further observations**, part of the models and of no run:

- `load()` replaces the nodes before it knows that the new pipeline is good and
  broadcasts only when it is, so after a rejected load clients go on showing the
  old nodes (`ShownIsCurrent` exempts it, by `broken`). `topoOrder` compares
  counts only: an edge between two ids that are both missing does not disturb
  them; `validate` catches it, but a run after a rejected load does not call it
  again. A cancelled trainer resolves like any other, so its outputs stay
  referenced until the next run. `load` takes a pipeline with two edges into one
  input, which `addEdge` refuses and `validate` does not look for.
- Device contexts are left to the garbage collector after every evaluation
  (`EvaluationNode.ts:59`, `EvaluationHarnessNode.ts:177`), after a trainer that
  throws between its model and its loop (`PoCTrainer.ts:204-285`) and, in the
  library, after a training that throws (`LibraryManager.ts:470`): `stray` in
  `Engine`. An idle engine may still hold device memory.
- Where a gradient is NaN, the loss evaluated at rate 0 leaves NaN in the device's
  weights until the host's are loaded again, which is before the step ends.
- A BPE worker that exits between its answer and the next question has no listener
  left (`bpeParallel.ts:144-148`): the training is never settled, and its signal is
  not looked at. `Tokenizer` assumes that the training of merges settles.
- An export whose weights fail half way leaves its new header beside them, and the
  library lists it.
- A training that ends after its parent was renamed writes back the `model.json`
  it read at its start, with the old names. Deleting an export copies its weights
  into the clones but removes the tokenizer file they refer to.
- The fallback of ingestion starts from the first file, after pages of the same
  config were delivered; two configs may fall back to the same mixed corpus. A
  body that cannot be read throws out of the stream, where a failed request is
  tried again. Status 429 is tried again without a bound: with `MaxLimited` the
  model's server stops at some time, and only an abort ends it if it does not.
- Pairs across the border of two chunks are not counted, so that the merge table
  depends on the number of threads.
- The loss that decides about a snapshot is that of the model before the update,
  the snapshot is taken after it. With adapters the loss may be that of a
  candidate that was not blended in, and when another candidate's loss is NaN, the
  reduction may blend that one in: the gate looks at the least loss, the sort at
  all of them.
- The record loss starts anew with every run, so a short, cancelled or diverged
  run replaces a better slot. A cancelled run whose shapes do not match overwrites
  the slot with the random model it started from. A slot is taken for matching by
  the lengths of its files, so that two shapes with the same number of parameters
  are read as each other. Adapters never resume from a full model's slot, since
  the lengths of the optimizer's files differ: their frozen base is then random.
  Nothing reads `best.*` back.

## 4. The proofs

Eight modules of proofs, one for each component with state but `Ingest` and
`Bpe`. Each proves its component's theorems for every value of the constants that
satisfies the named assumption of the module (evaluated by TLC on every run):
that sentinels (`None`, `NoNode`, ...) are no members of the sets they are told
from, that bounds are natural numbers, that the sizes of a model are natural numbers
(`ConfigsAssumption`; depth and rank may be anything, the code clamps them), that
names and clones are disjoint, and that the sets whose members are counted are finite (`NodeIds` in `Engine` and
`Topo`, the ids of `Library`). No theorem assumes anything of the sizes: there is
any number of clients, tabs, sessions, generations, variants, runs and steps, and
queues of any length up to a bound that is a parameter.

| module | theorems (`Spec =>`) |
|---|---|
| `EngineProofs` | `[]IInv` and from it `TypeOK`, `NoLostWakeup`, `UpstreamDone`, `IdleIsClean`, `EditsKeepGraphValid`, `ShownIsCurrent`; the action properties `LoopGivesBack`, `NoStepWhenHeld`, `ControlsScoped` (`CommitScoped`, `RateScoped`), `RunDecidesEveryNode`; the safety part of `RunControl` under the mapping of `EngineRefinement` |
| `TopoProofs` | `[]IInv`, `DecidesSortable`, `UpstreamFirst` |
| `TokenizerProofs` | `[]IInv` (with `Inv`), `HitIsWholeUnlessTainted`, `CompleteIsKept` |
| `LibraryProofs` | `[]IInv` (with `TrainedVariantExists`, `LinksResolve`, `PairedOptimum`), `DeleteKeepsWeights` |
| `WorkspaceProofs` | `[]IInv` (with `QuietIsSaved`, `ReplacedIsSaved`), `SavedUnderItsOwn`, `ResultOfOwnCanvas` |
| `McpClientProofs` | `[]IInv`, `Inv`, `OrphanHasCause`, `ToolsFollowTheMap` |
| `ChatProofs` | `[]IInv`, `WorkersTable`, `ReplyFollowsPrompt`, `ShownIsStored` |
| `CheckpointProofs` | `[]IInv`, `PairsMatch`, `BestIsShipped`, `ModelCoherent`, `ExportsAddressTensors` |

Every proof has the same frame: `IInv` holds initially, every action keeps it
(one lemma or step per action, under it one per conjunct the action can disturb),
and `IInv` implies what is claimed. What the strengthening is, and why it is
needed:

- **Engine.** `Control` says how the phase determines the rest of the control
  state, `Walk` what the statuses are in terms of `todo` and `cur`. That a waiter
  implies a pause survives `EndRun` only because a waiter exists only in phase
  `parked`; that a commit request belongs to the executing node survives
  `NodeReturns` only because the flag is cleared there. `LoopGivesBack` needs to
  know that a trainer holds a context at its gate and nowhere else (`HoldsContext`):
  what `FinalEnds` drops has none. `EditsKeepGraphValid` is
  inductive by itself: two edges meet in one input only where a load brought both
  (`FedTwiceOnLoad`), since `addEdge` looks at the input first; an added edge is validated with the whole graph, and a new
  node, a removed node with its edges or a removed edge keep a valid graph valid
  (`EditedValid`), which `removeNode` and `removeEdge` rely on without validating
  again; `GraphOrder` turns the count `validate` looks at into the absence of
  cycles and back. `Verdicts` is what the walk has left
  so far; `RunDecidesEveryNode` is what it says when nothing is left.
- **Topo.** The count of an id is the number of its arcs from ids not ordered
  (`CountsMatch`), so those at zero are exactly the ids that wait for nothing
  (`Ready`). When the queue is empty, every id that is not ordered is unknown and
  fed by nothing or waits for another such id, so that what is left is exactly the
  set `Unreached` of `PipelineGraph`.
- **Tokenizer.** Files on disk, rows in the warehouse and what the run holds agree
  at every await (`EncodedInBoth`, `Consulted`, `FilesAgree`); a partial dataset
  has a cause (`PartialHasCause`).
- **Library.** `Reached` is a least set, which gives induction along the links for
  a set of files (`AlongLinks`): what holds of every file with bytes, and of a
  link when it holds of its target, holds of whatever can be read. With it each
  operation's effect on all readers is a lemma: bytes in the place of a file or a
  link (`BytesKeep`), a file where none was (`NewKeeps`), a file that goes while
  the links to it become copies (`CopiesKeep`). The last needs to know that the
  links to a model are those of the variants that have it as parent
  (`LinksOwned`), which `delete` relies on and which a training that writes back
  an old `parentId` could break; it cannot, until an export is renamed. That no
  link leads to an id before it is used is `NeverMade`; `Trainings` says what each
  stretch of `train` holds in its hands, and `Reserve` that the bound on versions
  is never reached inside a training.
- **Workspace.** A frame that is saved or run names the right project because all
  frames behind a load are about the project it loads, up to the next one
  (`FramesInOrder`): the queue has to be in order everywhere for its head to be.
  An edit in the queue has its save behind it (`EditsAreFollowed`), and a canvas
  that is not stored has somebody who is about to store it (`UnsavedHasCause`).
- **McpClient.** A client in the map is past its handshake and under its own name
  (`Handshake`, `UnderOwnName`); where no operations overlapped, an unfinished
  connect is the only one under its name, and a client that was entered before it
  has been signalled (`OneConnect`).
- **Chat.** A prompt is in one queue once (`SentInOrder`, `QueuedOnce`), a stored
  reply belongs to a generation that is over (`RepliesAreOver`), and a generation
  that was started finds its prompt in its session, unless that was deleted
  (`PromptStored`): hence a second reply never comes, and the first comes after
  its prompt. For a tab's list of workers, either the last list on its way to it
  is the current one, or none is and the one it shows is (`Told`).
  `ShownIsStored` needs `InStep`, which follows a token from the generation to the
  transcript. A generation that was not started has no tokens (`NothingYet`); on
  the way to a tab, the `chat_done` of a generation comes behind the last of its
  tokens (`InTurn`); a tab waits for a generation of its own (`WaitsForOwn`); the
  message that is being streamed has the tokens made but those on their way, a
  count over the queue (`Tokens`), and every other reply in a transcript is whole,
  waited for or was missed (`View`). Whole replies, and no others, are stored
  (`RepliesStored`), so that what is shown once its end was read is what is stored.
- **Checkpoint.** `HalfRenamed` says which pair is between its two renames, the
  only one that may differ; `BestSoFar` and `BestPersisted` follow the record from
  the loss to the snapshot and the files.
  `ExportsAddressTensors` is a fact about `Layout` for every config: the sum of
  the sizes before a tensor is where the constructor has it, by induction on the
  layers (`LayersStart`) and, in a layer, tensor by tensor (`AfterLayer`); with
  padding, the place of every piece moves with the place of the first
  (`LaidMoves`), whatever the length of the header. The library's induction
  theorems cannot be applied here, so `UpTo` is induction for a set of numbers, from
  the well-foundedness of `<`; with it `EndsExist` shows that there is a function
  with the recursive definition of `Laid`.

Writing the proofs changed the models where they could not be proved. With more
than one client, a load does not bring its client back on the canvas while a
deletion of its active project is still under way, nor others that have frames
under way: `Workspace` now calls those astray, and its `ReplacedIsSaved` speaks of
a save that is to come from another client. `Library`'s recursive following of
links became the definition above. The finiteness of the sets of ids became part
of the assumptions. `Layout` wrote its tables as concatenations and its sums as
folds, of which the library has no facts; they are functions of the place in the
table now, and one loop.

**Only model-checked.** The liveness properties (`RunEnds`, `TrainingEnds`,
`CallsSettle`, `BusyEnds`, `StreamEnds`, the fairness of `RunControl`) are out of
the prover's reach, and so is everything about `Bpe`, whose operators are
recursive over texts. `RowsInOrder` and `RunsWhole` of `Ingest` are about
selections from sequences of sequences, of which the installed library has no
facts; the place of a row among the ones delivered would have to be built up
from nothing, as `Laid` was, for each of them.
`RenameKeepsWeights` is false.

## 5. The plan

All components with control of their own are modelled, and every safety property
of a run is proved but those named above. What is left:

1. `Ingest`: `RowsInOrder` for the pages alone, with an induction like that for
   `Laid` over the rows that were selected.
2. Abstract specifications worth stating besides `RunControl`: a store of pairs
   that are replaced together (for `Checkpoint`), a table of live connections (for
   `Broker`), a request that is answered once (for `McpClient`).

**Not modelled.** The forward and backward passes, the sampling of tokens and the
CUDA kernels (floating point); rendering and the layout of nodes; templates, the
command line, containers and scripts, of which only the kill of the server is
used; metrics, logs and benchmark charts; the REST facade, which hands the same
operations to the same handler; `dispatchToWorker`, which nothing calls; the
sequential `ByteBpeTokenizer.train`, which nothing calls; `paramMath`, which
estimates a textbook formula for display and is not the layout of `TinyLM`.
