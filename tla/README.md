# A formal model of the HasteKit agent SDK

TLA+ modules that model the agent runtime of `hastekit-sdk-go`, the TLC
configurations that check them on small instances, and TLAPS proofs of what
matters most for every value of the constants. File and line numbers are those of
the sources under `src/`; paths without a directory are in `src/pkg/agents/`.

Contents: 1 the system · 2 the modules and how they correspond to the code ·
3 what the runs check · 4 fairness · 5 what is proved · 6 where the code and its
comments disagree, and what the properties leave out · 7 what is not modelled ·
8 the plan.

## 1. The system

An *agent* answers a user on a *thread*. A turn is handed to `EnqueueOrStart` of a
stream broker, which either starts a run of the agent loop or adds the turn to the
queue of the run in flight. The loop alternates model calls and tool calls, folds
queued messages in at the top of each iteration, stops when asked to, pauses when a
call needs the user, and saves one row (conversation and run state) when it pauses
or completes. A model call goes through the gateway: the history is written in the
provider's wire format, the answer is converted, event by event, into native chunks,
which are folded into the response the loop goes on with and published on the
thread's stream, to which any number of clients subscribe, early or late. An AG-UI
handler translates the chunks into the events of that protocol. *Workflows* are
graphs whose nodes call agents, and which a node may suspend.

| component | state | operations | how it meets the others |
|---|---|---|---|
| Agent loop (`agent.go`, `tool.go`, `handoff.go`) | the step it is at, the run, the agent in charge | `Execute`, `ExecuteWithRun`, `AgentHandle.Stop/EnqueueMessage` | reads queue and stop flag of the broker, calls models and tools, saves through the run manager |
| Run state (`agentstate/agent_state.go`) | step, loop count, pending calls, calls awaiting approval, approvals, rejections, nested and paused calls, context counters | the `TransitionTo...` methods, `PromoteAwaitingToApproval`, `CollectNestedApprovalsForParent` | belongs to one run; saved with the row |
| Run manager (`history/conversation_manager.go`) | old and new messages, queued messages, which run a message is of | `NewRun`, `AddMessages`, `GetMessages`, `ProcessInterrupts`, `SaveMessages`, `TrackUsage` | loads and saves through a persistence, asks a summariser |
| Summarisers (`history/summariser/`) | none: the boundary of the last summary is a row of the store | `Summarize` | called when a prompt is built |
| History persistence (`history/conversation_persistence*.go`) | threads, branches, runs, summaries; an append-only file per conversation | save, load, branch, replay | used by the run manager |
| Stream brokers (`streambroker/`) | claim, queue, stop flag, transcript, subscriptions per stream | `EnqueueOrStart`, `Publish`, `Subscribe`, `Close`, `Stop`, `WatchStop`, `EnqueueMessage`, `DrainMessages` | shared by clients, the loop and its tools; the Redis one between processes |
| Tool executor, stoppable calls (`tool_executor.go`, `stop.go`, `llm.go`) | one goroutine and report channel per call | `ExecuteAll`, `RunStoppable` | runs tools in parallel, gives up on them after a stop |
| Gateway converters (`src/pkg/gateway/providers/`) | per stream: the open item, what it accumulated, usage | to and from each provider's format, streamed and whole | between the loop and a provider |
| AG-UI handler (`src/pkg/agui/`) | per connection: open text, calls, reasoning, steps | run, join, rejoin, resume, stop, read a thread | a client of the loop and the broker |
| Workflow engine (`src/pkg/workflow/`) | statuses, ports, context, the pause, staged decisions | compile, walk, resume | nodes call agents |
| Sub-agent tool (`tools/agent_tool.go`) | a nested thread | `Execute` | surfaces inner interrupts, hands approvals down |
| MCP client (`mcpclient/`), durable runtimes (`runtime/`), TTL map, gateway routing, telemetry, facade | connections, journals, caches | I/O and wiring | section 7 |

**Hard behaviours.** Clients act between any two steps of the loop: a stop races a
model's reply, a message races the end of the run, an approval arrives late, twice
or against a rejection. One approval list serves calls that were let through and
calls a user approved, and lives across pauses and handoffs. A run may be left by an
error without saving, and a process may die in the middle of writing a record. In
the brokers, publishing and subscribing interleave, channels fill up and close, the
transcript is trimmed, tools outlive their run, a stream is reused by the next run,
and in Redis each method is several commands with other processes in between, keys
that lapse and processes that die. Providers announce and end blocks differently or
not at all, connections break after any event, and a history written with one
provider, perhaps reloaded from a store, is sent to another. Nodes of a workflow end
in any order, and a resumed walk goes over finished nodes again.

**What makes each part correct.**

- *Agent loop and run state*: no gated tool without its approval; every prompt and
  every completed row pairs calls and outputs; a paused row can be resumed; an
  answered call is not run again; approved calls do start; a run ends.
- *Run manager and summarisers*: what the model is shown stands for the whole thread,
  nothing twice and nothing lost; the count that triggers a summary leaves
  out nothing the prompt will hold; a stored summary stands for exactly the runs it replaces.
- *Persistence*: replaying the files gives the memory; an acknowledged save survives.
- *Brokers*: turns join or start, never neither or both; each chunk reaches each
  subscriber once and in order; streams end while their readers read; a stop reaches the run in flight and no
  other; a claim is released in the end.
- *Converters*: items follow one another, carry each block whole, agree with the
  answer given unstreamed; only whole calls are executed; the next prompt pairs them.
- *AG-UI*: the events obey the protocol's grammar; what was streamed is what a reload
  shows; posting the list back keeps the thread.
- *Workflow*: a completed node is final; a resumed walk takes no branch the first one
  did not; decisions are reached; every walk accounts for its nodes; no node runs past one that
  is undecided.

The hazards behind these, with their lines, are listed in `PROJECT.json`.

## 2. The modules

| module | what it is |
|---|---|
| `AgentRun`, `MCAgentRun`, `AgentRunProofs` | the agent loop, run state and run manager, for one thread |
| `RunClaim` | abstract: what `RunClaimBroker` promises (`stream_broker.go`) |
| `MemoryBroker`, `MCMemoryBroker`, `MemoryBrokerProofs` | the in-memory broker with the goroutines that use it; it implements `RunClaim` |
| `RedisBroker`, `MCRedisBroker`, `RedisBrokerProofs` | the Redis broker, one action per command; it implements `RunClaim` |
| `Workflow`, `MCWorkflow`, `WorkflowProofs` | the workflow engine and its host |
| `Persistence`, `MCPersistence`, `ReplayLemmas`, `PersistenceProofs` | the in-memory store, the file store over it, and the managers that save |
| `DataLemmas` | facts about numbers and sequences that the proofs share |
| `Summaries`, `MCSummaries`, `SummariesProofs` | the run manager's context: loading, prompts, tokens, summarisers |
| `NativeResponses` | the provider-neutral items and chunks, their decoding, the accumulator of `llm.go` |
| `AnthropicCodec`, `GeminiCodec`, `BedrockCodec`, `ChatCodec` | one wire format each, both ways, as operators |
| `ModelCall`, `MCModelCall` | a conversation held with models of any of the four formats: composes the codecs |
| `AguiTranslator` | what `src/pkg/agui` computes, as operators |
| `AguiSession`, `MCAguiSession` | a chat over AG-UI: composes `ModelCall` and `AguiTranslator` with a run and a client |

`MC...` modules give constants for TLC. Operators that end in `_Word`, marked as
mutants in a comment or placed right before the definition they deform, are wrong variants
of it. No specification uses them; they show for each property a plausible bug that
would break it.

### AgentRun

| variable | code |
|---|---|
| `pc` | where the goroutine of `ExecuteWithRun` is: `top` (534), `stop_check` (546), `dispatch` (622), in a model call, in `ExecuteAll`, returning, or no run |
| `agent` | the agent whose `ExecuteWithRun` is active; a handoff (958) is a call of the target's |
| `rs` | `RunState` |
| `mem`, `disk` | the conversation in memory; the row last saved |
| `batch`, `running`, `raised` | the argument, the unreported part and the interrupts of `ExecuteAll` |
| `queue`, `stopped` | what the broker holds for the run |
| `client` | history: what was sent, shown, approved, emitted, started |

The loop's actions follow the source: `DrainMessages` (534-539), `CancelRun` or
`KeepRunning` (541-620), `CallModel` then `ModelReplies` or `ModelCallStopped`
(624-749), `RunTools`, `ToolReturns`, `RecordResults` (751-960), `Pause` (962-977),
`Complete` (979-994), `MaxLoopsExceeded` (998), `Close`; `FailRun` is every other
error return and the death of the process. Client actions are `Execute`,
`EnqueueMessage` and `Stop`. They interleave with all of these because the loop reads
the queue, then the flag, then acts.

Abstractions. Message and call contents are model values. A history is the set of
its calls, a count of outputs per id and a set of user messages: order inside it is
left out, and what depends on it is left to `Summaries` and `ModelCall`. The lists of
`RunState` are sets, since the code puts no id twice in one. Model output is any set of
calls with fresh ids (providers make ids unique). Which tool belongs to which agent,
which are gated, which interrupt and who hands off to whom are CONSTANTS, so proofs
hold for all of them. An inner interrupt of a sub-agent is an id in `Inner` with a
`parent`.

### MemoryBroker and RedisBroker

In `MemoryBroker` every method takes the mutex and is one action, but for `Publish`,
which copies the list of subscribers under the mutex (`Publish`) and sends after
releasing it (`Send`, one subscriber each; `SendOnClosed`; `PublishCancelled`). A Go
channel is a bounded buffer that is open, ended by `Close` or left by its subscriber.
`transcript`, `live`, `closed`, `stopped`, `stopChan`, `queue` are the maps of the struct
at one stream. `signalled` is the set of closed stop channels and `watches` records
which run asked for which. Goroutines are the loop and its tools; a tool may publish
progress (`progress.go`) and, after a stop, outlive its run. `run`, `got` and `fate`
are history.

`RedisBroker` has one action per command or MULTI/EXEC pipeline. `EnqueueOrStart` is
`Claim` (SETNX) then `Reset` (DEL), or `Decline` then `Join` (RPUSH). `Close` is
`WriteEnd` (XADD of the sentinel) then `Release` (DEL). A reader pages with XRANGE and
then tails with XREAD; both are `Read`, which passes a page on up to the sentinel.
Trimming is `MAXLEN ~`: any XADD may drop any number of the oldest entries, never leaving fewer than `maxLen`.
A tool that a stop left behind may publish during `Close` and after it. `Expire` is
the lapse of the claim and of the stream after `activeTTL` without a publish;
`Abandon` is a crash after the SETNX, in the run or in `Close`, and the early return
of `Close`.

### Workflow

`Execute` starts a walk, `Dispatch` is the top of the wave loop (the nodes completed
before are replayed and not run), `Finish` the return of one node's goroutine, and
`MergePause`, `MergeFailure`, `MergeOutput` and `Replay` are one iteration each of the
loop over the results, in the order the code sorts them, because routers read the
context as merged so far. `EndWave` and `Finalise` are what follows the loop.
`status`, `ports`, `runContext`, `pause`, `resumes` are the fields of `Input`, which the
host keeps between walks; `SetResume` stages a decision. A node computes a port and one
value per key it writes; a router returns the value of the key it reads. Every graph
in `Graphs` goes through `Compile`, and those it refuses start no behaviour.

### Persistence

`mem` is the in-memory adapter that the file adapter wraps, `file` a sequence of
complete lines per conversation and what follows the last newline, `op` the save that
holds the mutex, between the change of memory, the write and the sync. `Save` and
`SaveSummary` change memory first, as the code does; `Write`, `Sync`, `WriteFails` and `SyncFails` (the
record is whole in the file and the save still returns an error) are the rest; `Crash` may leave nothing, a part or
all of the record of a save under way. `Open` is
`NewFileConversationPersistence`: it replays with `ApplyRecord`, which is not the code
that saved. A save's messages are one numbered increment. `SaveInMemory` has the three
cases of the code: known run, next run, branch off the middle with a copied prefix.
A manager may open what no other works on: `WorksIn` takes in the branch that another's
first save has made. The broker's claim is on the thread a turn names and leaves such a branch
to whoever opens it (section 6).

### Summaries

A bundle is an id, a kind and a sender. `rows` and `summary` are the store, `mgr` the run
manager of the turn in progress, `sent` the last prompt. `Turn` loads and starts or continues
a run; `CallModel` and `SummarizeAndCall` are `GetMessages`; `Reply` tracks usage and adds the
answer; `SaveSummary` and `SaveMessages` are the two writes of a save, between which `Fail`
may come. `groupIntoRuns`, `keepFromIndex`, `Summarize` (LLM), `Slide` (sliding window), `Applied` and
`attributeMessages` are the functions of the source of those names; the groups are given by the
places where one starts, and a cut by the place where the kept ones do. Tokens are small
weights. `estimateBundleTokens` is the code's estimate, an image heavy and anything else one;
`Measure` is what the provider reports, with weights of its own (`Tokens`) that need not agree with
the estimate, the attribution prefixes and the steering notes included, and `Weight` is what the
count may know of a bundle: its report, or until there is one its estimate. A reply may come without a
report. It is assumed that attribution is
enabled and that no message filter is set.

### Model calls

A text is the sequence of the fragments it was streamed in, so that losing, doubling,
swapping or misattributing one shows. `NativeResponses` has items, chunks, what the JSON of an
item comes back as (`ReadBack`: every message becomes an `EasyInput`), and `ReadStream`, the
accumulator of `llm.go`. A codec has the converter of streamed events (`Convert`), of whole
answers (`ToNativeResponse`), of the history into a prompt, and the reverse
directions that serve native answers to clients of the provider's own API. The events
a provider sends (`NewBlock`, `Announce`, `Send`, `Conclude`, `Farewell`) are external, taken
from what the converters expect. `ChatCodec` is the chat-completions dialect of
`openaicompat`.

`ModelCall` interleaves the provider's blocks with the delivery of events and a broken
connection (`Break`, after which each client ends its stream as it does in the code:
Anthropic's and Bedrock's silently, the other two as at a regular end), appends the answer
and its calls' results to the history, may reload it (`Reload`) and calls the next
provider.

### AguiTranslator and AguiSession

The translator's state is what is open: a text, calls, reasoning, steps. `AguiSession`
runs `ModelCall`'s streams inside a run: `Post`, `Join`, `Resume`, `Rejoin`, `Stop`, `Refresh` are the
requests of the handler, `Ask`, `Chunks`, `Broken`, `RequestTools`, `Execute`, `Pause`, `Done`, `Fail` the run.
`step` and `pending` are the run state's current step and pending calls: a plain message to a paused thread
starts a run that pauses again, decisions start one that runs or declines the calls, and a stop that finds
calls pending publishes and stores a cancelled result for each before its notice. `parked` is what was queued when
the run paused, which the next run takes up. `log` is what the broker keeps of the run for a client that rejoins. The client is
external: it builds its list as `@ag-ui/client` does (`Applied`) and checks the grammar
(`Legal`), since the translator's comments promise that `verifyEvents` accepts the stream.
The calls of one answer are all executed or all paused, and decided on together; `AgentRun` has the mixtures.

## 3. The runs

| run | instance | what it shows |
|---|---|---|
| `agentrun_approval` | a gated call, a call that elicits input, two interchangeable messages, faults and broker errors, budget 2 | `GatedNeedsGrant`, `PromptPaired`, `AnsweredNeverRerun`, with every order of stops, late, doubled and contradictory resolutions, abandoned and resumed runs |
| `agentrun_subagent` | a sub-agent call that may surface an inner interrupt, a call that may interrupt under its own id, budget 2 | `PausedRowResumable`: a saved pause leads back to exactly the unanswered calls that no stop gave up (`GivenUp`), and `ToldOnlyGranted`: what a resumed tool is told of its inner interrupts, or of its own gated call, a user decided |
| `agentrun_handoff` | two agents, a transfer, a gated call on each side of which the root's may also interrupt, sticky handoff, no faults, budget 4 | the proofs' invariant `IInv`, `CompletedRowPaired`, `RestartIsResume` (a call is started twice only to resume it), and under fairness `ApprovedCallStarts` and `RunEnds` |
| `broker_delivery` | one run, loop and one tool with two chunks each, two subscribers that come and go, room for two retained chunks and one buffered one | `DeliveredOnce`, `PublisherOrder` with replay, trimming and back-pressure all happening |
| `broker_reuse` | two turns, two runs on the stream, a tool that may outlive the first, subscribers that disconnect | `WatchMatchesFlag`, `ClaimSpec` (the broker implements `RunClaim`), and under fairness `StreamEnds`: each stream ends, unless a subscriber that neither reads nor leaves holds a publisher up for good, which the instance's channels are small enough to let happen |
| `redis_stream` | three turns, one reader, two chunks a run, tools left behind that still publish, trimming at two, crashes, failing commands, lapsing claims of dead runs | `OneRunAtATime`, `ReaderInOrder`, `StopIsForThisRun`, `RunClaimSpec`, and under fairness `ClaimReleased` |
| `workflow_walks` | four graphs (a join below two gates, a router, a branch by port, more nodes than `MaxSteps`) and a cyclic one that `Compile` refuses, five walks | `ReturnAccountsForAll`, `Caused`, `DecisionConsumed`, `OneFront` (whatever the walks, what was started is whole waves and a part of the next), `CompletedIsFinal` |
| `persistence_files` | two managers on up to two threads, three runs, four saves, one failing write or sync, one crash | `ReplayRebuilds`, `AckedSurvives`, `ChainLoaded` with branches, torn writes and summaries |
| `summaries_context` | four runs, eight bundles, two summaries, either summariser, one or two runs kept, one failure; a provider that weighs bundles otherwise than the estimate, and prefixes and notes too | `ContextComplete`, `ContextMeasured`, `SummaryCoversRun` |
| `model_streams` | two calls of any of the four formats, three blocks between them, of every kind, empty or of two fragments, connections that break | `OneItemOpen`, `ItemsMatchBlocks`, `CallsWhole`, `StreamAgreesWithResponse`, `PromptPaired`, `FormatsCarry` |
| `agui_chat` | two turns, two calls, two blocks, one failure, decisions of every shape the handler tells apart | `StreamVerifies`, `LiveMatchesReload`, `EchoKeepsThread` |
| `broker_closed_channel` | one subscriber that disconnects | a violation: section 6 |

**Why the bounds are enough to be interesting.** In `AgentRun` the hazards are between
two calls with different fates in one step (one runs, one is parked), a message that
starts the run and one that steers it, and a run and its resumption; two calls give every
partition a step can make, and runs on the thread are unbounded in number because
nothing but fresh ids limits them. Budget 2 is exceeded by two tool rounds; budget 4 is
not, so the run with it sees no abandoned run. In the brokers two chunks against a
transcript of two (with the sentinel or a second publisher) force trimming, a buffer of
one forces blocking, and two runs on a stream give every leftover a successor to
disturb. One Redis reader is enough: readers do not change what the other actions
see. A wave of two gates and a join is what the walker's single pause field has to survive;
five walks pause on each gate, fail once and still finish. Four saves are a first run, a next
one, a branch off the first and an increment of any of them, and the crash or the failing write
or sync may come in any. In `Summaries` a summary of a summary needs three runs with one kept. Two
model calls are what it takes for one provider's answer to reach another; the third block gives
an answer of two and a next one.

`MaxRuns`, `MaxChunks`, `MaxLate`, `MaxWalks`, `MaxSaves`, `MaxCrashes`, `MaxErrors`, `MaxBundles`,
`MaxSummaries`, `MaxFailures`, `MaxCalls`, `MaxBlocks`, `MaxFragments` and `MaxTurns` are the bounds in
guards. `MaxLoops`, `MaxSteps`, `Threshold` and `maxTranscript` are the program's own.

Deadlock is not checked (`CHECK_DEADLOCK FALSE`): clients may have nothing left to
send, a thread may stay idle for ever, and a bounded conversation ends.

The instances that check `CompletedRowPaired` and `PromptPaired` have no sub-agent interrupts (`Inner`
empty): with those the code breaks the two (section 6), which delimits where they hold, and
the theorems assume the same. `PausedRowResumable` and `ToldOnlyGranted` are checked with inner
interrupts and one under a call's own id together; `GivenUp` and `Inner \cup Gated` name
what they leave out.

## 4. Fairness

- `AgentRun!FairSpec`: weak fairness of the loop as a whole. A started goroutine is
  scheduled, a provider answers and tools return (`RunStoppable` bounds them after a
  stop). Clients owe nothing: no fairness on `Execute`, `EnqueueMessage`, `Stop`.
  `RunEnds` therefore assumes that resolutions do not arrive for ever, since a
  resumed pause goes round the loop without consuming `LoopIteration`.
- `MemoryBroker!FairSpec`: tools return, a publisher that can go on does, and a loop whose
  tools are done closes. Clients owe nothing: a subscriber may stop reading and stay.
  `Publish` then waits for it (`memory_broker.go:69`), the loop and `Close` with it, and no other
  subscriber sees the end; `StreamEnds` names that case (`HeldUpBy`) and says that it is the only one.
- `RedisBroker!FairSpec`: the process that won a claim resets and closes unless it dies,
  and a claim that no run refreshes lapses (Redis' TTL).

`Workflow`, `Persistence`, `Summaries`, `ModelCall` and `AguiSession` have safety properties only: a walk
visits no node twice, and the others wait for no party but the network, which owes nothing.

## 5. What is proved

All for arbitrary constants that satisfy the ASSUMEs of the modules.

- `AgentRunProofs!TypeCorrect`, `ApprovalRequired` (`[]TypeOK`, `[]GatedNeedsGrant`).
  `GatedNeedsGrant` is not inductive: a batch is chosen from the approval list, and that
  list also holds the calls that needed no approval when the model asked for them.
  Among those can be a *gated* call of another agent: `partitionByApproval` looks a tool
  up in the current agent, and a name it does not find is let through, to be answered
  "not found". So `IInv` (`Invariance`) says (`LetThroughIsForeign`) that a gated call let
  through but granted by nobody and now about to run has its tool in another agent, and
  (`AwaitingIsOpen`) that no such call waits for the user, so that it cannot come back,
  after a pause, in the agent that has the tool. `NestedKnown` makes flattening of inner
  ids well typed, `IdleListsEmpty` and `StepMatchesPc` carry the lists through model
  calls and saves. `ApprovalsExplained` (an approval no user gave is of a call the model asked for)
  also gives `OnlyGrantsAreTold` (`[]ToldOnlyGranted`). There is one lemma per action, over lemmas about one run state.
- `AgentRunProofs`, unless `SingleTurn`: `NoRerun` (`[]AnsweredNeverRerun`) and
  `PauseResumable` (`[]PausedRowResumable`) for any sub-agents; `CompletionPairs`
  (`[]CompletedRowPaired`) and `PromptsPair` (`[]PromptPaired`) where `Inner = {}`: a stop with
  an inner interrupt pending really leaves the outer call unanswered (section 6). One invariant,
  `PairInv`, on top of `IInv`, gives all four. It says of the run state in memory and of the saved
  one that a call on their lists has no output in their conversation, and that each other
  call has exactly one or was given up by a stop (`Balanced`); that the lists share no call when
  the tools run and a pause has all on one list (`ListsApart`); that what the saved row has
  answered is answered in memory (`SavedStays`); and that what is under way is what the tools
  step chose (`BatchIsPending`). The heart is `PendingSplits`: after a tools step each pending
  call is answered, undecided or interrupted, and only one of them.
  `OnlyPausedRunAgain` (`RestartIsResume`) is for behaviours in which no run is abandoned
  (`NoRunAbandoned`; the run that checks it has no faults and a budget that suffices): an abandoned
  run goes back to the row saved last, which does not know what has been started since.
  `ResumeInv` adds to `PairInv` that a call still open whose tool was started paused or is under way.
- `MemoryBrokerProofs!StopReachesItsRun` (`[]WatchMatchesFlag`) from `SignalInv`: the signal
  in use was made in this run, it is closed exactly if the run was stopped, and each
  tool of the run watches that very signal. `ImplementsClaim` (`Spec => ClaimSpec`) needs
  only that a working loop holds the claim.
  `StreamsInOrder` (`[]PublisherOrder`) and `NoChunkLostOrDoubled` (`[]DeliveredOnce`) rest on
  `DeliveryInv`. A chunk is retained at once and sent to the copied list one subscriber at
  a time, and a subscriber may be replayed the transcript between the two, so neither property is
  inductive. `ChunkInv` says of each sequence, retained or subscribed, that it is in order
  (`Ordered`) and holds nothing newer than was published (`NoneNewer`); of a subscription that is
  on the list of a send under way that all it has of that publisher is older (`AllOlder`): it
  was enrolled before the chunk was retained and got it from nowhere else; and of an open one that
  what is retained of the loop is there or on its way (`OpenInv`), so that the next chunk leaves
  no gap (`HasNewest`).
- `RedisBrokerProofs!RunsExclude` (`[]OneRunAtATime`) from `ClaimInv` and
  `ImplementsRunClaim` (`Spec => RunClaimSpec`), with `QueueInv`: the list holds exactly the
  turns that joined. Both assume `~Expires`: crashes, failing commands and lapses of the
  claims of dead runs are all in, but a claim does not lapse under a run in flight, where
  two runs do overlap; that is why the TTL is refreshed by each publish. A run counts from
  the *reset* of its stream, not from the SETNX: counted from the SETNX the claim is not
  implemented (section 6).
  `StopStaysWithItsRun` (`[]StopIsForThisRun`) needs no such condition: whoever wins the claim,
  lapsed or not, deletes the flag before its run begins. Nor does `ReadersSkipNothing`
  (`[]ReaderInOrder`): ids grow for ever, along the stream and along what a reader was
  given (`OrderInv`), so a stream that is reset, trimmed or written by two runs at once never gives
  a reader an entry twice or out of order, and it has all that remain up to where it is.
- `WorkflowProofs!CompletedStays` (`Spec => CompletedIsFinal`), `NoOtherBranch` (`[]Caused`) and
  `WalkAccounts` (`[]ReturnAccountsForAll`) for every set of graphs, gates, caps and walks. A
  completed node could be marked skipped if a later walk finished without visiting it. `WInv`
  excludes that: with stable routers, each node that was reached is a root or a completed
  predecessor chose it (`ReachedSupported`), and what was visited in this walk, with the wave
  (`BetweenWaves`) or with the results still to merge (`WithinWave`), holds everything the visited
  nodes lead to. At the end of a walk the visited set is thus closed under the edges chosen, and
  since the graph is acyclic a completed node outside it would have an unvisited completed
  predecessor for ever (`ClosedHoldsCompleted`). For `WalkAccounts`, `PauseInv` adds that a
  walk names a pause exactly when a result of its wave was one; a node still paused at the end
  of a walk that named none would be supported, hence visited, hence completed.
  `DecisionsReached` (`[]DecisionConsumed`) needs to know that a resumed walk comes past the node
  a decision is for, although another wave may pause first. The levels of the graph are not
  in the state. `Prefix` defines what walks may have visited before a wave: the least family with
  the empty set and, for each member all of which completed, the member one wave larger. Its
  members are ordered by inclusion, so a node that waits behind one of them (`WaitsBehindPrefix`) was
  either visited by a walk that is past it, or stops that walk from going further (`DInv`).
- `PersistenceProofs`, over `ReplayLemmas`. `TypeCorrect` and `AcknowledgedIsDurable`
  (`[]AckedSurvives`) hold for all constants, shared threads and failing writes included;
  `RestartLosesNothing` (`[]ReplayRebuilds`) and `HistoryIsAChain` (`[]ChainLoaded`) assume
  `~Concurrent`, as the run does.
  The difficulty of the two is that files are replayed one conversation after another while
  saves were interleaved. `ReplayLemmas` shows that a record changes one run and one thread
  (`Change`), and that a record of a conversation reads and writes only that conversation's part
  of the memory (`Fits`, `Within`, `Part`); so the order of the files does not matter, and each file
  alone must give its part. That `ApplyRecord` does the same as the `SaveInMemory` it logs is
  `SaveGood`; it fails on arbitrary memories, and holds on those that saves build (`Good`: each
  thread lists a chain of runs, all complete but the last, which is where it goes on). The
  invariant `PersistInv` joins `Settled` (the memory is good, each manager fits it, and no two of
  them work on one thread or branch) to `FilesSettled` (each file and the record about to be
  written give the conversation's part; an unsynced record is the last line).
  It holds as long as no write has failed and nothing is glued, the conditions of the properties.
  `AckInv` is about increments alone: those in the files are numbered upwards, each run is
  in one file (`LinesKept`), and each acknowledged one is in a complete line (`AcksKept`), which
  a crash or a failing write does not touch; `ReplayHolds` says that a replay of such files
  recovers each of their increments, once and in order, whatever summaries stand between.
- `SummariesProofs`: `PromptComplete` (`[]ContextComplete`), `CountLeavesNothingOut`
  (`[]ContextMeasured`) and `StoredSummaryStands` (`[]SummaryCoversRun`), for any windows of at
  least one run, threshold, agents and bounds, from `Invariance`. The heart is what the loaded half is at
  all times (`Holds`): the rest of the thread after its first `k` runs and, in front of it, at
  most one bundle, which with the LLM summariser stands for exactly those `k` (`Upto`). A load gives
  this shape (`StartedFits`), whether the store's summary is used or not, and the shape survives a cut
  (`SummaryCut`): a cut falls where the map from bundles to runs changes, which is where a
  run begins as long as the map is right (`MapInv`) and no two runs share a bundle (`RowsInv`), so
  what is given up stands for the first `j` runs and what is kept is the rest after them. As the
  window is at least one run, the cut never reaches into the run in flight, and with it the sliding
  window's prompt holds all of that run.
  The exception shapes the invariant. A message that was queued when a run paused comes back
  without an entry in the map; the manager cannot place it, and a cut may then fall inside the
  run in flight. The boundary is then that run itself, which `Applied` clears, so that
  `ResultInv` holds without exception: a boundary is no run of the thread, or a *complete* run that the
  summary stands for the thread up to. A save changes no complete run, so what was stored before
  a failure stays true after it (`ResultKept`); that is why the summary may be written before
  the messages. `CountInv` follows the count through each step, for any weights a provider may give
  (`Tokens`, `Prefix`, `Steering`), and `RowsDue` what a run was saved with; a cut never makes the loaded half
  heavier, the summary's estimate included, since no bundle that is left out weighed nothing. `NumberInv` is
  there because a summary must not take the identity of one that was measured.

The provers cannot induct over data. Where a proof needs it, over the position in a sequence, the
files replayed so far or the waves of a walk, the induction is on a set: a set of numbers that has 0 and
each successor is all of them (`DataLemmas!InductionOnSets`, from `LeastElement`), applied to the set
of those for which the claim holds.

Only model-checked: the liveness properties (out of the prover's reach), and the invariants of
`ModelCall` and `AguiSession`. These relate the results of several folds over chunks and events, in
formats that each have their own. `ReplayLemmas` and `SummariesProofs` show that folds can be reasoned
about, at the price of a lemma per fold and per thing it keeps.

## 6. Where the code and its comments disagree

With a run: `streambroker/memory_broker.go:69`. A send meets a channel that an unsubscribe or
a `Close` has closed since the list was copied, against line 54 ("Don't publish to closed
channels"), and panics.

Visible in the models' behaviours, or kept out of a property by a condition named here:

- `agent.go:557` A stop with a sub-agent's interrupt pending writes cancelled outputs for the
  *inner* ids and none for the outer call, against `agent.go:555-556` ("so history stays
  consistent").
- `agentstate/agent_state.go:436` A call that needed no approval is on the approval list; if it
  then interrupts under its own id and the user resolves another call, it is told it
  was approved, against lines 431-435 of the file; `ToldOnlyGranted` is about inner interrupts and gated calls.
- `streambroker/redis_broker.go:387` A turn that joins between another turn's SETNX and DEL is
  deleted, against `stream_broker.go:105-106` ("atomically decide, in one shot").
- A subscriber that stops reading without leaving holds up the run and with it every other
  subscriber (`streambroker/memory_broker.go:69-76`); if it leaves while a `Publish` waits for it, the
  send panics. `StreamEnds` promises an end to those that no such subscriber holds up.
- A message enqueued after the last drain of a completing run stays in the queue, which
  the next run deletes (`agent.go:536`; the comment at 1129-1132 says it is folded into
  the current run).
- A plain message to a paused thread enters the history between a call and its output
  (`history/conversation_manager.go:706`, against 711).
- A stop cancels a model call in flight (`agent.go:675-690`, against 1116-1117).
- A tool abandoned by a stopped run still publishes, into the next run's transcript
  (`progress.go:61`, against "unobserved", `agent.go:1114-1115`).
- A Redis reader that has not reached the sentinel when the next run resets the stream
  is not closed and goes on with that run's chunks (`redis_broker.go:387`, against 200-201).
- A router that reads what a node other than its own writes may answer otherwise on a
  resumed walk, and a finished node be skipped (`src/pkg/workflow/walker.go:151`): the
  workflow's properties are for `StableRouters`.
- A torn record at the end of a file is glued to the next save after the restart; the line does
  not parse, and the store refuses to open the time after (`conversation_persistence_file.go:424`).
  `Glued` is the condition of `ReplayRebuilds` and `AckedSurvives`; after a failed write
  memory is ahead of the files, so `ReplayRebuilds` and `ChainLoaded` also want `errors = 0`.
- A first save that branches gives the run a thread of its own (`history/conversation_persistence.go:267`),
  and the claim stays on the thread the turn named. A turn that names the new thread before the run has
  completed loads it incomplete and continues it under the same id, beside its own manager; a
  next run may then be listed after one that is complete in one manager and not in the other, and
  `ChainLoaded` fails (in an instance with five runs and six saves). `WorksIn` excludes that manager.
- A message queued by a run that pauses is drained after the resumption without a run id,
  and the summariser may then cut the run in flight in two
  (`history/conversation_manager.go:293-300` says it cannot): `placed` in `ContextComplete`.
- A turn for the whole thread (`PreviousRunID` empty) never applies the stored summary
  (`history/conversation_persistence.go:118-130`) while the counter it takes over measured the
  summarised prompt; and a reply that comes without a usage report (a hook answered for the model,
  `agent.go:696-712`) is added as already measured, by nobody: `known` in `ContextMeasured`. The
  property says that the count leaves out no bundle, never that it bounds the next prompt: the
  estimate of what came since the last report is rough by its own account (`tokens.go:7-16`), a
  summary counts for no more than what it replaced, and the attribution prefixes and steering
  notes that `GetMessages` adds to the outgoing copy (`attribution.go:37-74`) are in no count until
  the next report has weighed them. The LLM summariser may also name an earlier
  summary as its boundary, which no thread then matches: `SummaryCoversRun` speaks of
  boundaries that are runs.
- Two calls, or two code runs, that Gemini streams in a row become one item
  (`gemini_to_native.go:504-509`); text blocks that nothing separates become one in Gemini, Bedrock's
  bare form and chat completions. `Separable` keeps the blocks apart. Results of several
  calls in a row go back to Gemini under the last call's name
  (`native_to_gemini.go`, `prevFunctionCallName`), and a text between two calls splits a chat prompt's
  `tool_calls` (`responses_to_chat.go:126`): `Sayable`.
- Redacted thinking and failed code runs (Anthropic), thoughts and images (Gemini) come out
  differently streamed and whole: `StreamedApart`. The code of an Anthropic code run is the command
  in a whole answer (`anthropic_to_native.go:485`) and the raw JSON of the tool's input in a streamed
  one (866, 1104): `CommandsOf`.
- A native response served as an Anthropic or Gemini one puts the *string* of a call's arguments where
  the format has an object (`native_to_anthropic.go:606`, `native_to_gemini.go:360`), so read back
  it is a JSON string (`anthropic_to_native.go:410`, `gemini_to_native.go:247`); streamed, the string is
  what the call was announced with (832 and 519), for most providers `"{}"`. The Anthropic one gives
  the call its item's id, and panics on reasoning without encrypted content
  (`native_to_anthropic.go:621`), which Gemini and chat completions produce. `FormatsCarry` leaves
  out arguments of whole responses and such reasoning (`ButArguments`, `Served`); histories keep theirs.
- An answer's text that has not been through the store has no branch in the Anthropic and Gemini
  request builders and is missing from the next prompt (`native_to_anthropic.go:232`,
  `native_to_gemini.go:137`), against `README.md` "Maintain context across interactions":
  `FormatsCarry` leaves those items out, `PromptPaired` is about calls.
- When a stream breaks, chat completions close the open call as if it were complete
  (`openaicompat/client.go:162-189`): the condition of `CallsWhole`.
- A client shows what the thread will not have after a failed call, a broken stream, a stop in
  mid-answer or a turn joined under way; a turn posted before any answer sends the one
  before it again (`src/pkg/agui/run_input.go:280-291`); a client that rejoins is told
  `RUN_FINISHED` also when the run failed (`src/pkg/agui/handler.go:349-353`) and waits for ever
  when the run ends between `IsActive` and `Subscribe` (303-318). `clean` names the
  first four in `LiveMatchesReload`; a rejoined client does not see the turn in flight. A turn queued
  before a pause is in no list the client can load until the run that takes it up is saved
  (`history/conversation_manager.go:301-310`), and decisions posted below an unanswered turn post that turn again.

## 7. What is not modelled

`AgentRun`: usage, traces, hooks' rewriting, deferred tools, prompts; steps under a durable
runtime; a call id repeated by a provider; which run a stale handle stops. `SingleTurn` is
in the model and the proofs but no run sets it: it completes a row that leaves its calls to the
caller, so the pairing properties are not meant for it. The claim is a component of its
own: `AgentRun` starts a run when there is none, which `RunClaim` and its two implementations
justify.

`MemoryBroker`: `IsActive` only reads; `Reset`, which nothing calls, is left out.
`RedisBroker`: the TTLs of queue and stop flag and of a closed stream, malformed entries,
errors of commands other than those of `Close` and XREAD (an ignored error of the DEL
in `EnqueueOrStart` leaves the previous run's keys), and refresh of the claim by a run
that has lost it. A tool left behind publishes late only for a run that the last stop was meant
for and that published nothing before (`MaxLate`); what it adds to a stream whose claim is gone lapses with the
TTLs of closed streams. `Persistence`: listing; a manager that works on a thread or branch another one
works on (`Concurrent` allows it; no run does, but `TypeCorrect` and `AcknowledgedIsDurable` hold with it); a record
whose sync failed and that a later crash takes. `Summaries`: message filters,
custom attribution, branches. The codecs: tool schemas, sampling parameters, citations' contents,
files, audio, errors of a provider before its stream. `AguiSession`: mixed decisions on several
calls, decisions posted while the run is in flight (`AgentRun` has both), uploads, keep-alives, white space
that `stripContextBlocks` trims.

Not modelled at all: the MCP client (connections and transports; its elicitations are
`AgentRun`'s interrupts), the durable runtimes (their journal is Temporal's or Restate's, and
what the loop does between two steps is `AgentRun`), the TTL map, gateway routing and the requests that
are not conversations (embeddings, speech, images), telemetry, knowledge, prompts, skills
and the facade: I/O and wiring without protocol state.

## 8. The plan

Done: the loop, the brokers, the workflow engine, persistence, summaries, the four wire formats, the
AG-UI handler; the safety properties of the first five are proved. Next, in this order:

1. Theorems about what of `ModelCall` and `AguiSession` is about single items (`OneItemOpen`,
   `CallsWhole`), with a lemma per format for the folds over its chunks.
2. `StopTool`: the select races inside `RunStoppable` and the hook chains, composed with
   `MemoryBroker`'s watches.
3. `CallLife`: an abstract specification of the life of one call (asked, waiting,
   running, paused, answered), to be shown implemented by `AgentRun`.
4. The sub-agent's nested thread, as two instances of `AgentRun`.
