# Verification of hector

TLA+ modules, TLC configurations and TLAPS proofs for hector (Go): an assistant
that records everything that happens as an event and does its work in handlers
that react to events. The source under `src/` is the reference. Source lines in
this file and in `PROJECT.json` are those of the commit that is checked in there.

State of the project. Modelled, checked and proved about: the durable dispatcher
of the event bus, on which the rest relies for "no work is ever lost"
(`docs/architecture.md:101`), the life of the program from start to exit, turns of the agent
with sessions and the extraction of facts, the language model clients they go through, Slack from the
socket to the agent, the bus in memory, migrations, the memory indexes, tools and reply
routing, GitHub. Every safety property that a passing run checks is a theorem, for all values
of the constants; what is about liveness is checked on the instances only. What is left out, and why,
is at the end.

## Files

| file | what it is |
|---|---|
| `AtLeastOnce.tla` | abstract specification of what the bus promises: recorded, handled, settled |
| `ReactionDispatcher.tla` | rows, poller, Drain, workers, Shutdown, restart; the properties; the inductive invariant |
| `MCReactionDispatcher.tla`, `OneLife`, `Restart`, `Prompt`, `Stop`, `DrainReuse`, `DrainSignal`, `HeadOfLine.cfg` | small instances of it |
| `ReactionDispatcherProofs.tla` | its lemmas and theorems |
| `Lifecycle.tla` | Runtime.Start and Supervisor.Run: init, hooks, modules, hosts, shutdown, report |
| `MCLifecycle.tla`, `Lifecycle.cfg`, `LifecycleProofs.tla` | its instance and its proofs |
| `ModelClient.tla` | how a transcript becomes a request of each provider, and a response a reply |
| `Conversation.tla` | turns of the agent over sessions, tools and the extraction of facts |
| `MCConversation.tla`, `Conversation.cfg`, `Overlap.cfg` | its instances |
| `ConversationProofs.tla`, `TurnProofs.tla` | its lemmas and theorems: tool calls and their results; transcripts, turns and facts |
| `SlackIntake.tla`, `SlackIntakeProofs.tla` | Slack's socket, enrichment, record and acknowledgement; what the agent hears and posts |
| `MemoryDispatcher.tla`, `MemoryDispatcherProofs.tla` | the bus in memory, with its bounded channel and its read-write lock |
| `Migrations.tla` | rows and statements of schema migrations, two processes |
| `MemoryIndex.tla` | the table of facts and its two indexes, search by rank fusion |
| `DatabaseProofs.tla` | proofs about these two |
| `ToolCalls.tla` | names of tools, registration, calls, reply routing |
| `GithubClient.tla` | the tools on issues and milestones, the token cache |
| `ToolProofs.tla` | proofs about these two |
| `MCParts.tla`, `Parts.cfg`, `SelfUpdate.cfg` | the instances of the last six models |
| `PROJECT.json` | components, runs, mutants, map to the source, findings, hazards, theorems |

`tlc -config OneLife.cfg MCReactionDispatcher` checks one instance,
`tlapm ReactionDispatcherProofs.tla` one module of proofs.

## Inventory

How the parts meet: `internal/app/runtime.go` opens the SQLite database, migrates
it, builds one `EventBus` (two workers, SQLite store, durable reactions), lets the
modules register their handlers, and hands everything to the supervisor. Modules
do not call each other; they record events on the bus and react to events of
others. A turn goes: a surface (TUI, Slack) records a message event; the agent
reacts, reads the session, asks the language model, appends the exchange to the session, runs the
tools that the reply calls (one of them, `reply`, hands text to the surface), asks again until no tool is
called, and records the end of the turn; the memory module reacts to that.

**Event bus, durable path** (`pkg/waffle/bus.go`, `reaction_dispatcher.go`,
`sqlite/store.go`). State: table of events, table of reactions (pending, running,
succeeded, failed), `jobs` channel, `wake` channel of one token, `inFlight` set,
WaitGroup `pending`, mutexes `stateMu`, `mu`, `drainMu`. Operations: register,
Start, Record, Drain, Shutdown; the poller goroutine; the workers. Hard: poller,
Drains, workers and Shutdown interleave; the row is claimed before the job is
sent and marked after the handler returned, with contexts that end in between;
store operations fail; the process ends anywhere. Correct when: a recorded reaction is
handled and settled once, never again after it is settled, also across
restarts; a process does not run it twice; Drain and Shutdown end and mean what they say.

**Event bus, in-memory path** (`dispatcher.go`, `memory_store.go`, `reader.go`).
A bounded channel that Record sends to while it holds `stateMu` for reading. Hard:
handlers that record while the queue is full; Shutdown asking for the write
lock. Correct when: Record, Drain and Shutdown do not wait for each other in a
circle, and everything accepted is handled before Shutdown returns nil.

**Supervisor** (`pkg/supervisor`). State: modules, hooks, channel of terminal
events, run context. Operations: Run, which initialises all modules, runs hooks,
runs modules, waits for the first one that ends, and stops everything in reverse order.
Hard: several modules end at once; errors in Init, Run, Stop and hooks; contexts detached
with a timeout. Correct when: every module whose Run was called is stopped once,
bus hooks run in order, and the report names the cause.

**Application runtime** (`internal/app`). Wires the above; its part that matters
is the order of the hooks bus.start, bus.drain, bus.shutdown (`runtime.go:327-350`).

**Agent** (`modules/agent`) **and sessions** (`pkg/session`). State: the session's
messages in order of append. Operations: Handle (read history, repair it, ask the
model, append, run tools). Hard: a delivery that is repeated, two
turns of one session on two workers, histories that a crash left with
a tool call without result. Correct when: what is sent to the model pairs every tool call with
one result, and an accepted message ends up in the session.

**Memory** (`modules/memory`, `pkg/memory`). Ingest of a finished turn, storage in
a table with text and vector index, search with rank fusion. Hard: ingest that is repeated or
stops in the middle. Correct when: indexes and table agree, and fusion ranks what both
lists rank.

**Tools** (`modules/tools`, `pkg/tools`, `pkg/mcp`). Registry, typed tools, tools of an MCP server. Hard: names are
normalised twice, may collide, and come back from the model. Correct when: what runs for a call is the tool that
was meant, or the model is told of an error.

**Reply routing and TUI** (`pkg/comms`, `modules/tui`). Correct when: a reply goes to the
surface whose message it answers, and to no other.

**Integration host and Slack** (`integrations`). Slack's socket loop records an
event, then acknowledges. Hard: redelivery after a lost acknowledgement,
connections that end while handlers run. Correct when: no acknowledged message was not
recorded. **GitHub**: client with a token cache.

**Migrations and database** (`pkg/migrations`, `internal/db`). State: table of
versions with dirty marks. Hard: a crash between statement and mark. Correct when:
versions are applied in order, once, and a dirty one stops the start.

**Language model clients** (`pkg/llm`). Mapping of a history to a request and of a response to a reply. Correct when: the service accepts every request.

**No state of their own, or only observers**: web access, embeddings, tracing, email (its
mailbox is a stub), command line.

## How the models fit together

There is one model for each place where state is kept, and each takes the others at
their word:

* `ReactionDispatcher` is the ground. It implements `AtLeastOnce` (a refinement, proved): what is
  recorded is handled until it is settled, and again after a crash. `Conversation` and
  `SlackIntake` build on it: their deliveries are those of `AtLeastOnce`, several at once
  and repeated after a crash (proved for the messages of `Conversation`: `DeliveredAsPromised`),
  and a Record is one transaction that takes effect or fails.
* `Lifecycle` justifies `HooksInOrder` of `ReactionDispatcher`, and says what follows
  when a source of `SlackIntake` returns an error (`ProcessEnds` there).
* `Conversation` extends `ModelClient`: what its turns put together is what the request mappings get.
* `ToolCalls` is the inside of `RunTool` of `Conversation`, `GithubClient` that of the GitHub tools,
  and `MemoryIndex` that of the puts of `Ingest`.
* `Migrations` is one of the steps of `Boot` in `Lifecycle` that may fail.

They were written in the order of importance: dispatcher, life of the program, turns of the agent,
Slack, then the parts that stand alone.

## ReactionDispatcher

One process at a time owns the database. Variables in two groups:

* durable: `row`, the `status` column of each reaction ("none" before it is
  recorded). Everything else is memory and is reset by `ProcessEnds`.
* of the process: `open`/`jobs` (channel `d.jobs`), `wake`, `inFlight`,
  `pending` (WaitGroup), `holder` (of `drainMu`), and for whoever holds it
  `step`, `batch`, `current`, `queued`, `full` (locals of `drainPending` and
  `enqueue`); `pc` of poller and Drains, `waiter` (the goroutine of
  `waitContext`), `wpc`/`job` of each worker, `shutdown`, `dead` (contexts that ended).
* history, read by no action's guard: `outcomes`, `calls`, `owed`.

Actions and code (lines in `PROJECT.json`):

| actions | code |
|---|---|
| `Start` | `EventBus.Start`, `reactionDispatcher.Start`, `ResetRunningReactions` |
| `Record` (`Dispatch`, `RecordEventReactions`, `Notify`) | `EventBus.Record` with `stateMu` held to its end, one transaction for event and reactions, `notify` |
| `PollerWakes`, `PollerStops` | the `select` of `poll` |
| `CallDrain`, `DrainExpires`, `WaiterCalls`, `WaiterReturns`, `DrainReturns` | `Drain`, `waitContext`, WaitGroup |
| `AcquireDrainMu`, `List`, `NextReaction`, `EndOfList` | `drainPending`, `ListPendingReactions`, `markInFlight` |
| `Claim`, `Decode`, `Reject`, `Send`, `SendCancelled` | `enqueue`, `ClaimReaction`, `MarkReactionFailed` |
| `WorkerBegins`, `WorkerTakes`, `WorkerExits`, `HandlerReturns`, `Mark`, `Finish` | `work`, `run`, `callHandler`, the marks |
| `CallShutdown`, `CloseJobs`, `ShutdownCompletes`, `ShutdownExpires` | `EventBus.Shutdown`, `reactionDispatcher.Shutdown` |
| `Signal`, `Crash`, `Exit` | the context of bus.start, the end of the process |

Choices a reader should know:

* A reaction is a number, the rank of its `created_at`; event, handler and
  payload are left out except for `EventOf` and for whether the process has registered the handler
  (`live`, chosen at each `Start` from `Registrations`: builds and configurations differ).
* One transaction or statement of the store is one step. A store operation whose context
  is dead is refused; one whose context is alive may fail, `MaxFaults` times
  in a behaviour, and then has had no effect.
* `clearInFlight` and `pending.Done` are one step (`DoneWith`). Nothing the
  properties speak about reads one without the other; the code calls them in
  different orders in `enqueue` and `run`.
* `NextReaction` skips a reaction in flight and `Claim` looks at the status of
  the row, as the code does. With one process, `drainMu` around listing and queueing makes
  the second check redundant; both are kept because the code has them.
* A reaction without its event (`enqueue` marks it failed) does not occur: both are
  inserted in one transaction and nothing deletes events.
* `Dispatch` commits and notifies in one step. In the code the poller may list the row
  in between; the token then wakes it once more for nothing. A crash in between leaves the
  same rows as one after it. `Record` itself may fail and then has done nothing.
* What WaitGroup and channels do is Go's: Wait returns at once at zero, a woken Wait
  that finds the counter in use panics, closing a channel panics a blocked
  sender, a nil channel blocks for ever. The even narrower panic that Go has when
  Add overlaps a Wait that is just being woken is the same outcome as
  `WaiterReturns` and has no action of its own.
* `HooksInOrder` says Shutdown is called when no Drain runs, as runtime.go does.
  One run leaves it off, because the bus as a library does not prevent it.
* `Decode` may fail for any reaction each time it is enqueued, although for the code it is a function of
  the payload; this adds behaviours and removes none.
* The error hook of the bus is nil in the application and left out.

### Properties

What each says is in the comment above it in the module. Those that carry most:

* `IInv`, `WorkedOnOnce`, `OncePerProcess`, `PendingCountsFlight`: poller, Drains and
  workers never have one reaction twice, and what Drain waits for is exactly what is being worked on.
* `NoneStrandedInService`: only an ended context or a failed store operation leaves
  a row running with nobody on it.
* `SettledForGood`, `SettledOnEvidence`, `OnlyStartGivesBack`, `KeepsPromise`: what
  the rows say, across crashes and restarts; the last is the refinement of `AtLeastOnce`.
* `DrainLeavesNothing`: Drain returns nil, its deadline has not passed, no store operation failed: whatever it
  was called for and has a handler in this process is no longer in flight and not pending.
* `EventuallySettled`, `ShutdownEnds`, `DrainEnds`: liveness.

### Runs of this module

| run | instance | what it shows |
|---|---|---|
| `one_life` | 1 process, 2 workers, 1 Drain, 1 fault, hooks in any order, 2 reactions of one event | the exclusion invariants, the inductive invariant and `DrainLeavesNothing`, also when a handler is not registered and when Shutdown overlaps Drain |
| `restart` | 2 processes, 1 worker, 1 fault, 2 events | what the rows say stays true across a restart, the refinement of `AtLeastOnce`, and in service everything recorded or left behind gets settled; a failed store operation is the only excuse |
| `prompt` | 1 process, 2 workers, no ticker | the same from `wake` alone: no lost wake-up |
| `stop` | 1 process, Drain then Shutdown | both end without a deadline, no send on a closed channel |
| `drain_reuse` | violation | finding 1 |
| `drain_signal` | violation | finding 2 |
| `head_of_line` | violation, `PollLimit` 1 | finding 3 |

Bounds. Two reactions are enough for what is between two of them (a
full channel, a listing that continues, one running while another is enqueued): no
action looks at more than one reaction besides the counters. `QueueCap` 1 makes the
send block with two. Two workers can hold both reactions at once. One Drain
besides the poller gives two scanners, which is what `drainMu` arbitrates. `PollLimit` 2 makes a listing
full when both are pending; 1 (in `head_of_line`) makes one that hides another. `MaxLives`
2 lets a row be left by a process, given back, and settled or left again by the next; what the
rows say is proved for any number of processes. One fault at any
operation, together with any context ending, reaches every error path. The proofs
below do not depend on any of these.

Symmetry (of the workers) is used only in `one_life`, whose properties name no
worker and are not liveness properties. Deadlock is checked in every run of this module: the only state
without a further step is the one after the last process, which stutters (`Over`).

Fairness. Weak for what a goroutine that can run will do: scanners in `drainPending`,
workers (which includes that handlers return; nothing in the code bounds them),
waiters, Shutdown, and Start and Exit of a process that is to be started or has been told to stop.
Strong for `AcquireDrainMu`, because a Go mutex in starvation mode is handed to the
longest waiter, and for `PollerStops`, because a `select` whose cancelled-context
case is ready again and again is taken with probability one. None for Record,
Signal, Crash, CallDrain, and none for any deadline, so nothing ends only because a
deadline does.

### Findings in the dispatcher

1. `drain_reuse`: Drain waits on the WaitGroup that the poller adds to. When the counter
   reaches zero and the poller takes the next reaction before the woken Wait has looked
   again, Wait panics in a goroutine without recover and ends the process.
   Drain with a steady stream of events, as in the pre-stop hook, is exposed to it.
2. `drain_signal`: bus.start gets the context that a signal cancels. A poller
   cancelled between claim and send leaves the row running; a Drain called before or after
   lists only pending rows and reports success within its deadline (`bus.go:163` says it waits for all
   queued and running handlers). The next start runs it. As `DrainLeavesNothing` does, the property speaks only
   of Drains whose own context is alive, and in this run no store operation fails: the trace is the record, the claim, the signal and the
   send that is given up.
3. `head_of_line`: pending rows without a registered handler, as many as `pollLimit` and older
   than the rest, hide every later reaction from this process (`docs/architecture.md:101`).
   `EventuallySettled` holds in `restart`, whose listing is larger than such a set.

### Proofs

`ReactionDispatcherProofs.tla` proves, for all constants that satisfy
`ConstantsAssumption` (any finite set of reactions, any workers, Drains, limits, restarts, faults):

| theorem | statement |
|---|---|
| `Invariance` | `Spec => []IInv` |
| `TypeCorrect`, `Exclusion`, `AtMostOncePerProcess`, `DrainCounts`, `Evidence`, `ClaimsMarkedInService` | the invariants of the runs |
| `JobsClosedSafely` | `HooksInOrder => (Spec => []NoSendPanic)` |
| `SettledRowsStay`, `ClaimsGivenBackByStart` | the action properties |
| `Refinement` | `Spec => KeepsPromise` |
| `DrainLeavesNone` | `Spec /\ []ListingReachesAll => DrainLeavesNothing` |

The argument. None of the properties is inductive by itself: that a worker's
mark does not disturb a settled row needs that nobody else has the reaction, and that needs
`inFlight`. `IInv` says it whole: whoever works on a reaction (the scanner enqueueing it, a slot
of the channel, a worker) is the only one (`WorkedOnOnce`), has it in `inFlight`
(`HeldInFlight`), and the row is running from claim to mark
(`ClaimedIsRunning`). A listed reaction not in flight can then have no holder,
so `NextReaction` keeps exclusion; a claim needs a pending row, so nobody between claim and
mark has it. A reaction rejected as undecodable is the exception: it has left
`inFlight` before it is marked, but `drainMu` is still held, so nobody can enqueue it again.
`NotCalledYet` ties the call count to the row (a pending row was not called by
this process; only `Start` turns running to pending and the counts start again there).
`EvidenceAtHand` ties what is about to be written to what happened. `PendingCountsFlight` is needed
so the counter stays a natural number; `CallersInOrder` says who may be in a send when the channel is
closed; `ClaimsHeld` is `NoneStrandedInService` with what the holder knows.
`Shape` says where a scanner or worker can be, and that a process that ended left nothing. One lemma
per conjunct shows which steps keep it; `Invariance` puts them together. The refinement uses
the invariant for three facts: a row is settled on an outcome, an outcome exists only
for a recorded reaction, and a settled reaction is not worked on.

`DrainLeavesNone` needs a second invariant on top, `DrainInv`. What a listing returned waits and is not in flight
(`BatchWaits`), because only the holder of `drainMu` puts anything in flight; what is in flight was listed before
(`FlightListed`); a Drain is called for what is on record, and no goroutine waits for it before it has scanned
(`CalledFor`). Then, while a Drain scans, each reaction that it was called for and that still waits is one that is
still to be listed, or is in `batch`, or is about to be claimed; when it waits for the WaitGroup none of them waits, and when
the counter was seen at zero none is in flight (`OwedLooked`). That is where `PendingCountsFlight` is used again: a counter at zero
is an empty `inFlight`. The hypothesis is that no more reactions wait than a listing returns
(`ListingReachesAll`); it holds in every behaviour with at most `PollLimit` reactions, and without it the code
ends a scan early (see the limits at the end). The attempt to prove the property showed an earlier form of it to be too strong:
it asked the same of reactions whose handler this process does not have, which a process that was started with other handlers
leaves behind.

Only model-checked: liveness (`EventuallySettled`, `ShutdownEnds`, `DrainEnds`).

## Lifecycle

`stage` is where the main goroutine is, in `Runtime.Start` (boot, close) and `Supervisor.Run`
(init, postInit, serve, drain, stop, and for the hook bus.shutdown lock and join). `status` is
how far the goroutine of each module is, `events` the channel it reports on; `ctx` is the
context of main that a signal cancels, `cancelled` says that `cancelRun` was called, and a module's
context is dead when either holds. `writers` are the callers inside `Record`, which hold `stateMu` for reading;
`workers` the bus workers as one; `drainMu` says whether the poller has that mutex, which is all of the dispatcher that
the hook bus.drain can wait for without end. `stops` and `cause` are history.

| actions | code |
|---|---|
| `Boot`, `Close` | `Runtime.init` with every step that may fail, `Report.Err`, `Runtime.close` |
| `InitModule`, `BusStart`, `FirstTerminal`, `DrainHook`, `StopModule` | `initAll`, `runPostInitHooks` and the spawning, `waitFirstTerminal`, `runHooks`, `stopAll` |
| `CloseBus`, `JoinWorkers` | `EventBus.Shutdown`: the lock, then the wait for poller and workers with a deadline |
| `ModuleReturns`, `SourceFails`, `HostReturns`, `HostPanics` | `runModule` around `Start` of modules and hosts |
| `RecordBegins`, `RecordEnds`, `HandlerBegins`, `HandlerReturns` | `EventBus.Record` under `stateMu`, workers |
| `PollerLocks`, `PollerUnlocks` | `drainPending` of the poller, which may be waiting in the send of `enqueue` |
| `Signal` | `NotifyContext` |

Modules of the application that are no hosts return from `Start` only when their context
ends; a host's source returns an error by itself or because of that. The console's reader and
Slack's event loop outlive `Start`, so a recorder may record at any time once it was started.
What Drain and Shutdown of the bus do inside is `ReactionDispatcher`; here they succeed or
fail, except that Drain first takes `drainMu`, without looking at its deadline (`reaction_dispatcher.go:182`), and that the hook is
waited for (`supervisor.go:202`). A waiting `Lock` keeps new readers out, as Go's RWMutex does. Shutdown deadlines are "may have passed".
Left out: tracing, which is one more post-stop hook; a panic of `Init` or `Stop`, which ends the
process; a parent context that ends without a signal, which main does not have.

Run `lifecycle`: one console (module 1) and two hosts (2 and 3, of which 3 records, as do the handlers), so that two modules
can fail at the same time as a signal comes, and stopping goes on past a failure. It shows that nobody is inside
`Record` on a closed database (`RecordsReachDatabase`), that workers left over are reported
(`QuietOrReported`), that every module is stopped once and in order whatever fails
(`EveryModuleStopped`, `StopsBetweenHooks`), that a signal ends the program cleanly and nothing else does
(`SignalIsClean`, `CleanOnlyOnSignal`), and that it ends (`Terminates`). Fairness is weak for main, for
modules whose context ended and for a `Record` under way; strong for `DrainHook`, because a Go mutex goes to whoever has waited
longest, and for the poller's unlocking, but only while no handler runs or the poller's context has ended: a listing is finite, and events
are taken not to come faster for ever than it lists them, but the send on a full channel waits for a worker. No fairness for handlers, sources
and signals.

So `Terminates` has two parts. A signal ends the program whatever the handlers do, because it cancels the context of the poller too.
The end of a module by itself cancels only the run context: the context of the poller is that of main and lives on. If handlers then
never return, the channel may be full, the poller stays in the send with `drainMu`, and bus.drain waits behind it
in spite of its deadline. The property says that this is the only way not to end: the program ends, or from some point on handlers
run without a pause. Without the second alternative TLC finds exactly that behaviour.

The report may name `module_stopped` for a shutdown that a signal began, because the select of `waitFirstTerminal`
sees the modules that the signal made return; that makes no difference to the exit. A failure right
before a signal may be dropped by the host, or stay unread in the channel: then the program ends
cleanly, which `CleanOnlyOnSignal` allows.

`LifecycleProofs` proves the safety properties for any number of modules. The invariant `LInv`:
the stage fixes the state of bus, workers, database and cancellation (`StageSays`); whoever is inside
`Record` does so on an open bus, which is only closed when nobody is (`LeftOvers`); `stops` has reached
the module that comes next (`StopsSoFar`); no module returns nil while its context lives, so a
shutdown without a signal is due to a failure (`WhyItEnds`); and after a signal that came first a host has
no error to tell (`SignalFirst`). `Terminates` is only model-checked.

## Conversation

Incoming messages are durable reactions of the agent. `pc` is where the handler of each is: waiting for
a worker, reading the transcript, recording repairs, perceiving, asking the model, running tools, recording the end of
the turn, and the result that the worker settles. `log` and `ends` are durable (`session_messages`; recorded
`agent.turn_end` events with the state of their reaction); `view`, `fresh`, `todo`, `rounds`, `offset` are
the locals `messages`, `newMessagesStart`, the calls of the reply, the round, and `turnOffset`. `tries`, `effects`, `disturbed` are
history; `by` in a message says which delivery put it there, or nobody for a synthetic result.

| actions | code |
|---|---|
| `Deliver`, `Settle`, `SettleEnd`, `Crash` | what `AtLeastOnce` allows: a worker takes and settles a reaction, a restart gives it back |
| `Read`, `Repair` (`Missing`, `Repaired`, `Injected`) | `SessionContext.Messages`, `repairHistory`, the record of synthetic results |
| `Perceive` (`Assess`) | `Processor.assess`, the structured perceiver |
| `Ask`, `AskFails` (`Answered`, `Exchange`, `NextStart`) | one round of `Loop.Run`: request, record of what is new with the reply, finish reason |
| `RunTool` | the calls of a reply, one after the other |
| `EndTurn`, `Ingest` (`TurnOf`) | the record of `TurnEnd`; `memory.onTurnEnd` |

`ModelClient` holds the pure part: what a request looks like for each provider (`AnthropicParams`,
`OpenAIParams`), which finish reason a response gets (`FinishReason`), the echo completer, the structured extractor. What the
two services refuse (`AnthropicAccepts`, `OpenAIAccepts`) is theirs and marked external: calls without results right behind them, results
without a call or twice. That roles alternate is not asked.

`Handle` reads the transcript up to three times (assessment, offset, run), each time with repair, and the model does too.
A read that fails ends the turn only in the assessment. The record of a reply may fail and the turn goes on, as in the
code. A step is one access to the store, one model call with the record behind it, or one tool call.

Properties. `RequestsAnswered`: no request has a tool call that nothing after it answers, whatever was interrupted
or overlapped. `RequestsAccepted`: both services take every request (order, pairing, no result twice).
`RequestIsOnRecord`: what the loop takes to be recorded is. `RecordedOnce`: no message of an attempt at a turn is recorded twice (a
turn that is delivered again is another attempt, and has its incoming messages in the transcript once more).
`CallsRecordedBeforeRun`: a tool runs only for a call on record, so a restarted turn knows of it.
`OffsetIsTurnStart`, `FactsSeeWholeTurn`: memory gets the whole turn. Those about order and record leave out
sessions in `disturbed`, where two turns overlapped or an operation of the store failed: there the code
does not have them (the lines of two turns mix, a lost record is lost), and no document says it does.
`RequestsAnswered` and `RecordedOnce` have no exception.

Run `conversation`: two messages of one session; the worlds in `MCConversation` are: one worker with a crash (echo, OpenAI),
one worker with a failing store operation, one with two calls in a reply (Anthropic), two workers (OpenAI). Each hazard is met in
one of them, and the mapping of each provider in at least one; a crash together with two calls in a reply has too many states for a run, and is
covered by the theorems, which are for all worlds. `MaxRounds` 1: after a reply with tools one
more; the second round differs from a third in nothing a property reads. `MaxFacts` 1. Two messages give one turn
behind another, a redelivery behind both, and an overlap. Deadlock is not checked: a conversation in which all is settled has stopped.
No fairness is stated; that deliveries are settled in the end is `EventuallySettled` of the dispatcher.

Finding 4, `overlap` (violation, no crash, no fault): the synthetic result tells the model that the process
restarted before the call completed (`context.go:59`). Two workers and one session suffice to have it
recorded for a call that is running, or has succeeded.

## SlackIntake

Slack sends an envelope until it is acknowledged. `queue` is the socket client's channel of events; `loop` and `work` are where the
event goroutine is and what it has made of the event; `client` the socket goroutine; `errCh` and `run` are
those of `Run`; `recorded` is the bus; `acked` what Slack has seen. `Take` parses (`Parsed`, `Dropped`), `Enrich` ends
one call of the pool of an event or of a forwarded message, then `Record` and `Ack`. `Stop`, `RunReturns`, `ProcessEnds`, `Start` are the life of
the source: the first goroutine that returns ends `Run`, which does not wait for the other; an error ends the process (`Lifecycle`),
which is started again. `AgentHears` lets the agent post a reply, which Slack sends back as a message of the
bot, and again as a change when links in it unfurl.

What may go wrong (`mishaps`, at most one in a scenario): an impatient redelivery, a notice on the socket, an end of the socket, a
failed record, an acknowledgement that is lost or cannot be sent, a stop, a crash. The scenarios cover files of each kind,
changes, threads, forwards, an allowlist, events that are no messages, replies with and without links, and events
that the source does not survive.

Files and images are known by their place in the message. `AckedIsKept`: acknowledged
means on the bus or dropped on purpose. `NothingSilentlyMissing`: the model is told of every file that has an id,
with content or a status, and of each image once (texts and images without an id are skipped, `Skipped`; one scenario has such files). `ThreadIsOneSession`: message, changes, answers in the thread and replies of the bot share one
session. `AllAcknowledged`: unless an event is one that ends the source each time (`Poison`: an unknown envelope,
a time that does not parse), Slack is rid of everything in the end. Fairness: goroutines run, Slack sends again, an ended process is started
again; none for mishaps.

Finding 5, `self_update` (violation): a change is passed on before the test for the bot's own messages (`handlers.go:97`), so
the agent hears its own reply when Slack unfurls a link in it.

## MemoryDispatcher

`Record` under the read lock of `stateMu` appends to the store and sends each handler's job to a bounded channel; `Shutdown`
takes the write lock, which keeps new readers out while it waits, and later closes the channel. `call` is where each caller of
Record is (workers call it from handlers), `accepted`, `owed` and `handled` count what the bus took, what a Drain was called for, and what ran.
Events have no, one or two handlers (`HandlersOf`), and a handler may record another event (`Follow`). `BusAssumption` gives the constants
their types; the queue holds at least one (`options.go:15`).

`NilMeansHandled`: when Drain or Shutdown return without error, what was accepted before has been handled, nothing is handled twice, and nobody
sends on the closed channel. `ShutdownEnds`: Shutdown ends, unless the queue is full and each worker that could empty it is in a
handler whose Record waits behind Shutdown or for room, while Shutdown waits for a Record that is queueing (`Entangled`). That circle is possible in the
code, and Shutdown does not look at its context before it has the lock, so only the contexts of the recorders break it. The
application does not use this dispatcher (`runtime.go:158` gives the bus a store with reactions), which is why the circle is an
exception here and no finding. The panic of a `Wait` of finding 1 can happen here as well
(`panicked`); the panic of a send on the closed channel is in `Send` because Go has it, and is never reached. Fairness is weak for what
can proceed by itself.

## Migrations

`Run` of one process: validate and order the sets, then for each migration insert its dirty row, run its statements, mark it
clean; with failures and kills anywhere, and two processes (the program with two sets, the command line with one). A migration
has one or two statements, each of which takes effect or not. `SchemaSound`: statements run once and in order, rows tell what ran, versions
follow one another, and a process goes on only when its migrations are all applied. A dirty row stops everybody, also the process
that comes second: the safe outcome, and the one the error message describes.

## MemoryIndex

The table of facts with a full-text and a vector index, which `Put` writes in one transaction after the embedding; `Search`
ranks by text and by vector, fuses (`rrf`) and fetches the facts. The lists are read at different times than the facts. Processes with and without
an embedder follow one another. `MemorySound`: the text index holds one row for each fact, of its content (`IndexesInSync`); vectors belong to
facts, and to their content as long as no process was without an embedder (an update without one keeps the old vector, as
the code does); a Search returns a fusion of its two rankings, each fact once, within the limit (`FusionSound`). `FusionAssumption` checks `rrf`
against that definition (`IsFusion`) for all pairs of rankings of up to three of three facts, more than the states of the run have. `rrf` and the
selection of the rows that exist (`ObjectsOf`) say which id stands in which place, by how many are in front of it, rather than
sort and filter step by step. `IndexAssumption`: ids are integers, of which there are finitely many (a store holds finitely many rows).

## ToolCalls

Registration of the program's tools and of those a server advertises (`sanitized` with a prefix, a cap on length, names that collide are
refused), the map from name to tool, calls by the name the model uses, and replies by session. A call of a server's tool sees that the
connection is open and uses it in two steps (`CheckSession`, `RunTool`); when `Close` comes between them the nil session makes the handler
panic, and nothing has run. Names are sequences of letters, so that what sanitizing does to
two names can be compared; `NameCap` 4 is reached. `CallsReachTheirTool`: what runs for a call is the tool meant,
under the name its server knows it by, or nothing; a reply goes where its session came from.

## GithubClient

The tools on issues and milestones as rows of requests, two calls at once, whose answers may be lost after they took effect.
The token cache: a token is good until its expiry less a margin; who finds none asks for one under the mutex. `GithubSound`: one token is asked for
at a time, and none while the cached one is good; a call writes at most once, only what it was asked to write (issue numbers against ids), and has written if it says ok; the issue it
answers with was read after its write. `PageSize` 2 lets a list be cut off; `Life` 2, `Margin` 1, `MaxClock` 2 let a token become stale between two
requests of a call. `GithubAssumption`: no two issues share an id, and writes from before the run are not those of a call in it.

## MCParts

The last six models share no state. `MCParts` extends them all and puts them next to each other: each behaviour is one of one part,
chosen in `PartsInit` (`part`), and the variables of the others stay where nothing is asked of them. `parts` is one run over
the sum of six small state spaces, not their product. Its specification
states the fairness of `SlackIntake` and of `MemoryDispatcher`, which is that of the parts because nothing of theirs is enabled in other behaviours.

## Runs

| run | module | shows |
|---|---|---|
| `one_life`, `restart`, `prompt`, `stop` | `MCReactionDispatcher` | see "ReactionDispatcher" |
| `drain_reuse`, `drain_signal`, `head_of_line` (violations) | `MCReactionDispatcher` | findings 1 to 3 |
| `lifecycle` | `MCLifecycle` | start, end and report of the program |
| `conversation` | `MCConversation` | turns, transcripts, requests, facts |
| `overlap` (violation) | `MCConversation` | finding 4 |
| `parts` | `MCParts` | Slack, the bus in memory, migrations, memory, tools, GitHub |
| `self_update` (violation) | `MCParts` | finding 5 |

Each property of a passing run has a mutant in `PROJECT.json`: a change of a definition, such as a plausible bug in the
code it maps to would make, with which the run finds the property violated. The mutants stand in the modules, right in front of the
definition they change.

## Further proofs

`DatabaseProofs`: `SchemaIsSound` (`Spec => []SchemaSound`) for any processes, sets and numbers of statements, from three assumptions on the constants:
versions of a set are in order after sorting (`OrderAssumption`), processes that share a namespace have the same set
(`SameSetsAssumption`), and statements are counted by natural numbers (`StatementsAssumption`). The invariant `MInv` of
`MigrationsInvariance` says that whoever is at the statements of a migration is alone there, inserted its dirty row, and has all migrations in
front of it clean; the statements run so far are then a prefix for each migration and complete behind a clean row.

`DatabaseProofs` also: `MemoryIsSound` (`IndexSpec => []MemorySound`) for any ids, contents, queries and limit. `MemorySound` is not inductive by
itself: a `Put` on its way must carry a vector of its own content unless it had no embedder (`PutKnown`), and the rankings a `Search` read earlier must
still be lists of stored objects, each once, when the objects are fetched (`SearchKnown`); objects are never deleted, so they are. That `rrf` fuses any two
such lists (`rrfFuses`) rests on three lemmas. Scores are fractions and compare like them (`AboveIsTransitive`, `PlusGrows`), so ties broken by id
give a strict order (`OutranksOrders`); in a strict order of n ids the numbers of ids in front are 0 to n - 1, each once
(`RanksAreNumbers`: an injection between finite sets of one size is a surjection); and an id ahead of another in both
lists has the larger sum.

`ToolProofs`: `RightTool` (`InputsAreLists => (ToolsSpec => []CallsReachTheirTool)`) for names of any number and length. The invariant says that what
waits to be registered is well made, that `reply` was registered first, that the map holds each name once with the tool and the name
its server knows (`RegistryWellMade`), that a call went to something in it, and that a tool found under a name was the one meant.

`ToolProofs` also: `GithubToolsSound` (`GithubSpec => []GithubSound`) for any number of calls at once, any writes of others before them, any page size
and life of a token, and any loss of requests, replies and tokens. `GithubSound` speaks of calls that are done, so the invariant, `GInv`, says what holds
on the way: a call has written exactly when it is past the write in its row of requests (`WrittenOnce`; no request is sent twice, so
none writes twice), the id it sends is that of the issue it was asked to name (`IdIsOfIssue`, between the first
request and the write), and what it knows of the dependencies it read of a log that held its write already (`ReadBehindWrite`).
`MintHolds` says that whoever asks for a token has the mutex. What others write in between changes neither which writes are a
call's own nor what the first n writes amount to (`WritesAdd`, `EdgesStay`).

`SlackIntakeProofs`: `NothingAckedIsLost` (`InputsAreLists => (SlackSpec => []AckedIsKept)`) for any events and any number of
mishaps. The invariant adds that the queue holds events that were sent, and that the event at `ack` is on the bus or dropped on
purpose (`InHand`). `OneSessionPerThread` (`[]ThreadIsOneSession`) and `EveryFileIsTold` (`[]NothingSilentlyMissing`) have the hypothesis
`InputsAreWellMade`, which is how Slack makes messages: a new message has the time of its event, and the files of a message have
different ids, if they have any. The invariant, `BInv`, says that what was recorded is filed under the root of its thread with an outcome for each of its files
(`RecordedFiled`), and so is what the loop has in hand, as far as it has come (`InHandFiled`).

`MemoryDispatcherProofs`: `NilMeansDone` (`BusSpec => []NilMeansHandled`) for any callers, workers, events, handlers, and size of the queue, from
`BusAssumption`. `NilMeansHandled` compares counters at the moment a Drain returns, and nothing in it says why `pending` at zero
means handled. The invariant, `DInv` (`AccountsBalance`), counts: each handler that an accepted event is owed is still to be sent,
in the queue, running, or done (`Due`), and what is due lies between what the accepted events are owed and what the stored ones are
(`Balance`): a sender's event is stored and not accepted yet. `pending` is at least what is in the queue, running or being sent
(`Busy <= pending`). A counter at zero therefore leaves nothing due but what is done. `AtWork` and `Stages` say where callers and workers
can be, in particular that the channel is closed only when nobody holds the lock to send; `Drains` says that a Drain is owed
what was accepted when it was called, and that one that returned nil has it handled.

`ConversationProofs`: for any messages, sessions, models, workers, crashes and failing store operations, `NoCallUnanswered`
(`Spec => []RequestsAnswered`), `ToolsRunOnRecord` (`Spec => []CallsRecordedBeforeRun`) and `OnRecordOnce`
(`Spec => []RecordedOnce`), from `ConversationAssumption`, which only gives the constants their types. All three follow from
one invariant, `CInv` (`ConversationInvariant`). For the transcripts it says that no attempt is on record that was not made
(`AttemptsMade`), and for the handler of each message that

* only the calls whose tools it is running are open in its request (`NoOpenCalls`); these are of its last round, different,
  on record, and have no result yet (`CallsToRun`);
* what it has still to record is of its attempt and its last round, each message once (`ToRecord`), while what its attempt has put
  on record is of earlier rounds (`OfEarlierRounds`). Without the rounds `RecordedOnce` is not inductive: nothing would tell a
  message that waits to be recorded from one that is recorded already.

`Repaired` and `Injected` are concatenations of lists (`FlattenSeq`), so that repairHistory answers every call (`RepairAnswers`) needs an
induction over the length of the history. It is done without an induction theorem that takes an operator: the numbers up to
which a statement holds are a set, and a set of natural numbers has a least element (`LeastElement`, `Inductively`).

`DeliveredAsPromised` (`Spec => [][Promise!Next]_(Promise!vars)`) is about the steps of `Conversation` in terms of `AtLeastOnce`: a
`Deliver` handles its message, a `Settle` settles it, and every other step, a crash included, changes nothing that was promised. It
is not the whole of `AtLeastOnce!Spec`: the messages of a run are recorded from its start, where `AtLeastOnce` records nothing
yet, and ends of turns are left out, since the state does not keep whether one was handled before a crash.

`TurnProofs`: from the same assumption, `ModelToldTheRecord` (`Spec => []RequestIsOnRecord`), `TurnsStartAtOffset`
(`[]OffsetIsTurnStart`), `FactsAreOfWholeTurns` (`[]FactsSeeWholeTurn`) and `ServicesAccept` (`[]RequestsAccepted`), all from
`TInv` (`TurnInvariant`), which speaks of the sessions that are not in `disturbed`:

* one handler at a time is in a turn of a session (`OneTurnAtATime`), because a second one makes it disturbed; only so does a
  transcript grow by one turn, and what a handler read stays what is on record;
* calls without results stand only at the end of a transcript, and the transcript repaired is tidy: every call is
  answered by the messages right behind it, in order, and nothing else is an answer (`TranscriptsInOrder`);
* a handler's `view` begins with the whole transcript, its turn starts at `offset`, and its `view` is tidy once the calls it has
  still to run have results (`TurnsInOrder`);
* a recorded end of turn points to a turn that is whole in the transcript, and keeps doing so while others are appended
  (`EndsInOrder`).

`RequestsAccepted` is about the request that `AnthropicParams` and `OpenAIParams` make of a tidy transcript. `AnthropicParams` folds
over the messages and merges results into the block before; that the blocks come out in order with each call answered
in the next block is shown by unrolling the fold message by message (`HalfWay`, `Mapped`, with `Inductively`).

Only model-checked: liveness, that is `EventuallySettled`, `DrainEnds` and the `ShutdownEnds` of both dispatchers, `Terminates`, and
`AllAcknowledged`. The proof system does not reason about fairness in actions of this size: it needs ENABLED, which its backends do not
handle. The runs show them on the instances, under the fairness stated there.

## Not modelled, and limits

* Two processes on the dispatcher's database (`serve` and `chat` at once): the start of one gives back the rows the other is
  running. The code gives no protection, and no document claims any.
* Reads of events (`Get`, `List`), and `Append` and `AppendReactions`, which the durable path does not call; encoding of payloads, beyond
  that it may fail; registration of handlers after `Start`; the order of `created_at` as text, which drops trailing zeros
  of the fraction.
* The listener for `tool.call_requested`: nothing in the program records that event.
* Slack's log of events in a file, which nothing reads; the kind and the retry flag of errors of language models, which nothing looks at.
* GitHub: the token its server connection was opened with is not renewed; the signature of the JWT; pages after the first.
* Web access, embeddings, tracing, email (a stub) and the command line keep no state or only observe.
* Time is "may have passed": a poll interval may fire, a deadline may be over. How long a Drain whose deadline has passed waits
  for `drainMu` is not stated, only that it ends if handlers return.
* The rounds of a turn have no bound in the code; here they have one (`MaxRounds`), and a model that calls tools for ever is not considered.
* `DrainLeavesNothing` is checked with listings that reach all rows, and proved under the hypothesis that they do: with a full listing of which nothing could be queued,
  `drainPending` ends early (`reaction_dispatcher.go:206`), which finding 3 is about.
