# AtomCode: TLA+ models, checks and proofs

AtomCode is a terminal coding agent: a kernel that runs a model's turns and tool
calls, capabilities (tools, providers, session store, MCP), a plugin harness, a coding
runtime, a daemon with live views, and front ends. This directory models the places where
concurrency, cancellation, retries, history and durable state live: the kernel's session
loop and `run_turn` (`crates/atomcode-kernel/src/agent/engine.rs`, `request.rs`,
`message.rs`), the harness's command pump and turn task
(`crates/atomcode-harness/src/plugins/handle.rs`, `agent_loop.rs`, `agent.rs`), background
shell jobs (`crates/atomcode-capabilities/src/tools/bash/background.rs`), and the durable
rewind of a session (`crates/atomcode-capabilities/src/session/`,
`crates/atomcode-coding/src/runtime.rs`). Paths below are relative to the repository root.

## Inventory

### The kernel

| Component | State | Operations | Hard behaviour |
|---|---|---|---|
| Request broker (`request.rs`) | table of pending oneshots, id counter | `request`, `resolve`, `cancel_pending` | timeout, answer and cancel race; futures dropped while waiting |
| Session loop (`engine.rs`, `session_loop`, `process_send_message`, `drain_pending`) | command channel, `pending` queue, steer buffer, cancel token | one arm per `AgentCommand`, idle and in the middle of a turn | commands arrive at every await of the turn; parked turns; shutdown |
| Turn engine (`run_turn`) | round number, cap, nine retry budgets, what the stream has shown | open, stream events, idle timeout, recovery, continuation, checkpoint | retries that refill each other; replay after something was shown |
| Tool batch (`run_turn`, phases 1 to 3) | plans, semaphore, reader/writer gate, result slots, receipts | classify, execute, apply | concurrent calls, denial, cancel and policy stop in the middle, recovery |
| Loop guards (`ToolLoopState`, the repeat fuse) | two streaks with thresholds | observe, reset, nudge, stop | two guards that defer to each other; evidence across turns |
| Conversation (`message.rs`) | message list, cache epoch | push, `repair_pairing`, `prepare_plan`/commit, `finish_cancelled`, resume | reused call ids, broken pairs, indices moved by compaction |

How they interact: the session loop owns the conversation and polls one `run_turn` future
while it reads commands. A middleware or a tool inside the turn awaits the broker, which
the loop resolves (`Respond`) or flushes (`Cancel`, `Shutdown`). A message sent during the
turn goes to the steer buffer, which the turn takes at the top of a round; everything else
waits in `pending`. Each round sends a projection of the conversation, and each response
with tool calls runs one batch, whose results go back into the conversation and whose
signature goes to the loop guards.

What makes them correct: nobody waits on an answer that cannot come; no command is lost
or done twice and each turn has one terminal; a turn ends, counts its rounds exactly and
never repeats a request whose answer was shown; a batch gives one result per call id, runs
writes alone and in order, and does no effect twice; a runaway is stopped, on current
evidence and after a warning; and every request is legal for a provider and extends the
one before it.

### Harness, capabilities and coding runtime

| Component | State | Operations | Hard behaviour |
|---|---|---|---|
| Agent pump (`handle.rs`, `agent.rs`) | command channel, inbox, status and cancel token of the agent, a stop held for a turn not yet started, pending questions | one arm per `AgentCommand`, begin and end of a turn, cancel, stand down, ask and answer | status, token and inbox are separate locks; a stop meets every step between the spawn and the end of a turn |
| Agent loop (`agent_loop.rs`, `drive_as`) | the claimed message, the round | claim, fold, PreStep, request, batch, TurnStopping | a message taken from the inbox is in no store while PreStep holds it |
| Background jobs (`background.rs`, `background_jobs.rs`) | the store of jobs, per job output, status, two flags, a notification and a kill channel | start, poll, wait, kill, observe; the reader and pump tasks | fields locked one by one; an exit that leaves a server running; notifications without a permit |
| Rewind (`snapshot.rs`, `rewind.rs`, `runtime.rs`) | on disk: conversation, worktree, ledger, journal, refs of a shadow git store; in memory: phase, points, receipt guard | begin, apply the undo, commit, compensate, recover, recover at opening | crashes between writes, failing writes, a driver that goes away, turns opened meanwhile |

The pump and the turn task share the agent: the pump spawns a turn when a message waits and
nothing runs, and learns of its end from a channel. A question of a tool waits in the asker
until the driver answers or a stop sweeps it. A job runs on beside turns; the runtime's
observer turns its completion into a message. A rewind is driven by a caller's future over
three controls of the runtime's loop, each of which blocks that loop; between the controls
the loop serves others.

What makes them correct: no message is lost, answered twice or taken from another sender by
a stop; a stop holds for its turn, from the first moment on, and for no other; who waits for
a job is woken, and what a shell left behind can be killed; a rewind happens in all of its
stores or in none, whatever dies on the way.

### The rest of the repository

`PROJECT.json` lists every component with the reason it is modelled or not. Parts with a
protocol of their own that are still open: the daemon's live view hub, the session store's
commit and leases, the coding runtime's other transitions and goals, MCP catalog
publication, teams, the projection of the session event log, the reasoning-loop detector.
Provider wire formats, file and shell tools, text-driven policy, the terminal UI, updater,
telemetry transport, site, extensions and vendored code are I/O or presentation and stay
out.

## Modules

| Module | Models |
|---|---|
| `OneShotRequests` | what a request promises: it returns at most once, with Null or an answer given for it |
| `RequestBroker` | `request.rs` step by step; refines `OneShotRequests` |
| `SessionLoop` | the command loop around one turn at a time |
| `TurnEngine` | the round loop of one turn |
| `ToolBatch` | the calls of a response, up to three responses of a turn |
| `LoopGuards` | both guards over any number of turns |
| `Conversation` | the stored history and its projection |
| `AgentPump` | the harness's pump, inbox, asker and turn task around one agent |
| `BackgroundJobs` | one background job with its tasks, pollers and observer |
| `RewindTransaction` | the rewind of a session across its stores, with crashes |
| `RequestBrokerProofs`, `SessionLoopProofs`, `ToolBatchProofs`, `ConversationProofs`, `AgentPumpProofs`, `BackgroundJobsProofs`, `RewindTransactionProofs` | the theorems about each, with their proofs |
| `RunTurnProofs` | the theorems about the two models of `run_turn`, `LoopGuards` and `TurnEngine`, with their proofs |
| `MC*` | the instances TLC checks |

Definitions are named after the code where it has names (`repair_pairing`, `sacred_floor`,
`finish_cancelled`); actions are named for the arm of the code they model, and `map` in
`PROJECT.json` gives their lines. An operator whose comment starts with "mutant:" is not
part of the model: it is the definition below it with a plausible bug.

**RequestBroker.** `request()` is four steps, because requesters run on other threads:
`TakeId` (the atomic counter), `Insert` (the locked insert and the event), then `Receive`
or, with a timeout, `Expire` and `Remove`. `DropFuture` is a tool future dropped by a
cancelled batch. `Resolve` and `CancelPending` are the session loop reading its channel.
`bounded` is the builder's `request_timeout`, chosen once in `Init`.

**SessionLoop.** `loop` and `turn` are the loop's and the turn's program counters, the
latter reduced to the points where the turn can be cancelled, asks the driver or takes the
steer buffer. Commands carry their send order, so `served`, `dropped` and `stops` (history)
can account for each. PeerNote takes the path of a synthetic prompt. The answer to a
request is a command in the same channel, behind whatever was sent before it.

**TurnEngine.** One action per arm of `run_turn` that opens, replays, continues or ends a
request, with its budget. A stream is the set of the kinds of its events (`blank`, which is
reasoning that is filler, `space`, which is text of white space, `reason`, `text`, `fragment`,
`call`): this is what the replay decisions look at. They do not look at the same kinds: the
retry of an empty completion (`MayBeEmpty`) asks for text, reasoning and complete calls and not
for displayed parts of a call. `shown` (text or a complete call), `hinted` (a part of a call),
`saved` and `responses` are history, and `ShownIsKept` states what each replay may repeat:
nothing `shown`, and of what was only `hinted` no more than the retries of empty completions.
Compaction inside a turn is an await here and an action in `Conversation`.

**ToolBatch.** A call is an id and a key (name and canonical arguments). `Classify` builds
the plans in order with the two deduplication gates and the before-chain; `Permit` is the
semaphore in first-poll order, `Gate` the reader/writer lock in queue order, `Enter` the
re-check of cancel and policy stop after both; `ApplyResult` runs the after-chain and
records evidence; `BatchEnd` and `Terminal` give cancel precedence over denial.
`Recover`, `Receipted` and `Publish` are the receipts that keep a confirmed write from
being run again when a stream is recovered. Argument rewriting, the receipt's working
directory and its byte bound are folded into the key.

**LoopGuards.** A round is its signature and its fingerprint, chosen independently, since a
middleware may rewrite arguments between them and only the fingerprint ignores layout.
`warned`, `corrected`, `same` and `since` are history. `Cap` stands for `u32::MAX`. Its
specification is `GuardsSpec`, so that one module can extend it together with `TurnEngine`;
`spoken` and `endedBy` are the steer buffer and the reason to stop, as the guards see them.

**Conversation.** A message keeps role, call ids, prompt and pin flags, size and an identity
(`tag`). A snapshot is a history with its cache epoch; `Init` repairs it, whatever state it was
saved in. `Send` is the projection (`repair_pairing`), `Compact` commits any plan, in range or
not, with at most one rewrite. `ApplyResult` pushes the reason of a Block after the result it
blocks. `OnlyBlockWithholds` states what becomes of every stored result with Blocks included,
`ResultsReachModel` what the comments of the code promise. A manual compaction whose checkpoint
cannot be saved is a stutter. The `pre_request` hook's edits, image folding and usage metadata
are left out.

**AgentPump.** The pump's arms are actions; `begin_turn`, `cancel`, `interrupt` and the
asker's `request` are split at every lock they give up (`PumpLook`, `PumpMove`, `PumpFire`;
`TurnToken`, `TurnWorking`, `TurnAhead`; `TurnAsks`, `TurnInserts`, `TurnWaits`), since the
turn runs on another task. `StandDown`, which takes the agent's locks one after the other, is
one step. A message keeps who sent it and whether it wakes the agent.
`DriverSends` and `PeerSends` are the outside. Subscriptions, catalog commands and messages
for another agent do not touch this agent's state and are left out.

**BackgroundJobs.** Each separately locked or atomic field is written in a step of its own:
the reader's `ReaderFlags` and `ReaderCloses` are sequences of stores, `poll` is
`PollOutput`, `PollStatus`, `PollReaps`, and `wait_for_poll` enables its notification
(`Enabled`) before it looks. Output is counted in chunks; the bounded tail, exit codes and
texts are left out. `ShellExits`, `HolderEnds` and `KillTree` stand for the process tree.

**RewindTransaction.** Conversation and ledger are sequences of turn numbers and a file's
content is the turn that last wrote it, so that "taken back" is comparable across stores. Every
durable write is a step: `BeginJournal`, `BeginFiles` (one file at a time), `BeginLedger`,
`Apply`, then `CommitMark`, `CommitUnpin`, `FinishClear` or the compensation. `pin` is the
recovery tree in the shadow store: pinned, loose, or gone after a collection. `Crash` loses the
process's variables; `Reopen` starts `recover_pending_rewind`. A failing write leaves its target
as it was or already replaced (`WriteFails`), as `atomic_write_tracked` may. A read may fail as
well: of the journal at the next opening (`ReopenBlind`), of the ledger there, and of the
conversation where recovery asks whether it has crossed (`ReadBack`, in `Finish` and `Reopen`):
the code takes a conversation it cannot read for one that has not. `tx` is bookkeeping: what the
rewind started from. A behaviour has one rewind. The commit of the conversation is one step
(`Apply`, `ApplyFails`). Left out, since only other reconfigurations than a rewind lead to them:
FinishRewind's answers to another generation (Busy) and without resources (Unavailable), which
drop the receipt with the journal in place (`runtime.rs:6657`), and ApplyUndo's Busy for another
generation or a compaction (`runtime.rs:8649`), which the driver answers like the Busy that is
modelled.

## Runs

Nine runs that pass and three that find a sentence of the repository which the code does not
keep; these have an entry under `findings`.

| Run | Checks | Bounds |
|---|---|---|
| `broker` | `WaiterReachable`, `NoLeak`, `ImplementsPromise`, `TimeoutUnblocks`, `CancelUnblocks` | two requesters, two ids, two commands in the channel: enough for a timeout, an answer and a cancel of one request to overlap with another request |
| `session` | `NothingLost`, `OneTerminalPerTurn`, `EveryCommandServed`, `ShutdownEnds` | three commands of any of the seven kinds, two rounds, two calls: a turn, a command during it and a stop, in every order |
| `turn` | `RoundsCountAnswers`, `ShownIsKept`, `TurnEnds` | one round plus one granted extension, each budget 1, streams of any of the six kinds of events: every budget is spent and, where the code refills it, refilled |
| `batch` | `OneResultPerId`, `NoDuplicateEffect`, `WriteBarrier`, `ConfirmedNotRerun`, `ReuseIsTrusted`, `StopHolds`, `BatchEnds` | every first batch of up to three calls over three reads, two writes and an unknown tool with every pattern of repeated ids, then up to two later batches of two calls, two permits, interrupted streams, room for two receipts |
| `loop_guards` | `RunawayBounded`, `StopNeedsEvidence`, `StopIsWarned` | the shipped thresholds 3, 5, 3, 6; two signatures, two fingerprints, counters that saturate at 11 |
| `conversation` | `WireLegal`, `RepairIsExact`, `OnlyBlockWithholds`, `PrefixStable`, `ProtectedKept` | repeated and reused call ids, five snapshots (fresh, complete, pinned, saved in a turn, orphaned results), Blocks, broken streams, cancels, one compaction with any plan between or within turns; up to five messages, enough for a whole batch of two with a Block in it |
| `conversation_block` | violation of `ResultsReachModel` | one turn of a fresh session with two calls |
| `background` | `NoMissedWakeup`, `LeftStaysKillable`, `CompletionIsFinal`, `KillReaches` | one job, two chunks, a poller, an observer and a kill: every pair of the job's tasks and its readers meets |
| `background_poll` | violation of `DroppedIsDelivered` | the same job |
| `pump` | `MessagesAccounted`, `NoStrayStop`, `StopHolds`, `NoFoldAfterStop`, `StopEndsTurn`, `MessagesSettled` | a driver's message, a peer's report, two further commands, turns of up to two rounds with one question |
| `rewind` | `AllOrNothing`, `RecoveryKept`, `JournalResolved` | two files, two turns, every scope, two failing reads or writes, two crashes: a crash during the recovery from a crash, and a failure on the way back from a failure |
| `rewind_submit` | violation of `LaterWorkKept` | no failures, no crashes |

`StopHolds` names two properties: in `ToolBatch` nothing enters after a stop, in `AgentPump`
a stop given before a turn is under way holds for it.

`AllOrNothing` names the outcomes of a rewind that is over: conversation and files as they
were, with the ledger of before, as pruned when the rewind began, or already cut (a rewind given
up may lose the points it would have cut); all three taken back; or, if the one failure was
recovery's read of a conversation that had been taken back, a conversation that stays taken
back, whatever recovery did to the files and the ledger. It and `RecoveryKept` allow one failed
operation besides the crashes: after two (the restore and the way back both fail) the code
itself reports that it cannot say, stops the runtime, and clears or keeps the journal as the
case may be. `JournalResolved` is about crashes and lost drivers, since a disk that keeps
failing keeps the journal.

In `MCToolBatch` ids are named by the place of their first use and interchangeable keys are
used in order: the model compares ids and keys for equality only, so nothing is lost.
`RepairStep` and its relatives take whole histories, so the two runs of `Conversation` bound the
messages pushed (`MaxTags`, less what a snapshot has used up) rather than the turns.

Each module but the abstract `OneShotRequests` has a type invariant, `TypeOK`
(`GuardsTypeOK` in `LoopGuards`), which is a theorem; the runs spend their time on the
properties above. `CHECK_DEADLOCK FALSE` stands in configurations of systems that really end
(a session, a turn, a batch, a job) or whose inputs the bounds end.

### Fairness

* Broker: weak fairness of each step of a requester (its task is polled by tokio), of the
  timer, and of the session loop's reads. The driver owes nothing: it need not answer.
* Session: weak fairness of the loop's reads and of the turn's own steps. `select!` is
  biased to neither side for ever: both are polled while either is pending.
  `EveryCommandServed` and `ShutdownEnds` use `AnsweringSpec`, where the driver answers
  what it is asked; without it a turn may legally wait for ever.
* Turn and batch: weak fairness of the engine's steps, a provider whose stream yields an
  event, ends or meets the idle timeout, and tools that return or are killed by the cancel.
  The environment's choices (which event, which failure) are unconstrained.
* Pump: weak fairness of the pump's and the turn's steps and of a compaction, which are
  tokio tasks that are polled; requests and tools end. Nobody need answer a question and
  nobody need send anything: `StopEndsTurn` has to come from the stop alone.
* Background jobs: weak fairness of a job's reader task only. The shell need not exit
  unless it is killed, and nobody need poll.
* Rewind: weak fairness of the blocking task, the loop's reads, the driver's call and the
  next opening of the session. A driver that is dropped instead is covered, and a crash is
  never owed.

## Proofs

TLAPS proves these for every value of the constants (all budgets, thresholds, numbers of
commands and messages, sets of requesters, jobs, ids and plans), from the named assumption of
each module and nothing else. A theorem's name is on the left of the property it states.

| Module | Theorems |
|---|---|
| `RequestBrokerProofs` | `TypeCorrect`; `NoLostWaiter`: `WaiterReachable`; `NothingLeaks`: `NoLeak`; `BrokerRefines`: `ImplementsPromise` |
| `SessionLoopProofs` | `TypeCorrect`; `TerminalOnce`: `OneTerminalPerTurn`; `NothingIsLost`: `NothingLost` |
| `ToolBatchProofs` | `Invariant` (with `TypeOK`); `Barrier`: `WriteBarrier`; `EffectsOnce`: `NoDuplicateEffect`; `RecoveredWritesSafe`: `ConfirmedNotRerun`; `ReuseTrusted`: `ReuseIsTrusted`; `ResultsOnce`: `OneResultPerId`; `StopsHold`: `StopHolds` |
| `RunTurnProofs`, guards | `TypeCorrect`: `GuardsTypeOK`; `RunawayStopped`: `RunawayBounded`; `EvidenceIsCurrent`: `StopNeedsEvidence`; `WarningComesFirst`: `StopIsWarned` |
| `RunTurnProofs`, round loop | `BudgetsKept`: `TypeOK`; `RoundAccounting`: `RoundsCountAnswers`; `CapExact`: `CapHolds`; `NothingReplayed`: `ShownIsKept` |
| `ConversationProofs` | `TypeCorrect`; `RequestsLegal`: `WireLegal`; `RepairExact`: `RepairIsExact`; `CachePrefix`: `PrefixStable`; `OnlyBlocks`: `OnlyBlockWithholds`; `ProtectionHolds`: `ProtectedKept` |
| `AgentPumpProofs` | `TypeCorrect`; `StrayStopsNone`: `NoStrayStop`; `StopsHold`: `StopHolds`; `FoldsStop`: `NoFoldAfterStop`; `Accounted`: `MessagesAccounted` |
| `BackgroundJobsProofs` | `TypeCorrect`; `WakeupsSafe`: `NoMissedWakeup`; `LeftKillable`: `LeftStaysKillable`; `CompletionFinal`: `CompletionIsFinal` |
| `RewindTransactionProofs` | `TypeCorrect`; `RewindAtomic`: `AllOrNothing`; `RecoveryTreeKept`: `RecoveryKept` |

The arguments, and why the properties need more than themselves:

* **Broker.** `WaiterReachable` is not inductive: a waiter's id could be shared, or reused by a
  new request. The invariant adds `Ownership` (an id belongs to one request that has not
  returned), `Freshness` (ids not yet handed out are untouched; an entry has an empty oneshot)
  and `Provenance` (values on the wire or in a oneshot are answers given for that id), which
  the refinement of `OneShotRequests` needs.
* **Session loop.** `NothingLost` counts with `Cardinality`. The invariant says the same by
  membership: a number that was sent is in exactly one of the channel, `pending`, the steer
  buffer, `served`, `dropped` and `stops` (`PlacedOnce`), and no queue holds one twice
  (`NoRepeats`). That a dropped message has a later stop needs the channel sorted by the order
  of sending and the steer buffer older than the channel (`CmdsInv`). `TurnInv` ties the steer
  buffer and the open calls to the turn's program counter.
* **Turn engine.** The inductive invariant relates `round`, `responses` and `partials` at every
  program point, and says of the current stream that it was counted in `shown` exactly when
  something visible came, in `hinted` exactly when a part of a call was displayed. A stream that
is taken for empty has counted in `hinted` at most, and the retry that follows pays for it.
* **Tool batch.** `WriteBarrier` speaks of the calls that run. It holds because the gate's queue
  is sorted by the call's place, has every queued call, and the calls ahead of a queued one have
  settled or wait before it (`QueueInv`), which rests on what a slot may hold under each plan
  (`SlotInv`) and on one plan per id that is not a skip (`PlanInv`). `OneResultPerId` follows
  from `HistInv`, which says of each prefix that was applied which ids it has put in the
  history. `ReceiptInv` ties receipts, trusted writes and the evidence of the batch together;
  `ConfirmedNotRerun` and `ReuseIsTrusted` are inductive beside it.
* **Loop guards.** Assumptions: what `ToolLoopPolicy::new` enforces on its thresholds, and that
  they are small against `u32::MAX` (`MaxRepeat + Stop <= Cap`). `FuseHeld` is the heart: past
  `MaxRepeat` rounds the exact guard must have a streak at least as long as the excess plus two,
  and that streak is below `Stop`, hence the bound `MaxRepeat + Stop - 2`. `SilentRun` says that
  a signature never corrected is covered by a streak that has not reached `Warn`, or passed it
  before the signature began; with the thresholds in `Shipped` this cannot last until the fuse.
* **Conversation.** `repair_pairing` is a fold, written as a recursive function, and the proofs
  follow the window it carries after each message. What a window has put out is a legal history,
  then the message that opened it, then one result for each resolved id (`Shape`); closing such
  a window gives a legal history, whatever was stored, so `WireLegal` needs the types of
  messages and no more. Over a legal history the windows copy it (`Copied`), hence
  `RepairIsExact`. `PrefixStable` compares two requests that lie many steps apart: `WInv`
  carries that the last request is a prefix of the repaired history and, within a turn, of what
  the repair has put out for good (`Extends`), and that the open batch is what the last window
  waits for (`Waits`). `OnlyBlockWithholds` adds that every stored result was taken by its
  window or comes after a Block of its batch (`Stored`), which has to be known of the results
  still to come: their window waits for all of them, or a note after a result has ended it
  (`BatchOpen`). `ProtectedKept` follows from what `prepare_plan` does with any plan
  (`CandidateKeeps`) and from the repair dropping tool messages only (`RepairKeeps`).
  Assumption: the history of a resumed snapshot is a sequence of messages of which only results
  have a `tool_call_id`, only assistants have calls and only user messages are prompts or
  pinned.
* **Agent pump.** The invariant has two halves. `Control` follows a stop through the accesses
  that the pump and the turn make to the same flags: a stop that was read is in `cancel_ahead`
  while the turn has not opened and in the fired token after (`Held`, `Fired`), and what the
  status tells about the turn (`StatusInv`) is why the pump chooses the right one of the two.
  `Accounts` follows the messages: one that is open is in exactly one of the channel, the inbox
  and the turn's claim, and a settled one in none (`Sole`, `Placed`). The types need `Bounds`
  beside it: a request of the driver is in the channel, waits or was served (`Served`), and only
  the closing round of a turn is past its fuse (`Rounds`). Assumption: finitely many peers.
* **Background jobs.** `NoMissedWakeup` needs what each caller has read so far, related to what
  the reader task has still to store (`CallInv`), and the order of the reader's stores, which a
  program point per store makes visible (`JobInv`).
* **Rewind.** `AllOrNothing` speaks of a rewind that is over, so the invariant has to follow it
  there from every point at which the process may die. `Durable` is the part that survives a
  crash, over the stores and the journal alone: without a journal all three stores are on one
  side; a committed journal, or an open one whose conversation has crossed, means the new side
  in full; an open one that has not crossed means the old conversation, one of the three
  ledgers, and a pinned recovery tree wherever a file is not as it was. The next opening needs
  no more, which is the proof for `Crash` and `Reopen`. `Stage` adds, for the process that is
  alive, which side each program point of the task has put the stores on (`Beginning`,
  `Undoing`, `Committing`, `Compensating`, `Reopening`) and which control the driver has sent
  (`Waiting`): FinishRewind takes the side the conversation is on, however the driver left.
  `Stage` is claimed while no turn has begun since and at most one operation failed (`Quiet`),
  which is what the two properties claim; both counts only grow, so a quiet state has a quiet
  past. Beside `Stage` stands `Torn`: the one failure was recovery's read of a conversation that
  had crossed. Nothing of `Stage` is left then but the conversation, which no later step moves.
  `Base` (types, one receipt, its journal and its task) holds always. Assumption: the scopes are
  among the code's three and the bounds are naturals. That two stores can be told apart rests on
  the target being shorter than the conversation it is cut from (`BeforeType`).

Induction. The library's induction theorems take the property as an operator, which the provers
cannot instantiate. Where a proof is about a recursive function or a sequence, the module proves
induction for a set instead, from the least element of a set of naturals (`Induction`, `UpTo`),
and uses it with the set of the numbers at which the property holds.

Each property was checked by TLC before it was proved. Only model-checked: the
liveness properties, since fairness and ENABLED are outside the prover. The properties of the
three violated runs are false.

## What the checks found

* `poll` of a background job takes the output under one lock and the status under another
  (`background.rs:323`). A last chunk and the exit in between are dropped with the job,
  although the comment at line 339 says that everything was delivered. (`background_poll`)
* A prompt or a job's report that arrives while a rewind is under way opens a turn:
  `Submit` never asks for the phase (`runtime.rs:5665`), and the rewind's compensation then
  writes the old files over that turn's work. The design's table
  (`docs/coding-runtime-native-migration-design.md:422`) and ADR 0001 say that
  `Reconfiguring` refuses it. (`rewind_submit`)
* An after-middleware's Block puts its reason between two results of a batch
  (`engine.rs:4375`); the repair of every later request drops the later real results and shows
  the model placeholders. The comments at `engine.rs:4344` and `4372` say that no message of
  the user may stand between the results, and that no middleware emits a Block;
  `cc_hooks.rs:1422` does. (`conversation_block`) `OnlyBlockWithholds` shows that nothing else
  does so.

Seen while modelling, in the models and not in a run:

* Recovery of a rewind asks whether the conversation has crossed with
  `load_snapshot(..).is_ok_and(..)` (`snapshot.rs:773` and `920`). A read that fails counts as
  "not crossed": the files and the ledger of a rewind that did cross are taken back to the old
  side and the journal is cleared, with the conversation at the target, against the comment at
  764. The last disjunct of `AllOrNothing` is this outcome.
* Filler reasoning beside displayed parts of a tool call, with no complete call, is an empty
  completion to `engine.rs:3341`, and the request is replayed although something was displayed;
  the comment at 3325 speaks of a completion with zero content. `hinted` in `ShownIsKept` is
  this case.
* A length saved at the start of a turn is used to undo it after a compaction inside the
  turn has moved everything: part of the cancelled turn stays (`engine.rs:2129`).
* A Cancel flushes the requests that wait when it is read; a call classified after it may
  ask again, and with no `request_timeout` the cancelled turn waits on (`engine.rs:3789`).
* A message sent during a turn and not taken up by it is queued behind commands that came
  later (`engine.rs:1897`, against the comment at 1562).
* A stop that meets the very start or end of a turn may leave it stopped but not recorded
  as the person's (`agent.rs:1086`); only the transcript shows it.
* The job limit is checked before the spawn is awaited (`background.rs:239`), so concurrent
  starts pass it together.
* A compensation whose ledger cannot be saved keeps the refs of the cut ledger only and
  collects the others (`snapshot.rs:854`, against the comment at 799). A journal save that
  fails after its rename leaves a journal behind a runtime that is Ready, and a forward
  recovery whose clear fails, followed by a turn, is taken for a backward one at the next
  opening: the conversation no longer equals the target. A restore and its way back that
  both fail still clear the journal (`snapshot.rs:640`).
* A successful open does not reset `rate_limit_waits` (`engine.rs:2542`; it is reset at a
  natural end, line 3318), although the comments at lines 150 and 2223 say so; `TurnEnds`
  holds because it is not. The backfill of a kept cancelled turn looks for an id in the
  whole history, so a call that reuses an answered id stays unpaired in storage until the
  next projection repairs it (`engine.rs:2124`). A custom `ToolLoopPolicy` with high
  thresholds, such as 10 and 12, lets the coarse fuse stop a turn that was never corrected:
  `StopIsWarned` claims the fuse's half for `Shipped` thresholds only.

## Not modelled

The map covers a small share of the repository because most of it is presentation, wire
formats, file and process I/O, text and configuration: the terminal UI, the command line,
provider adapters, search and edit tools, installers and settings have no protocol that a
small state space would test better than their unit tests. What has one and is still
missing is in the plan. Of the modelled components, the harness's recovery rows, the coding
runtime's other transitions (reload, resume, change of directory, goals, loops), the leases
and the file-by-file commit of the session store are left out; `PROJECT.json` says so
component by component.

## Plan

1. Done: the kernel modules, `AgentPump`, `BackgroundJobs`, `RewindTransaction`, and the proofs
   of the safety properties the passing runs check.
2. Models to add: the daemon's live view hub (a view that joins sees every event once, stale
   generations are refused, `turn_active` agrees with the runtime); the session store's
   commit with a crash between its replacements; the runtime's reconfigurations; the
   reasoning-loop detector and the log projection as operators against reference
   definitions.
