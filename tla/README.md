# A TLA+ model of picoclaw

This directory specifies and verifies parts of *picoclaw* (the Go program under `cmd/` and
`pkg/`): TLA+ modules, TLC configurations that check them on small instances, and proofs that
TLAPS checks for every value of the constants. The code is the reference; each definition is
a translation of the lines `PROJECT.json` maps it to.

## The system

`picoclaw gateway` is one process. Users write to it on chat channels; an agent answers them
by calling a language model, which may ask for tools; a cron service starts agent turns or
sends texts at set times; subagents work in the background.

| component | state | operations | goroutines and locks |
|---|---|---|---|
| message bus (`bus`) | two Go channels of capacity 100 | publish (blocks when full), consume | none of its own |
| channels (`channels`) | connections, placeholders, filters, webhooks | `HandleMessage` publishes inbound, `Start`, `Stop`, `Send` | receivers of the SDKs, an animation per Telegram message, an acceptor and a handler per device; a lock in WhatsApp and MaixCam held while writing |
| channel manager (`channels/manager.go`) | registered channels | start, stop, `dispatchOutbound` | the dispatcher; one lock, held through all starts and stops |
| gateway process (`cmd/picoclaw/main.go`) | the context of all goroutines | start everything, wait for an interrupt, stop everything | main |
| agent loop (`agent/loop.go`) | tool contexts, `summarizing` map | `Run`, turns, summarization | `Run`; the cron loop also runs turns; one goroutine per summarization |
| sessions (`session`) | history and summary per chat, one file each | append, read, set summary, truncate, save, load | one lock per call, none over several |
| tools (`tools`) | context of message, spawn and cron tool | `SetContext`, `Execute` | shared by all turns, no lock over both |
| subagents (`tools/subagent.go`) | tasks | `Spawn`, `runTask` | one goroutine per task, one lock |
| cron service (`cron`) | job list, `jobs.json`, run loop | add, remove, enable, due collection, execution | run loop, lock for the list |
| gene engine (`gene`) | genes, capsules, event log and their files | select, solidify | called from every turn; lock per call |
| heartbeat, edge reporter | a stop channel each | start, stop, periodic work | one goroutine each |
| context builder, memory, skills | files of the workspace | build the prompt, read the notes | called from turns |
| providers, config, logger, voice, file/shell/web tools | none that outlives a call | I/O | none |

What is hard in it: two goroutines (`Run` and the cron loop) execute turns at the same time
with the same tools; bounded queues block their publishers; a lock is held while publishing;
files are rewritten in place, so that a crash can leave one that does not parse; errors of
saves are often only logged; copies are taken under a lock and used after it; a background
summarizer shortens what a turn extends. `PROJECT.json` lists each of these places as a hazard
with the properties that guard it.

What makes each part correct:

- *cron*: nothing stored is lost, forgotten, run twice or run too soon, and what is due is run;
- *pipeline*: answers come in order, once and in the right chat; nobody waits for ever;
- *sessions*: what a turn wrote stays until a summary stands for it, in memory and on disk;
- *genes*: counts and confidence follow what was observed, references hold between files;
- *gateway, channels, edge*: no message refused for coming early, each settled once and in order, a
  shutdown that ends and leaves no connection behind;
- *chats*: a message reaches the agent once, its answer comes back to where it was written, in its
  own placeholder, and nothing goes on "thinking" after it.

## Modules

| module | what it is |
|---|---|
| `CronService` | the scheduler, its store file, calls from other goroutines, crashes and restarts |
| `CronServiceProofs` | theorems about it |
| `MessagePipeline` | bus, Run loop and turns, message and spawn tools, subagents, cron jobs, dispatcher |
| `MessagePipelineProofs` | theorems about it, the refinement of `RequestReply` among them |
| `RequestReply` | the abstract promise to a user, which `MessagePipeline` implements |
| `Gateway` | the process: start and stop, manager and dispatcher, connections, edge reporter |
| `GatewayProofs` | theorems about it |
| `Delivery` | the abstract promise to publishers of outbound messages, which `Gateway` implements |
| `Adapters` | pure: what each of the seven channels drops, which address and sender it gives a message |
| `ChatChannels` | a conversation through one channel: handlers, filters, placeholders, `Send` |
| `ChatChannelsProofs` | theorems about it |
| `SessionMemory` | history and summary of a conversation, turns, the summarizer, the session file |
| `SessionMemoryProofs` | theorems about it |
| `GeneStore` | genes, capsules, events and their files, concurrent turns that solidify, crashes |
| `GeneStoreProofs` | theorems about it |
| `MCCron`, `MCPipeline`, `MCSession`, `MCGene`, `MCGateway`, `MCChats` | instances for TLC |

### CronService

`jobs` is the list in memory (`cs.store.Jobs`), `disk` the content of `jobs.json`, `due` and
`cur` the copies `checkJobs` has collected and the one whose handler runs. Every section that
holds `cs.mu` is one action: `CheckJobs` ends at the unlock of `checkJobs`, `BeginJob` is the
call of the handler, `FinishJob` the rest of `executeJob`. Calls of the cron tool (`AddJob`,
`RemoveJob`, `EnableJob`) come at any time. A save succeeds, or fails and leaves the old file or
one that does not parse (`Torn`), because `os.WriteFile` truncates before it writes. `Crash` is
possible in every state; `Boot` is `NewCronService` with `Start`, and `BootUnreadable` a start that
could not read the file (`LoadFails`: it does not parse, or the read of an intact one fails): the
gateway then runs with an empty list in memory and without a run loop. `acked` and `lastStart` are
history variables: jobs whose caller was told they are stored, and the last call of a handler.

Left out: `LastRunAtMS`, `LastStatus` and the like, which nothing reads; the payload; a second
process (the `cron` subcommands) that rewrites the same file.

### MessagePipeline

One record per goroutine that runs turns (`worker["run"]`, `worker["cron"]`) says where it is in
`runAgentLoop`; `tasks` are the subagents, `lock` the holder of `SubagentManager.mu`. A step is
taken at every place where another goroutine can come between: setting a tool's context and
executing the tool are separate (`CallMessage`, `ExecuteMessage`), so are the end of a subagent
(`TaskDone`, which takes the lock) and its announcement (`Announce`, which needs room in the
queue), and each publication (`Publish`). What the model answers is a choice: a final answer,
a tool call, an error. A message tool call goes to the chat of its context or to one the call names,
a cron job to the chat it names or, if it names none, to "direct" on "cli". So `Chats` are all
addresses, and `Registered` those on a channel the manager has: users write from these, and the
dispatcher drops what is for another one. `Targets` bounds the chats that jobs and calls name. A chat is a pair
of a channel and an identifier, neither empty.

### SessionMemory

A message is its position in the conversation, `log` their roles and sizes, `session` and `disk`
the session and its file. A turn reads history and summary in two steps (`ReadContext`), appends
the user's message, calls and results, answers and saves; `MaybeSummarize` starts the summarizer,
whose steps are those of `summarizeSession`: read, ask the model, `SetSummary`,
`TruncateHistory`, `Save`. A summary is reduced to whether it is empty and which messages its
text was made from. A session has one turn at a time: chats are served by `Run` alone, and each
cron job has a session of its own.

### GeneStore

`genes` and `capsules` are the tables of the store in memory, `genesFile` and `capsulesFile` what
`genes.json` and `capsules.json` hold, `events` the lines of `events.jsonl`. `worker` says where
each goroutine that runs turns is in `Solidify`. A turn gets there by itself after a tool
(`AfterToolExecution`, which selects a gene) or because the model calls `report_gene`
(`ReportGene`, which names none). From there each call of the store, which takes the store's lock,
is one action: `AddCapsule`, `GetGene` with the change `updateGeneFromCapsule` makes to its copy,
`UpdateGene`, `CreateGene` (that is `AddGene`), `AppendEvent`. Between two of them anything else
may happen. Each save succeeds, or fails and leaves the old file or one that does not parse; the
caller then returns early, with what it had changed in memory still there. `Boot` reads both
files (`Read`) and seeds an empty store, `BootUnreadable` is the gateway that runs without an engine,
because a file does not parse. `Init` of the store takes every error of a read for a missing file, so
`Boot` chooses which of the files that are there it fails to read (`lost`); `misread`, a history variable, keeps
them. What was in a file that could not be read is replaced by the next save, a `genes.json` by the seeds at
once: the properties exempt that file, and only that one.

Learned genes and capsules are named by the millisecond of their creation, so two may get the
same name. Confidence is in thousandths. `ScoreGene` orders the genes that match; any of them is
selected here. `MaxFaults` bounds crashes, failed writes (both in `faults`) and files that could not be read
together; `learned` is a history variable, the genes whose creation succeeded.

Left out: a `gene` subcommand that runs beside the gateway on the same files; texts, steps and
scores; reading the event log, which only shows it. The preset is exploratory with the overrides of
the configuration; without them the default one selects no gene that is not verified.

### Gateway

`main` is where `gatewayCmd` is, `todo` the channels `StartAll` or `StopAll` has not come to; both
keep the manager's lock for their whole length, and that is `ManagerLocked`. `started` and `running`
are kept per channel, because `Start` may fail after the flag is set (Telegram, Discord) and the flag
may be cleared later (QQ). `dispatcher` is `dispatchOutbound` with the message it holds: it tests the
context (`DispatchTop`), takes a message (`Subscribe`), looks its channel up under the manager's
lock (`Lookup`) and is then in `Send`: `CheckRunning`, and either a call of an SDK that may never
return (`CallReturns`) or, in WhatsApp and MaixCam, the channel's lock (`LockChannel`) and one
`Write` per connection with that lock held. `acceptor`, `listening`, `table`, `open`, `handler` are
the connections of these two; `stalled` those whose peer stopped reading. `Interrupt` cancels the
context, `StopServices` and the actions up to `Stopped` are the rest of `gatewayCmd`. `settled` and
`late` are history variables.

The last part of `Gateway` is the refinement: with the message in the dispatcher's hand put before
the queue, the module implements `Delivery`.

What the module makes visible, without contradicting any text: a second interrupt is
swallowed, so a shutdown held up by a blocked write can only be killed; the listener of WhatsApp
reads a failed connection again and again without a reconnection; MaixCam goes on reporting itself as
running after its acceptor has ended; the heartbeat service never starts its loop, as `Start` takes
the open stop channel for a service that runs.

### Adapters and ChatChannels

`kind`, chosen in `Init`, says which of the seven channels the behaviour is about. A user writes an
event (`Write`); the SDK calls the handler (`Receive`), on one goroutine where the SDK delivers one
after the other and on two elsewhere. QQ filters repeated deliveries (`Filter`), DingTalk stores
the webhook of the chat (`StoreWebhook`), Telegram stores a stop channel, sends "Thinking..." and
stores the placeholder (`StartThinking`, `SendPlaceholder`, `KeepPlaceholder`); `HandleMessage` then
asks the allow-list and publishes. `Answer` stands for the agent, `Notify` for what answers nothing.
`Send` is split where another goroutine can come between: the four operations on Telegram's two maps,
the edit of the placeholder, the new message. `animation` and `display` are the goroutine that redraws
a placeholder and what it shows. `crowded`, `midStop` and `forgotten` are history variables: messages
whose chat had another one waiting, messages that came while a `Send` was between closing the chat's
stop channel and deleting its entry, identifiers that QQ's full set evicted. `Adapters` holds the
operators: `Dropped`, `Address`, `Sender`, `IsAllowed`, `Reached`. Every channel has an allow-list of its own, and
an empty one lets everyone in.

What is assumed of events (`ChatAssumption`): nobody but its user writes in a private conversation. The event
need not name its author, there or elsewhere; what each channel makes of that is in `Adapters`. DingTalk takes the
staff id for the chat of a private message and does not look whether it is empty (`Unaddressed`). All such
messages are then one chat with one webhook, the last one's, and `RepliesGoBack` says of their answers only that
they come out in the conversation of some such message, which may be another user's. The second
exception of `RepliesGoBack` is the answer to a QQ group. `PublishedOnce` has repeated deliveries on QQ
only: no other channel has a filter, and nothing in the code says what its platform repeats, so for them
it says no more than that what is delivered once is published once.

What the module makes visible: two messages of one Telegram chat that overlap leak an animation and may
swap their placeholders; a `Send` that has closed a chat's stop channel may delete the entry of a
message that came since, whose animation then never ends (it takes three messages, one of them from
somebody who is not allowed, and a notice; the run's two messages do not reach it, the proof attempt of
`AnsweredMessagesAreReleased` did); an edit of the animation that is under way when `Send`
stops it may cover the answer with "Thinking..." again; private DingTalk messages without a staff id share the
webhook entry `""` when `allow_from` is empty, so the answer to one may come out with another user; someone who
is not allowed keeps an animated placeholder for ever; QQ sends the answer to a group to a
user with the group's identifier; Telegram compares `id|name` with the allow-list, so a listed numeric
identifier (as in the example of the repository's README) does not match a user who has a name. Where
they are not findings they are exceptions named in the properties, or in the comments of the operators.

## Runs

| run | bounds | what it shows |
|---|---|---|
| `Cron` | 2 jobs, instants 0 to 3, 2 faults | `RecurringStaysArmed`, `AckedJobsSurvive`, `OneShotRunsOnce`, `RecurringRunsSpaced`, `UnreadListKept`, `DueJobsAreServed`, `FailedSavesHeal` |
| `CronReminders` | as `Cron`, instants 0 to 4, 1 fault, `at_seconds` at least 1 | counterexample to `RemindersStayArmed` |
| `Pipeline` | 2 chats and an unregistered one, queues of 1, 2 requests, 1 job, 2 subagents, 1 tool call per turn; job and calls name one of the two or the unregistered one | `OnlySpawnCycleBlocks`, `RepliesInOrder`, `ReportedOnce`, `RequestsAreAnswered` |
| `PipelineSubagents` | 1 chat, 2 subagents, 2 tool calls per turn | counterexample to `SubagentsReportBack` |
| `PipelineRouting` | 2 chats, 1 request, 1 job | counterexample to `ToolsKeepTheirChat` |
| `Session` | 7 messages, limits 3/2/2 for 20/4/10, 1 fault | `HistoryIsSuffix`, `ShortenedHasSummary`, `ContextHasSummary`, `SavedTurnsSurvive`, `SummarizerEnds` |
| `SessionTools`, `SessionContinuity` | the code's limits 20/4/10, 23 messages, no fault | counterexamples to `ResultsFollowTheirCall`, `SummaryCoversTheRest` |
| `Gene` | 2 goroutines, 1 seed gene, 2 signals, 3 experiences, 2 instants, 2 faults (failed reads among them) | `VerificationsBacked`, `EventsBacked`, `LearnedGenesKept` |
| `GeneCounts` | the same, no fault | counterexample to `SuccessesCounted` |
| `Gateway` | 6 configurations of up to 2 channels, 2 messages, a queue of 2, 2 devices | `RefusedOnlyWhenDown`, `StoppedConnectionsEnd`, `OneMessageAfterCancel`, `DeliversInOrder`, `ShutdownEnds`, `OutboxDrains` |
| `Chats` | each of 7 kinds, 2 messages of 9 shapes, 3 of them without author, DingTalk and Feishu open to all, 1 notice, 2 deliveries of a QQ message, a set of 1 identifier, queues of 1 | `PublishedOnce`, `RepliesGoBack`, `AnswersInTheirPlace`, `AnimationsEnd` |

Why the bounds are enough. Two jobs make a batch with something behind the job that runs; the
third and fourth instant let a period pass while a handler runs and after a restart; two faults
put a failed write before a crash. Queues of one message are full after one publication, so
every publisher gets to wait; two requests make an order; two subagents are needed for one to
announce while another is spawned, behind a third message in the queue. Seven messages with the
limits scaled down reach a history summarized in two parts, one whose early messages are
oversized, and turns that run across every step of the summarizer. Three experiences are one that
learns a gene and two that use it at once; two instants make names that are the same and names
that differ. The six configurations hold no channel, each of the seven channels, and pairs in
which a channel that blocks or refuses stands beside one that works; two messages are one in `Send`
and one behind it, two devices one in the table and one that accept has just returned. In a chat two
messages are one that waits and one that overtakes it, on two goroutines or in two conversations of
one user; a set of one identifier is full after one message; on DingTalk they are two unaddressed ones, in the
private conversations of two users, of which the later replaces the webhook of the earlier. Two faults
are also a file lost to a read and a crash or a failed write of the other one. The properties are about
pairs of events (a save and a crash, a read and a write), so more of each adds no new kind.

`CHECK_DEADLOCK` is off where the bounds let the system come to rest: all requests taken in
and answered, the conversation at its last message, all experiences made, all messages of a chat
written, or the gateway stopped.

### Fairness

- *Cron*: `CheckJobs`, `BeginJob`, `FinishJob` are weakly fair. The ticker fires every second
  and nothing but a stop ends the loop. That a handler returns is an *assumption*: the HTTP client
  has no timeout (`providers/http_provider.go`) and the outbound queue can be full.
- *Pipeline*: every goroutine that can take a step takes one. Again the answer of the provider
  is an assumption; that a full queue is emptied and a lock released is not assumed, and is what
  `OnlySpawnCycleBlocks` and `RequestsAreAnswered` are about. Nothing is assumed of users.
- *Gateway*: main and the dispatcher go on where they can, a `Start` returns, and a post of the
  reporter has a deadline of ten seconds. `ReporterStops` is strongly fair, because `select` chooses
  among what is ready at random. Nothing is assumed of a call of an SDK in `Send`, of a peer, a device
  or a publisher: `ShutdownEnds` and `OutboxDrains` name the calls that can stand in their way.
- *Chats*: handlers, `Send` and redrawing go on, calls of the platform and turns of the agent
  return (again an assumption), the end of an animation is strongly fair for the same reason as above.
- *Genes*: no liveness is stated, no fairness assumed.
- *Session*: only the summarizer is fair; its calls to the provider carry a deadline of 120
  seconds. Turns may stop anywhere.

### What the code does otherwise than it says

Six runs end in a counterexample to something a comment or a description of the code says;
`PROJECT.json` quotes each under `findings`:

1. `CronReminders`: a reminder re-enabled when due, or due while the gateway is down, never fires.
2. `PipelineSubagents`: `runTask` announces with the manager's lock held; with the inbound queue
   full and `Run` in `Spawn` the gateway stops for good.
3. `PipelineRouting`: the message tool's context is shared; a cron turn can redirect a message of
   another chat.
4. `SessionTools`: the cut at four messages can leave a tool result without its call.
5. `SessionContinuity`: a summarization in two parts that fails is stored as a blank summary and
   the history is cut; the same property falls to a turn that appends between read and cut.
6. `GeneCounts`: two turns that update one gene at the same time leave a success uncounted,
   because the lock is released between `GetGene` and `UpdateGene`.

## Proofs

`CronServiceProofs` proves, for every number of jobs, any clock bound, any number of faults, any
periods and cron expressions:

- `TypeCorrect`, `RecurringJobsStayArmed`, `StoredJobsSurvive`, `OneShotsRunOnce`,
  `RecurringRunsAreSpaced`: the safety properties the run `Cron` checks;
- `RecurringJobsComeInTime` and `RemindersAreArmedUntilDue`: nobody is armed too late. They are the
  other side of `RecurringRunsAreSpaced` and of finding 1 (`RemindersStayArmed`);
- `DueJobsAreKept`, `BatchesAreFinished`, `LoopIsNeverStuck`: the safety part of
  `DueJobsAreServed`, from the tick that finds a job due to the end of its run;
- `FilesKeepUp`: the safety part of `FailedSavesHeal`;
- `UnreadListsAreKept`: a list that could not be read is not written over until a job is added.

Assumptions, all named in `CronService`: the bounds are natural numbers, `Torn` is not a job list,
and `NextTickAssumption`: an expression is always or never accepted, and its next tick is later
than the clock and monotone in it. The last is what the code relies on gronx for.

None of the properties is inductive alone. `Inv` adds: `Generated`, that no identifier is in use
before it is generated and no handler started in the future; `OneShotInv`, that a one-shot which
was collected has its instant behind it, so that neither `executeJob`, `EnableJob` nor a restart
from an older file can arm it again, and that an armed one has not started yet; `SpacedInv`, that
a next run counts from a clock past the job's last start, unless its handler is running now. The
proof has one lemma for what each operation does to list and file (`BootEffect`, `AddEffect`,
...) and one per conjunct of `Inv` with a step for every action; `Invariance` puts them together
and the action properties follow from `Inv` at the only action that starts a job, `BeginJob`.
When a job is armed needs types only, but all of `computeNextRun`: `NextRunOrigin` says that a next
run is nil, was there before, or is what `computeNextRun` gives now, and `NextRunMonotone` that this
never gets earlier as the clock goes on. `CallsTouchOneJob` is the lemma behind `DueJobsAreKept`: a remove
or enable call leaves the other jobs as they are. That a batch has a first job is the
well-foundedness of the naturals (`WFMin`).

`GeneStoreProofs` proves, for any goroutines (finitely many), seeds, signals, presets and bounds:
`TypeCorrect`, `LearnedGenesAreKept`, `EventsAreBacked` and `VerificationsAreBacked`, the four
invariants the run `Gene` checks.
Assumptions, named in `GeneStore`: the preset is well formed, seeds have no verification, ids of
seeds are not instants, and a torn file is neither table nor list.

Types need `Consistent`, which says what holds at each place in `Solidify`. `StoredInv` adds to
events and learned genes what a goroutine will report next: past `AddCapsule` its capsule is
stored, past the save of a gene that gene. The counts need `CountInv`: a goroutine between
`AddCapsule` and `UpdateGene` *owes* its gene a verification, and a list of capsules *covers* the
store when it has a success for every verification a gene has and for every one owed, and also for
what the copies under way will write. Both the list in memory and the list in the file cover it
always; that a file of genes is covered by whatever file of capsules there is then follows.
A failed read of `genes.json` leaves the seeds, which count nothing, and so breaks none of it; one of
`capsules.json` ends it, and `CountInvariance` is `[]("capsules" \in misread \/ CountInv)`.
`GetGeneCovers`, `UpdateGeneCovers`, ... say so of each action.

`GatewayProofs` proves, for any configurations, devices (any number, finite or not), queue and
number of messages: `TypeCorrect`, `AtMostOneIsLate`, `NothingRefusedEarly`, `NobodyIsLeftBehind`,
and with `DispatcherDeliversInOrder` that `Gateway` implements `Delivery`. That is every safety
property the run `Gateway` checks. Assumptions, named in `Gateway`: the configurations enable known
channels, the bridge, the devices, the places of the acceptor and "no message" are told apart, the
bounds are natural numbers.

The types are proved in three parts (`TypeInv`), for process, queue and channels, since few
actions touch two; `WhoseStep` sorts the actions by the part they belong to. The queue's part counts:
what was taken and what waits are no more than the bound. Then, each on top of the types:

- `LateInv`: once a message was taken late the dispatcher is not in the select, and to get back there
  it would have to pass the test of the context;
- `StartInv`: until `StartAll` releases its lock nothing is in `Send` and nothing is settled; after
  it no channel's `Start` is outstanding, and until the context is done (`Ready`) a channel whose start
  succeeded says that it runs and, if it is WhatsApp, has its connection. A refusal that is explained
  stays so, because a start that failed or a session that ended is never undone;
- `OpenInv`: an open connection is in its channel's table or in the hands of the acceptor
  (`Registered`), and one that its channel's `Stop` has passed by is about to end;
- the refinement needs that `InHand` and the queue join without a gap (`PendingType`): taking
  a message moves it from the queue to the hand, settling drops the head.

The safety parts of `ShutdownEnds` and `OutboxDrains` come from one more invariant,
`SendHoldsItsTable`: a `Send` that writes has connections left, all still in its channel's table
(`SendsHoldTheirTable`, `TablesAreStill`, `SendsComeToAnEnd`). So whoever meets a channel's lock meets a
write that can be made or one whose peer does not read:

- `ShutdownIsNotHeldUp` and `ShutdownComesNearer`: after an interrupt main waits for nothing else,
  and each of its steps takes something out of `ToStop`, the set of what is left to stop, to which
  nobody adds. That set is the variant of the liveness argument;
- `DispatcherIsNotHeldUp`: until an interrupt the dispatcher of a gateway with channels is there
  (`DispatcherStays`) and with a message queued waits only for `StartAll`, an SDK call or a peer.

"Can go on" is written out (`MainIsFree`, `WriteIsFree`, `DispatcherIsFree`), as TLAPS does not reason about
ENABLED; that each agrees with ENABLED wherever its theorem uses it (`MainIsFree` after an interrupt,
`WriteIsFree` in a write before the end, `DispatcherIsFree` before an interrupt) was checked with TLC in every such
state of the instance `Gateway`.

`SessionMemoryProofs` proves, for any limits of the summarizer, any sizes and number of messages and
any number of faults: `TypeCorrect`, `HistoriesAreSuffixes`, `ShortenedHistoriesHaveSummaries`,
`ContextsHaveSummaries`, `SavedAnswersSurvive`: every invariant the run `Session` checks.
Assumptions, named in `SessionMemory`: limits and bounds are natural numbers, a truncation keeps at
least one message (the code keeps four), there is a size a message can have, and a torn file is not
what a missing one reads like. Types and suffixes are proved together (`TypeInv`), since a position
appended to a history is in range because the history ends with the conversation, and a turn that
has begun has room for what it will append. `HistInv` adds that the file is an end of some earlier
state of the conversation (`EndsAt`), which is what a restart needs. On top of it, `SummaryInv`:
from `SetSummary` to the save the session has a summary, and a turn that read a shortened history and
has yet to read the summary will find one. `SavedInv` is inductive with `saved <= Len(log)`.
`RecentMessagesStay` is what does hold of "continuity" (finding 5 is what does not): the
last messages, as many as a truncation keeps, are in every history. Inductive is `KeptInv`: a history that
lost its beginning has that many messages, and what a turn has read ends where the conversation does,
since nobody adds to it meanwhile; a history without a gap of that length has the recent messages.

`MessagePipelineProofs` proves, for any chats, queues, numbers of requests, jobs, subagents and tool
calls, whatever chats are registered: `TypeCorrect`; `AnswersInOrder`, that the pipeline implements `RequestReply`;
`ReportsAtMostOnce`; `RequestsAreNotForgotten`; `GoroutinesGoOn`; and `SpawnCycleLasts`. Assumptions, named in
`MessagePipeline`: queues have room
for a message, `System` and "no chat" are no chats, the bounds are natural numbers.

- `TypeInv` says what a goroutine has left to publish at each place (`Outcomes`): the kind of the
  message it works on decides it. `KindInv`: `Run` has no cron job's message, and the cron loop
  nothing else.
- The refinement needs `ReplyInv`: the requests not answered yet are the replies in the outbound
  queue, then the message of `Run`'s turn, then those in the inbound queue, in this order, each with
  its chat, and none is missing (`Unanswered`, `InOrder`, `NoneLost`). The reply the dispatcher
  takes is therefore that to the next request, `requests[Len(answers) + 1]`. It also gives
  `RequestsAreNotForgotten`, the safety part of `RequestsAreAnswered`.
- `ReportInv`: a subagent that is done is in one place at most: announced, in `Run`'s turn, in a report
  on its way, or reported. The copy that `Run` publishes as well goes to `System`.
- `GoroutinesGoOn` is `OnlySpawnCycleBlocks` with the guards of `Internal` written out (`CanGoOn`),
  since TLAPS does not reason about ENABLED. That `CanGoOn` and `ENABLED Internal` agree was checked
  with TLC in every state of the instance `Pipeline`. Whoever holds the lock is announcing; if it
  cannot go on the inbound queue is full, so `Run` is not idle, and as it cannot go on either, it is in
  `Spawn` at the lock: the spawn cycle.
- `SpawnCycleLasts` is finding 2 for every configuration: in the cycle only the cron loop and the
  dispatcher take steps (`OnlyCronAndDispatcherGoOn`), and neither the one's jobs nor the other's
  deliveries free the lock, make room in the inbound queue or answer a user.

`ChatChannelsProofs` proves, for any of the seven channels, any users, groups, allow-list, events,
bounds and limits: `TypeCorrect`, `MessagesPublishedOnce`, `AnswersGoHome`, `AnswersTakeTheirPlace`:
every invariant the run `Chats` checks; and `AnsweredMessagesAreReleased`, the safety part of
`AnimationsEnd`. Assumptions, named in `Adapters` and `ChatChannels`: names of
users, groups and the device differ, an event in a private conversation names its user or nobody, the limit of QQ's
set is at least 1 and at most that many identifiers are evicted at once, queues have room for a
message. Five layers, each on top of those before:

- `TypeInv`: types, with the places that a handler of each channel can be at (`PlacesOf`);
- `PathInv`: a handler that is past the filter has its message to itself, unless the identifier was
  evicted; QQ's set has its identifier (or had it, and evicted it), and the other platforms do not
  deliver it again (`Known`). So what is about to be published has not been published;
- `HomeInv`: everything on its way back is about a published message and bears the address of that
  message's conversation; a webhook leads to the chat it is stored under, and is stored before
  the publication, so a later message of the chat replaces it by one that leads to the same place, or, if
  the chat is that of the unaddressed messages, to the conversation of another of these;
- `PlaceInv`: on Telegram a message is in one place between publication and answer (`InOnePlace`);
  of two messages of a chat that are under way both are in `crowded`, because the later one found the
  earlier one waiting; a kept placeholder is that of a message under way. What `Send` finds under
  its chat is then its own placeholder, or the chat is crowded, or it is that of somebody who
  is not allowed (`LoadFindsOwn`);
- `StopInv`: until a message of Telegram is released (its stop channel closed, or the message in
  `crowded` or `midStop`) the entry of its chat is its own, and a `Send` about to delete an entry has
  closed it or is deleting that of a message in `midStop`. So the `Send` of an answer closes the
  right stop channel. The history variable `midStop` came from here: without it the invariant is false,
  and so is `AnimationsEnd` for three messages.

TLC checked each of these inductive invariants, as invariants, on the instance of the run before they
were proved.

Every safety property that a passing run checks is proved, except `OnlySpawnCycleBlocks` as it stands,
whose ENABLED TLAPS has no rules for. Model-checked only: that one; liveness in all modules, which is
beyond TLAPS here; and the counterexamples of the six violation runs. Of the liveness properties
`DueJobsAreServed`, `FailedSavesHeal`, `RequestsAreAnswered`, `ShutdownEnds`, `OutboxDrains` and
`AnimationsEnd` the safety part is proved, as above: what is owed is not lost, and who owes it is not
stuck or can say for whom it waits. What remains to TLC is that fair goroutines then do it. Of
`SummarizerEnds` nothing is left but that.

## Not modelled

Message formatting, prompts, configuration, logging, the command line, HTTP and SDK calls: I/O
without a protocol of its own. Of the channels: downloads and transcription, the conversion to
Telegram's HTML, the reconnections inside the SDKs. The edge server, which keeps no state and is never
stopped; the reporter's `PublishGene` and `ReportEvent` and the heartbeat's loop, which nothing
reaches. The memory files, which the program only reads: `AppendToday` and `WriteLongTerm` have no caller. The
cron and gene subcommands as second processes, and skills: see the plan.

## Plan

1. `CronService` with runs and proofs; `MessagePipeline` refining `RequestReply`; `SessionMemory`
   (done).
2. `GeneStore`: capsules, genes and events under concurrent turns, failed writes and crashes:
   references between the three files, no verification without a capsule, learned genes kept
   (done, with proofs).
3. `Gateway` refining `Delivery`, with proofs; `ChatChannels` with `Adapters`: the Telegram placeholder
   protocol, the duplicate filter of QQ, the webhooks of DingTalk (done).
4. Open: `CronFile`, the gateway's service and a `cron` subcommand over one file; the precedence of
   skill directories.
5. Proofs of `SessionMemory`, of `MessagePipeline` with its refinement of `RequestReply`, and of
   `ChatChannels`; the safety parts of the liveness properties (done).
