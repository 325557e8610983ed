# A verification model of the Accelance AI platform

The platform (a TypeScript monorepo under `src/packages`) lets users draw AI
flows, stores them, runs them on request or on a schedule, and records what
happened. This directory models the parts with the most state and the most
interleavings in TLA+:

* the **agentflow engine** with its execution records,
* the **scheduler** that runs agentflows,
* the **indexing** of documents into a vector store with a record manager,
* the **document store** that feeds it,
* the **relay of events** from workers to browsers and webhook panels.

TLC checks the models on small instances; TLAPS proves their safety properties,
some under hypotheses that section 5 names, for all parameters.

`S` below stands for `src/packages/server/src`, `C` for `src/packages/components`.

## 1. The system

### Components

| Component | State it keeps | Operations | What makes it correct |
|---|---|---|---|
| Agentflow engine, `S/utils/buildAgentflow.ts` | per request: node queue, waiting nodes, loop counts, executed data, pending human answer; per session: rows of `Execution` | start, resume, one turn of the loop, abort, final save | joins fire once per set of inputs; a branch not taken does not run; a human node waits for its own answer; the record tells how the run ended; every request ends |
| Executions service, `S/services/executions` | `Execution` rows, a list cache | list, update, delete | a client sees a lifecycle that never goes backwards; the list is not stale |
| Scheduler, `S/schedule`, `S/queue/ScheduleQueue.ts`, `S/services/schedule`, `S/services/chatflows` | `ScheduleRecord`, trigger logs, node-cron tasks or BullMQ job schedulers | save, update, delete, toggle; fire; start-up sync | one record per flow, saying what the flow says; a job exactly for the records that are on; a schedule that is on keeps running; a log is settled |
| Cron utilities, `S/services/schedule/utils.ts` | none | validate, next time, visual picker | agree with the library that fires the jobs |
| Predictions and abort, `S/utils/buildChatflow.ts`, `S/AbortControllerPool.ts` | pool of abort controllers keyed by flow and chat | run, abort | an abort reaches the run it is meant for |
| Queues and workers, `S/queue` | BullMQ jobs in Redis | add, process, abort event | a job is processed and its result returned |
| Event streaming, `S/utils/SSEStreamer.ts`, `S/queue/RedisEvent*.ts` | open client responses, observers, subscribed channels of each replica | publish, subscribe, relay, unsubscribe, clean up, end | events in order and without a gap; a replica knows what it is subscribed to; no subscription is left behind |
| Webhook listeners, `S/services/webhook-listener`, `S/controllers/webhook*` | registry of panels in Redis, bindings to executions | register, heartbeat, bind, unregister, expire | a panel gets the events of the flow it watches; one that was heard to leave does not linger as an observer |
| Quota and usage cache, `S/utils/quotaUsage.ts`, `S/UsageCacheManager.ts` | counters in a shared cache | check, count | the limit is not exceeded, no count is lost |
| Rate limiter, `S/utils/rateLimit.ts` | limiters per flow, on each replica | set, remove, broadcast | replicas agree |
| Vector indexing, `C/src/indexing.ts`, `C/nodes/recordmanager` | vector store, table of the record manager | index, clean up, delete | the table knows every chunk stored; a clean-up removes what is obsolete and nothing else; a failed call can be repeated |
| Document store, `S/services/documentstore`, `S/queue/UpsertQueue.ts` | the store's row with its loaders, chunk rows | process, upsert, refresh, delete, edit | chunks belong to listed loaders; a synced loader is whole; an upsert covers what it is asked to |
| Guardrails, evaluations, MCP, identity, API keys, credentials, variables, export, audit log | database rows | create, read, update, delete | permissions and referential rules |
| Node implementations, `src/packages/components/nodes` | none of their own | `run` | outside of the engine's promises |
| User interfaces, `src/packages/ui`, `agentflow`, `observe` | React state | poll, edit | outside of the models |

### How they interact

A client's prediction request reaches the engine directly or, in queue mode,
through a BullMQ job taken by a worker. The engine takes nodes from its queue,
calls their `run`, delivers the results along the edges, streams events and
saves its `Execution` row. A flow may stop at a human node; a later request
resumes the row. The abort endpoint signals the run through the controller
pool, or through a queue event when a worker runs it. Saving an agentflow whose
Start node is a schedule writes the `ScheduleRecord` and then tells
`ScheduleBeat`, which registers or removes the job. A job that fires
reads the record, decides, opens a trigger log, and calls the engine.

Processing, upserting and refreshing a document store run in the server or in a
worker; they end in a call of `index()`, which writes the vector store of the
vector store node and the table of the record manager node. In queue mode the
worker that runs a flow publishes its events to Redis on the channel of the
chat. The replica that holds the client's response subscribes to that channel;
a webhook call looks up which panels watch the flow, and has each replica that
holds one of them subscribe too.

### What is hard

* **Partial failure and resumption.** A run can fail, stop, be aborted, run
  into a limit, or die at any turn; the row must then be in a state from which
  it can, or can no longer, go on.
* **Stale reads.** Nearly every database update is read, await, save of the
  whole entity: a write in between is lost, and a deleted row is inserted again
  (TypeORM's `save`).
* **Ordering.** The table and the jobs are changed in two steps by several
  requests; the job fires at any time between them.
* **Two stores.** The vectors and the table of records, the chunks and the row
  of their store, the set of subscribed channels and Redis itself are written
  one after the other; a failure or another request falls in between.
* **Graphs.** Joins of unconditional and of alternative inputs, loops back into
  a flow, branches that meet again.
* **Liveness.** Requests end although flows loop; schedules go on running.

`PROJECT.json` lists each hazard at its line, with the properties that cover it
or the reason none does yet.

## 2. The modules

| Module | Models |
|---|---|
| `SequenceKeep` | `Array.filter`, as a fold |
| `FlowGraph` | pure graph functions of the engine: edges, start nodes, the condition above a node, expected inputs and conditional groups, the inputs a join needs, the nodes a decision ignores |
| `AgentflowEngine` | `executeAgentFlow` for one chat session of one flow, and the engine's properties |
| `AgentflowAudit` | the engine with history variables that count runs, answers and passes |
| `ExecutionLifecycle` | the abstract specification: what the `Execution` table promises to a client that polls it |
| `Scheduler` | schedule records, jobs, the requests that change them and the fired jobs |
| `VectorIndexing` | `index()` and the deletion of vectors, cut at every await |
| `IndexContract` | the abstract specification of the former: what a whole call does to the two stores, completed or cut short |
| `IndexingAudit` | the indexing watched from outside: it is shown to implement `IndexContract` |
| `DocumentStore` | the requests of a document store; its calls of `index()` are the steps of `IndexContract` |
| `EventRelay` | queue mode's streaming: replicas, their subscriptions, panels, webhooks and predictions |
| `EventRelayAudit` | the relay with a history of where somebody began to listen behind the clean-up's back |
| `MCFlows`, `MCEngine`, `MCAudit`, `MCScheduler`, `MCIndexing`, `MCDocumentStore`, `MCRelay` | instances for TLC |
| `*Proofs` | theorems and proofs, section 5 |

Operators whose names begin with `Mut` are deliberately wrong variants of the
operator after them: a plausible bug each, used to confirm that a property
notices it. Nothing else refers to them.

### AgentflowEngine

| Variable | Code |
|---|---|
| `flow` | the chatflow's `flowData`: nodes with a kind, edges with the output they leave from |
| `execs`, `resumes` | the `Execution` rows of the session, newest last; how often the newest was resumed (a bound) |
| `status` | `status` of the request, `"NONE"` between requests |
| `queue`, `waiting`, `loopCounts`, `iterations` | `nodeExecutionQueue`, `waitingNodes`, `loopCounts`, `iterations` |
| `data` | `agentFlowExecutedData`: node and status of each entry |
| `humanInput` | `currentHumanInput` |
| `aborted` | `abortController.signal.aborted` |

| Action | Code |
|---|---|
| `StartExecution` | a request without human input: row, start node |
| `ResumeExecution` | finding the newest row, `STOPPED` or `ERROR` right after a stop; dropping the trailing error; finding the node; reopening the row |
| `ExceedBudget` | both limits, thrown outside of the `try` block |
| `Terminate`, `Fail` | the catch block: entry, row, rethrow |
| `Pause` | a human node without an answer, or an agent whose tool wants approval |
| `Complete` | a node that ran: entries (those of an iteration's sub-runs too), `processNodeOutputs`, loops |
| `Finish` | the status recomputed from all entries, the last save |
| `Abort`, `Crash` | the abort endpoint; the death of the process |

One action is one turn of the main loop. That is the right grain because all
its state but the abort signal is local to the request, and the signal is only
looked at between turns. What a node answers is free: a condition fulfils one
output or none, an agent completes or asks for approval, an iteration collects
zero to `MaxItems` results, anything may throw.

A flow is a record `[nodes, kind, edges, outs, loopTo, maxLoop, parent]`;
`IsFlow` states what a saved flow satisfies, and every theorem holds for every
set of such flows.

### Scheduler

| Variable | Code |
|---|---|
| `now` | time in ticks; a cron expression is the set of the ticks it matches |
| `live` | the stored flow: what its Start node says, or `NoFlow` |
| `recs` | `ScheduleRecord` rows by id (the number of the request that inserts) |
| `jobs`, `due` | node-cron tasks or BullMQ job schedulers; those that fired and were not handled yet |
| `req` | the API request of each client: where it is, what it read |
| `fire` | the handler of each fired job: where it is, the row it read, when |
| `openLogs` | trigger logs with status `RUNNING` |
| `requests`, `restarts` | counters for the bounds |

Requests and handlers are cut at every await that reads or writes the table or
the jobs. So `updateChatflow` is `Update` (the controller reads the flow),
`SaveFlow`, `FindSchedule`, `StoreSchedule`, then `ReadRecord` and `Register`,
or `Remove`; `deleteChatflow` is `Delete`, `FindObsolete`, `DeleteSchedule`,
`Remove`; toggling is `Toggle`, `CheckStatus`, `StoreToggle` and the beat. A
job is `ReadFired`, then `SkipGone`, `Expire` and `RemoveExpired`, `SkipEarly`,
or `StartRun`, `LookUpFlow`, `Succeed`; `FailRun` is the catch block.
`Interrupt` is a request whose next database call fails; `Restart` is the
process starting again, with the jobs and handlers of node-cron gone
(`QueueMode = FALSE`) or kept in Redis and the workers (`TRUE`).

Abstractions: validating a cron expression answers a member of `Crons` or
`NoCron`; `computeNextRunAt` is the least matching tick after now; the default
input is valid or not (the text mode, the only one the executor checks). The
last tick comes round again and again, so that "again and again" means
something in a bounded model. A fired job has read its row before the next
tick. `updateScheduleAfterRun` writes in the same step as the settling of the
log: nothing distinguishes the two for the properties but a stop in between,
which leaves the old next time, already past. Either update may fail and is then
swallowed (`SettleLog`): the log stays `RUNNING`, or the next time stays as it was. node-cron and BullMQ are modelled
from how the code uses them.

### ExecutionLifecycle

Executions are created in progress one after the other; only the newest
changes; one that is stopped or failed may go on, one that is finished or
terminated never changes. `AgentflowEngine!LifecycleSpec` instantiates it with
`states <- [i \in DOMAIN execs |-> execs[i].state]`.

### VectorIndexing, IndexContract, IndexingAudit

| Variable | Code |
|---|---|
| `store` | the chunks that have a vector |
| `rows`, `time` | the record manager's table: a row's `updated_at`, and whether its `group_id` is null; the database clock it takes the time from |
| `call` | each call in progress: the await it is at, `indexStartDt`, the batch, `docsToUpdate`, `uidsToDelete` |
| `awaits`, `pending` | whether the vector store's `delete` waits for the deletion; deletions sent and not waited for |
| `calls`, `failures` | counters for the bounds |

| Action | Code |
|---|---|
| `Begin`, `NextBatch` | the time, the documents cut into batches, without doubles |
| `Exists`, `Touch`, `AddDocuments`, `Record` | `recordManager.exists`, the first `update` (no group ids), `addDocuments`, the second `update` |
| `ListKeys`, `DeleteVectors`, `DeleteKeys` | a clean-up: incremental after each batch, full in rounds after the last, or the deletion that a vector store node makes for a `docId` |
| `Return`, `Fail` | the result; an await that throws or a process that dies, with some rows of an update, or some vectors of a batch (`TypeORM.ts` saves them in parts), written |
| `LandDelete`, `LoseDelete` | a deletion of the Postgres driver (`TypeORM.ts:112`), carried out or failed later |

A chunk stands for the hash of content and metadata, by which the code tells
documents apart. The clock is the database's; its unit is the second, and a
tick is a second that matters.

`IndexContract` states what a whole call promises in terms of what was *known*
when it began: a chunk that is known is not embedded again, a vector is removed
only when its chunk is known, so a disagreement of the two stores is carried on,
never noticed. A call cut short may leave a vector without a row or remove a
vector whose row stays, never the other way round: that order is what makes
repeating it safe. `IndexingAudit` remembers the two stores as they were when no
call was in progress, and `KeepsContract` refines `IndexContract` under that
mapping, so that the many steps of a call become one.

### DocumentStore

| Variable | Code |
|---|---|
| `store` | the `DocumentStore` row: its status and the status of each loader |
| `chunks` | the `DocumentStoreFileChunk` rows of each loader |
| `late` | saves of chunks that are still under way although their request has failed |
| `vectors`, `known` | the vector store and the record manager, as `IndexContract` has them |
| `req` | the request of each client: where it is, the row it read, the loaders still to refresh |
| `mode` | the record manager's clean-up mode |
| `given` | history: the chunks of the last split and the edits since |
| `strays` | history: the chunks that late saves gave a loader since it was last cleared |

Actions are the stretches between awaits: `Process`, `FindForProcessing`,
`Announce`, `Reread`, `Split`, `ClearChunks`, `SaveChunk`, `InsertChunks`, `Synced`
(`saveProcessingLoader`, `processLoader`); `Upsert`, `FindForConfig`,
`Configure`, `MarkUpserting`, `FindForUpsert`, `Collect`, `CallIndex`, `Finish`
(`insertIntoVectorStore`); `Refresh`, `UpsertLoader`, `NextLoader` (the refresh
and the upsert API, which run the two above); `DeleteLoader`, `DeleteStore`,
`DropChunks`, `Unlist`; `EditChunk`, `SaveEdited`; `DeleteVectors`; and `Fail`.
The chunks of a loader are saved by saves of their own, all started at once
(`Promise.all`). They land one by one (`SaveChunk`). When one is refused the request
ends, and the others go on: they stay in `late` and land (`LandLate`) or are
refused too (`LoseLate`) whenever they like, whatever is requested meanwhile.
Chunks of equal content are one chunk here, so a late save of a chunk that is there
already adds nothing; in the table it would add a row.
Rows are saved whole: a request writes back what it read. `CallIndex` is the
step `Indexes` of `IndexContract`, or in a failure `IndexesInPart`: the module
relies on what `KeepsContract` checks.

### EventRelay

| Variable | Code |
|---|---|
| `clients`, `observers` | `SSEStreamer.clients` and the observers of each chat, on each replica |
| `subscribed`, `handlers`, `channels` | `subscribedChannels` of the subscriber, the message handlers its Redis client holds, the channels Redis has for it |
| `inbox` | the subscriber's connection: replies and messages, in order |
| `registry`, `binds` | the hash of panels in Redis; bind messages between replicas |
| `panel`, `request`, `emitted` | webhook panels, requests with the panels they still have to bind, events published so far |
| `heard` | history: what was written to each response |

| Action | Code |
|---|---|
| `Subscribe`, `Unsubscribe` (parts of others), `TakeSubscribed`, `TakeUnsubscribed`, `TakeEvent` | the command, and what happens when its reply, or a message, comes |
| `Sweep` | the clean-up that runs every minute |
| `Open`, `Heartbeat`, `Vanish`, `Unregister`, `Close`, `Leave` | a panel: it connects, its entry is written and rewritten, it disconnects and then the entry goes; or it closes before anybody listens for that, and stays as a ghost whose entry is still rewritten |
| `Begin`, `SubscribeStream`, `ListPanels`, `BindHere`, `BindElsewhere`, `TakeBind`, `Run` | a streaming prediction or a webhook until its job is queued |
| `Emit`, `Finish`, `CloseStream` | the worker's events; the result of the job, and the clean-up after it |

Redis and its client are external and modelled from how the code uses them: a
command takes effect when it is sent, its reply comes back in order with the
messages, and a handler is registered when the reply is taken.

`EventRelayAudit` adds `lapsed`, the chats on a replica where somebody began to listen
while the clean-up's unsubscription was on its way (`Lapses`), and states
`HeardWithoutGap`, which excepts them.

## 3. What is checked

Every run is listed in `PROJECT.json`. Passing runs:

| Run | Instance | Shows |
|---|---|---|
| `core` | 9 flows, 2 executions, 2 resumptions each, aborts, crashes, both step limits at 12; about 90 000 states | `TypeOK`; `StateMatchesData`: the saved state tells how the saved entries ended; `HumanGate`: a human node passes only on an answer of its own; `FreshInputs`: a node runs no more often than its inputs arrived; `NoStarvedJoin`: no join is left with part of its inputs; `LoopBodyBounded`, `StepBudget`: loops and requests keep to their limits; `FailedAnswerCanBeRetried`: a failure after an answer leaves an execution that can be resumed; `SomeBranchExecutes`, `OneBranchOnly`; `LifecycleSpec` |
| `settled` | 5 flows, 2 executions, crashes, fair | `RequestEnds`; `RequestSettles`: only the death of the process leaves a row `INPROGRESS` |
| `alone` | 1 client, 4 requests, 7 ways to save, 3 ticks, a restart, fair; about 673 000 states | `OneRecord`, `RecordOfFlow`, `NoRecordWithoutFlow`: the record follows the flow; `NoOrphanJob`: a job belongs to a record that is on and fires when that says; `EnabledKeepsRunning`: a schedule that stays on is run again and again |
| `together` | 2 clients, 3 requests that may be cut short, expiry, 2 ticks, fair; about 449 000 states | `TypeOK`; `OrphanHeals`: a job without an enabled record does not stay |
| `indexing` | 3 chunks of 2 sources, all clean-up modes, both kinds of driver, 3 calls of which 2 may fail, 2 ticks, fair; about 573 000 states | `TypeOK`; `RecordedIsStored`: the table lists what has a vector; `FullIsExact`: a full clean-up leaves what it was given; `OwnWorkStays`: a call never cleans up what it has indexed; `RetryHeals`: repeating a failed call repairs it; `KeepsContract`: a call is one step of `IndexContract`; `CallEnds` |
| `docstore` | 2 loaders, 4 requests of which one may fail at any await and leave saves under way, all clean-up modes, fair; about 515 000 states | `TypeOK`; `NoOrphanChunks`: chunks belong to a listed loader, but for saves that landed after their request had failed; `SyncedIsWhole`: a `SYNC` loader has its last split, and nothing else but for such saves; `UpsertCoversStore`: an upsert covers the store; `RefreshCoversStore`: a refresh covers each loader that the clean-up leaves alone while it refreshes the others (no clean-up, or incremental and a source of its own); `UpsertingEnds` |
| `relay` | 2 replicas, a panel, a streaming webhook and a second webhook of its chat or a prediction, 3 and 1 events, fair; about 310 000 states | `TypeOK`; `HeardWithoutGap`: events come in order and none is left out, but for chats that lapsed; `PredictionsAreHeard`: the replica of a prediction is subscribed while it runs; `KnowsItsChannels`: set, handlers and Redis agree; `ObserversArePresent`: a panel that was heard to close observes nothing once the requests of its chat there are over; `SubscriptionsDrain`: when all is over no subscription is left but those a ghost panel holds |

The other runs each find one disagreement between the code and what its own
comments or documents say, quoted in `PROJECT.json`:

| Run | The code |
|---|---|
| `routes` | drops the other routes of a flow when one stops for a human |
| `midnight` | runs a flow on the fallback expression, daily at midnight |
| `refreshed` | refreshes a store loader by loader, so that under full clean-up only the last loader's vectors remain |
| `doubled` | subscribes a replica twice when two bind messages arrive together, and writes every event twice |
| `orphaned` | lets the saves of chunks of a failed request go on, which land after the loader was deleted |

### Limitations of the code the models reproduce

These came up while modelling. The models do what the code does here, so no
property claims otherwise, and a change of the code would show as a change of a
definition:

* `iterations++ > maxIterations` (`buildAgentflow.ts:2073`) runs one node more
  than `MAX_ITERATIONS`; `StepBudget` states the bound that holds.
* Of the nodes on an output not taken only the first is ignored
  (`buildAgentflow.ts:838`); `OneBranchOnly` is about flows with one node on
  each output.
* The walk to the condition above a node follows the first incoming edge only
  (`buildAgentflow.ts:746`), so a join may wait for a branch not taken when that
  edge comes from elsewhere.
* A resumption removes every entry of the resumed node, those of earlier loops
  too (`buildAgentflow.ts:1210`).
* A resumption at an agent drawn inside an iteration runs nothing: the start
  node is dropped (`buildAgentflow.ts:1522-1530`), and the execution is stopped
  again.
* Both step limits throw outside of the `try` block
  (`buildAgentflow.ts:2073-2078`): the row then stays `INPROGRESS`.
* Two outputs of a decision that lead to one node run no branch; loop counts
  start again at zero at a resumption.
* Two requests, or a request and a job that fires, can reach the beat in
  another order than the table (`ScheduleBeat.ts:69-86`). An orphaned job heals
  (`OrphanHeals`); an enabled record without a job does not until the schedule
  is saved or toggled again or the server restarts.
* A run that ends after the schedule was changed sets `nextRunAt` by the old
  expression (`ScheduleExecutor.ts:228`).
* A flow deleted between the save of the flow and that of its schedule leaves
  an enabled record without a flow (`services/chatflows/index.ts:547-576`).
* Two saves of a flow at once insert two records
  (`services/schedule/index.ts:81-131`), and an expiring job overwrites a
  schedule prolonged meanwhile with the record it read
  (`ScheduleBeat.ts:241`).
* The Postgres driver deletes vectors without waiting or catching
  (`TypeORM.ts:112`): the table then disagrees with the vectors for a while,
  for ever after a failed deletion, and a late deletion may remove a vector
  added since. `RecordedIsStored` is stated for drivers that wait.
* Of two requests on one document store the later save undoes the other: with
  two clients `NoOrphanChunks` and `SyncedIsWhole` do not hold.
* An upsert that fails leaves the store `UPSERTING` until the next one.
* The first chunk that cannot be saved ends the processing of a loader while the saves of the
  other chunks are under way (`services/documentstore/index.ts:1060-1080`). They may
  land after the loader was deleted (run `orphaned`), or was split again and is
  `SYNC`: it then has chunks of the earlier split. `NoOrphanChunks` and
  `SyncedIsWhole` except these strays, and nothing else.
* A refresh under incremental clean-up keeps the vectors of a loader only when no
  other one shares its `sourceIdKey`. That key is the source unless another is
  given (`PostgresRecordManager.ts:147`), and uploaded files all have the source `blob`
  (`documentloaders/Json/Json.ts:280`): with two loaders of uploaded files only the one refreshed last
  keeps its vectors, as under full clean-up (`RefreshCoversAll`, run `refreshed`).
  `RefreshCoversStore` is about the other loaders.
* A failed update of a trigger log is swallowed (`services/schedule/index.ts:341-345`),
  and a process that dies during a run leaves the log `RUNNING` as well; nothing
  settles either later, although `ScheduleExecutor.ts:66` says that a run updates its
  log. So no property says that a log is settled.
* In queue mode a webhook in response mode `stream` opens a response but does
  not subscribe to its chat (`controllers/webhook/index.ts:88`): it hears the
  events only when a panel of the same replica is bound to it, although the comment
  at line 75 promises it the events of the nodes.
  `PredictionsAreHeard` is about predictions, which do subscribe.
* The result of a job may overtake the last events of its run, since it comes
  by another connection; they are then dropped. `HeardWithoutGap` allows for
  an end that comes early, not for a gap.
* The end of a run reaches observers on the replica that served the webhook;
  panels on other replicas are only let go when the clean-up or their own end
  comes.
* Of two predictions of one chat on one replica the first to end unsubscribes
  the channel and ends the other's response (`controllers/predictions/index.ts`);
  the instance gives a stream a chat of its own.
* A bind message that arrives after the run began misses the events until then.
* A bind message, or a request, that comes while the clean-up's unsubscription is on
  its way finds the channel in `subscribedChannels` and does not subscribe. The
  panel still hears what Redis sent before; the unsubscription takes the rest, until
  another bind message of the chat subscribes again (`RedisEventSubscriber.ts:76`). So
  `HeardWithoutGap` excepts the chats that lapsed on a replica.
* A panel that closes during its first heartbeat is not heard to close
  (`controllers/webhook-listener/index.ts:63-86`). Its client stays, the
  interval writes its entry every 30 seconds for as long as the process lives, and
  each webhook binds it again: it stays an observer and keeps the channel subscribed.
  `ObserversArePresent` and `SubscriptionsDrain` are about panels that were heard to close.
* Publishers drop events while Redis is not ready (`RedisEventPublisher.ts`).

Not modelled, but of the same kind: the list of executions is cached and not
invalidated by the engine's own updates (`services/executions/index.ts:16`);
the start-up sync pages over a set that may change (`ScheduleBeat.ts:150`); the
limiters of replicas are replaced without regard to order
(`rateLimit.ts:161`); two calls of `index()` in one namespace see each other's
rows (`AloneTellsVectors` is about one at a time, `OwnWorkAlwaysStays` holds for
any number).

### Bounds, and why they are enough

* **Flows** (`MCFlows`). Each is the smallest that has its feature: approvals in
  a row, a diamond, branches that meet, a join of unconditional and conditional
  inputs, a loop, a loop through a human node, an iteration, an agent that asks
  for approval. Some properties need a *well-formed* flow: no two outputs of a
  decision lead to the same node, one node on each output, a join's first edge
  leads to its condition.
* **`MaxExecs` 2, `MaxResumes` 2**: an execution that hides an earlier one; a
  resumption of a resumption, which is where stale answers and entries show.
* **`MaxIterations`, `MaxSteps`**: 12 in `core`, which the flow `Busy` alone
  outlasts, so that requests end at a limit without cutting the other flows
  short; out of reach in `settled`.
* **`MaxRequests` 4** for one client: create, change, toggle, change again; 3
  for two clients: create, and two requests that race.
* **`MaxTime` 2 or 3**: a tick to be early at, one to be on time at, one that
  recurs. A long and a short cron expression and an end date between the ticks
  distinguish every outcome of the executor.
* **`Handlers`**: one; jobs that fire again meanwhile wait in `due`.
* **`QueueMode`** makes a difference to `Restart` only, which `alone` takes without a
  queue. The theorems about the scheduler are for both modes; of the liveness
  properties none is checked across a restart with a queue.
* **Indexing**: three chunks of two sources are a source that loses a chunk and
  one that goes; the loads have a chunk twice, one that moves to another batch
  and none at all. Batches of two and clean-up rounds of one make each call that
  matters take several. Two ticks tell apart the rows of the second in which a
  call began and older ones. Three calls are one that fails, its repetition that
  fails, and the one that must repair both.
* **Document store**: four requests are two loaders processed, an upsert or an
  edit, and a refresh; or a split that fails, a deletion, and what lands then. One
  loader's documents change, the other's do not. One failure at any await. The
  loaders have a source each; what happens when they share one is a limitation above.
* **Relay**: one panel that binds here or elsewhere, leaves and is swept, and a
  second request that finds what the first left; two panels on one replica in
  `doubled`. Three events are the least in which a gap has two sides.
* No run uses symmetry.

Deadlock is not checked: a session with no request left to make, and a
scheduler whose bounds are used up, rightly stop.

### Fairness

* Engine: `WF_vars(Step)`. A request is an async function on Node's event loop;
  every await of a node's `run` is answered or rejected (a node that never
  returns would break it, and the code has no timeout around it). Starting,
  resuming and aborting are the client's choice and have no fairness.
* Scheduler: weak fairness of `Tick` (time passes), of each request's steps and
  of each handler's steps, for the same reason. New requests, interruptions,
  failures and restarts have none.
* Indexing: `WF` of each call's steps, which are awaits of a database or a vector
  store, and of the deletions sent; the clock and new calls have none.
* Document store: `WF` of each request's steps. A failure is a step of its own
  without fairness, and nothing makes a late save land.
* Relay: `WF` of each request's steps (the job ends), of taking what is in a
  replica's inbox, of bind messages, of the last step of a panel that closes, and of the clean-up, a timer of every
  replica. Nothing makes a panel close: `SubscriptionsDrain` starts from
  requests that are done and panels that are gone.

## 4. What is not modelled

* **Engine**: variable resolution, the content of answers, streaming, chat
  messages, credentials, agents as tools; two requests on one session at once;
  a resumption of an execution that is not the newest.
* **Scheduler**: several API replicas without a queue, which
  `ScheduleBeat.ts:46-50` documents as running every schedule once per replica;
  workers that crash; the paging of the start-up sync (the server listens only
  after it, so without other replicas nothing interferes); trigger logs other
  than the `RUNNING` ones.
* **Indexing**: `forceUpdate`, which no caller sets; the embedding; stores without
  a record manager, which only add.
* **Document store**: files in object storage, previews, queries, the
  configuration of components, stores without a record manager.
* **Relay**: what the kinds of events hold; the metadata and error events the
  server writes itself; an unsubscription that fails (`RedisEventSubscriber.ts:80-84`
  then forgets the channel although Redis may not) and reconnections of Redis, so
  `KnowsItsChannels` is about commands that succeed; the expiry of the registry;
  main mode, where the engine writes to the streamer directly.
* The other components of section 1, each with its reason in `PROJECT.json`.
  Most are create, read, update and delete with permissions: nothing there runs
  for long or has two steps that must agree. The user interfaces and the node
  implementations are more than half of the code and keep no state of the
  system's.

## 5. What is proved

The engine's proofs are for every set of flows, every bound, and `Crashes` either
way, from `EngineAssumption` alone (the parameters have their types and flows are
well typed), but for five, which are about flows of a certain form, and
`RequestsSettle`, which is about requests within the step limits. The
scheduler's are for any number of clients, handlers, flows,
crons and ticks, in both modes, from `SchedulerAssumption` (the parameters have
their types, the model values that stand for nothing are nothing else, and there
are finitely many handlers). Those of the indexing
are for any number of chunks, sources, calls, failures and ticks, for all batch
sizes and both kinds of driver, from `IndexingAssumption` (the parameters have
their types). Those of the relay are for any replicas, panels, chats, requests and
kinds of request, and runs of any length, from `RelayAssumption` (the parameters
have their types; panels, chats and requests have different names). Those of the
document store are for any loaders, chunks and splits, from `StoreAssumption`
(the parameters have their types).

Some theorems have a hypothesis, which the run that checks the property
satisfies; the findings and limits of section 3 show what happens without it.
Those on flows are stated in `AgentflowAuditProofs`, `IsTrunk` in
`AgentflowEngineProofs`; they hold of the nine flows of `core`.

* **`SingleEdges`** (engine): no two edges of a flow join the same two nodes. The code
  takes the children of a node from its edges, so a child with two edges is
  queued twice on one result, and two outputs of a decision that lead to one node
  run no branch.
* **`LoopsOnTrunks`, `DefaultMaxLoop # 0`** (loops): loops are not nested and share
  no target, and a loop goes back to a node that the start node leads to on a
  path of nodes each of which waits for the one before. The body of an inner loop
  runs again with every turn of the outer one, and its counter is not set back; a
  target that several ways lead to runs once for each of them. The default limit
  is 10 (`buildAgentflow.ts:176`).
* **`TwoHandles`** (decisions): a decision has two outputs and at most one edge from
  each. The code ignores the first edge of an output not taken only.
* **`BranchesWaitForNothing`** (decisions): a node right after a decision waits
  for nothing else; one that does may hold a result of the decision from an
  earlier turn, and then nothing is seen to reach it.
* **`IsTrunk`** (joins): the flow has a part, its trunk, that holds every join that
  waits: outside of it a node runs with the result of any one parent. The trunk has no
  cycle, no loop back into it and no human or agent node, all inputs of its nodes lie on it, and a
  conditional group of a join is what is right behind one condition, whose outputs
  have one edge each. A join fed by a branch that may not be
  taken, or by a human node's answer, can starve. **The request does not resume on the trunk**:
  `[](humanInput.node \notin trunk[flow])`. With `startNodeId` naming a node of it, the
  other parents of the next join do not run again and it starves (found by TLC on a flow with
  a join before a human node). No human or agent node lies on a trunk,
  so only a request that names its start node is left out; of the nine flows seven
  have the empty trunk, and the two others never stop.
* **`WithinLimits`** (engine, settling): no turn goes past a step limit. Both limits throw
  outside the block that saves the record (section 3).
* **One at a time** (`Calls = {p}`, `Clients = {p}`, `Clients = {c}`): two calls in one
  namespace, two requests on one document store or on one flow undo each other's
  writes. With one client a request still fails at any await, jobs fire and
  restarts happen.
* **`~ Interrupts`** (scheduler): a request that is cut short leaves the flow saved
  and its record not.
* **`NoExpiry`** (scheduler): no flow ends within the bound of time, and an input is
  valid only when its mode is set. An expiring job writes the record it has
  read, also over one changed meanwhile; a flow refused for its missing mode can
  still be switched on.
* **`OwnChats`, `NoOverlap`** (relay, predictions): webhooks use chats of their own
  (`controllers/webhook/index.ts` makes one up when it is given none), and the
  predictions of one chat, which a conversation makes one after the other, are not
  under way on one replica at the same time. When they are, the first to end
  takes the channel away (section 3). `NoOverlap` is about what clients do, so it
  is assumed of the behaviour, `[]NoOverlap`; it says nothing of other
  replicas, panels or bind messages.

| Theorem | Module | States |
|---|---|---|
| `KeepType` | `SequenceKeepProofs` | filtering gives a sequence of the elements kept |
| `TypeCorrect` | `AgentflowEngineProofs` | `Spec => []TypeOK` |
| `RecordsTellTheEnd` | `AgentflowEngineProofs` | `Spec => []StateMatchesData` |
| `AnswerCanBeRetried` | `AgentflowEngineProofs` | `Spec => FailedAnswerCanBeRetried` |
| `ImplementsLifecycle` | `AgentflowEngineProofs` | `Spec => LifecycleSpec` |
| `WithinBudget` | `AgentflowEngineProofs` | `Spec => []StepBudget` |
| `RequestsSettle` | `AgentflowEngineProofs` | `Spec => RequestSettles`, within the step limits |
| `NoJoinStarves` | `AgentflowEngineProofs` | `Spec => []NoStarvedJoin`, flows with a trunk, no resumption on it |
| `HumanNodesWait` | `AgentflowAuditProofs` | `AuditSpec => []HumanGate` |
| `InputsAreFresh` | `AgentflowAuditProofs` | `AuditSpec => []FreshInputs`, single edges |
| `LoopsAreBounded` | `AgentflowAuditProofs` | `AuditSpec => []LoopBodyBounded`, single edges, loops on trunks |
| `DecisionsTakeOneBranch` | `AgentflowAuditProofs` | `AuditSpec => OneBranchOnly`, decisions with two handles |
| `DecisionsTakeABranch` | `AgentflowAuditProofs` | `AuditSpec => SomeBranchExecutes`, single edges, two handles, branches that wait for nothing |
| `SchedulerTypes` | `SchedulerProofs` | the scheduler's `Spec => []TypeOK` |
| `OneRecordPerFlow` | `SchedulerProofs` | `Spec => []OneRecord`, one client, no interruption, no expiry |
| `RecordFollowsFlow` | `SchedulerProofs` | `Spec => []RecordOfFlow`, likewise |
| `RecordGoesWithFlow` | `SchedulerProofs` | `Spec => []NoRecordWithoutFlow`, likewise |
| `JobsFollowRecords` | `SchedulerProofs` | `Spec => []NoOrphanJob`, likewise |
| `TypeCorrect` | `VectorIndexingProofs` | the indexing's `Spec => []TypeOK` |
| `OwnWorkAlwaysStays` | `VectorIndexingProofs` | `Spec => []OwnWorkStays`, for any number of calls at once |
| `AloneTellsVectors` | `VectorIndexingProofs` | `Spec => []RecordedIsStored` when `Calls` has one element |
| `FullCleanUpIsExact` | `VectorIndexingProofs` | `Spec => []FullIsExact` when `Calls` has one element |
| `CallsKeepContract` | `IndexingAuditProofs` | `AuditSpec => KeepsContract` when `Calls` has one element: the refinement of `IndexContract` |
| `RetriesHeal` | `IndexingAuditProofs` | `AuditSpec => []RetryHeals` when `Calls` has one element |
| `StoreTypes` | `DocumentStoreProofs` | the document store's `Spec => []TypeOK`, for any number of clients |
| `ChunksBelongToLoaders` | `DocumentStoreProofs` | `Spec => []NoOrphanChunks`, one client |
| `SyncedLoadersAreWhole` | `DocumentStoreProofs` | `Spec => []SyncedIsWhole`, one client |
| `UpsertsCoverStore` | `DocumentStoreProofs` | `Spec => []UpsertCoversStore`, one client |
| `RefreshesCoverStore` | `DocumentStoreProofs` | `Spec => []RefreshCoversStore`, one client; the property is about each loader that the clean-up leaves alone |
| `RelayTypes` | `EventRelayProofs` | the relay's `Spec => []TypeOK` |
| `NobodyLingers` | `EventRelayProofs` | `Spec => []ObserversArePresent` |
| `ChannelsAreKnown` | `EventRelayProofs` | `Spec => []KnowsItsChannels` |
| `StreamsAreHeard` | `EventRelayProofs` | `Spec => []PredictionsAreHeard`, own chats, predictions of a chat do not overlap on a replica |
| `EventsHeardWithoutGap` | `EventRelayProofs` | `AuditSpec => []HeardWithoutGap`, likewise; the property excepts lapsed chats |

Arguments:

* `TypeOK` is inductive as it stands: it says which local state is left when no
  request runs and that a running request has a row to save to. The one hard
  part is that filtered sequences are sequences, since the filter is a fold over
  a recursive function; `KeepType` proves it by an induction of its own over the
  length (`LeastNatural`, `SetInduction`).
* `StateMatchesData` is not inductive: a state computed when a request ends
  depends on the entries collected before. `RecordInv` adds that the entries of
  a running request, and those kept in a row that can be resumed, hold no error
  and no termination: a resumption drops the trailing error (`CheckpointBenign`),
  a turn adds only finished or stopped entries, and a failure ends the request.
* `FailedAnswerCanBeRetried` follows from the same invariant: the catch block
  appends the error to data that still ends in the stopped entry.
* `RequestSettles` needs the types only: each way to end a request but the limits saves a
  state, and `FinalStatus` is never `INPROGRESS`.
* `NoStarvedJoin` strengthens to `TrunkInv`: a set `R` of nodes of the trunk has run and a
  set `X` was ruled out, where a condition that has run rules out all that is behind
  it but one node (`IgnoredIs`, with the fallback). What is queued is there once and
  gets nothing more (`NothingMore`), what is not holds exactly its parents
  that have run and they are not enough (`Standing`). When the queue is empty, a node
  of least depth that neither ran nor was ruled out would have all that it needs
  (`TrunkDone`). `R` and `X` are not variables: that they exist is inductive. A resumption
  off the trunk counts as if all of it had run. That a child is queued once needs where a
  kept element comes from (`KeepPlaces`).
* `LifecycleSpec` needs only that a running request has the newest row in
  progress; each action is then `Create`, `Settle`, `Reopen` or a stutter.
* `HumanGate` strengthens to `GateInv`, which counts a pending answer as one
  not used yet: `passed[n]` plus one while `humanInput.node = n` is at most
  `answered[n]`.
* `InputsAreFresh`: `OriginInv` keeps an account for each node `n` and each set `G`
  of nodes of which `n` waits for one (a required input alone, or a conditional
  group): the runs of `n`, its copies in the queue, and one if it holds a
  result of `G`, are together at most the runs of the members of `G`, plus one if
  the request began at `n`, plus the times that loops went back to `n`. A turn
  that delivers a result to `c` may queue `c` only by taking what `c` held of each
  `G` (`Delivery`). The property is the case without answer and without
  loop. The counters of the loops are set back when a request ends, so the
  invariant says that counts exist that explain the runs, and that they are
  the counters while a request is in progress (`Counted`). The sums and the
  copies are counted by `SetInduction` (`TotalBump`, `OccursConcat`).
* `LoopsAreBounded`: along the path to the target of a loop each node runs at most
  once, and only if the request began on or before it (`TrunkRuns`). So the target
  runs once for the path or once because a resumption began at it, never both,
  and once for each time its loop went back.
* `DecisionsTakeOneBranch`: a decision answers with one output or with none
  (`TwoVerdicts`: by `GateInv` the answer belongs to the human node at the head),
  the fallback makes that one (`OneTaken`), and what is not ignored hangs on it
  (`OneBranchLive`).
* `DecisionsTakeABranch`: the edge of the output taken is not ignored, since it shares
  its target with no other, and its target is ready at once.
* `SchedulerTypes`: the types are not inductive, because a run that ends takes one
  from `openLogs`. `Inv` adds `Cardinality(Running) <= openLogs`: a step that starts a run
  adds one to both, one that ends it takes one from the first and at most one from
  the second (`RunningMore`, `RunningLess`), and a restart only empties `Running`.
* The other four theorems about the scheduler come from one invariant, `Settled`.
  At rest the record agrees with the flow and the job with the record; under way
  the request's place in the program says which of them does not yet (`Follows`,
  `JobsFollow`), and what it has read that must still be so when it writes
  (`Knows`): the record found is the only one, the record read again for the beat
  is still on. The jobs that fire in between only move `next` on (`SameSchedule`)
  and take jobs away, and since nothing that they have read expires
  (`AllLast`) they never write a whole record back.
* `OwnWorkAlwaysStays`: what a call indexes it stamps with the current time,
  the clock does not go back, and another call only stamps later. A clean-up
  lists rows older than the start of its call, so never one of those.
* `AloneTellsVectors`: between two awaits of a call the stores differ by exactly
  what its place in the program says: the chunks of a batch that have a vector
  and no row yet, or the keys that lost their vector and have a row still.
  With one call nothing else writes.
* `FullCleanUpIsExact`: a full clean-up ends only when no row is older than the
  start of the call. Everything the call was given has been recorded by then
  (`seen`, the batch and `todo` are always all of it), and no other row has a
  stamp after the start, since nobody else stamps. `AloneTellsVectors` carries
  this from the rows to the vectors.
* `CallsKeepContract`: `IndexContract` does in one step what a call does in many,
  so the invariant compares the stores half-way with what they were when the
  call began (`before`). `Stage` says of each chunk whether it is as it was,
  indexed, cleaned up, or half-way: a vector and no row yet, or a row that has
  lost its vector. `Clean` says that what is left of the work is what the calls of
  the clean-up have not reached. At the end of a call the stages are the
  contract's cases; at a failure they are those of a call that was cut short.
* `RetriesHeal`: a call that is made again takes the same documents, so it cuts them
  into batches at the same places (`Taken`). What an earlier attempt left
  disagreeing is one of two things (`Mends`): a vector without a row, whose
  chunk is among the documents and is recorded when its batch comes, or a row
  without a vector, which a clean-up of this work had begun to remove. The
  latter must be gone before the batch with that chunk comes, or the call would
  take it for indexed: with incremental clean-up a batch with a chunk of the same source comes
  before, at the same cut as the first time (`Mended`).
* `StoreTypes` says in addition what a request has where it needs it: a loader, a
  row to save.
* `ChunksBelongToLoaders`, `SyncedLoadersAreWhole`: with one client the row that a
  request saves is the row that is there (`CalmOf`), and a loader whose chunks
  are being deleted and inserted is listed and SYNCING, wherever the request
  fails. What late saves add is in `strays`, which is cleared with the loader's chunks.
* `UpsertsCoverStore`: until a request fails, the vectors and the record manager's
  rows agree (`Agree`), so `index()` does not skip a chunk that has no vector.
* `RefreshesCoverStore`: a refresh runs over the loaders one by one, so the invariant
  says of those done that their chunks are covered (`RefreshedOf`). The next
  loader's clean-up must not take them away: each chunk comes
  from its loader's own documents (`Origins`), and the property is about a loader whose
  documents share no source with another's. A late save is one of a request that
  failed (`LateFailed`), and then nothing is claimed.
* `RelayTypes`: `TypeOK` is not inductive, since a reply wakes the request that
  waits for it. `TypeInv` adds the types of what is on its way, and that whoever
  a reply is for has begun.
* `NobodyLingers` is inductive with the types and `Housed`, that a response of a panel is
  open only where the panel is and until it was heard to close: removing a panel scrubs it from
  all chats of its replica, a run that ends lets the observers of its chat go,
  and a bind message looks whether the panel is there. Only a request that binds
  on its own replica does not look, and it has begun and not ended.
* `ChannelsAreKnown`: while replies are on their way the replica and Redis
  disagree. `AgreesOn` says by how much: Redis has a channel exactly if the last
  reply about it on its way says so, or, without one, if the replica knows it.
  A command appends a reply, taking a reply moves its outcome into the set, and
  events change nothing.
* `StreamsAreHeard`: while a prediction is under way its response is open, so a
  clean-up does not touch its channel, and the commands and replies about the channel
  are its own: the only reply on its way is the one it awaits (`OneReply`). For it to
  begin with a channel that is unknown and quiet, the invariant says that of every
  channel with which no webhook and no active prediction has to do (`Quiet`,
  `Busy`). Redis and the handlers follow from `AgreesOn`.

* `EventsHeardWithoutGap` has three layers. `MailInv` is about mailboxes: behind an event of a
  run comes the next one, or the replica has lost the channel or the run has sent no more
  (`Continued`), the reply to an unsubscription is the last about its channel, and a reply is
  for a request that awaits it. `ResponseInv` says who can have heard anything: a panel
  that has connected, or a request whose response was opened. `GapInv` relates the
  two: if the last that someone heard of a run is event `n` and it still listens on a
  replica (`Reached`), the subscription there lasts (`Secure`) and event `n + 1` is the next of that run in
  the mailbox (`OpenOK`). So what it hears next is `n + 1`, and an event that is told
  twice repeats the last one (`NextTold`). A step that changes who listens, the channel or the
  mailbox is one lemma each (`GoodStep`, `GoodTake`, `GoodEmit`, `ElseTold`). While the
  clean-up's unsubscription is on its way nobody listens, or the chat has lapsed there and nothing is claimed
  of it (`SweptAlone`, `LapsesNext`); an unsubscription is the clean-up's
  until its reply is taken, so who begins to listen behind it is noted (`LapsesNoted`). TLC checked
  `GapInv` on small instances before it was proved.

Every safety property that a passing run checks is a theorem. Only model-checked are the
liveness properties `RequestEnds`, `EnabledKeepsRunning`, `OrphanHeals`, `CallEnds`,
`UpsertingEnds` and `SubscriptionsDrain`: fairness is beyond the prover. The theorems with
a hypothesis say nothing of instances that do not satisfy it; of those the runs show
what happens on small ones.

## 6. What is left

1. `ExecutionSession`: concurrent requests and resumptions on the `Execution`
   table with the read, await, save of `updateExecution`; the executions
   service with its cached list and deletions; refinement of
   `ExecutionLifecycle` where it holds.
2. `AbortPool` and `PredictionQueue`: overlapping requests of one chat sharing
   one slot of the pool, the abort sent to a worker as an event.
3. `QuotaCounter` and `RateLimiter`: shared counters and limiters with an abstract
   counter and register as specifications.
4. `CronUtilities`: `validateCronExpression` and `computeNextRunAt` as operators
   against a reference over bounded fields.
5. Proofs: joins behind human nodes that are answered, conditions behind conditions, and the
   properties of the components above once they are modelled.
