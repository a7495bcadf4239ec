# Verification of the ClawConnect host agent

TLA+ specifications, TLC configurations and TLAPS proofs about the agent in
`src/`: a Node program on a user's machine that connects a cloud **Relay**
(a WebSocket server that mobile clients talk to) with a local runtime, either
an **OpenClaw** gateway (WebSocket, plus transcript files on disk) or a
**Hermes** process (HTTP API or command line).

Inside one process nothing runs in parallel: a step is a turn of the Node event
loop.  Concurrency is what happens *between* turns: `ws` callbacks, timers,
continuations of promises, other processes, crashes.  The models take one turn,
or the code between two file-system calls where a failure can separate them, as
one action.

Contents

1. The system and its parts
2. Modules and how they correspond to the code
3. What is checked: runs, properties, bounds
4. Fairness
5. What is proved
6. Disagreements between the code and what is said of it
7. Limits: abstractions, and what is not modelled
8. Plan

---

## 1. The system and its parts

`commands/run.ts` runs `withReconnect(runtimeAdapter.start)`
(`core/relay/reconnect.ts`): it opens a connection, waits until it is over,
waits 500 ms doubling up to 30 s (reset once a connection was established), and
opens the next.  A connection is one call of `runRelayManager`
(`openclaw/relay-manager.ts`) or `runHermesRelayManager`
(`hermes/hermes-relay-manager.ts`), which own everything that lives as long as a
socket.  What outlives sockets: the outbox (per process, with a store on disk),
the idempotency guard, the session queue.

```
                 commands            frames, ACKs
  mobile  <--->  Relay  <----------------------------------+
                                                           |
   +-----------------------  agent process  ---------------|-----------+
   |  withReconnect -> manager (OpenClaw | Hermes) --- Relay socket    |
   |     |                |        |            |          ^           |
   |     |          chat handler   |     stream coalescer -+           |
   |     |                |     source commits ----+       |           |
   |     |        idempotency guard                v       |           |
   |     |                |            ReliableRelayOutbox +           |
   |     |          session queue              |                       |
   |     |                |                    | put / remove          |
   |     +--- gateway client / Hermes runtime  v                       |
   +-------------------------------- FileReliableRelayOutboxStore -----+
                                        (write-ahead log, owner lock)
```

| Component | State it keeps | Operations and callers | Hard behaviour | What makes it correct |
|---|---|---|---|---|
| **Reliable outbox** `core/relay/reliable-relay-outbox.ts` | entries by delivery key (content, attempt, socket written on), byte count, current connection, the one outstanding write, ACK timer | `enqueue` (managers), `attach` / `detach` (hello, close), `acknowledge` (frames from Relay), write callback, ACK timer, `restore` | callback of an older write or socket; ACK before the write callback; store failing in the middle of a removal; limits; death between store and memory | nothing accepted is lost; written in order; one write at a time; no replay on the same connection; eventually delivered |
| **Durable store** `reliable-relay-outbox-store.ts` | journal generations on disk, descriptor, byte counts, `failed` flag | `put`, `remove` (outbox), compaction, open, `close` | a call that fails between two others, crash, power loss, choice of a generation at start | what returned survives; what was removed stays removed; appends go to the file a restart reads |
| **Store lock** same file | owner lock file, operation-lock directory | constructor, `close`, `clearReliableRelayOutboxStorage` (reset, uninstall) | several processes, stale locks, crashes anywhere | one writer; no removal of a journal in use |
| **Outbox registry** `reliable-relay-outbox-registry.ts` | outbox by (directory, Relay, gateway), last use | lookup, prune at 64, dispose | eviction against attachment | one outbox per identity |
| **Idempotency guard** `chat-send-idempotency.ts` | terminal promise and verdict by execution key, TTL and limit | `claim`, `execute`, `settle`, `release` | repeated delivery across connections, forgetting | one run per key at a time, none beside a remembered verdict |
| **Hermes chat handler, active runs, session queue** `hermes-relay-manager.ts`, `active-hermes-chat-runs.ts`, `hermes-runtime-chat-queue.ts`, `hermes-runtime-chat.ts` | registry of abort controllers (per connection), tail of each session's line | `chat.send`, `chat.voice.send`, `agent`, `chat.abort`, close | abort against completion, close while a command waits, slash commands that leave input behind while they hold the turn | turns in order; true answers; every run ends; abandoned runs are asked to stop |
| **OpenClaw run identities** `chat-send-dedupe-coordinator.ts`, `chat-run-identity.ts`, `openclaw-active-run-state.ts` | running and attempted keys, timers, records on disk with a record lock | claim, terminal events, restore after restart | result of a request against terminal events; stealing of a lock older than 30 s | as above, over gateway restarts |
| **Stream coalescer** `assistant-stream-coalescer.ts` | per reply: newest snapshot, timer, chain of jobs, closed keys | `schedule`, `flush`, `flushThen`, `closeAfterFlush`, `clear`, `releaseClosed`, `dispose` | failed and slow writes, operations requested during a write, clear while a job runs | final after text, text never shrinks, both get out |
| **Source commits** `source-commit*.ts`, `openclaw-source-commit-watcher.ts`, `source-commit-projection.ts`, `source-row-fingerprints.ts`, `openclaw-source-cursor-connections.ts` | per session and connection: notified or not, cursor, rewrite generation and fingerprints of sent rows by scope; per connection: the gate's queue, awaited ACKs, watermark queries | file and gateway notifications, rescan, drain, pages, rewrites, publication, ACK, time-outs, close | transcript grows, is rewritten or starts anew while pages are awaited; ACK before the write callback or after the time-out; reconnect | no reconnect skips a row, the cursor never passes what Relay took, rewrites are seen, one frame at a time, every row arrives |
| **Relay managers** (connection life cycle) `relay-manager.ts`, `hermes-relay-manager.ts`, `relay-liveness.ts`, `relay-server-connection.ts` | socket, hello state, liveness clock | open, hello, commands, ping, close | close during an await; hello time-out | everything per connection is disposed of exactly once |
| **Cron change relay** `hermes-cron-change-relay.ts`, `hermes-cron-change-watcher.ts` | digest of the last change seen | watch, send | digest advances though the send was lost | a change is reported |
| **Gateway client, context usage** `gateway-client.ts`, `openclaw-context-usage-publisher.ts` | pending requests, buffered events around a response hook | request, event, close | events that overtake the response | events after the response they belong to |
| **Timeline and history projection** `timeline-*.ts`, `chat-history.ts`, `transcript-dedupe.ts` ... | tracker of seen event ids | conversions | mostly pure | same row, same identity |
| **File and media transfer** `file-upload.ts`, `outgoing-media-relay.ts`, `hermes-file-transfer-state.ts`, `hermes-mobile-file-route-store.ts` | uploads in flight, pending transfers on disk (10 min) | upload with retries, continuation turns | retry of what was done, expiry | one upload per content |
| **Local runtimes, handlers, provider config, backups** | files of the runtimes | request and response | up to five backups, restore | sequential |
| **Commands, config, service management** | config files, launchd / systemd / Task Scheduler units | install, pair, update, run | sequential input and output | -- |

`PROJECT.json` lists the same components with their sources and status, and
under "hazards" the places in the code where these behaviours bite.

---

## 2. Modules and how they correspond to the code

```
ReliableDelivery  <--implements--  ReliableOutbox       <-- MCReliableOutbox, ReliableOutboxProofs
RunOncePerKey     <--implements--  HermesChatRuns       <-- MCHermesChatRuns, HermesChatRunsProofs
                                   OpenClawChatRuns     <-- MCOpenClawChatRuns, OpenClawChatRunsProofs
                                   LatestSnapshotCoalescer <-- MCLatestSnapshotCoalescer,
                                                               LatestSnapshotCoalescerProofs
                                   SourceCommits        <-- MCSourceCommits, SourceCommitsProofs
DurableQueue      <--implements--  OutboxStore          <-- OutboxStoreProofs

DurableParts = OutboxStore + StoreLock, TranscriptDedupe,
               ActiveRunRecords, OpenClawConfig         <-- MCDurableParts, DurablePartsProofs
LiveParts    = SourceCommits + RelayConnection,
               CronChanges, MediaUploads, HermesTurn    <-- MCLiveParts, LivePartsProofs
MCLiveParts  = LiveParts + ContextUsage, MediaRows, HermesApiStream,
               HermesHistory, OpenClawHistory, StreamedCommand
```

The layers are composed by their promises.  `ReliableOutbox` sees its store as a
map that survives the process (`disk`): a `put` or `remove` takes effect, or
fails without one, or took effect and the process died before memory followed.
`OutboxStore` implements that promise (`DurableQueue`) down to system calls,
provided that one process at a time appends, which is what `StoreLock` shows.
What `ReliableOutbox` takes of a connection (it comes, it closes, it is noticed
when it is dead) is what `RelayConnection` shows of it; that the turns of one
session come one after the other, which `HermesTurn` takes for granted in the
line of its key, is `TurnsInOrder` of `HermesChatRuns`; that snapshots come out in
order, which `OpenClawChatRuns` and `HermesApiStream` take of what they hand
over, is what `LatestSnapshotCoalescer` shows.

`DurableParts` and `LiveParts` are several modules in one, for one run and one module
of theorems: each extends one module and instantiates the others with variables of
their own.  `MCLiveParts` adds further parts, which are only model-checked and take
turns at the same variables.  The parts share no state: the variable `part` is chosen
at the start and never changes, the variables of the other parts keep one value, and
a property speaks of its own part.  A behaviour is therefore a behaviour of one of the
modules; the run checks, and the theorems about `PartsSpec` prove, exactly what one
run or one theorem per module would.

**`ReliableDelivery`** (abstract).  Accept a message, receive it, release it:
the Agent owes what it accepted until Relay has it, or, from a Relay without
ACKs, until the write was confirmed.

**`ReliableOutbox`**.  `entries`, `totalBytes`, `connection`, `sending`,
`ackTimer` are the fields of the class; `disk` is the store; `live`, `sock`,
`relayMode`, `writes`, `wire`, `acks` are the socket, its `ws.send` calls whose
callbacks have not run, the frames and the ACKs on their way.  A turn is a
record that private methods transform (`Flush`, `ScheduleAckCheck`,
`GiveUpConnection`) and that `EndTurn` makes the next state, so that an action
is a whole handler with the `flush()` at its end.  `Enqueue`,
`EnqueueRejected`, `Attach`, `WriteSucceeded`, `WriteConfirmed`,
`WriteConfirmedNotStored`, `WriteFailed`, `AckIgnored`, `AckRemoves`,
`AckNotStored`, `AckTimeout`, `Restart` are the operations; `Connect`,
`BeginClose`, `SocketClosed`, `RelayReceives`, `Crash`, `CrashAfterPut`,
`CrashAfterRemove` are the world around it.

**`DurableQueue`** (abstract).  An operation that returned has taken effect for
good; one that threw has had no effect, unless the store declares itself broken;
one cut short by the death of the process has had its whole effect or none.
`firm` are the queues a restart of the *machine* may load: between a death and
the next completed operation, the last effect may still be forgotten.

**`OutboxStore`**.  `pc` is the place between two system calls; `files` maps each
generation to its records and to how many of them are fsync'd; `Parsed` is
`parseGeneration`, `OpenNewest` is `openNewestGeneration`, `Write` / `Commit` /
`RollBack` are `append`, `CreateGeneration` / `FillGeneration` /
`SwitchGeneration` / `Abandon` are `activateNewGeneration` and its catch block,
`Sweep` is `removeInactiveGenerations`.  `env`, one of `Environments`, says which calls
may fail besides write, fsync, truncate and open, and whether the machine may stop as
well as the process; it is chosen at the start.  `LosePower` keeps of each file what was
synced and any prefix of the rest, torn records included.

**`StoreLock`**.  Each store instance and each call of
`clearReliableRelayOutboxStorage` is a process of its own; they interleave at
every file-system call.  `EnterGate` is the `mkdir` of the operation lock,
`CheckLock` / `RepairLock` / `CreateLock` / `WriteLock` the acquisition of the
owner lock, `ReadOwnLock` / `RemoveOwnLock` are `close()`, `Wipe` is the removal.

**`RunOncePerKey`** (abstract).  A message sent again and again under one key
has at most one owner; the owner ends with a verdict or gives the key back.

**`HermesChatRuns`**.  One process per delivered command, `pc[c]` the place of
its handler (`handleChatCommand` with its catch and finally blocks, and the
queue and runtime calls it awaits); `entries`, `outcome`, `settledAt`,
`horizon` are the guard with its TTL and limit; `tail`, `before` the promise
chain of `hermesChatQueues`; `active` is `ActiveHermesChatRuns` of the current
connection, as the set of its commands, for nothing reads the order of that map; `answers`, `events` what mobile is told.

**`LatestSnapshotCoalescer`**.  One key.  `states` are the objects of the code's
map and those that have left it while jobs still run; `line` is the promise
chain `tail`, whose head runs.

**`SourceCommits`**.  `source` is what OpenClaw holds of each session: an epoch
(`current_session_id`, the code's source generation), rows (each a version, 0 if
mobile does not see it) and the rewrite generation.  `watcher[s]` is the closure
of one watcher: `pending`, the cursor being worked on, `latestByScope`
(`latest`), `rewriteGenerationByScope` (`known`), `resolvedScopes`, the
fingerprints (`prints`), and the place of its drain (`at`): `resolving` the
watermark, `reading` a page, `relaying` its media, `queued` in the gate,
`sending` until `ws.send`, `writing` until its callback, `acking`.  `gate` is
the promise chain `gateTail`, `waiting` the entry of `waiters`; `stored` and
`watermark` are Relay's.  An action runs from one await of something outside to
the next, with the continuations in between: `Passes` ends the turn of one
frame, starts that of the next one and lets the drain's loop go on (`Looped`),
`Decided` is the choice between commit, rewrite and nothing, `Turned` what
follows a page.  `Hello` fixes whether Relay ACKs frames and whether it answers
questions for watermarks.  OpenClaw's steps and Relay's are external.

**`OpenClawChatRuns`**.  `phase[c]` is where `executeCommand` is with a command;
`wire` and `buffer` are the frames of the Gateway that are not read yet and the
events the client holds back behind a response hook; `runs` are the two maps of
`chat-run-identity.ts`, `ops` what was handed to the coalescer, `subscribed` the
manager's set of sessions and `listening` what the Gateway knows of it.
`ReadResponse` and `ReadEvent` are the client's message handler, the
"answered" phase the time between a read answer and the continuation of its
promise, in which more frames may be read.  The Gateway may give the id of a run that
is over to another command (`Accept`): `former` are the commands that had it, and
`mixed` says that something of a former run was still on the socket, held back or
waiting to be sent (`UnderWay`) when that happened.

**`TranscriptDedupe`**.  `Stat`, `Read`, `Check`, `Rename`, `Changed` are the awaits of an
attempt `try[a]` to take OpenClaw's mirror of a prompt out of the transcript, `AppendRow`
is OpenClaw, which appends meanwhile; `request`, `timer`, `attempts`, `running` are the
coordinator's maps for one run id, `waiters` the timer callbacks that wait for an attempt.
A prompt may be registered again at any time.  `ClearAll`, at the close of the
connection, empties the maps while an attempt goes on, so that the next registration
starts another beside it.

**`ActiveRunRecords`**.  `m` is the Relay manager with its chain of operations
(`queue`), `s` a `send-file` process that looks the run up; `lock` is the record
lock with its owner and age, which `RemoveOldLock` takes for left behind.

**`OpenClawConfig`**.  `cmd[s]` are the provider commands that run; each reads a
file, opens it for writing (what was in it is gone), writes it, and maybe goes on
to the keys.  `made` are the backups, payload and meta file each, `Create`,
`Update`, `Delete`, `Restore`, `Enforce` are the backup manager's; `Die` stops the
process between any two calls.

**`RelayConnection`**.  `sock` is the socket, `clock` the time it is in its
state, `silent` for how long the network swallowed everything; `idle` and `ping`
are the liveness monitor, `loop` and `backoff` `withReconnect`.  Time is discrete
and `Tick` waits for timers that are due.

**`CronChanges`**.  `content` is `jobs.json`, which Hermes writes (`Write`) and whose
directory it may replace (`MoveDirectory`); `baseline` is the watcher's digest,
`stored` the one that outlives a connection.

**`ContextUsage`**.  `used` is what the Gateway has of each session; `timers`,
`prints` and `phone` are the publisher's timers, fingerprints and what it told;
`refresh` is `refreshSessionDefaults` in its awaits, `asks` the `sessions.list`
requests with what the Gateway had when it read them, `readers` the publishes that
turned to the files.  `Canonical`, `Candidates`, `Found`, `Entry` are the names of
`session-context.ts`.

**`MediaUploads`**.  `pass[p]` is the place of one projection of the attachment
(lookup, stat, hash, init, chunks, complete), `cache` and `expired` are the
connection's maps, `relay` the upload of each idempotency key at the Relay.

**`MediaRows`**.  A function of a page, stated as one: `Project` is what the
functions of `assistant-media-sidecar.ts` make of a page one after the other,
`Deliver` what a live delivery does to the events of its run.  The initial states
are the inputs, and there is no other step.

**`HermesTurn`**.  `turn[k]` is the turn a session key is in (`runChatUnlocked`),
`child` its process, `rows` the messages in `state.db`, `alias` the file
`sessions.json`.  The rewind after an abort, `Select` and `Recover` (which session
was this turn in?) work on those.  A turn that is aborted at the API server is left
there (`ApiLeft`): the reader of the stream is released and not cancelled, so the
server may go on writing, or undo the turn (`ServerUndoes`).  `Delete` is
`runHermesSessionDelete`, or a deletion in Hermes itself, at any time and of any session;
`Forget` is its second step, in which the keys lose the session.

**`HermesApiStream`**.  One action per event read (`Handle`), the coalescer's
`Emit`, `Abort` and `Close`; `active` are the tools under way.

**`HermesHistory`** and **`OpenClawHistory`**.  A session as a sequence of rows of a
few kinds, read in pages; the operators are the functions of the history modules
(`TurnRows`, `Decision`, `Output`; `VisibleParent`, `RunOf`, `ArtifactEnd`,
`Message`), and the steps are reading the next page and, for OpenClaw, another row.

**`StreamedCommand`**.  `Piece` is a chunk of one stream, `buffer` what the line pump
holds of a line; `Exit`, `StreamEnds`, `Close`, `SpawnError` come in the orders Node
may give them.

---

## 3. What is checked: runs, properties, bounds

Times are with two workers.

| Run | Module / config | States | Shows |
|---|---|---|---|
| `outbox_safety` | MCReliableOutbox / MCOutboxSafety | 488 386 (55 s) | Two keys, two contents (one twice as long, so that the byte limit can bind before the entry limit), both delivery modes, two failures: the outbox loses nothing, counts bytes right, never stalls, always has the ACK timer armed while an entry waits for an ACK, writes in order, applies ACKs to the message they are about, does not replay on a connection, and implements `ReliableDelivery`. |
| `outbox_live` | MCReliableOutbox / MCOutboxLive | 14 526 (2 min) | Under fairness, once failures stop, every accepted message is received (or write-confirmed by a legacy Relay) and leaves the store. |
| `chat_turns` | MCHermesChatRuns / MCChatTurns | 478 002 (54 s) | A command with attachments, a slash command and a voice command of one session, with aborts and the loss of the connection: turns in order, the abandoned chat run told to stop, no "aborted" after an end. |
| `chat_live` | MCHermesChatRuns / MCChatLive | 409 087 (3.5 min) | Three deliveries of one key, one of them with other content, over two connections and a restart, and a guard that remembers one verdict: implements `RunOncePerKey`, answers are true, every run and every repeated command ends. |
| `stream_snapshots` | MCLatestSnapshotCoalescer / MCCoalescer | 173 809 (56 s) | Three snapshots, two operations of which one closes the key, one retry: operations wait for the text before them, the text never goes backwards, no snapshot is left without somebody who comes for it, operations in order, and both operations and the last text get out. |
| `source_rows` | MCSourceCommits / MCSourceRows | 311 714 (1.5 min) | One session whose transcript has three rows, one of them hidden, pages of one row, one rewrite or new start, one failure, every kind of Relay: no watermark has a gap below it, what the watcher takes for sent is sent, and every visible row of the current transcript arrives. |
| `openclaw_chat` | MCOpenClawChatRuns / MCOpenClawChat | 2 102 442 (2.5 min) | Three `chat.send` commands in one session, the third of which repeats the first, a registry that holds one identity, two run ids, which the Gateway may give again, runs of up to two deltas, which may come after the end of their run, that end in every way, one connection lost: what the phone gets of a run carries that run's key and only grows, no run inherits the end of a former one of its id, no event is held back for good, and no subscription is believed in that the Gateway forgot. |
| `durable_parts` | MCDurableParts / MCDurableParts | 933 309 up to symmetry (2 min) | The parts that write to disk, each on its own (below). |
| `live_parts` | MCLiveParts / MCLiveParts | 1 654 192 up to symmetry (3 min) | The parts that keep their state in memory, each on its own (below). |
| `source_rewrite`, `source_orphan`, `openclaw_subscription` | MCSourceCommits / MCSourceRewrite, MCSourceOrphan; MCOpenClawChatRuns / MCOpenClawSubscription | | Expected violations; see section 6. |

The parts of the two composite runs:

| Part | Module | Instance | Property |
|---|---|---|---|
| `lock` | StoreLock | four stores and two cleaners that may die anywhere | `OneWriter`, `NothingWipedInUse` |
| `store` | OutboxStore | two keys, three generations, any two of: failing write, fsync, truncate, open; death; and, in one environment, power loss and a failing `unlink` of `Sweep`, in the other, `readdir` and `unlink` failing anywhere | `JournalIsKept` (`PutsSurvive` and `RemovesSurvive` where the directory can be relied on; `AppendsAfterCommitted`: a store that still accepts operations appends exactly behind its last committed record), `ImplementsQueue` |
| `dedupe` | TranscriptDedupe | a prompt, its mirror and two replies, three attempts by the count of the coordinator, two at a time, three registrations or askings | `CheckedRowsStay` (with `NotForgotten`) |
| `records` | ActiveRunRecords | three operations of a manager that may die, a second process, a lock that is old after one tick, records that live three, or two after the end | `RunsStayRecorded` |
| `config` | OpenClawConfig | two providers, two commands at a time, three commands; three backups of which two are kept | `ConfigIsKept` |
| `gate` | SourceCommits | two sessions compete for the gate, one failure | `SentIsTaken` (`CursorIsBacked`, `OneFrameAtATime`) |
| `connection` | RelayConnection | time-outs of two or three ticks, delays 1, 2, 4, four attempts in a row | `ConnectionIsKept` |
| `cron` | CronChanges | two contents and none, two failures | `RelayLearnsOfChanges` |
| `usage`, `renamed` | ContextUsage | sessions of two agents, with files; a renamed main session beside a dashboard | `StreamIsTold` (`UsageSettles`) |
| `uploads` | MediaUploads | two projections, two versions of two and three bytes, chunks of two bytes, two tries | `AttachmentsAreTrue` |
| `placement` | MediaRows | pages of up to four of eight rows, two events, two blocks | `MediaIsPlaced` |
| `turns` | HermesTurn | a turn of each of two keys, or two turns of one, and in either case one deletion of a session | `TurnsKeepApart` (`CompletedTurnsStay`, `MappedToOwn`, `CancelledPromptsGo`, unless `torn`) |
| `tools` | HermesApiStream | two tools, one identity of the server's, four events | `StreamIsTold` |
| `hermes` | HermesHistory | four rows of eight kinds, a prompt of attachments only among them | `HistoriesAreTrue` |
| `openclaw` | OpenClawHistory | two runs, four of eight kinds of rows, pages of one and of three | `HistoriesAreTrue` |
| `command` | StreamedCommand | four pieces | `CommandIsTold` |

Symmetry is used where names are only compared: the stores' keys and the two attempts of
`dedupe` (`Symmetry` of `MCDurableParts`), and the runs of `openclaw` (`RunSymmetry`).  No
liveness property is checked in those runs, and no instance, property or other
part names one of the two values alone.

Where a run names one property for two or three of a module's, it is their
conjunction, as far as they belong together: `KeepsGoing`
(`NoStall`, `AckWatchdogArmed`), `EveryCommandEnds` (`EveryRunEnds`,
`RepeatsAreReleased`), `ClaimsAreTrue` (`ResumesWithoutGap`, `PrintsAreShown`),
`OperationsKeepTheirPlace` (`Barrier`, `OperationsInOrder`), `EverythingSettles`
(`OperationsRun`, `LastTextSettles`), `RunsStayApart` (`RightKey`, `EndsAreOwn`).

What the properties leave out is written in them, and is this:

- `AbandonedRunsAreAborted` is about chat runs that are handed the abort signal.  A slash
  command, and the chat run it leaves behind, are not (`hermes-runtime-chat.ts:83-101`
  passes none): the close of the connection fires a controller nobody listens to.  A voice
  command accepted after its connection closed is in the registry of a closed connection.
- `RunsStayApart` and `TextOnlyGrows` let go a run that began while something of a former run
  of its id was under way (`mixed`): late deltas of the former one are then told of the new
  one, and nothing in the code could tell them apart.  `chat-run-identity.ts:17-20` promises
  that the answer to a command begins a new generation, which is what the properties say of
  every other run.
- `CheckedRowsStay` is about the rows that were in the transcript at an attempt's second
  `stat`.  What is appended between that and the rename is lost (`late`).
- `TurnsKeepApart` ends where a session is deleted while the turn that made it runs (`torn`):
  the turn may then find another key's new session to be the only one and take it for its own
  (`selectHermesSessionForCompletedChat`).  `CompletedTurnsStay` lets a rewind take, of a
  completed turn, what its process wrote behind the prompt that is cancelled; that exemption
  needs a third turn, so only the theorem reaches it.  Of a prompt left at the API server
  nothing is claimed.
- `PagesAgree` leaves open the run of what stands right behind a prompt without visible text:
  `hermes-runtime-history.ts:361` passes over such a row before it sets the turn, while the
  query for the row before a page counts it, so the page decides.

`TypeOK` of `ReliableOutbox`, `StoreLock` and `HermesChatRuns` is the first
conjunct of their inductive invariants `IInv`, `LockInv` and `RunsInv`.  TLC
checked these on the instances of `outbox_safety`, `lock` and `chat_turns` before
they were proved; now that they are theorems (section 5), the runs leave them out.
They also imply `OneWriteOutstanding`, `WriterHoldsLock` and
`SilenceLeavesKeyFree`.

**Why the bounds are enough.**
*Two keys* are needed for order and for one entry blocking another, and for a
slot at the limit; a third adds only more of the same.  *Two contents* tell
a conflict on a key from a repetition.  *Failures* (`MaxFaults`) count bad
events of any kind; two let one failure happen during the recovery from another.
Sockets are numbered without bound but each new one costs a failure, so the
bound on failures bounds them.  `PutsSurvive` was also explored with three
failures where the machine may stop (421 348 states, holds) and four (violated; section 7).
*Three generations* are the current one, its predecessor, and the one being
written.  *Four stores and two cleaners* allow two concurrent repairs of one
stale lock with a third party arriving, and a cleaner beside another.
*Three commands* make the line long enough that the head leaves while another
waits and a third arrives, and in `chat_live` a run, a repetition and a retry.
*MaxTerminals = 1* makes the limit of the guard bind (512 in the code).
*MaxRetries = 1* (the code's default is larger) separates first try, retry and
exhaustion; *MaxStates = 2* lets a second state begin while the jobs of a
cleared one still run.  For the source commits, pages of one row (20 in the code)
make three rows a walk with a beginning, a middle and an end; a hidden row in the
middle makes a page that has no frame; two epochs are the current and the one before.
Edits and competition for the gate are in different runs; two sessions with
edits (2.5 million states), one session with two edits (797 553), and the gate with
two failures (635 460) were explored by themselves, and the safety properties hold
there too.  *Three chat commands on OpenClaw* are two runs that are under way at
once and a repetition; *one identity* makes the bound of the registry (2048 in the
code) push a run out.  *Four rows* are a prompt, what it led to, another prompt and
its answer.  *Ticks* of `RelayConnection` keep the order of the code's times
(ping interval below the liveness time-out, both above zero, close time-out not
below the liveness time-out); `MaxTries = 4` reaches the longest delay and stays
there.  In `ActiveRunRecords`, a record lives three ticks (10 min in the code), its grace
after the end is two (60 s), and a lock is old after one (30 s), so that a record can
expire, end and be renewed while a lock is held.

Each property of a passing run has a mutant in `PROJECT.json`: a definition in
which a plausible slip in the code was made (a callback that does not compare
attempts, an entry limit that counts a replaced key, a rollback that is
ignored, a lock that is not compared before it is removed, a retry that
replaces a newer snapshot), under which TLC finds the property violated.

---

## 4. Fairness

`FairSpec` of **ReliableOutbox** assumes weak fairness of: `Connect` (the
reconnect loop always tries again), `Attach` (Relay says hello, or the hello
timer closes the socket, which is a failure), `SocketClosed` (`ws` emits close
after a close or terminate, with its own 30 s timer), the *successful* write
callbacks, `RelayReceives` and the ACK of each key (Relay takes frames from an
open socket and ACKs them), and `Restart` (launchd, systemd or the Task
Scheduler start the service again).  No fairness of failures is assumed, and
failures are bounded by `MaxFaults`: the property is about what happens after
the last of them.  The ACK timer needs no fairness; it fires only against a
Relay that does not answer.

`Fairness` of **HermesChatRuns** is weak fairness of the handler of each command:
every await in it ends (HTTP calls, the transcript and the runtime have
time-outs or end with their process, and promises run their continuations).
Aborts, closes and crashes are never forced.

`FairSpec` of **LatestSnapshotCoalescer** is weak fairness of the jobs of each
state: timers fire, a write is confirmed, refused, or given up after the write
confirmation time-out, and operations end.  New snapshots are never forced.

`Fairness` of **SourceCommits**: the reconnect loop connects and Relay says hello
(else the hello timer closes the connection, a failure); Relay takes frames and
its ACKs arrive (else the ACK timer fires, a failure); the rescan timer notifies
every watcher every 5 s; and each await of a watcher ends (a page is read within
its time-out, media are uploaded or given up, the socket drains within 5 s, a
write is confirmed within its time-out).  Close, failures and changes of the
source are never forced; they are bounded by `MaxFaults`, `EditsOf` and `RowsOf`.

The other modules have no liveness properties: the store is synchronous, and a
start that finds the lock taken fails rather than waits.  Where something must
happen in time, the module has a clock (`RelayConnection`) or the property speaks of
the moment when nothing is left to be done (`RelayLearnsOfChanges`, `StreamIsTold`,
`CommandIsTold`, `NothingHeldBack`), and those hold without fairness.

---

## 5. What is proved

TLAPS proves the following for *every* value of the constants, from the
`ASSUME`s of the modules (names distinct, limits positive, functions total) and from
the hypotheses that are named below, which the theorems state themselves.

**`ReliableOutboxProofs`**, under the assumption `~LateCallbacks` (no `ws.send`
callback runs after the close event of its socket; without it one property is
false, section 6):

- `Invariance`: `Spec => []IInv`.  `NothingLost` alone is not inductive: an ACK
  removes an entry, so one has to know what an ACK on its way is about
  (`TrafficIsQueued`), hence that no second content is written under a key
  while a frame or an ACK of it is on its way, hence that such an entry will not
  be written again on this connection (`TrafficIsMarked`), hence that the one
  outstanding write is the one `sending` names (`WriteIsSending`), hence that the
  outbox is attached to the newest socket (`ConnectionIsLive`); and that memory
  and store agree (`MemoryMirrorsStore`).  These are stated of a *turn* so that
  the proof follows a handler to its `flush()` (`FlushKeeps`) once and uses that
  for every handler.
- `TypeCorrect`, `NoMessageLost` (`NothingLost`), `SingleWrite`
  (`OneWriteOutstanding`), `AcksAreTruthful` (`AckIsForTheQueuedMessage`).
- `OutboxImplementsDelivery`: `Spec => ImplementsDelivery`, the refinement of
  `ReliableDelivery`, step by step from `IInv`.
- `QueueGoesOn` (`KeepsGoing`), `QueueIsInOrder` (`WrittenInOrder`), `ReplaysWait`
  (`NoReplayOnSameConnection`), from `QInv`, which adds to `IInv` what the queue's
  order needs: what is out on this connection, or on its way out, has nothing before
  it that is not out (`OutInOrder`); entries are marked with sockets that said hello
  (`SocketsSeen`), so that a new connection begins at the front; whoever awaits an ACK
  has the timer running (`TimerArmed`); the order lists what is stored, each key once
  (`OrderIsStore`).
- `BytesAreAccounted` (`BytesAccounted`), from `BInv`: what is stored is finite, and its
  lengths, added along the order, give the count; what a key at the end adds and what one
  taken out of the middle takes away is followed by induction.

**`HermesChatRunsProofs`**, for any commands, keys, sessions, connections,
restarts and limit of the guard:

- `RunsInvariance`: `Spec => []RunsInv`.  `LineInv`: tickets are handed out once,
  the tail of a line is the last who got in while anybody is in it, and each
  waits for the one just before it; this gives `TurnsInOrder` (`TurnsAreTaken`).
  `GuardInv`: the guard's map names exactly the runs under way and the verdicts
  it remembers, so pruning never takes a run.  `RepeatInv`: a repeated command
  shares the run of the same message, which was begun.
- `AnswersHold` (`AnswersAreTrue`), `KeysAreFreed` (`SilenceLeavesKeyFree`).
- `RunsOncePerKey`: `Spec => ImplementsRunOnce`, the refinement of
  `RunOncePerKey`.
- `AbandonedAreStopped` (`AbandonedRunsAreAborted`) and `EndsAreFinal`
  (`NoAbortAfterEnd`), from `RegistryInv`: the registry of a connection
  holds exactly the runs that arrived on it and can still be stopped, of a run that
  has not ended nothing but an abort was reported, and then its controller has fired.
  That is more than being told: a slash command's controller fires too, and nobody
  listens; the theorem speaks of those that are told (`ToldToStop`).

**`SourceCommitsProofs`**, for any sessions, rows, hidden rows, page limit, kinds of
Relay, rewrites, new starts and failures.  `CommitsInvariance`: `Spec => []CommitsInv`;
from it `CommitsAreTyped` (`TypeOK`), `RelayIsToldTheTruth` (`ClaimsAreTrue`) and
`SentRowsAreTaken` (`SentIsTaken`).  The invariant says, per session:

- of a watcher (`Good`): what is below its cursor is backed, a walk has left out no
  visible row so far (`Walks`), the page in hand leaves none out and is newer than
  all that was sent before (`PageFits`), and once it is written its rows are at Relay
  or on the wire (`PageIsSent`);
- of the frames on the wire: no row is newer than the source or older than what came
  before (`FramesAgree`), and what a frame's watermark covers is at Relay or in a frame
  that is not behind it (`FramesCover`), so that Relay, which takes them in order,
  never stores a watermark above a gap (`WatermarkFits`);
- of the gate (`GateInv`): the first in it works, all others are queued; hence whose
  page an ACK is about.

All of it is stated of the current transcript: after a new start the old one is free to
be claimed wrongly (section 7).

**`LatestSnapshotCoalescerProofs`**, for any number of snapshots, operations, retries and
states, with `clear` and `dispose` anywhere.  `CoalescerInvariance`; from it
`SnapshotsAreTyped`, `PlacesAreKept` (`OperationsKeepTheirPlace`), `TextNeverShrinks`
(`NeverBackwards`) and `SnapshotsAreFetched` (`NoStall`, that no snapshot is left without
somebody who comes for it).  Argument: all text is with one state, the one in
the map (`OneCarrier`); numbers only grow from what was emitted over what is being sent
and what waits to the latest (`Numbers`); a line has one drain and only at its head does
it send (`LineOK`); an operation in line comes after the text that was there when it was
requested, or behind a drain that does not leave before that is settled
(`Barriers`); and behind those requested before it (`Orders`).  `AllServed` is proved
beside it, since it needs nothing of the rest.

**`OpenClawChatRunsProofs`**, for any commands, keys, runs, lost connections and any bound of
the registry, also when the Gateway gives a run's id again:

- `GatewayInvariance`; from it `NothingStaysBehind` (`NothingHeldBack`),
  `SubscriptionsAreBacked` (`SubscriptionsHold`) and `KeysStartOneRun`
  (`OneRunPerKey`: a key starts at most one run, however often its command is
  delivered).  `OneOwner` is the strengthening: of the commands of one key one is sent, or
  was; the others wait for its verdict.
- `RunsAreApart` (`RunsStayApart`) and `TextsGrow` (`TextOnlyGrows`), from `TextInv`.  It is
  stated of the registry, the coalescer's queue, what was published and the frames, as
  arguments, so that it can be followed through the events that one step hands out.  A run
  id has its *bearers*, the commands that have or had it, and two ids have none in common.
  The registry has a run under the key of its command, or until the answer is here under a
  former one (`Good`), and an end in it is the run's own once the answer is here (`Ended`).
  What is said of a run that is not `mixed` is the present bearer's (`Apart`); such a run, as
  long as it has not ended in the registry, has said its text and nothing else (`Told`), so what
  comes next is longer (`Grows`).  That `mixed` is needed shows in `FrameOk`: a frame of a
  former bearer is on the wire only where the two may mix.

**`OutboxStoreProofs`**, for any keys, thresholds, generations and environments:

- `StoreIsConsistent`: `StoreInv`.  What is synced is durable and is a prefix of the file
  (`SoundDisk`), the journal in use reads as the queue in memory (`JournalIsRead`), and a
  generation that is being written reads as its checkpoint (`NextIsFilled`).
- `JournalIsDurable`, and from it `JournalKeeps` (`JournalIsKept`) and
  `JournalImplementsQueue` (`ImplementsQueue`).  `PlaceInv` says which generation a start would
  load: the one in use is the newest complete one (`GenerationIsNewest`), the one being written
  is above all others (`NextIsHighest`), and should a power loss take its checkpoint there is a
  durable one before it (`Fallback`); `Remembered`, that each queue a start may find has what
  was put and nothing that was removed.  An abandoned newer generation costs failures
  (`StraysCost`), and with enough of them a power loss brings back an old one: the theorems
  take `FewFaults`, that in an environment in which the machine may stop *and* the unlink of a
  sweep may fail, at most two things go wrong.  In the others nothing bounds the failures.

**`DurablePartsProofs`**, of `PartsSpec`.  `JournalRuns`: a behaviour of the parts is, seen
from the journal, one of `OutboxStore`, so that what is proved of the store holds beside
the others.

*The lock* (`StoreLock`), for any number of stores and cleaners:
`LockInvariance`, `WriterIsNamed`, `MutualExclusion`, `ClearIsSafe`.  Argument:
the operation lock keeps those who look at the owner lock apart
(`GateIsHeld`); a lock that was found stale stays stale, for its process does
not come back and nobody else may touch it (`JudgedRight`); a store in use is
alive and named by the lock (`LockIsHeld`), so a second one finds a lock that is
not stale.  `close()` works outside the gate, which is safe because the lock
names the closing store from its reading to its removal.

*The records of active runs* (`RecordsStay`, that is `RunsStayRecorded`), for any lifetimes of
records and locks.  As long as nobody was robbed of the
lock, who works is named in it (`Exclusion`), so what an operation read is still the record when
it writes (`RecordHolds`), and what the other process removes has expired (`OnlyExpiredGoes`).
The theorem takes the lifetimes to be integers and the value for "no record" to be none.  The
attempt to prove it showed that the first version of the module was wrong where the
grace of an ended run is longer than one tick: the property promised a record that had expired
while the operation on it waited for the lock, which the code removes
(`openclaw-active-run-state.ts:180`).  What counts as finished is now what had
not expired by then, and the run has a grace of two ticks.

*openclaw.json and the backups* (`FilesStay`, that is `ConfigIsKept`), for any providers,
commands and limit.  `OneByOne`: as long as no command met another one, the one that runs has
read what the commands before it amount to, and the files are that, or what it makes of it, or
open for its writing (`Fits`).  `BackupsStay`: a backup the mobile was told of is listed, or in
work, or has as many newer ones as are kept; pruning takes the oldest only after the new one is
there (`NewIsThere`).

*The transcript* (`CheckedRowsAreKept`, that is `CheckedRowsStay`), for any transcript in order and
any number of attempts at once.  `TryOk` says of each attempt, whatever the others did: if it has
seen no change of the file it holds the file without its mirrors, and once it has looked again
all rows that were there then (`fresh`) are in what it will rename into place, or were lost to an
earlier rename.  A rename by another attempt changes the version, which the second `stat`
notices, or comes after it, and then whatever it kept and this one lacks was appended since this
one's look and counts as late.

**`LivePartsProofs`**, of `PartsSpec`:

- `ConnectionKeeps` (`ConnectionIsKept`), for any times and delays, from `ConnectionInvariance`: a
  silent network is idle time or an unanswered ping (`Watched`); since the signal there is no
  socket but one that closes (`Stopping`); the attempts in a row have waited for the sum of
  their delays (`Backing`).
- `ChangesAreTold` (`RelayLearnsOfChanges`), for any contents of `jobs.json` and any
  failures: what the watcher has not read it will be told of (`ChangesArePending`), and Relay
  knows what the watcher read, or what it remembers between connections (`RelayKnows`).
- `UploadsAreTrue` (`AttachmentsAreTrue`), for any projections, versions, sizes and chunks: of one
  key one upload runs (`OneSender`), who waits, waits for one that runs (`WaitersAreHeard`), the
  chunks sent of a file that held still are its beginning (`PassOk`), and what is cached under
  a version is that version or a later one (`CacheIsFresh`).
- `TurnsAreApart` (`TurnsKeepApart`), for any keys, turns, sessions and deletions.  `TurnInv` says
  that no two keys have a session in common, in the mapping, the titles, their turns or
  their processes (`SessionsApart`); that the rows of the turn a key is in are after the head
  that was read before and in the session its process writes to (`ProcessOk`); that a turn
  resumes the session of its key unless that was forgotten since (`TurnOk`).  It is
  inductive as long as no session was deleted while the turn that made it ran, and the
  property says no more.

**How recursion is treated.**  The induction theorems of the library take an operator, which
the installed provers cannot instantiate.  Their place is taken by induction for a *set* of
numbers, which follows from the library's `WFMin` (`SetInduction`, `InductionOnSets`); with it
the recursive functions (`BytesAlong`, `Deduped`, `NthDelay`, `Slept`, the reading of a journal)
are followed to the end.

**Only model-checked**, and why:

- Everything under fairness (`EventuallyDelivered`, `EventuallyReleased`,
  `EveryRunEnds`, `RepeatsAreReleased`, `OperationsRun`, `LastTextSettles`,
  `EveryRowArrives`): out of this prover's reach.
- `MediaIsPlaced` and `HistoriesAreTrue`: they are about functions of whole pages, and what
  could be proved of them would be a second definition of the same; their runs enumerate
  the pages.
- `StreamIsTold` and `CommandIsTold`: not attempted.
- What section 6 reports.

---

## 6. Disagreements between the code and what is said of it

The first three are expected violations, each of one property in a run of its own.

1. **A rejection that nobody handles** (`source_orphan`).  `publishNow`
   (`source-commit-publish-flow.ts:80`) creates the promise of the ACK, then
   awaits `send()`: the socket's buffer is polled for up to 5 s, media may be
   uploaded, the write is confirmed.  If the connection closes in that time,
   `close()` rejects the ACK's promise at once; if the ACK timer fires, it does too.
   Neither the `catch` that would silence it nor the `await` that would pass it
   on has been reached, so Node sees an unhandled rejection and, as no
   `unhandledRejection` listener exists, ends the process.  The comment at line 96
   says that each failure is handled by its caller.  (Service managers start the
   process again, and watermarks make the restart lose nothing.)
2. **A rewrite that is never sent** (`source_rewrite`).  A row that was sent is
   rewritten (OpenClaw adds an image to it) and another row is appended before the
   next reading of the cursor.  The cursor has advanced, so the commit path
   projects the rows after the previous cursor only, and then records the *new*
   rewrite generation (`source-commit.ts:183`); later readings find it known.  The
   comment at lines 157-158 says that a rewrite is never missed for that reason,
   and the test at `source-commit.test.ts:282` that the commit's projection reads the
   current content.  Mobile sees the image after it loads the history again.

3. **A run that nobody listens to** (`openclaw_subscription`).  `executeCommand`
   subscribes to the session, then awaits the record of the active run on disk.  When
   the Gateway connection is lost and comes back meanwhile, `onDisconnected` empties
   the set of subscriptions and the request goes out on a connection without any:
   the phone sees no event of the run until it is read from the history.  The comment
   at `relay-manager.ts:1317` says that the subscription comes first so that no event
   is missed.

More were found with TLC in the course of modelling.  They have no run of their own;
how to see each again is said at its end.  For a part of a composite run, state
`part = "..." => Instance!Property` as an invariant of its MC module.

4. **A late callback replays.**  A write of key *k* on socket 1 is outstanding; the
   socket is closing; its ACK removes *k*; the same message is enqueued again (its
   attempts start at 0 again); socket 2 writes it as attempt 1; now the callback of
   socket 1 reports an error for attempt 1.  `settle()`
   (`reliable-relay-outbox.ts:279`) compares attempts only, marks the new entry
   unsent, and `flush()` writes it a second time on socket 2.  It takes a callback
   that runs after the close event, as `ws` does with frames whose compression is
   asynchronous.  Relay sees a duplicate, nothing is lost.  The runs and the proofs
   exclude such callbacks.  (`NoReplayOnSameConnection` in `MCOutboxSafety.cfg` with
   `LateCallbacks = TRUE`.)
5. **A failing directory listing removes the active journal.**
   `removeInactiveGenerations` is called inside the `try` of
   `activateNewGeneration` after the switch (`reliable-relay-outbox-store.ts:354`);
   if its `readdir` throws, the catch block unlinks the new, now active, file.
   Later puts are fsync'd into an unlinked file and are gone at the next start.
   (`PutsSurvive` in `MCDurableParts.cfg`.)
6. **A crash during the very first generation** leaves one incomplete file and
   nothing to fall back to: every later start throws
   `reliable_outbox_store_corrupt`.  (`AlwaysOpenable` in `MCDurableParts.cfg`.)
7. **A crash inside the gate** leaves the operation-lock directory for ever; the
   comment promises that the next owner repairs what a crashed process leaves.
   (`part = "lock" => CrashIsRepaired`.)
8. **A failed upload is begun again.**  The comment at `outgoing-media-relay.ts:84`
   says that the answer "expired" is remembered so that not every projection repeats
   the request; a second projection that was waiting for the failing upload begins
   it once more.  (`Uploads!ExpiredIsRemembered`.)
9. **An alert sent with the message tool is hidden.**  The filter of heartbeats says
   that a heartbeat that raises an alert is kept whole; it looks at texts, and the row
   of a message-tool receipt goes with the rest.  (`OpenClaw!AlertsAreKept`.)
10. **Live and history disagree about a heartbeat** whose pieces were published
   before its answer was known to be nothing.  (`OpenClaw!HeartbeatsAgree`.)
11. **An outcome of another turn.**  With rows of an earlier turn that OpenClaw writes
   after the next prompt, `extractHistoryOutcome` may give a run the text of the
   other.  (`OpenClaw!OutcomeIsOfTheRun` with `Late = TRUE`.)  Likewise
   `latestTerminalAssistantReplyFromHermesExport` looks at the last user row of the
   export, not at that of the run it was asked for.  (`Hermes!ReplyIsOfTheRun`.)
12. **A rewind of another key's turn.**  When two keys name the same Hermes session
   (`hermesSessionId`), their turns are not in one line, and the rewind of the
   cancelled one takes rows of the other.  (`Chat!CompletedTurnsStay` with
   `Named` not empty; `LiveParts`, its run and its theorem have no such commands.)
13. **A provider with a key cannot be added.**  `provider-handlers.ts:51` calls
   `require`, which an ES module does not have; the validation throws and the valid
   key is refused.  (`Config!ValidKeysAreTaken`.)
14. **Lines are joined.**  A piece of output that is nothing but the end of a line is
   dropped by the line pump, and the next line is told as part of this one.
   (`CommandIsTold` with `BlankPieces = TRUE`.)
15. **An old usage is told last.**  The forced refresh of all sessions publishes the
   list it read before turns that ended meanwhile, as the comment at
   `relay-manager.ts:1423` grants (`Usage!UsageSettles` with `Quick = FALSE`).  The
   property also fails when two agents have a session of one name, since
   `sessionKeyCandidates` tries the bare name and the first in the list is taken; and,
   with files and a renamed main session, before the configuration is known.

---

## 7. Limits

**Abstractions, per module**

- *ReliableOutbox.* Contents stand for hashes and bodies at once (equal contents,
  equal hashes); a key with new content is refused as in the code.  The bodies of
  messages other than their length are not modelled.  A ghost put -- a record that
  stays in the log although `put` threw and its rollback failed -- is left to
  `OutboxStore`, where the store is then broken and refuses everything; in
  `ReliableOutbox` a failing store fails cleanly.  `clear()` is called by tests
  only.  Relay is external: it takes frames of one socket in any order and ACKs
  what it took; whether it deduplicates by key is not the Agent's business.
- *OutboxStore.* Sizes are counted in records, with `MinRecords` and `Headroom`
  for the thresholds in bytes.  Names of files are durable once the call that
  changed them returns, because the code fsyncs the directory where it matters
  (where the platform allows it); and `rm` of an abandoned generation fails only
  where the environment says so.  After the death of the process alone, what was written
  but not synced is read again, and may later be lost with the machine: that is
  what `firm` in `DurableQueue` says.  With `unlink` failing too, an abandoned
  higher generation can stay behind, and `PutsSurvive` is then violated with three
  failures.  With power loss and no failing unlink other than that of
  `Sweep`, `PutsSurvive` holds for three failures and fails for four: a death during
  a compaction, an unlink that fails, a death between the write and the fsync of
  the next compaction, and a power loss.  This is listed as a hazard.
- *StoreLock.* One gateway of a directory; the code shares the operation lock
  between all gateways of a directory, which only keeps more apart.  A process id
  that is used again by another program makes a stale lock look alive, which fails
  closed and is not modelled.
- *HermesChatRuns.* Run ids are distinct per key.  Verdicts given in the same
  millisecond are taken in order of the clock variable, with ties resolved in any
  way.  Commands without key have no entry in the guard.  Errors after the model has
  completed cannot be thrown in the code modelled.  A voice command is accepted
  after its transcript; one whose connection closed meanwhile registers with the
  closed connection's registry and is not aborted, and a slash command hears of no abort,
  so `AbandonedRunsAreAborted` is about the others.  A run that was aborted may still
  publish its final, as in the code.  Attachments are awaited before a command gets in line: commands accepted
  later may overtake it, so `TurnsInOrder` is about the order in the line, not of
  acceptance, although `hermes-runtime-chat-queue.ts:1` speaks of submission.  The
  guard is memory: after a restart the same key may run again, although the comment
  at `hermes-relay-manager.ts:614` says that it must never; `RunOncePerKey`
  therefore has a `Restart`.
- *LatestSnapshotCoalescer.* One key, since keys share only the bound on
  remembered closed ones: its eviction is `Forget`, at any time.  The promise that
  `flush()` returns is not observed.  The microtasks between the end of a job and
  its clean-up are one step with it.  Order and barrier hold until a `clear` or
  `dispose`, as the properties say: after a `clear`, the state leaves the map even
  while an operation is in its line (the tail is compared with itself), and a new
  state's operations may run beside it.  The `scheduleDrain` at line 270 does
  nothing, for the drain is still marked as running; the finally block arms the
  timer.
- *SourceCommits.* The properties speak of each session's current transcript.  Pages
  are read by session key, so after a new start between the reading of the cursor
  and that of a page, rows of the new transcript go out under the commit of the old
  one (`origin` of a frame); the model has that step, and the old scope's watermark then
  claims rows it never had.  Relay keeps the last content it was given of a row.
  Watchers end with their connection at once: a frame that is `writing` at the close
  may or may not have arrived, and its ACK's promise, rejected then as well, is not
  counted by `FailuresReachTheirCaller`, because `ws` may run its callback first.  A handler
  that awaits across the close can still call `ensureSourceCommitWatcher`
  (`relay-manager.ts:1420`) and leave a watcher that nothing closes; it has no
  effect on Relay, and is not modelled.  Gaps in the sequence numbers of the
  transcript, which fail the walk, do not occur in the model; nor does an OpenClaw
  without rewrite watermarks, or the cache of database connections.
- *OpenClawChatRuns.*  The Gateway is external: it answers, runs and may be lost, and gives
  the id of a run again only when that run is over and its command settled.  In a run that
  is `mixed`, a late delta of the former run is taken for one of the new one's command.  A
  text is a number of deltas.  Commands other than `chat.send` and `chat.abort`, and the
  answers to mobile, are left out.
- *TranscriptDedupe.*  One run id.
- *ActiveRunRecords.*  One run.  Behaviours in which a holder was stalled until its
  lock was removed (`robbed`) are left out of the property: release removes whatever
  lock is there.  Nothing is promised of a record that expires while an operation on it
  waits for the lock.
- *OpenClawConfig.*  The property holds of commands that did not overlap and were
  not cut short (`mixed`), and of backups that were not cut short in an update.
- *RelayConnection.*  No timer is late.  The stop is asked once.
- *CronChanges.*  A change that was read while the socket could take no more frames
  is lost although its digest was kept (`missed`).
- *ContextUsage.*  `Quick`, as said in section 6; a usage that goes back under another
  name of the session could be hidden by its fingerprint, and usages only grow here.  A
  dashboard is left out by the refresh after a lost connection, and by the property.
- *MediaUploads*, *MediaRows.*  One attachment; a sidecar that names another sidecar does
  not occur.
- *HermesTurn*, *HermesHistory*, *OpenClawHistory.*  Rows have kinds in place of
  contents.  A process that was told to stop may still write for a while
  (`child`), which is what the waits in the code are for.  A deleted session stays deleted.
- *StreamedCommand.*  Words in place of characters; pieces have at least one
  (section 6).

**Not modelled**

- The eviction of the outbox registry, which takes 64 identities in one process.
- The builders of timeline events, the event log and the normalizers of payloads,
  office events and the shape of messages: pure functions of large payloads.
- Pending file transfers and the mobile file routes of Hermes, staging of
  attachments and voice input.
- The handlers that read a file or ask the `openclaw` program and answer; the
  commands of the command line; the services of the operating system; `dist/`
  (generated) and `scripts/`.

---

## 8. Plan

Every component but those listed at the end of section 7 has at least its concurrent part in
a module, and the safety properties of the delivery path and of what is kept on disk are
proved, as are those of the connection, the cron watcher, the uploads and the turns of
Hermes.  Next, in order of importance to a user:

1. `OpenClawChatRuns` shown to implement `RunOncePerKey`.  Its `OneRunPerKey` is the
   safety part; the mapping needs to tell an owner that failed from one that joined.
2. The outbox where callbacks run after the close of their socket (`LateCallbacks`): which of
   its properties remain, and a proof of those.
3. Proofs of `StreamIsTold` and `CommandIsTold`.
4. The pending file transfers of Hermes (expiry, continuation turns, restart) and the
   timeline's idempotency tracker.

The bounds of new runs follow those above: two of each actor, a third where order
needs it, two failures.
