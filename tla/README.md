# OpenRemote Control: a TLA+ model

OpenRemote Control lets an operator drive coding agents on his own machines
from a chat app. A Django/Channels backend (`backend/`) keeps the state and
talks to Telegram or, through a Node sidecar, to other platforms; a Python
daemon on each machine (`host-agent/`) runs the agents and streams their output
back over a WebSocket; an MCP bridge (`connectors/orc-mcp/`) lets an agent ask
its operator a question or for an approval.

These modules model the parts of the system where processes, callbacks and
failures meet, and say what must stay true whatever the order of events. Paths
below are relative to the repository; `PROJECT.json` maps every definition to the
lines it translates and lists the hazards the properties are for.

Contents: 1 inventory, 2 plan, 3 modules, 4 runs, 5 bounds, 6 fairness,
7 proofs, 8 where the code and what is said of it differ, 9 abstractions,
10 not modelled.

## 1. Inventory

| Part | State it keeps | Operations | What is hard | What makes it correct |
|---|---|---|---|---|
| Prompt lifecycle (`backend/apps/prompts`) | prompt rows: status, options, expiry, response, bound action | `create_prompt`, `resolve` | several resolvers of one nonce; expiry noticed only by a resolve | an answer is final; only valid, timely answers are recorded |
| Connector questions and approvals (`backend/apps/connectors`, `connectors/orc-mcp/orc_mcp/client.py`, `host-agent/.../sdk_session.py`) | the polling clients | `ask`, `approve`, `result`, `resolve_pending_ask`, the poll loops | deadline against late answer; selection and resolve in two transactions; a POST that fails half way | approvals fail closed; the agent hears what the operator said; every wait ends |
| Telegram bot (`backend/apps/telegram`) | last update id in the cache, offset, batch, watchdog | `handle_update`, `handle_forum_reply`, `handle_callback_query`, the polling loop | restart or hang between handling and persisting; a cache entry that expires; state that changes between a handler's awaits | nothing is injected without an Allow, or twice; no update is lost |
| Session start (`connectors/service.py`) | thread, connector and topic per session; advisory locks | `start_session`: the Thread, the connector row, `_ensure_session_topic_once` | two starts at once; the process ends between two transactions | one thread and one topic per session |
| Host link and topic delivery (`backend/apps/hostlink`, `backend/apps/observe`) | bounded queue per connection, digest in the thread's metadata, dedup cache, recorded keys | `receive`, `record_turn`, `deliver_turn`, the drainer, `disconnect` | stale snapshots of the metadata, drop-oldest, deleted topics, resent lines, a closing connection | one edited message per drive; each line shown once; nothing left in a closed queue |
| Host agent: outbound queue (`host-agent/.../wsclient.py`, `queue.py`) | in-memory queue, queue file, connection | `run_sender`, drain, `enqueue` | coroutines outliving their connection; crash in mid-drain | no accepted event lost, sent twice or reordered |
| Host agent: transcript tail (`transcript_tail.py`) | file offset, remainder, suppress window, epoch | poll, `drive_started`, `drive_finished`, `tail.start`, `tail.stop` | reads in flight while a drive ends; half-written lines | each turn is posted once |
| Host agent: session drives (`interactive_engine`, `codex_engine`, `claude_headless`, `sdk_session`) | an engine per session, its process and reader thread, the session's lock, the session id that the next turn resumes | `headless.prompt`, `send`, reader loops, stop, the second try with the other flag | a process dies with a turn in flight; a turn times out; two readers; a hint that is wrong | one turn at a time, one verdict each, no prompt run twice, one conversation |
| Host agent: terminals (`pty_session.py`, `pty_stream.py`, `input_policy.py`, `run_cmd.py`) | tmux sessions, the names a process owns and their file, the diff of each stream, rows of the sessions | `pty.inject`, `session.start`, `/stop`, the stream, heartbeat and reconcile, the consumer's handlers | one command reaches every process of the host; the daemon dies between a session and its note in the file; frames older than the row they meet | a text is typed once; the daemon keeps its sessions; lines once and in order; an end is seen |
| Host agent: enrolment and signing (`enroll.py`, `signing.py`, `config.py`, `backend/apps/hosts`) | keys, nonces | signed requests | replay window | - |
| Messaging gateway (`backend/apps/gateway`, `connectors/messaging-gateway`) | outbox rows, the sidecar's batch, the chat's thread | `enqueue`, `claim_outbox`, the poll loop, `handle_inbound`, `dispatch_text` | rows claimed before they are sent; messages handled at once by several workers; a prompt chosen in one transaction and resolved in another | sent once and in order; a message said to be recorded is the answer; one thread per chat |
| MCP bridge (`connectors/orc-mcp`) | pairing | tools, `pair` | - | - |
| Threads and dispatch (`backend/apps/threads`, `tier2`) | messages | dispatch a text, stream a model's answer | sequence numbers by `max + 1` | - |
| Setup wizard (`backend/apps/setup`) | one-time tokens, the `SetupState` row, the challenge code, the `.env` file and its lock | the gate, page, advance, complete, token, discover, `setup_token` | overlapping requests that each hold a copy of the row; calls to Telegram of 15 s between check and write; two writers of a file; a worker killed while it writes | the file keeps every write; a token works once; connected means configured; every request ends |
| Approvals and policies (`backend/apps/approvals`, `policies`) | approval rows | decide, expire | decision against expiry | decided once |
| Supervisor, slash commands, dashboard | pinned message | classify, render | - | - |
| CRUD apps and settings | rows | REST views | - | - |

The backend is served by four worker processes (`backend/Dockerfile:49-51`)
without a transaction around each request, so wherever requests meet rows, the
modules let them overlap, one database call at a time.

How they interact. An agent's question becomes a prompt row (connectors), which
the bot or the outbox shows and whose answer the bot, the gateway's endpoint or a
second worker records through `resolve`; the agent polls. A text in a session's
topic goes from the bot as a host command to the daemon's `headless.prompt`,
which runs a turn on an engine under the session's lock and brackets it with
`drive_started` and `drive_finished` of the session's tail, or as `pty.inject` to
whichever process owns the terminal. What the engine streams and the tail
reads is handed to the outbound queue, reaches a connection's `receive` loop,
is recorded and queued for that connection's drainer, and is posted or edited
into the session's topic. Topics and rows are shared between the drainers and
`start_session`, through one JSON field that each of them saves as a whole.

## 2. Plan

Order: the paths on which a wrong step lets an agent act without its operator
first, then the paths on which something is lost or shown twice.

| Module | Status | Role |
|---|---|---|
| `Prompts`, `Prompts_proofs` | done | the table and its writers, and what they do to it; extended by the three that use it |
| `ConnectorAsk`, `MCConnectorAsk`, `ConnectorAsk_proofs` | done | clients, operator and bot workers on the table; its four safety properties proved |
| `TelegramBot`, `MCTelegramBot`, `Channels_proofs` | done | the bot process on the same table; both its invariants proved |
| `Selection` | done | what a filter leaves of a sequence, for the next two |
| `HostSender`, `MCHostSender`, `HostDelivery_proofs` | done | the daemon's outbound path; both its invariants proved |
| `TranscriptTail`, `MCTranscriptTail`, `HostDelivery_proofs` | done | the tail and the drives' bracket; both its invariants and its action property proved |
| `TurnEngine` | done | abstract: what a drive relies on |
| `TurnCaller`; `InteractiveEngine`, `CodexEngine`, `HeadlessRun` | done | the caller of a turn; the engines that extend it |
| `Drives`, `MCDrives`, `Drives_proofs` | done | `headless.prompt` with any of the engines; implements `TurnEngine`, and that and its four invariants proved |
| `ThreadRows`, `StartSession`, `TopicDelivery` | done | rows and forum; the two components that share them |
| `SessionTopics`, `MCSessionTopics`, `SessionTopics_proofs` | done | their composition; its six invariants proved |
| `PtySessions`, `Terminals`, `MCTerminals`, `Terminals_proofs` | done | tmux; daemon, `orc run`, backend and bot around it; its three invariants and its action property proved |
| `Gateway`, `MCGateway`, `Channels_proofs` | done | outbox, sidecar, inbound endpoint; its three invariants proved |
| `Setup`, `MCSetup`, `Setup_proofs` | done | the wizard; its four invariants proved |
| `Dispatch` | next | `dispatch_text` and the sequence numbers of its messages |
| `ApprovalExpiry` | planned | decision against the expiry task |
| `register_or_touch`, `notify` | planned | in `ConnectorAsk`, then in `StartSession` (both bind connectors) |

Every invariant and every safety action property that a run checks is proved (7). Theorems worth proving
next are those of the modules still to come: that two dispatches into a thread never give a message the
same sequence number, and that an expired approval is not acted upon.

## 3. Modules and the code

**`Prompts`** - `backend/apps/prompts/service.py`. `prompts` is the table, a row's
index its nonce (`nextId` hands them out); `CreatePrompt` is `create_prompt`,
`Resolve` is `resolve`: the row lock spans read, checks and write, so each
outcome is one step (`RecordAnswer`, or `RefuseAnswer`, which marks an expired
row when somebody tries to answer it - nothing else does).

**`ConnectorAsk`** - `client[a]` is the loop of `ask_human`, `request_approval` (both
in `orc_mcp/client.py`) or of the SDK's tool gate (`sdk_session.py`), by `kind`.
`PostPrompt` is the POST with every way it can go wrong (created but not
delivered, created but the reply lost). `PollRead` reads the row, `PollDecide`
acts on what was read: between them anything may happen. The MCP loops look at
the clock after a read, the SDK's loop before one (`ChecksAfterRead`,
`GiveUpAsleep`). On the operator's side `Tap` is `handle_callback_query`, and a
typed text is `PickAsk` (the select of `resolve_pending_ask`) followed by
`ResolvePicked` in a transaction of its own. `meant` is history: what the
operator tapped or typed.

**`TelegramBot`** - the process of `run_telegram_bot.py`. `bot` holds the loop's
locals and the step of the handler it awaits; `stored`/`storedAt` is the cache
entry `telegram:last_update_id`, which lives `KeyTTL`; `confirmed` is what
Telegram considers delivered. One action per await: `Pick`, `Answer`, `Route`,
`Deliver` for texts (`handle_forum_reply`, `handle_update`, `/run`), `ResolveTap`
and `Act` for taps, `Raise` for an exception anywhere, then `Persist`. `Hang`, `Watchdog`
and `Crash` end the process at any of them. `effects` is history: what left the
process, with the update and the prompt it came from.

**`HostSender`** - `run_sender` and `OfflineQueue`. `Connect` opens a socket and
reads the file; `DrainSend`, `DrainFail`, `DrainEnd` are the drain before the gather;
`SenderTake`, `SendOk`, `SendFail` are one `sender()` coroutine per connection.
When the gather fails, `Teardown` leaves the sender of that connection alive:
`gather` does not cancel it, and `ws` is a variable of the enclosing function, so
it goes on with the next socket. `Crash` keeps only the file, perhaps with a
record cut short. What `_read_all` and the drain leave out (torn lines, oversized events) is said
with `Selected` of **`Selection`**: the elements of a sequence that are in a set, in their order.

**`TranscriptTail`** - `tails` are the `TranscriptTail` objects. The file is its
length in half lines, so a poll can see a line half written. A poll is `Tick`,
`Find`, `StatSize`, `Resume`, `ProcessRead`: the executor's reads and the event
loop's turns alternate with everything else. `DriveStart`, `DriveOk`, `DriveFail` are
the bracket of `headless.prompt`, `TailStart` and `TailStop` the two commands.

**`TurnEngine`** is what `headless.prompt` (`wsclient.py`) relies on, as an abstract
specification: turns in order, one at a time, one verdict each in the end, "ok"
only for a prompt the agent completed. Four engines keep it:

- **`TurnCaller`** is the caller's side that they share: `NextPrompt` under the
  session's lock, `Wake` and `GiveUp` of the wait for the turn's Event, and
  `MarkStarted`, the backend's note that makes the next prompt carry the flag
  `started`.
- **`InteractiveEngine`** - one claude process for all turns. The caller (`Ask`,
  `Send` or `SendQueued`, `Timeout`, `Stop`), the processes (`Take`, `Result`, `Die`)
  and their reader threads (`ReadResult`, whose callback runs before the lock is
  taken; `Settle`, under the lock; `ReadEof`).
- **`CodexEngine`** - a process per turn. `ReadSession` moves the session the next
  turn resumes to the fork this one reported; `ReadFinal` and `ReadEof` end the
  turn, by `EndsTurn`, which also begins the first prompt of the engine's queue. A
  session id is the set of turns the session holds, so that "the
  conversation goes on" can be said. A process may report an end more than once, and
  the engine takes a report for the turn in flight, whose process it is or not:
  `crossed` is history, the turns that another prompt's process ended. Then the
  next prompt finds a turn in flight (`SendQueues`).
- **`HeadlessRun`** - `run_headless_streaming` and the SDK's `run_turn`: a process
  that creates the session or resumes it, as the flag hints, and then perhaps a
  second that does the other thing.

**`Drives`** is `headless.prompt` itself: `mode` says which branch runs the thread's
turns, an instance of each engine module takes its steps. The refinement is
`TE == INSTANCE TurnEngine WITH verdict <- verdict, completed <- completed \cup
Reported`: the abstract completed turns are those the agent finished, with the
SDK engine also those it reported any result of (see 8), and with Codex those that the
success of another prompt's process ended (`Misreported`). That a turn succeeds by what its
own process reports (`VerdictIsOwn`) does not hold for Codex (see 8).

**`ThreadRows`** has what the next two share: Thread rows with their metadata, the
forum's topics, and a budget of trouble. **`StartSession`** is `start_session`: `FindThread`
and `WriteThread` are the transaction that finds or creates the Thread under the advisory
lock, `BindConnector` and `InsertConnector` the `ConnectorInstance` row
(`connector_id` is unique), `CheckTopic` and `CreateTopic` `_ensure_session_topic_once`,
`Abort` the death of the process at any point: its transaction is undone, its
lock released, a topic already created stays. **`TopicDelivery`** is
`hostlink/consumers.py` and `observe/delivery.py`: `Receive`, `Ready`, `Record`,
`MarkStarted` on the receive loop; `Take`, `MakeTopic`, `PostUser`, `PostStep` in the
drainer; `Disconnect`, `Closed`, `Cancel` at the end of a connection; `DedupExpires`
for the cache. `obj[f]` is the metadata of the Thread object a frame fetched; it
travels through the queue and is written back as a whole. **`SessionTopics`**
composes them and states the properties; its variable `rushed` is history: rows
of which two copies were in hands at once.

**`PtySessions`** is tmux as `pty_session.py` uses it (`NewSession` refuses a name in
use, `Prints`, `Erases`, `Exits`), the diff of `pty_stream.py` (`NewLines`) and the gate of
`input_policy.py` (`Risk`, `MayType`). A session is addressed by its name and numbered
by its making, so that a name that is used again is told apart. **`Terminals`** is
everything around it. `proc` are the daemon and the `orc run` processes with the
names they own, `file` is `owned-sessions.json`, `conns` are connections with the
frames on the wire and the commands not yet read. A command goes to the group of
the host, so `Send` puts it before every process: `HandleInject`, `HandleKill`,
`HandleStart` and `HandlePrompt` decide by what the process knows. What the daemon
owns is noted by `Flush`, whose write may fail: that is logged, the registry and the
file differ from then on (`unsaved`, history), and only the next write makes it good. `Polls` and
`StreamEnds` are a stream, `Heartbeat`, `DaemonConnects` and `DaemonSends` the daemon's
frames, `DaemonDies` and `DiesInStart` its end (the latter between `new-session` and
the note in the file), `PtyStart`, `PtyOutput`, `PtyEnd`, `PtyReconcile` the consumer's
handlers, `StopSends` and `StopMarks` the bot's `/stop`. `asOf` in a frame is history:
how many sessions had been made when it was built.

**`Gateway`** extends `Prompts`. A row of the outbox is known by its place in the order of
`created_at`, which is stamped in Python (`Stamped`) before the row is in the table
(`Inserts`): a row may appear behind newer ones that are claimed.
`SessionAsks` and `Mirrors` make rows; `SideStarts`, `SideEnds`, `LinkChanges`, `Polls`
and `Delivers` are the sidecar (`index.ts`, `adapters/whatsapp.ts`): a batch is claimed
first and then sent row by row, and a send that raises is logged and forgotten.
`Relays` hands a message to the endpoint; `Looks`, `BindsChat`, `Reads`, `Resolves`,
`Dispatches` are `handle_inbound`, a step for each database call. `put`, `claimed`, `side.batch`
and `sent` (history) are what became of the rows; a row's `before` is history too, the
rows that were in the table when it began.

**`Setup`** - a request is at `pc[r]` of its view, with its copy of the row (`row[r]`) and
of the file (`file[r]`). `Gates` and `Verifies` are the permission and the token check,
`Revokes`, `Mints` and `Answers` the token exchange of the page and `setup_token`,
`Loads` and `Saves` `AdvanceView`, `Commits` `CompleteView` (one transaction that locks
the token's row), `GetsMe`, `ReadsEnv`, `GetsUpdates`, `IssuesCode`, `Connects` the two
Telegram views, `Locks`, `Replaces` and `WriteFails` `update_env` under its flock (a write
that fails may have replaced the file: the sync of its directory comes after).
`Ends` is the worker's end at any step, which releases the flock. `written` (each
setting as last written) and `spent` (completions) are history.

The `MC*` modules only give constants their values.

Every module that has variables states its types in `TypeOK` (`GatewayTypeOK`, `SenderTypeOK`, `TailTypeOK` where
a proof module extends two of them), with what goes a little beyond them in the comment above it. The proofs carry
the types they need in their invariants; all hold in the instances below too, and are left out of the `.cfg`
files, which list the properties that are about the code.

## 4. Runs

| Run | States | Question and result |
|---|---|---|
| `ask` | 123 k | Two clients of any kind in threads of their own, two workers, an operator who taps and types at any moment, prompts that expire while they are polled. Approvals fail closed (`FailClosed`), an answer is final (`AnswerIsFinal`) and reaches its agent unchanged (`AgentHearsOperator`); every wait ends (`WaitEnds`), and an answer recorded during a sleep of an MCP client is still picked up (`SleepingClientHears`). |
| `bot` | 904 k | Two updates of any kind in four topics, an approval or a question among them, a restart or a hang at any await. Nothing unapproved reaches a terminal and an approval acts once, as bound (`ApprovedOnce`); a message has one outcome per life of the process, in its own topic (`OneOutcome`); every update is handled in the end, so none is skipped (`UpdateHandled`). |
| `sender` | 25 k | Four events, four connections, drops, teardowns, an oversized event, a crash. With no sender left over nothing is lost or reordered (`AloneKeepsAll`); nothing is sent twice without a crash (`SentOnce`); what is on disk goes out (`DiskDrains`). |
| `tail` | 563 k | Two lines written in halves by the editor or the drive, a drive, a tail stopped or replaced at any point. No echo of a drive whose tail could see it (`NoEcho`); each line once, in order (`OnceInOrder`); everything posted while no drive succeeds (`TurnArrives`); user turns held back are replayed (`HeldUserTurnsReplayed`). |
| `drives` | 904 k | Turns on each engine, whose processes may die at any point, answer late, report twice and time out. All engines implement `TurnEngine` (`KeepsContract`, its liveness included); no prompt is worked on by two processes, the SDK engine's creating turn excepted (`WorkedOnce`); no caller of the persistent engine waits for nothing (`NoVainWait`); a Codex turn resumes what the turns answered before left, unless one of them was ended by another's report (`ContinuesConversation`); a wrong hint alone fails no turn (`HintNeverDecides`). |
| `topics` | 2.3 M | Four of requests, connections and frames, two things going wrong. One thread per session (`OneThreadPerSession`), one topic if the row was in one hand at a time and nothing failed (`OneTopicPerThread`), one message per drive under the same condition (`PacedDriveIsOneMessage`), each line shown once (`LinePostedOnce`), a user turn shown in spite of a deleted topic (`UserTurnShown`), nothing left behind in a closed connection (`ClosedIsDrained`). |
| `terminals` | 340 k | A daemon that dies and comes back, whose writes of its file may fail, an `orc run` beside it that may take the name of a launch, commands on their way while connections break. A text is typed once, by one process and by that one once, though every process hears of it (`TypedOnce`); the daemon owns what it launched, after its restarts too, unless it died in a launch or with a failed write not made good (`DaemonKeepsItsSessions`); lines are recorded once and in order (`LinesOnceInOrder`); a living session's row is completed only by a frame older than the session (`LiveRowEndsOnOldNews`); an end is seen in the row (`EndIsSeen`). |
| `terminals_overlap` | violated | `DrivesNeverOverlap`: see 8.1. |
| `gateway` | 717 k | Prompts, turns, messages that overlap in the endpoint, rows inserted later than they were stamped, failing polls and sends, a sidecar that ends. A row is sent at most once, and not after a row that began when it was already in the table (`SentOnceInOrder`), a message that is said to be recorded is the answer (`RecordedIsTheAnswer`), a chat is one thread (`OneThreadPerChat`), every row inserted is claimed (`OutboxDrains`). |
| `gateway_reply` | violated | `ReplyAnswers`: see 8.2. |
| `setup` | 291 k | Overlapping requests of every kind from several starting points, failing and interrupted writes, tokens that expire, a wizard that is reopened. The env file keeps every write (`EnvKeepsEveryWrite`), connected means configured (`ConnectedIsConfigured`), a token completes once (`TokenSpentOnce`), the token of a URL dies when it is traded (`UrlDiesOnUse`), every request ends (`RequestsEnd`). |
| `setup_late` | violated | `NoLateWrite`: see 8.3. |

Every property of a passing run has a mutant in `PROJECT.json`: a form of one of
the modelled operators with a plausible bug (a search without its lock, an epoch
not compared, a gate that fails open), for which the same run finds the property
violated. The mutated forms stand beside the operators they change.

All runs have deadlock checking off, for one reason: the bounds end every
behaviour, and the real system may also come to rest (nobody asks, nothing is
written). That something still happens where it must is what the liveness
properties say.

## 5. Bounds

- `ConnectorAsk`: two clients, two workers and two prompts are what it takes for
  two resolvers of one prompt beside a second client with its own. A prompt lives
  one tick and a client waits two, so that prompts expire before, at and after a
  read; a tick stands for ten minutes.
- `TelegramBot`: two updates make every pair of kinds (an approval and the tap on
  it, a question's answer twice); one restart; four topics are the four ways a
  text is treated. `Stall = KeyTTL = 1` since both are 300 s.
- `HostSender`: a left-over sender interferes with the drain of the connection
  after next; four connections make room for it, with a last one that
  works. `MaxCrashes = 1` lets a crash fall into a drain.
- `TranscriptTail`: two lines are an older and a newer one, four halves; one drive
  and two tails: the one the drive found and one that replaces it. The role that a
  tail skips is left out of the run, since a line without a post is then only a longer file.
- `Drives`: three turns are one left behind, one in flight, one queued. An engine
  starts at most two processes per turn, so processes need no bound. A process that
  is started for each turn has no memory but the two flags, hence two turns
  (`MaxRuns`). `MaxFinals = 2` and `MaxAgain = 1`: one Codex process reports its end twice, which
  is what it takes to end the next prompt's turn, and a third turn then meets the one
  left behind; the proof (7) holds for every bound.
- `SessionTopics`: three requests (two for one session over one connector, one
  without a session), three frames, two connections, a queue of two; at most four
  arrivals in all and two troubles (a failing call, a deleted topic, a
  process ended). Five arrivals of two requests, two frames and two connections
  with one trouble were explored too (9.6 M states), with the same result. A frame that
  begins a message and is never posted matters only to a fourth frame: one request, four
  frames on one connection and no trouble (937 k states) show that
  `PacedDriveIsOneMessage` needs `Continues` to count posted frames only; the
  proof (7) holds for every bound.
- `Terminals`: two sessions and two names make a name that is used again; two lines
  and a capture of two (`History`) a screen that scrolls out. A behaviour draws its limits
  from `MCLimits`: lines, commands, faults and which `orc run` there is. Each limit
  leaves out what the others have (commands without output, output without commands),
  because a stream and a command meet only in the name they share. One of them has a
  launch and two faults, a failed write of the file and a death of the daemon.
- `Gateway`: limits are drawn in the same way: three turns and two failures; a prompt and
  two messages (two answers at once, or an answer and a new chat); two first
  messages at once; two prompts, one message and a failure. `Batch = 2` (20 in the code) with
  three rows has a full batch, a rest and an empty poll.
- `Setup`: each of the seven limits is a start state and what may happen from it: two
  tabs that advance and complete; the same with a bot token, a failure and a tick;
  a connection of Telegram from nothing with a failing write; two discoveries beside
  an advance; two discoveries and a second bot; two page loads with the
  command and a worker's end; a completed wizard that is reopened twice under an old
  page. At most four requests; a token lives one tick.

Symmetry is not used: most sets have one or two members, and with liveness it
would not be sound.

## 6. Fairness

- `ConnectorAsk`: the loop of a client that waits is a program that sleeps and polls,
  so its steps are weakly fair, and time passes. The SDK's loop counts its
  sleeps: it is always between two polls again, hence strong fairness of its
  giving up. Nobody owes an answer.
- `TelegramBot`: the loop and its handlers run unless hung; the watchdog's task
  runs as long as the process; launchd restarts it (`KeepAlive`); time passes.
- `HostSender`: `run_sender`'s loop reconnects for ever, a coroutine that can run is
  run, a dead socket is noticed by its receiver (ping timeout). That connections stop
  failing is the bound `MaxConnects`: the last one works.
- `TranscriptTail`: the poll loop catches every exception and goes on; a drive ends
  by its timeout at the latest; a line begun is ended.
- `Drives`: the caller's waits have timeouts (600 s), the watchdog of a process of its
  own kills it, reader threads run. Nothing is assumed of the agents: one may never
  answer and may die.
- `Terminals`: the daemon is a service that is started again (`KeepAlive`), its loop
  reconnects, its heartbeat ticks and its queue is sent; the consumer handles what
  arrives. The heartbeat's fairness includes that tmux answers its enumeration in the end
  (`list_sessions`, at which a heartbeat that fails is tried again at the next tick), that of a host
  with no session left too. Nothing is assumed of the programs in tmux, of `orc run` or of the operator.
- `Gateway`: the sidecar is restarted (`restart: unless-stopped`) and its loop, which
  catches every exception, goes on polling and sending. Platforms owe nothing.
- `Setup`: a worker goes on with its requests, since the calls to Telegram time out
  (15 s) and the flock is released when its holder ends. A worker may still end at any step.
- `SessionTopics` is checked for safety only: `GoesWrong`, bounds and drop-oldest leave
  little that must happen, and `ClosedIsDrained` says the part that matters as an invariant.

## 7. Proofs

TLAPS proves the following for every value of the constants that satisfies the
modules' assumptions (`PromptsAssumption`, `ConnectorAskAssumption`, `BotAssumption`,
`GatewayAssumption`, `HostSenderAssumption`, `TailAssumption`, `SetupAssumption`, `TopicDeliveryAssumption`, `IdsDiffer`,
`CallerAssumption`, `DrivesAssumption`, `PtySessionsAssumption` and `TerminalsAssumption`: sets are as
the code makes them, ids of different kinds differ, bounds are naturals, a queue has room for one).
Two theorems have a hypothesis of their own, named in their statement and explained below.

| Module | Proved of every behaviour | Hypothesis |
|---|---|---|
| `ConnectorAsk_proofs` | `TypeOK`, `FailClosed`, `OwnPrompt`, `AnswerIsFinal`; `AgentHearsOperator` | the last: `KeysTellLabels` |
| `Channels_proofs` | of the bot: `BotInv` (with `TypeOK`), `ApprovedOnce`, `OneOutcome`; of the gateway: `SentOnceInOrder`, `OneThreadPerChat`, `RecordedIsTheAnswer` | |
| `HostDelivery_proofs` | of the queue: `SenderInv` (with types), `SentOnce`, `AloneKeepsAll`; of the tail: `TailInv` (with types), `NoEcho`, `OnceInOrder`, `HeldUserTurnsReplayed` | |
| `SessionTopics_proofs` | `OneThreadPerSession`, `ClosedIsDrained`, `LinePostedOnce`, `UserTurnShown`, `OneTopicPerThread`, `PacedDriveIsOneMessage` | |
| `Drives_proofs` | the safety part of `KeepsContract`, `WorkedOnce`, `ContinuesConversation`; `NoVainWait`, `HintNeverDecides` | |
| `Terminals_proofs` | `IInv` (with types), `TypedOnce`, `DaemonKeepsItsSessions`; `NewsInv`, `LiveRowEndsOnOldNews`; `LineInv`, `LinesOnceInOrder` | |
| `Setup_proofs` | `EnvKeepsEveryWrite`, `TokenSpentOnce`, `UrlDiesOnUse`; `ConnectedIsConfigured` | the last: `StartsConfigured` |

**`Prompts_proofs`** holds no theorem of its own: `CreateEffect` and `ResolveEffect`
state once what the two writers do to the table (a new row is a row of its own;
`resolve` settles a pending row or marks it expired, and never touches an answered
one). The proofs of `ConnectorAsk`, `TelegramBot` and `Gateway` cite them wherever one of
their actions creates or resolves a prompt.

**`ConnectorAsk_proofs`**. `FailClosed` is not inductive: a client returns what it read earlier, while
everybody else goes on. The invariant `IInv` therefore carries what a read established
(`ReadStillTrue`: an answer that was read is still there), whose row it is
(`OwnRow`, `Allocated`: ids below `nextId`, each handed to one client), and how rows
come to be answered (`AnsweredInTime`, `ApprovalByKey`: an approval is answered by a
key, because a typed text only ever picks free-text prompts, `PickedFreeText`).
`AnswerIsFinal` follows from `TypeOK` and the fact that no action writes a row that is not pending.
For `AgentHearsOperator` what the operator meant is carried from his tap or text through the row to the
client. It needs `KeysTellLabels`: `ask` cuts labels to 40 characters and takes them
for keys, so two options of a menu may share a key (8), and are to share their label then.

**`Channels_proofs`**, the bot. A tap may be handled by two lives of the process, so that
`ApprovedOnce` rests on the table: only the handling whose `resolve` settled the prompt
goes on to the action (`ActOk`), a settled prompt is never settled again, and an effect's
prompt is settled (`EffectOk`), hence no prompt has two effects (`CarriedOnce`). What the
approval bound was never changed (`Evolves`). For `OneOutcome`, `Counted` says how many outcomes an update has had: at most one
per ended life, and one of this life only if the process is past it (`Ahead`), because an
outcome is followed by `Persist` and `Begin` takes only what is above `lastStored`.

**`Channels_proofs`**, the gateway. For the order: a row knows what was in the table when it
began, which is older (`Precedes`, `InOrder`). A poll claims the oldest rows
that wait, so what is older than a row it claims is claimed with it (`ClaimableOldest`), and
what precedes a claimed row is claimed; a batch is sent oldest first (`DeliversOrder`), so what
precedes a sent row is not in the batch any more. A row inserted now precedes none that is there (`InsertsOrder`),
and an end of the sidecar drops the batch (`DroppedOrder`). So order and at-most-once hold whatever
fails; that rows are lost is the price (8). For the messages, `MInv` adds to the two properties what makes them
inductive: chat rows are unique and whatever is past `BindsChat` is in its chat's row
(`ChatsBound`), and a prompt that was found stays in the table (`Found`). A step of
the backend that records an answer needs the prompt pending, so no other message can
have been told so of it (`ResolvesMessages`); every other step of a message leaves
the table alone (`MessageGoesOn`), every other writer leaves the messages alone
(`ElsewhereMessages`).

**`HostDelivery_proofs`**, the queue. `SentOnce` is a matter of places: an event is in `_incoming`,
in the hands of one sender, or in the file (with the batch that a drain reads from it), and never
in two of them (`OnePlace`). So what is still to go was sent once per crash at most (`OnceInv`), which is what a
crash costs: the file may still hold what the drain has sent. The senders that outlive their connection do no
harm to this; they take from the same queue. For `AloneKeepsAll` the places are ordered
(`InOrder`: sent, waiting, in hands, incoming), and every accepted event is in one. That holds as
long as the only living sender is the one of the connection and none drains beside it (`AloneInv`), and
it is why `NothingLost` (8) fails with a second one: its event comes into the file behind the back of the drain.

**`HostDelivery_proofs`**, the tail. A tail goes once through a stretch of the file of its own
(`Stretches`): from `since`, where it started, to `offset`, past which it handled nothing, and the stretch of
a later tail starts behind whatever an earlier one has looked at, a stale `size` of a poll in progress included. `TailKnows`
is what one poll has established between its awaits. `OnceInOrder` follows from the two. For
`NoEcho`, only the tail a drive found holds anything back (`Watching`); while a drive runs that is not `blind`,
nobody else has looked at its lines and that tail has posted none (`RunningApart`); once it
succeeded, every tail is past its answers or will never get to them (`AnswersApart`). A read
that a success overtakes does no harm, since it noted the epoch before and is thrown away. `HeldUserTurnsReplayed` is proved
from what the end of a drive posts: the user's turns that the tail holds back, with `Selected`, in their order.

What both pick from a sequence rests on lemmas about `Ascending` and `Selected`: a
finite set of positive numbers can be listed in ascending order (by well-founded induction on its
bound), so what is picked is all that is meant, in its order.

**`SessionTopics_proofs`**. `OneThreadPerSession` is the advisory
lock's argument. Between the search and the insert a request holds its session's lock
(`HoldsLock`); so what the search did not find is still not there
(`NothingToFind`); so the insert makes the first row. All other writers, of either
component, change metadata only or add rows that carry a ref, which the search
finds but start_session never makes (`Evolves`, proved for every delivery step by
`DeliveryEvolves`). `LinkInv` says where each frame is (`Placed`: with the receive loop, in its
connection's queue, in the drainer's hands, or at an end that says which) and that a line
taken up has its key recorded and for itself (`TakenOnce`); `ClosedIsDrained` and `LinePostedOnce` follow, the former
because the sentinel is behind everything in a queue that takes no more. `TopicInv`: every topic
id that a row, a copy of its metadata or a request holds is one of that row's topics. `UserInv`
counts: a topic is found gone only if it was deleted, and a second time only if two were, so a user turn that
is not shown has one of the excuses of `UserTurnShown` (`Excused`). `CalmInv` is for `OneTopicPerThread`: as long as nothing
failed, a row that was never in two hands has the same topic in the table, in the copy
of whoever holds it and in the forum (`OneTopic`); whoever holds it with somebody else is in `rushed`.

`PacedDriveIsOneMessage` is proved of the same rows. `TextInv` holds of all: a message, and every copy of a row's metadata,
shows frames of that row only, and frames that were posted. `TurnInv`: the frame at work on a row nobody
rushed is the last that came in for it. With them the drainer's work on a frame comes to three moves (`Hides`,
`Sends`, `Edits`: nothing is shown, a new message, the digest's message), and `DigestInv` goes through each:
the row names the message that is being edited and what it shows, every posted frame is in one message, and that is
the one being edited just if no frame posted later began another (`Story`). The copy agrees with the
row (`OneTopic`), so a new message begins with its frame alone, and an edit adds the frame to
the message that has the frames before it. That the messages are in one topic is `OneTopic` again.

**`Drives_proofs`**. The caller is the same for all engines (`CallerOk`); each engine has
an invariant of its own. `CodexInv`: a process for each prompt that was started, each of a later turn than
the one before, and nothing but the caller's own prompt in the engine's queue (`OneByOne`). An engine is
calm (`Calm`) while no turn of its processes was ended by another's report. Then a turn in flight is that of the
last process, every other process has said its session or never will (`Settled`), and the session
that the next turn resumes holds every turn that was answered (`CalmGoesOn`); the first report that crosses ends the calm, and
`ContinuesConversation` excepts what is started after it. That `ok` is told only of a prompt completed or misreported
is carried from the report through the caller's wait (`OkIsReported`). `InteractiveInv`: the newest process, its reader and the turn in flight belong
together (`OneServes`: it still owes the turn's result, and nothing of an earlier turn is left to read), and a prompt that
is still to be read was read by nobody before (`ReadOnce`). `ProcessInv`: a turn has one or two tries, of two one
fits the session and both act only in the exception of `WorkedOnce` (`TriesOk`), and a second is begun only
after a first that may have one (`RunnerOk`). Every step of an engine is shown to be
`Begin`, `Complete` or `End` of `TurnEngine` or to change nothing it sees
(`EnginesImplementTurnEngine`). Nothing is assumed of what a
Codex process reports, or how often.

**`Terminals_proofs`**. A step is looked at twice. For the group of the host it is one of a
few moves (`Moves`: somebody joins, leaves, starts or ends, reads a command, or a command is sent to all), and
these keep `LinkInv`: a process is online over the one connection of its that is joined, and commands on their way over a
connection are in order. For the books, `OwnInv`: the name of every living session that the daemon made is in its registry if
it is up and in its file if not (`Held`), but for those in `orphans`; the two are the same unless the last write of
the file failed (`unsaved`), and have only names that it gave to a session. A death moves what must be kept from the
registry to the file, and what the file lacks then is what the excuse is for.
`TypedInv`: who typed a command had made a session of that name, and only younger commands
are still on their way to it. So it does not type it again, and a second process that
does must have made a second session of that name.

What travels to the backend waits in the daemon's queue and then on a wire: the `Lanes`, each with an
owner. `NewsInv` says of every frame in a lane that what it says was so when it was built (`FrameOk`): it
names a session its owner made, and of an end, or of a name that a reconcile leaves out, that any living
session of the name is younger than the frame. As a lane's frames reach only rows of its owner's names,
`LiveRowEndsOnOldNews` follows; `TerminalsAssumption` is used here for what tells the rows apart: a claude run's row is
found by its uuid, every other by its tmux name, and no tmux session is named by a uuid. `LineInv` is about a terminal
whose name was used once (`Single`): its lines rise on the screen, in each frame, over the frames of the lanes
(`FramesFit`) and in the record (`RecordBelow`), and what the screen has yet to send is above them all (`ScreenAbove`).
That two lanes do not compete for it is `AnnouncedOnce`: the terminal is announced by one frame, and only the
connection that brought it there knows the terminal from then on, while the backend ignores output of
terminals a connection does not know.

**`Setup_proofs`**. For the
file, `FileInv` adds to the property that whoever is about to replace the file holds the lock
and has read what is still in it (`Exclusive`). For the tokens, `TokenInv` says that a row of
the table is only added or consumed, that a completion left its token consumed
(`Spending`), and that a page load which has revoked and not yet made its new token either
has its own token consumed or among those its update will consume (`Trading`): the update sees
the rows of its start, and its own token was one of them. `ConnectedIsConfigured` holds if it
holds of the file and row the behaviour starts with (`StartsConfigured`).

Only model-checked are the liveness properties, and with them the liveness half of `KeepsContract`: fairness is
beyond the prover.

## 8. Where the code and what is said of it differ

Shown by a run (the counterexample of TLC is the schedule):

1. `terminals_overlap`. `headless.prompt` goes to the group of the host, which every
   `orc run` joins beside the daemon, and `run_cmd.py:120-122` passes each command on;
   `owns_session` guards `pty.inject` only. Each process has locks of its own, so two
   drive one session at once. `wsclient.py:43-44` says that two prompts to the
   same session cannot overlap.
2. `gateway_reply`. `handle_inbound` looks for the pending prompt in the thread of the
   chat (`gateway/service.py:90-97`), but prompts belong to the thread of the agent's session.
   The number typed under a question is dispatched as a text instead.
   `prompts/render.py:4-6` and `:44` say that users respond with the number.
3. `setup_late`. `_stage_guard` reads the stage once, before the call to Telegram; a
   discovery still under way writes the chat and the allowlist after another tab has
   moved on. `setup/views.py:83-86` says that a request that arrives after that must not be able to; this
   one arrived before, and its write is what the guard was to prevent.

Shown by TLC while modelling (the property stands in the module and says so), without
a run in the list:

- `HandledStaysHandled` (`TelegramBot`). `cache.set` in `run_telegram_bot.py:144` gives no
  timeout, so the last update id lives Django's default 300 s. If the bot handles an update and
  then cannot poll for longer, the watchdog restarts it with the entry gone, and Telegram
  delivers the update again. Lines 28-29 say the seed keeps a restart from processing handled updates again.
- `NothingLost` (`HostSender`). A sender left over from an earlier connection appends a failed
  event while the next connection drains; the drain's rewrite or unlink
  (`wsclient.py:764-766`) drops it. Lines 781-783 say the queue is not lost on reconnect.
- `ResumesKnownSession` (`CodexEngine`). Once a reply has come the flag `started` is sent for a
  thread whose session id the backend made up, and `wsclient.py:445` resumes it; the comment
  above it (443-444) says that the flag means a discovered session.
- `VerdictIsOwn` (`CodexEngine`). `_finish` does not look which process reports
  (`codex_engine.py:136-139`, `157-168`). A second final event (an error, and then the
  turn's end) that is read after the next prompt was sent ends that prompt's turn: its caller
  is answered for a prompt that is still being worked on, and the prompt after it waits in the
  engine's queue. Two turns and one repeated report suffice. `wsclient.py:107-109` says that
  `_codex_turn` returns its turn's `is_error` and that turns are serialized. In run `drives` the
  case occurs, and `KeepsContract` and `ContinuesConversation` say what is left of the promise.

Found while reading and modelling:

Prompts, topics and the host link:

- `connectors/service.py:516` cuts option keys to 40 characters; labels with a common
  prefix of that length share a key, and `result` returns the later label whichever was
  tapped. `AgentHearsOperator` fails for such a menu; the runs' menus have distinct keys.
- A drive's digest is looked up in the metadata read when the step was received
  (`delivery.py:283`), so steps that come faster than they are posted make a message each.
  `consumers.py:329-332` says one edited message per turn. (`PacedDriveIsOneMessage` is
  the case without haste.)
- The reset that begins a new message travels with its frame: when the full queue drops the frame
  (`consumers.py:470-474`), the next step goes on in the message of the drive before. `Continues` of
  `SessionTopics` therefore looks at frames that were posted, and so it does for a user turn that
  `record_turn` knows already.
- `_mark_started` (`consumers.py:343-348`) sets `claude_session_started`, and the drainer's
  save of metadata fetched earlier can undo it; `_mark_started` can likewise undo a
  topic id saved meanwhile (`OneTopicPerThread` excludes rows that were `rushed`).
- A topic that was created is unknown until its id is saved (`connectors/service.py:186`): if the process
  ends between, it stays and the next attempt makes another.
- In a deleted topic the send of an assistant step fails and the failure is swallowed
  (`delivery.py:301-308`): replies are dropped until a user turn renews the topic.
- `consumers.py:459-461` says the daemon sends a dropped turn again; `record_turn`
  then knows its key and it goes no further.

Host agent, queue and tail:

- `queue.py:11-12` says a crash in mid-drain replays from the last event not
  acknowledged; `run_sender` does not use `drain()`, rewrites the file only at the
  end, and so replays all of it (`SentOnce` allows one more per crash).
- `queue.py:14-15` says a partial last record is skipped on the next read; the
  next append joins it first, and both are skipped (`Garbled`).
- `wsclient.py:772-773` says `gather` cancels the other coroutines when one raises, and line 829
  that they are awaited before the loop goes on. It does not cancel them.
- `drive_finished` moves the offset only of a tail that has found its file
  (`transcript_tail.py:151`). A first drive that ends before the next poll leaves
  offset 0, and the poll posts the drive's turns again (`blind` in `NoEcho`), against `README.md:84`.
- `transcript_tail.py:132-136` says user turns of a window are replayed; those on
  disk that no poll has read when a drive succeeds are skipped with the offset.
- After such a fast-forward `_remainder` keeps the half line it had, which then garbles
  the next line (`Parses` in the model; allowed for the same reason).

Host agent, drives:

- If `Popen` raises in the persistent engine's `send`, the engine stays in the table with a turn in
  flight and the next prompt waits behind it until its 600 s are over. `SpawnMayFail =
  TRUE` shows it; the run assumes claude can be started.
- A persistent engine that was told to resume a session that is not there (the hint was wrong) tells
  every later process the same (`_started_once`), and each exits: the session cannot be driven on.
- `send` writes to a pipe and is not under the 600 s timeout (`wsclient.py:85`); a child that
  does not read holds the session's lock.
- `run_turn` of the SDK reports a result that says `is_error` as a success, and after an exception
  repeats the turn even if its tools have run (the exception in `WorkedOnce`, `Reported` in `TE`).

Host agent, terminals:

- The capture after a session's end never works (tmux knows the session no more), so the output of
  its last second is lost, contrary to `pty_stream.py:34-36`.
- A consumer knows only the sessions that were started over its own connection (`_pty_threads`);
  output that comes over a connection made later is dropped.
- `pty_end` turns a row that `/stop` marked stopped into completed.
- A diff that starts anew after the screen shrank skips lines, a full history window stands
  still, and a last line captured half printed is never completed.
- `session.start` is carried out by every `orc run` of the host too. A name that is used again has
  two owners, which type a text twice, contrary to `wsclient.py:587` and `daemon.py:64`; hence the condition in
  `TypedOnce`.
- A write of `owned-sessions.json` that fails is logged and not repeated (`pty_session.py:85-87`): if the daemon ends
  before another write, its sessions cannot be typed into any more (the excuse in `DaemonKeepsItsSessions`).
- A kill is not guarded by ownership, an injection is sent whatever the row's status, and the
  kill of `/stop` is lost when the host is not connected.

Gateway:

- `created_at` is stamped before the row is inserted: of two rows put at one time the newer may be sent first,
  although `claim_outbox` orders by it (`SentOnceInOrder` speaks of rows put one after the other).
- `claim_outbox` marks rows delivered before they are sent (`gateway/service.py:155`): a failed send, an
  account that is logged out or the end of the sidecar loses what it had claimed.
- The loser of the race for a chat's first message raises, its message is dropped and
  its thread is left without a chat (`gateway/service.py:41`).
- The newest pending prompt of the thread takes the reply, which may not be the one shown last; a row
  that has expired and was not touched counts as pending and swallows it.
- Sequence numbers of messages are `max + 1` without a lock, so that two dispatches can give
  the same number.
- The slash commands `/model` and `/account` save metadata read earlier as a whole.
- The Signal page says "linked" before its WebSocket is connected; the WhatsApp page keeps a stale QR.

Setup:

- A stale `AdvanceView` saves `completed_at` back to null after `CompleteView` set it, although
  `models.py` says that done is terminal over the network (`TokenSpentOnce` holds even so).
- Two `issue` at once leave two live tokens, contrary to `setup_token.py:4-5`; two loads of the page
  can leave a cookie whose token is dead.
- A new bot token does not disconnect a chat found with the old bot.
- `clear_telegram_challenge` may clear a code newer than the one that was found.
- A worker killed while it writes leaves its temporary file.

## 9. Abstractions

- An event counts as sent when `ws.send` took it: what a dying socket had buffered is
  not modelled. A graceful stop of the daemon is a `Crash`. `Terminals` takes the daemon's
  outbound queue to keep order and lose nothing while the daemon lives; `HostSender` is about that queue.
- A killed editor or claude leaves no torn line in its transcript; a session has one
  transcript file; a drive has written its lines when it ends.
- claude answers each prompt with one result line. A pipe takes a line or breaks. A
  reader thread is not stopped for 600 s between its callback and the lock.
- The output of a process of its own is read by one thread to its end, so what is read is decided
  when it is written. A process that Codex's engine lost sight of works on, as in the code.
- A text for a terminal is the set of the checks of `input_policy.py` that it trips. Delays of
  `send_keys` are left out. tmux refuses a name in use. A screen loses lines at its top and may be
  cleared line by line; one that grows back what it had before it shrank (a window made wide again, the end of an alternate
  screen) is not modelled, and `LinesOnceInOrder` says nothing of it.
- The select of running rows and their updates in `_handle_pty_reconcile` (`consumers.py:237-252`) are one step.
  Between them `/stop` or another connection may write such a row. That makes no new outcome: a session announced then under a
  name the frame leaves out is younger than the frame (`LiveRowEndsOnOldNews` allows for it), and
  `completed` after `stopped` happens by `pty_end` too (8).
- Updates come from the allowlisted operator; all others are of kind `other`, which
  is what the allowlist makes of them. Taps are on buttons that were shown.
- A Telegram call and the save of its outcome are one step of a drainer: nobody else
  writes those rows' copies, and the copy, not the row, is what the next step uses.
- One host is enrolled, the platform is Telegram with a forum configured, the delivery
  mode is "progress", no thread has a terminal status, and a daemon sends
  frames on its newest connection only. An introduction never meets a deleted topic.
- `Gateway` has one platform, WhatsApp, whose connection has the states of its adapter;
  no two rows have the same `created_at`. A prompt's row and the stamp of its message are one step.
- `Setup` runs on PostgreSQL under READ COMMITTED: a locked row is read as it is then. The env file is
  its three Telegram settings. The checks of host and origin come before the gate and are left out.
- Texts, labels, options and session ids are members of small sets; the body of a
  message is the sequence of frames it shows; splitting and truncating are left out.
- Clocks are ticks; a tick may pass at any await.

## 10. Not modelled

Enrolment and signing (pure functions and one check per request), the MCP server's
own tools (they call the client that is modelled), threads and dispatch beyond the
outcome of `dispatch_text`, approvals and policies, supervisor, slash commands and
dashboard (reads and wording), CRUD apps and settings. Planned and not yet written:
section 2. Within modelled parts: `/stop` of the bot other than in `Terminals`, `/sessions`,
`/pair` and the QR codes of the bot; the tail resync and the handshake of the host link (PTY frames and
`pty_reconcile` are in `Terminals`); the modes "all" and "milestones_only";
`register_or_touch`, `notify` and the branch of `start_session` without a host; the adapters of the gateway's other
platforms and its setup page; `run_headless`, which nothing calls.
